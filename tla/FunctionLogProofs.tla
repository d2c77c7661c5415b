-------------------------- MODULE FunctionLogProofs --------------------------
(***************************************************************************)
(* FunctionLog is type-correct, never takes the top of an empty shadow     *)
(* stack, and keeps its placeholder out of traceInfo.json, for every guest *)
(* program, any number of execution states and any searcher; the blocks of *)
(* a disciplined guest are recorded under the right functions.             *)
(***************************************************************************)
EXTENDS FunctionLog, SequenceTheorems, TLAPS

\* A prefix of a sequence.
LEMMA Prefix ==
  ASSUME NEW S, NEW s \in Seq(S), NEW n \in 0..Len(s)
  PROVE  /\ SubSeq(s, 1, n) \in Seq(S)
         /\ Len(SubSeq(s, 1, n)) = n
         /\ \A i \in 1..n : SubSeq(s, 1, n)[i] = s[i]
  OBVIOUS

\* The top and the rest of a nonempty std::stack.
LEMMA TopPop ==
  ASSUME NEW S, NEW stack \in Seq(S), stack # <<>>
  PROVE  /\ Len(stack) \in Nat \ {0}
         /\ Top(stack) \in S
         /\ Pop(stack) \in Seq(S)
         /\ Len(Pop(stack)) = Len(stack) - 1
         /\ \A i \in 1..Len(stack) - 1 : Pop(stack)[i] = stack[i]
<1>1. Len(stack) \in Nat \ {0}
  BY EmptySeq
<1>2. Top(stack) \in S
  BY <1>1, ElementOfSeq DEF Top
<1>3. Len(stack) - 1 \in 0..Len(stack)
  BY <1>1
<1> QED BY <1>1, <1>2, <1>3, Prefix DEF Pop

\* Copying a TraceInfo and restoring it from a copy both give back what was
\* there: clearing every container before add() makes add's maximum, its
\* "entries only if empty" rule and its appends harmless.
LEMMA CopyIsFaithful ==
  ASSUME NEW ti \in TraceInfoRecord
  PROVE  GetCopy(ti) = ti /\ RestoreFromCopy(ti) = ti
<1>1. /\ ti.memoryAccesses \in Seq(Access)
      /\ ti.entries \in Seq(Pc \cup {NoPc})
      /\ ti.stackFrameSizes \in SizeMap
      /\ ti.stackDifference \in SizeMap
  BY DEF TraceInfoRecord
<1>2. /\ <<>> \o ti.memoryAccesses = ti.memoryAccesses
      /\ <<>> \o ti.entries = ti.entries
  BY <1>1, ConcatEmptySeq
<1>3. GetCopy(ti) = ti
  BY <1>2, SMT DEF GetCopy, EmptyTrace, TraceInfoRecord
<1>4. /\ AddFrameSizes(NoSizes, ti.stackFrameSizes) = ti.stackFrameSizes
      /\ AddDifferences(NoSizes, ti.stackDifference) = ti.stackDifference
  BY <1>1 DEF AddFrameSizes, AddDifferences, NoSizes, SizeMap
<1>5. AddEntries(<<>>, ti.entries) = ti.entries
  BY DEF AddEntries
<1>6. RestoreFromCopy(ti) = ti
  BY <1>2, <1>4, <1>5, SMT DEF RestoreFromCopy, Add, EmptyTrace, TraceInfoRecord
<1> QED BY <1>3, <1>6

-----------------------------------------------------------------------------
(* The handlers keep the tracing variables well-typed and the placeholder  *)
(* at the end of the entry points.                                         *)

\* slotModuleExecute replaces at most the last entry point.
LEMMA EntriesExecute ==
  ASSUME NEW ti \in TraceInfoRecord, PlaceholderLast(ti), NEW pc \in Pc
  PROVE  /\ EntriesAfterExecute(ti, pc) \in Seq(Pc \cup {NoPc})
         /\ EntriesAfterExecute(ti, pc) # <<>>
         /\ \A i \in 1..Len(EntriesAfterExecute(ti, pc)) - 1 :
              EntriesAfterExecute(ti, pc)[i] # NoPc
<1>1. ti.entries \in Seq(Pc \cup {NoPc}) /\ ti.entries # <<>>
  BY DEF TraceInfoRecord, PlaceholderLast
<1>2. Len(ti.entries) \in Nat \ {0}
  BY <1>1, EmptySeq
<1>3. CASE AwaitsEntry(ti)
  <2> DEFINE new == [ti.entries EXCEPT ![Len(ti.entries)] = pc]
  <2>1. new \in Seq(Pc \cup {NoPc}) /\ Len(new) = Len(ti.entries)
    BY <1>1, <1>2, SMT
  <2>2. \A i \in 1..Len(ti.entries) - 1 : new[i] = ti.entries[i]
    BY <1>1, <1>2, SMT
  <2>3. new # <<>>
    BY <1>2, <2>1, SMT
  <2> QED BY <1>3, <2>1, <2>2, <2>3 DEF EntriesAfterExecute, PlaceholderLast
<1>4. CASE ~AwaitsEntry(ti)
  BY <1>1, <1>4 DEF EntriesAfterExecute, PlaceholderLast
<1> QED BY <1>3, <1>4

\* slotModuleExecute keeps the types of the tracing variables.
LEMMA OnExecuteType ==
  ASSUME NEW l \in Logger, PlaceholderLast(l.ti), NEW pc \in Pc
  PROVE  /\ OnExecute(l, pc) \in Logger
         /\ PlaceholderLast(OnExecute(l, pc).ti)
         /\ OnExecute(l, pc).callStack = StackAfterExecute(l, pc)
<1>1. /\ l.ti \in TraceInfoRecord
      /\ l.callStack \in Seq(Pc)
      /\ l.callerPc \in Pc \cup {NoPc}
  BY DEF Logger
<1> DEFINE stack == StackAfterExecute(l, pc)
           tbs == IF stack # <<>>
                  THEN l.ti.entryToTbs \cup {<<Top(stack), pc>>} ELSE l.ti.entryToTbs
           follow == IF stack # <<>> /\ l.callerPc # NoPc
                     THEN l.ti.callerToFollowUp \cup {<<l.callerPc, pc>>}
                     ELSE l.ti.callerToFollowUp
           newTi == [l.ti EXCEPT !.entries = EntriesAfterExecute(l.ti, pc),
                                 !.entryToTbs = tbs, !.callerToFollowUp = follow]
           caller == IF stack # <<>> THEN NoPc ELSE l.callerPc
<1>2. stack \in Seq(Pc)
  BY <1>1 DEF StackAfterExecute
<1>3. tbs \in SUBSET (Pc \X Pc)
  BY <1>1, <1>2, TopPop DEF TraceInfoRecord
<1>4. follow \in SUBSET (Pc \X Pc)
  BY <1>1 DEF TraceInfoRecord
<1>5. EntriesAfterExecute(l.ti, pc) \in Seq(Pc \cup {NoPc})
  BY <1>1, EntriesExecute
<1>6. caller \in Pc \cup {NoPc}
  BY <1>1
<1>7. OnExecute(l, pc) =
        [ti |-> newTi, callStack |-> stack, executedBBPc |-> pc, callerPc |-> caller]
  BY Zenon DEF OnExecute
<1>8. newTi \in TraceInfoRecord /\ newTi.entries = EntriesAfterExecute(l.ti, pc)
  <2> HIDE DEF tbs, follow, stack
  <2> QED BY <1>1, <1>3, <1>4, <1>5 DEF TraceInfoRecord
<1> HIDE DEF newTi, stack, caller
<1>9. OnExecute(l, pc) \in Logger
  BY <1>2, <1>6, <1>7, <1>8 DEF Logger
<1>10. OnExecute(l, pc).ti = newTi /\ OnExecute(l, pc).callStack = stack
  BY <1>7
<1>11. PlaceholderLast(newTi)
  BY <1>1, <1>8, EntriesExecute DEF PlaceholderLast
<1> QED BY <1>9, <1>10, <1>11 DEF stack

\* onFunctionCall keeps the types of the tracing variables.
LEMMA OnCallType ==
  ASSUME NEW l \in Logger, NEW callee \in Pc
  PROVE  /\ OnCall(l, callee) \in Logger
         /\ OnCall(l, callee).ti = l.ti
         /\ OnCall(l, callee).callStack = Append(l.callStack, callee)
<1>1. Append(l.callStack, callee) \in Seq(Pc)
  BY AppendProperties DEF Logger
<1> QED BY <1>1 DEF OnCall, Logger

\* The four ways a return leaves the shadow stack.
LEMMA StackReturn ==
  ASSUME NEW stack \in Seq(Pc), stack # <<>>, NEW begin \in Pc
  PROVE  \/ /\ Top(stack) = begin
            /\ StackAfterReturn(stack, begin) = Pop(stack)
         \/ StackAfterReturn(stack, begin) = stack
         \/ /\ Extra(stack, begin)
            /\ StackAfterReturn(stack, begin) = Pop(Pop(stack))
<1>1. Len(stack) \in Nat \ {0}
  BY TopPop
<1>2. CASE Top(stack) = begin
  BY <1>2 DEF StackAfterReturn, Extra, Dropped
<1>3. CASE Top(stack) # begin /\ Len(stack) = 1
  BY <1>3 DEF StackAfterReturn, Extra, Dropped
<1>4. CASE Extra(stack, begin)
  BY <1>4 DEF StackAfterReturn, Extra, Dropped
<1>5. CASE Dropped(stack, begin)
  BY <1>5 DEF StackAfterReturn, Extra, Dropped
<1>6. \A n \in Nat \ {0} : n = 1 \/ n > 1
  OBVIOUS
<1>7. Len(stack) = 1 \/ Len(stack) > 1
  BY <1>1, <1>6, Zenon
<1> QED BY <1>2, <1>3, <1>4, <1>5, <1>7 DEF Extra, Dropped

\* Whichever branch onFunctionReturn takes, the shadow stack stays a sequence of
\* addresses.
LEMMA StackReturnType ==
  ASSUME NEW stack \in Seq(Pc), stack # <<>>, NEW begin \in Pc
  PROVE  StackAfterReturn(stack, begin) \in Seq(Pc)
<1>1. Len(stack) \in Nat \ {0} /\ Pop(stack) \in Seq(Pc) /\ Len(Pop(stack)) = Len(stack) - 1
  BY TopPop
<1>2. CASE Extra(stack, begin)
  <2>1. Pop(stack) # <<>>
    BY <1>1, <1>2, EmptySeq DEF Extra
  <2>2. Pop(Pop(stack)) \in Seq(Pc)
    BY <1>1, <2>1, TopPop
  <2> QED BY <1>1, <2>2, StackReturn
<1>3. CASE ~Extra(stack, begin)
  BY <1>1, <1>3, StackReturn
<1> QED BY <1>2, <1>3

\* onFunctionReturn appends a placeholder only behind a real entry point.
LEMMA EntriesReturn ==
  ASSUME NEW ti \in TraceInfoRecord, PlaceholderLast(ti), NEW begin \in Pc
  PROVE  /\ EntriesAfterReturn(ti, begin) \in Seq(Pc \cup {NoPc})
         /\ EntriesAfterReturn(ti, begin) # <<>>
         /\ \A i \in 1..Len(EntriesAfterReturn(ti, begin)) - 1 :
              EntriesAfterReturn(ti, begin)[i] # NoPc
<1>1. ti.entries \in Seq(Pc \cup {NoPc}) /\ ti.entries # <<>>
  BY DEF TraceInfoRecord, PlaceholderLast
<1>2. Len(ti.entries) \in Nat \ {0}
  BY <1>1, EmptySeq
<1>3. CASE begin = Top(ti.entries)
  <2> DEFINE new == Append(ti.entries, NoPc)
  <2>1. /\ new \in Seq(Pc \cup {NoPc})
        /\ new # <<>>
        /\ Len(new) = Len(ti.entries) + 1
        /\ \A i \in 1..Len(ti.entries) : new[i] = ti.entries[i]
    BY <1>1, AppendProperties
  <2>2. begin # NoPc
    BY PcAssumption DEF NoPc
  <2>3. \A i \in 1..Len(ti.entries) : ti.entries[i] # NoPc
    BY <1>2, <1>3, <2>2 DEF PlaceholderLast, Top
  <2> HIDE DEF new
  <2>4. \A i \in 1..Len(new) - 1 : new[i] # NoPc
    BY <1>2, <2>1, <2>3
  <2> QED BY <1>3, <2>1, <2>4 DEF EntriesAfterReturn, new
<1>4. CASE begin # Top(ti.entries)
  BY <1>1, <1>4 DEF EntriesAfterReturn, PlaceholderLast
<1> QED BY <1>3, <1>4

\* onFunctionReturn keeps the types of the tracing variables.
LEMMA OnReturnType ==
  ASSUME NEW l \in Logger, PlaceholderLast(l.ti), l.callStack # <<>>,
         NEW caller \in Pc, NEW begin \in Pc
  PROVE  /\ OnReturn(l, caller, begin) \in Logger
         /\ PlaceholderLast(OnReturn(l, caller, begin).ti)
         /\ OnReturn(l, caller, begin).callStack = StackAfterReturn(l.callStack, begin)
<1>1. /\ l.ti \in TraceInfoRecord
      /\ l.callStack \in Seq(Pc)
      /\ l.executedBBPc \in Pc \cup {NoPc}
  BY DEF Logger
<1>2. CASE Dropped(l.callStack, begin)
  <2>1. StackAfterReturn(l.callStack, begin) = l.callStack
    BY <1>2 DEF StackAfterReturn, Dropped, Extra
  <2> QED BY <1>2, <2>1 DEF OnReturn
<1>3. CASE ~Dropped(l.callStack, begin)
  <2> DEFINE callers == l.ti.entryToCaller \cup {<<begin, caller>>}
             returns == l.ti.entryToReturn \cup {<<begin, l.executedBBPc>>}
             newTi == [ l.ti EXCEPT !.entries = EntriesAfterReturn(l.ti, begin),
                                    !.entryToCaller = callers,
                                    !.entryToReturn = returns ]
             stack == StackAfterReturn(l.callStack, begin)
  <2>1. OnReturn(l, caller, begin) =
          [ti |-> newTi, callStack |-> stack, executedBBPc |-> l.executedBBPc,
           callerPc |-> caller]
    BY <1>3 DEF OnReturn
  <2>2. EntriesAfterReturn(l.ti, begin) \in Seq(Pc \cup {NoPc})
    BY <1>1, EntriesReturn
  <2>3. newTi \in TraceInfoRecord /\ newTi.entries = EntriesAfterReturn(l.ti, begin)
    <3>1. callers \in SUBSET (Pc \X Pc) /\ returns \in SUBSET (Pc \X (Pc \cup {NoPc}))
      BY <1>1 DEF TraceInfoRecord
    <3> HIDE DEF callers, returns
    <3> QED BY <1>1, <2>2, <3>1 DEF TraceInfoRecord
  <2>4. stack \in Seq(Pc)
    BY <1>1, StackReturnType
  <2>5. PlaceholderLast(newTi)
    BY <1>1, <2>3, EntriesReturn DEF PlaceholderLast
  <2> HIDE DEF newTi, stack
  <2>6. OnReturn(l, caller, begin) \in Logger
    BY <1>1, <2>1, <2>3, <2>4 DEF Logger
  <2>7. OnReturn(l, caller, begin).ti = newTi /\ OnReturn(l, caller, begin).callStack = stack
    BY <2>1
  <2> QED BY <2>5, <2>6, <2>7 DEF stack
<1> QED BY <1>2, <1>3

\* ~FunctionLog leaves no placeholder.
LEMMA FinalTraceType ==
  ASSUME NEW ti \in TraceInfoRecord, PlaceholderLast(ti)
  PROVE  /\ FinalTrace(ti) \in TraceInfoRecord
         /\ \A i \in 1..Len(FinalTrace(ti).entries) : FinalTrace(ti).entries[i] # NoPc
<1>1. ti.entries \in Seq(Pc \cup {NoPc}) /\ ti.entries # <<>>
  BY DEF TraceInfoRecord, PlaceholderLast
<1>2. /\ Len(ti.entries) \in Nat \ {0}
      /\ Pop(ti.entries) \in Seq(Pc \cup {NoPc})
      /\ Len(Pop(ti.entries)) = Len(ti.entries) - 1
      /\ \A i \in 1..Len(ti.entries) - 1 : Pop(ti.entries)[i] = ti.entries[i]
  BY <1>1, TopPop
<1>3. CASE AwaitsEntry(ti)
  <2>1. FinalTrace(ti) = [ti EXCEPT !.entries = Pop(ti.entries)]
    BY <1>3 DEF FinalTrace
  <2>2. FinalTrace(ti) \in TraceInfoRecord /\ FinalTrace(ti).entries = Pop(ti.entries)
    BY <1>2, <2>1 DEF TraceInfoRecord
  <2> QED BY <1>2, <2>2 DEF PlaceholderLast
<1>4. CASE ~AwaitsEntry(ti)
  BY <1>2, <1>4 DEF FinalTrace, AwaitsEntry, Top, PlaceholderLast
<1> QED BY <1>3, <1>4

-----------------------------------------------------------------------------
(* Pending calls and the shadow stack.                                     *)

\* A longer shadow stack still holds the pending calls.
LEMMA EmbedsPush ==
  ASSUME NEW calls \in Seq(Frame), NEW stack \in Seq(Pc), NEW pc \in Pc,
         Embeds(calls, stack)
  PROVE  Embeds(calls, Append(stack, pc))
<1> DEFINE n == Len(calls)
           m == Len(stack)
<1>1. PICK at \in [1..n -> 1..m] :
        /\ \A i, j \in 1..n : i < j => at[i] < at[j]
        /\ \A i \in 1..n : stack[at[i]] = calls[i].callee
  BY DEF Embeds
<1>2. /\ Len(Append(stack, pc)) = m + 1
      /\ \A i \in 1..m : Append(stack, pc)[i] = stack[i]
      /\ m \in Nat
  BY AppendProperties, LenProperties
<1>3. at \in [1..n -> 1..m + 1]
  BY <1>2
<1>4. \A i \in 1..n : Append(stack, pc)[at[i]] = calls[i].callee
  BY <1>1, <1>2
<1> QED BY <1>1, <1>2, <1>3, <1>4 DEF Embeds

\* onFunctionCall pushes the frame of the new pending call.
LEMMA EmbedsCall ==
  ASSUME NEW calls \in Seq(Frame), NEW stack \in Seq(Pc), NEW frame \in Frame,
         Embeds(calls, stack)
  PROVE  Embeds(Append(calls, frame), Append(stack, frame.callee))
<1> DEFINE n == Len(calls)
           m == Len(stack)
           newCalls == Append(calls, frame)
           newStack == Append(stack, frame.callee)
<1>1. PICK at \in [1..n -> 1..m] :
        /\ \A i, j \in 1..n : i < j => at[i] < at[j]
        /\ \A i \in 1..n : stack[at[i]] = calls[i].callee
  BY DEF Embeds
<1>2. n \in Nat /\ m \in Nat /\ frame.callee \in Pc
  BY LenProperties DEF Frame
<1>3. /\ Len(newCalls) = n + 1
      /\ \A i \in 1..n : newCalls[i] = calls[i]
      /\ newCalls[n + 1] = frame
  BY AppendProperties
<1>4. /\ Len(newStack) = m + 1
      /\ \A i \in 1..m : newStack[i] = stack[i]
      /\ newStack[m + 1] = frame.callee
  BY <1>2, AppendProperties
<1> DEFINE new == [i \in 1..n + 1 |-> IF i = n + 1 THEN m + 1 ELSE at[i]]
<1> HIDE DEF newCalls, newStack, n, m
<1>5. new \in [1..n + 1 -> 1..m + 1]
  BY <1>2
<1>6. \A i, j \in 1..n + 1 : i < j => new[i] < new[j]
  <2> SUFFICES ASSUME NEW i \in 1..n + 1, NEW j \in 1..n + 1, i < j
               PROVE  new[i] < new[j]
    OBVIOUS
  <2>1. i \in 1..n /\ new[i] = at[i] /\ at[i] \in 1..m
    BY <1>2
  <2>2. CASE j = n + 1
    BY <1>2, <2>1, <2>2
  <2>3. CASE j # n + 1
    <3>1. j \in 1..n /\ new[j] = at[j]
      BY <1>2, <2>3
    <3> QED BY <1>1, <2>1, <3>1
  <2> QED BY <2>2, <2>3
<1>7. ASSUME NEW i \in 1..n + 1
      PROVE  newStack[new[i]] = newCalls[i].callee
  <2>1. CASE i = n + 1
    BY <1>2, <1>3, <1>4, <2>1
  <2>2. CASE i # n + 1
    <3>1. i \in 1..n /\ new[i] = at[i] /\ at[i] \in 1..m
      BY <1>2, <2>2
    <3> QED BY <1>1, <1>3, <1>4, <3>1
  <2> QED BY <2>1, <2>2
<1> HIDE DEF new
<1> QED BY <1>3, <1>4, <1>5, <1>6, <1>7 DEF Embeds, newCalls, newStack, n, m

\* Only the callees of the pending calls matter, and only the first ones of
\* them when the others are abandoned.
LEMMA EmbedsPrefix ==
  ASSUME NEW calls \in Seq(Frame), NEW stack \in Seq(Pc), NEW less \in Seq(Frame),
         Len(less) <= Len(calls),
         \A i \in 1..Len(less) : less[i].callee = calls[i].callee,
         Embeds(calls, stack)
  PROVE  Embeds(less, stack)
<1> DEFINE n == Len(calls)
           k == Len(less)
           m == Len(stack)
<1>1. PICK at \in [1..n -> 1..m] :
        /\ \A i, j \in 1..n : i < j => at[i] < at[j]
        /\ \A i \in 1..n : stack[at[i]] = calls[i].callee
  BY DEF Embeds
<1>2. n \in Nat /\ k \in Nat /\ m \in Nat /\ k <= n
  BY LenProperties
<1> DEFINE new == [i \in 1..k |-> at[i]]
<1> HIDE DEF n, k, m
<1>3. new \in [1..k -> 1..m]
  BY <1>2
<1>4. \A i, j \in 1..k : i < j => new[i] < new[j]
  BY <1>1, <1>2
<1>5. \A i \in 1..k : stack[new[i]] = less[i].callee
  BY <1>1, <1>2 DEF k
<1> HIDE DEF new
<1> QED BY <1>3, <1>4, <1>5 DEF Embeds, k, m

\* A pending call has a frame on the shadow stack.
LEMMA EmbedsNonempty ==
  ASSUME NEW calls \in Seq(Frame), NEW stack \in Seq(Pc),
         Embeds(calls, stack), calls # <<>>
  PROVE  stack # <<>>
<1>1. Len(calls) \in Nat \ {0} /\ Len(stack) \in Nat
  BY EmptySeq, LenProperties
<1>2. PICK at \in [1..Len(calls) -> 1..Len(stack)] : TRUE
  BY DEF Embeds
<1>3. at[1] \in 1..Len(stack)
  BY <1>1, <1>2
<1>4. Len(stack) # 0
  BY <1>1, <1>3
<1> QED BY <1>4

\* onFunctionReturn pops the frame of the innermost call and, of the frames
\* below, none that another pending call owns: when it pops two, the returning
\* function's frame was not the top one.
LEMMA EmbedsReturn ==
  ASSUME NEW calls \in Seq(Frame), NEW stack \in Seq(Pc),
         Embeds(calls, stack), calls # <<>>
  PROVE  Embeds(SubSeq(calls, 1, Len(calls) - 1),
                StackAfterReturn(stack, calls[Len(calls)].callee))
<1> DEFINE n == Len(calls)
           m == Len(stack)
           begin == calls[n].callee
           less == SubSeq(calls, 1, n - 1)
           rest == StackAfterReturn(stack, begin)
<1>1. n \in Nat \ {0} /\ m \in Nat
  BY EmptySeq, LenProperties
<1>2. stack # <<>>
  BY EmbedsNonempty
<1>3. begin \in Pc
  <2>1. calls[n] \in Frame
    BY <1>1, ElementOfSeq
  <2> QED BY <2>1 DEF Frame
<1>4. /\ less \in Seq(Frame)
      /\ Len(less) = n - 1
      /\ \A i \in 1..n - 1 : less[i] = calls[i]
  <2>1. n - 1 \in 0..Len(calls)
    BY <1>1
  <2> QED BY <2>1, Prefix
<1>5. /\ Pop(stack) \in Seq(Pc)
      /\ Len(Pop(stack)) = m - 1
      /\ \A i \in 1..m - 1 : Pop(stack)[i] = stack[i]
  BY <1>2, TopPop
<1>6. PICK at \in [1..n -> 1..m] :
        /\ \A i, j \in 1..n : i < j => at[i] < at[j]
        /\ \A i \in 1..n : stack[at[i]] = calls[i].callee
  BY DEF Embeds
<1>7. at[n] \in 1..m /\ stack[at[n]] = begin
  BY <1>1, <1>6
<1>8. \A i \in 1..n - 1 : at[i] \in 1..m /\ at[i] < at[n] /\ stack[at[i]] = less[i].callee
  BY <1>1, <1>4, <1>6
<1>9. \A i, j \in 1..n - 1 : i < j => at[i] < at[j]
  BY <1>1, <1>6
<1>10. \A i \in 1..n - 1 : at[i] \in 1..Len(rest) /\ rest[at[i]] = stack[at[i]]
  <2> HIDE DEF less, rest, begin, n, m
  <2>1. CASE Top(stack) = begin /\ rest = Pop(stack)
    <3>1. \A i \in 1..n - 1 : at[i] \in 1..m - 1
      BY <1>1, <1>7, <1>8
    <3> QED BY <1>5, <2>1, <3>1
  <2>2. CASE rest = stack
    BY <1>8, <2>2 DEF m
  <2>3. CASE Extra(stack, begin) /\ rest = Pop(Pop(stack))
    <3>1. m > 1 /\ stack[m] # begin
      BY <2>3 DEF Extra, Top, m
    <3>2. at[n] # m
      BY <1>7, <3>1
    <3>3. \A i \in 1..n - 1 : at[i] \in 1..m - 2
      BY <1>1, <1>7, <1>8, <3>2
    <3>4. Pop(stack) # <<>>
      BY <1>1, <1>5, <3>1, EmptySeq
    <3>5. /\ Len(Pop(Pop(stack))) = m - 2
          /\ \A i \in 1..m - 2 : Pop(Pop(stack))[i] = stack[i]
      <4>1. /\ Len(Pop(Pop(stack))) = Len(Pop(stack)) - 1
            /\ \A i \in 1..Len(Pop(stack)) - 1 : Pop(Pop(stack))[i] = Pop(stack)[i]
        BY <1>5, <3>4, TopPop
      <4> QED BY <1>1, <1>5, <4>1
    <3> QED BY <2>3, <3>3, <3>5
  <2>4. \/ Top(stack) = begin /\ rest = Pop(stack)
        \/ rest = stack
        \/ Extra(stack, begin) /\ rest = Pop(Pop(stack))
    BY <1>2, <1>3, StackReturn DEF rest
  <2> QED BY <2>1, <2>2, <2>3, <2>4
<1> DEFINE new == [i \in 1..n - 1 |-> at[i]]
<1> HIDE DEF less, rest, begin, n, m
<1>11. new \in [1..n - 1 -> 1..Len(rest)]
  BY <1>10
<1>12. \A i, j \in 1..n - 1 : i < j => new[i] < new[j]
  BY <1>9
<1>13. \A i \in 1..n - 1 : rest[new[i]] = less[i].callee
  BY <1>8, <1>10
<1> HIDE DEF new
<1>14. Embeds(less, rest)
  BY <1>4, <1>11, <1>12, <1>13 DEF Embeds
<1> QED BY <1>14 DEF less, rest, begin, n

-----------------------------------------------------------------------------
(* The inductive invariant.  A return is only safe if its frame is still   *)
(* on the shadow stack of the state that runs, which a state switch takes  *)
(* from a copy made at a fork: the claim has to be made of every copy that *)
(* can still be restored, and in the form that survives the double pop.    *)
IInv ==
  /\ TypeOK
  /\ status[cur] # "new"
  /\ \A s \in DOMAIN saved : status[s] # "new"
  /\ phase # "done" =>
       /\ PlaceholderLast(log.ti)
       /\ \A s \in DOMAIN saved : PlaceholderLast(saved[s].ti)
  /\ phase = "running" =>
       /\ Embeds(frames[cur], log.callStack)
       /\ \A s \in DOMAIN saved \ {cur} : Embeds(frames[s], saved[s].callStack)
  /\ FinalEntriesReal

\* FunctionLog::initialize leaves variables of the right types.
LEMMA InitialLoggerType ==
  ASSUME NEW garbage \in Pc \cup {NoPc}
  PROVE  InitialLogger(garbage) \in Logger /\ PlaceholderLast(InitialLogger(garbage).ti)
<1>1. <<NoPc>> \in Seq(Pc \cup {NoPc}) /\ <<NoPc>> # <<>> /\ Len(<<NoPc>>) = 1
  OBVIOUS
<1>2. NoSizes \in SizeMap
  BY DEF NoSizes, SizeMap
<1>3. InitialTrace \in TraceInfoRecord /\ InitialTrace.entries = <<NoPc>>
  <2>1. <<>> \in Seq(Access) /\ <<>> \in Seq(Pc \cup {NoPc})
    OBVIOUS
  <2>2. EmptyTrace \in TraceInfoRecord
    BY <1>2, <2>1 DEF EmptyTrace, TraceInfoRecord
  <2> QED BY <1>1, <2>2 DEF InitialTrace, TraceInfoRecord
<1>4. PlaceholderLast(InitialTrace)
  BY <1>1, <1>3 DEF PlaceholderLast
<1>5. <<>> \in Seq(Pc)
  OBVIOUS
<1> QED BY <1>3, <1>4, <1>5 DEF InitialLogger, Logger

\* The inductive invariant holds when the plugin has been initialised.
LEMMA InitIInv == Init => IInv
<1> SUFFICES ASSUME Init PROVE IInv
  OBVIOUS
<1>1. PICK garbage \in Pc \cup {NoPc} : log = InitialLogger(garbage)
  BY DEF Init
<1>2. log \in Logger /\ PlaceholderLast(log.ti) /\ log.callStack = <<>>
  BY <1>1, InitialLoggerType DEF InitialLogger
<1>3. /\ cur \in States
      /\ status \in [States -> {"new", "live", "dead"}]
      /\ status[cur] # "new"
  BY StatesAssumption DEF Init, GuestInit, ExecInit
<1>4. /\ frames \in [States -> Seq(Frame)] /\ frames[cur] = <<>>
      /\ block \in [States -> Module \cup {NoPc}]
  BY <1>3 DEF Init, GuestInit
<1>5. DOMAIN saved = {} /\ DOMAIN files = {} /\ phase = "running"
  BY DEF Init
<1>6. /\ IsPartialMap(saved, States, Logger)
      /\ IsPartialMap(files, States \cup {Final}, TraceInfoRecord)
  BY <1>5 DEF IsPartialMap, Init
<1>7. TypeOK
  BY <1>2, <1>3, <1>4, <1>5, <1>6 DEF TypeOK, GuestTypeOK, ExecTypeOK
<1>8. Embeds(frames[cur], log.callStack)
  <2> DEFINE at == [i \in 1..0 |-> 0]
  <2>1. at \in [1..0 -> 1..0] /\ \A i \in 1..0 : FALSE
    OBVIOUS
  <2>2. Len(frames[cur]) = 0 /\ Len(log.callStack) = 0
    BY <1>2, <1>4
  <2> HIDE DEF at
  <2> QED BY <2>1, <2>2 DEF Embeds
<1> QED BY <1>2, <1>3, <1>5, <1>7, <1>8 DEF IInv, FinalEntriesReal

\* A handler of the running state touches its own pending calls and the current
\* tracing variables only.
LEMMA HandlerStep ==
  ASSUME IInv, phase = "running",
         UNCHANGED <<execVars, saved, files, phase>>,
         frames' \in [States -> Seq(Frame)],
         block' \in [States -> Module \cup {NoPc}],
         \A s \in States \ {cur} : frames'[s] = frames[s],
         log' \in Logger,
         PlaceholderLast(log'.ti),
         Embeds(frames'[cur], log'.callStack)
  PROVE  IInv'
<1>1. cur' = cur /\ status' = status /\ saved' = saved /\ files' = files /\ phase' = phase
  BY DEF execVars
<1>2. TypeOK'
  BY <1>1 DEF IInv, TypeOK, GuestTypeOK, ExecTypeOK, IsPartialMap
<1>3. DOMAIN saved \subseteq States
  BY DEF IInv, TypeOK, IsPartialMap
<1>4. \A s \in DOMAIN saved \ {cur} : Embeds(frames'[s], saved[s].callStack)
  BY <1>3 DEF IInv
<1>5. FinalEntriesReal'
  BY <1>1 DEF IInv, FinalEntriesReal
<1> QED BY <1>1, <1>2, <1>4, <1>5 DEF IInv

\* slotModuleExecute preserves the inductive invariant.
LEMMA ModuleExecuteStep ==
  ASSUME IInv, NEW pc \in Module, ModuleExecute(pc)
  PROVE  IInv'
<1> DEFINE n == Len(frames[cur])
<1>1. /\ cur \in States /\ pc \in Pc
      /\ frames \in [States -> Seq(Frame)]
      /\ block \in [States -> Module \cup {NoPc}]
      /\ log \in Logger
  BY GuestAssumption DEF IInv, TypeOK, GuestTypeOK, ExecTypeOK
<1>2. /\ log' = OnExecute(log, pc)
      /\ phase = "running"
      /\ UNCHANGED <<execVars, saved, files, phase>>
      /\ block' = [block EXCEPT ![cur] = pc]
      /\ PlaceholderLast(log.ti)
      /\ Embeds(frames[cur], log.callStack)
  BY DEF ModuleExecute, GuestExecute, IInv
<1>3. /\ log' \in Logger
      /\ PlaceholderLast(log'.ti)
      /\ log'.callStack = StackAfterExecute(log, pc)
  BY <1>1, <1>2, OnExecuteType
<1>4. block' \in [States -> Module \cup {NoPc}]
  BY <1>1, <1>2
<1>5. /\ frames' \in [States -> Seq(Frame)]
      /\ \A s \in States \ {cur} : frames'[s] = frames[s]
      /\ Len(frames'[cur]) = n
      /\ \A i \in 1..n : frames'[cur][i].callee = frames[cur][i].callee
  <2>1. CASE Pending = <<>>
    BY <1>1, <2>1 DEF ModuleExecute, GuestExecute, Pending
  <2>2. CASE Pending # <<>>
    <3>1. n \in Nat \ {0} /\ frames[cur] \in Seq(Frame)
      BY <1>1, <2>2, EmptySeq DEF Pending
    <3>2. frames[cur][n] \in Frame
      BY <3>1, ElementOfSeq
    <3> DEFINE frame == [frames[cur][n] EXCEPT !.entered = TRUE]
               calls == [frames[cur] EXCEPT ![n] = frame]
    <3>3. frame \in Frame /\ frame.callee = frames[cur][n].callee
      BY <3>2 DEF Frame
    <3>4. frames' = [frames EXCEPT ![cur] = calls]
      BY <2>2 DEF ModuleExecute, GuestExecute, Pending
    <3> HIDE DEF frame
    <3>5. /\ calls \in Seq(Frame)
          /\ Len(calls) = n
          /\ \A i \in 1..n : calls[i].callee = frames[cur][i].callee
      BY <3>1, <3>3
    <3> HIDE DEF calls
    <3> QED BY <1>1, <3>4, <3>5
  <2> QED BY <2>1, <2>2
<1>6. Embeds(frames[cur], log'.callStack)
  <2>1. frames[cur] \in Seq(Frame) /\ log.callStack \in Seq(Pc)
    BY <1>1 DEF Logger
  <2>2. CASE AwaitsEntry(log.ti)
    BY <1>1, <1>2, <1>3, <2>1, <2>2, EmbedsPush DEF StackAfterExecute
  <2>3. CASE ~AwaitsEntry(log.ti)
    BY <1>2, <1>3, <2>3 DEF StackAfterExecute
  <2> QED BY <2>2, <2>3
<1>7. Embeds(frames'[cur], log'.callStack)
  <2>1. /\ frames[cur] \in Seq(Frame) /\ frames'[cur] \in Seq(Frame)
        /\ log'.callStack \in Seq(Pc)
    BY <1>1, <1>3, <1>5 DEF Logger
  <2>2. Len(frames'[cur]) <= Len(frames[cur])
    BY <1>5, <2>1, LenProperties
  <2> HIDE DEF n
  <2> QED BY <1>5, <1>6, <2>1, <2>2, EmbedsPrefix DEF n
<1> QED BY <1>2, <1>3, <1>4, <1>5, <1>7, HandlerStep

\* onFunctionCall preserves the inductive invariant.
LEMMA FunctionCallStep ==
  ASSUME IInv, NEW caller \in Pc, NEW callee \in Pc, FunctionCall(caller, callee)
  PROVE  IInv'
<1> DEFINE frame == [caller |-> caller, callee |-> callee, entered |-> FALSE]
<1>1. /\ cur \in States
      /\ frames \in [States -> Seq(Frame)]
      /\ block \in [States -> Module \cup {NoPc}]
      /\ log \in Logger
  BY DEF IInv, TypeOK, GuestTypeOK, ExecTypeOK
<1>2. /\ log' = OnCall(log, callee)
      /\ phase = "running"
      /\ UNCHANGED <<execVars, saved, files, phase>>
      /\ block' = [block EXCEPT ![cur] = NoPc]
      /\ frames' = [frames EXCEPT ![cur] = Append(frames[cur], frame)]
      /\ PlaceholderLast(log.ti)
      /\ Embeds(frames[cur], log.callStack)
  BY DEF FunctionCall, GuestCall, IInv
<1>3. frame \in Frame /\ frame.callee = callee
  BY DEF Frame
<1>4. /\ log' \in Logger
      /\ log'.ti = log.ti
      /\ log'.callStack = Append(log.callStack, callee)
  BY <1>1, <1>2, OnCallType
<1> HIDE DEF frame
<1>5. /\ frames' \in [States -> Seq(Frame)]
      /\ \A s \in States \ {cur} : frames'[s] = frames[s]
      /\ frames'[cur] = Append(frames[cur], frame)
      /\ block' \in [States -> Module \cup {NoPc}]
  BY <1>1, <1>2, <1>3
<1>6. frames[cur] \in Seq(Frame) /\ log.callStack \in Seq(Pc)
  BY <1>1 DEF Logger
<1>7. Embeds(frames'[cur], log'.callStack)
  BY <1>2, <1>3, <1>4, <1>5, <1>6, EmbedsCall
<1> QED BY <1>2, <1>4, <1>5, <1>7, HandlerStep

\* onFunctionReturn preserves the inductive invariant.
LEMMA FunctionReturnStep ==
  ASSUME IInv, FunctionReturn
  PROVE  IInv'
<1> DEFINE n == Len(frames[cur])
           frame == frames[cur][n]
<1>1. /\ cur \in States
      /\ frames \in [States -> Seq(Frame)]
      /\ block \in [States -> Module \cup {NoPc}]
      /\ log \in Logger
  BY DEF IInv, TypeOK, GuestTypeOK, ExecTypeOK
<1>2. /\ log' = OnReturn(log, frame.caller, frame.callee)
      /\ phase = "running"
      /\ UNCHANGED <<execVars, saved, files, phase>>
      /\ block' = [block EXCEPT ![cur] = NoPc]
      /\ frames[cur] # <<>>
      /\ frames' = [frames EXCEPT ![cur] = SubSeq(frames[cur], 1, n - 1)]
      /\ PlaceholderLast(log.ti)
      /\ Embeds(frames[cur], log.callStack)
  BY DEF FunctionReturn, GuestReturn, IInv, Pending, Innermost
<1>3. /\ frames[cur] \in Seq(Frame)
      /\ log.callStack \in Seq(Pc)
      /\ n \in Nat \ {0}
  BY <1>1, <1>2, EmptySeq DEF Logger
<1>4. frame.caller \in Pc /\ frame.callee \in Pc
  <2>1. frame \in Frame
    BY <1>3, ElementOfSeq
  <2> QED BY <2>1 DEF Frame
<1>5. log.callStack # <<>>
  BY <1>2, <1>3, EmbedsNonempty
<1>6. /\ log' \in Logger
      /\ PlaceholderLast(log'.ti)
      /\ log'.callStack = StackAfterReturn(log.callStack, frame.callee)
  BY <1>1, <1>2, <1>4, <1>5, OnReturnType
<1>7. SubSeq(frames[cur], 1, n - 1) \in Seq(Frame)
  <2>1. n - 1 \in 0..Len(frames[cur])
    BY <1>3
  <2> QED BY <1>3, <2>1, Prefix
<1>8. Embeds(SubSeq(frames[cur], 1, n - 1), log'.callStack)
  BY <1>2, <1>3, <1>6, EmbedsReturn
<1> HIDE DEF n, frame
<1>9. /\ frames' \in [States -> Seq(Frame)]
      /\ \A s \in States \ {cur} : frames'[s] = frames[s]
      /\ frames'[cur] = SubSeq(frames[cur], 1, n - 1)
      /\ block' \in [States -> Module \cup {NoPc}]
  BY <1>1, <1>2, <1>7
<1> QED BY <1>2, <1>6, <1>8, <1>9, HandlerStep

\* A longjmp of the guest preserves the inductive invariant.
LEMMA UnwindStep ==
  ASSUME IInv, NEW k \in 0..MaxDepth, Unwind(k)
  PROVE  IInv'
<1> DEFINE less == SubSeq(frames[cur], 1, k)
<1>1. /\ cur \in States
      /\ frames \in [States -> Seq(Frame)]
      /\ block \in [States -> Module \cup {NoPc}]
      /\ log \in Logger
  BY DEF IInv, TypeOK, GuestTypeOK, ExecTypeOK
<1>2. /\ UNCHANGED logVars
      /\ phase = "running"
      /\ UNCHANGED execVars
      /\ block' = [block EXCEPT ![cur] = NoPc]
      /\ k < Len(frames[cur])
      /\ frames' = [frames EXCEPT ![cur] = less]
      /\ PlaceholderLast(log.ti)
      /\ Embeds(frames[cur], log.callStack)
  BY DEF Unwind, GuestUnwind, IInv, Pending
<1>3. log' = log /\ UNCHANGED <<execVars, saved, files, phase>>
  BY <1>2 DEF logVars
<1>4. frames[cur] \in Seq(Frame) /\ log.callStack \in Seq(Pc)
  BY <1>1 DEF Logger
<1>5. k \in 0..Len(frames[cur])
  BY <1>2, <1>4, LenProperties, GuestAssumption
<1>6. /\ less \in Seq(Frame)
      /\ Len(less) = k
      /\ \A i \in 1..k : less[i] = frames[cur][i]
  BY <1>4, <1>5, Prefix
<1>7. Len(less) <= Len(frames[cur])
  BY <1>5, <1>6
<1> HIDE DEF less
<1>8. Embeds(less, log.callStack)
  BY <1>2, <1>4, <1>6, <1>7, EmbedsPrefix
<1>9. /\ frames' \in [States -> Seq(Frame)]
      /\ \A s \in States \ {cur} : frames'[s] = frames[s]
      /\ frames'[cur] = less
      /\ block' \in [States -> Module \cup {NoPc}]
  BY <1>1, <1>2, <1>6
<1> QED BY <1>1, <1>2, <1>3, <1>8, <1>9, HandlerStep

\* Every stored copy equals the tracing variables it was made of.
LEMMA CopyLogger ==
  ASSUME NEW l \in Logger
  PROVE  Copy(l) = l /\ Restore(l) = l
<1>1. l.ti \in TraceInfoRecord
  BY DEF Logger
<1>2. GetCopy(l.ti) = l.ti /\ RestoreFromCopy(l.ti) = l.ti
  BY <1>1, CopyIsFaithful
<1> QED BY <1>2 DEF Copy, Restore, Logger

\* slotStateFork preserves the inductive invariant.
LEMMA StateForkStep ==
  ASSUME IInv, NEW n \in States, NEW newStates \in {{n}, {n, cur}}, StateFork(n, newStates)
  PROVE  IInv'
<1>1. /\ cur \in States
      /\ status \in [States -> {"new", "live", "dead"}]
      /\ frames \in [States -> Seq(Frame)]
      /\ block \in [States -> Module \cup {NoPc}]
      /\ log \in Logger
      /\ DOMAIN saved \subseteq States
      /\ saved \in [DOMAIN saved -> Logger]
  BY DEF IInv, TypeOK, GuestTypeOK, ExecTypeOK, IsPartialMap
<1>2. /\ phase = "running"
      /\ status[n] = "new"
      /\ status[cur] = "live"
      /\ cur' = cur
      /\ status' = [status EXCEPT ![n] = "live"]
      /\ frames' = [frames EXCEPT ![n] = frames[cur]]
      /\ block' = [block EXCEPT ![n] = block[cur]]
      /\ UNCHANGED <<log, files, phase>>
      /\ saved' = StoreCopies(newStates)
  BY DEF StateFork, GuestFork, ExecFork, Running
<1>3. n # cur /\ n \notin DOMAIN saved
  BY <1>2 DEF IInv
<1>4. /\ DOMAIN saved' = DOMAIN saved \cup newStates
      /\ \A s \in DOMAIN saved : saved'[s] = saved[s]
      /\ \A s \in newStates \ DOMAIN saved : saved'[s] = log
      /\ saved' \in [DOMAIN saved' -> Logger]
  <2>1. Copy(log) = log
    BY <1>1, CopyLogger
  <2> QED BY <1>1, <1>2, <2>1 DEF StoreCopies
<1>5. newStates \subseteq {n, cur}
  OBVIOUS
<1>6. TypeOK'
  <2>1. GuestTypeOK'
    BY <1>1, <1>2 DEF GuestTypeOK, ExecTypeOK
  <2>2. IsPartialMap(saved', States, Logger)
    BY <1>1, <1>4, <1>5 DEF IsPartialMap
  <2> QED BY <1>2, <2>1, <2>2 DEF IInv, TypeOK
<1>7. status'[cur'] # "new" /\ \A s \in DOMAIN saved' : status'[s] # "new"
  BY <1>1, <1>2, <1>3, <1>4, <1>5 DEF IInv
<1>8. /\ PlaceholderLast(log'.ti)
      /\ \A s \in DOMAIN saved' : PlaceholderLast(saved'[s].ti)
  BY <1>2, <1>4 DEF IInv
<1>9. Embeds(frames'[cur'], log'.callStack)
  BY <1>1, <1>2, <1>3 DEF IInv
<1>10. ASSUME NEW s \in DOMAIN saved' \ {cur'}
       PROVE  Embeds(frames'[s], saved'[s].callStack)
  <2>1. CASE s = n
    <3>1. frames'[s] = frames[cur] /\ saved'[s] = log
      BY <1>1, <1>2, <1>3, <1>4, <2>1
    <3> QED BY <1>2, <3>1 DEF IInv
  <2>2. CASE s # n
    <3>1. s \in DOMAIN saved \ {cur} /\ frames'[s] = frames[s] /\ saved'[s] = saved[s]
      BY <1>1, <1>2, <1>4, <1>5, <2>2
    <3> QED BY <1>2, <3>1 DEF IInv
  <2> QED BY <2>1, <2>2
<1>11. FinalEntriesReal'
  BY <1>2 DEF IInv, FinalEntriesReal
<1> QED BY <1>2, <1>6, <1>7, <1>8, <1>9, <1>10, <1>11 DEF IInv

\* The exit of a state preserves the inductive invariant.
LEMMA StateExitStep ==
  ASSUME IInv, StateExit
  PROVE  IInv'
<1>1. /\ status \in [States -> {"new", "live", "dead"}] /\ cur \in States
      /\ DOMAIN saved \subseteq States
  BY DEF IInv, TypeOK, GuestTypeOK, ExecTypeOK, IsPartialMap
<1>2. /\ status' = [status EXCEPT ![cur] = "dead"]
      /\ cur' = cur /\ frames' = frames /\ block' = block
      /\ log' = log /\ saved' = saved /\ files' = files /\ phase' = phase
  BY DEF StateExit, GuestExit, ExecExit, logVars
<1>3. TypeOK'
  BY <1>1, <1>2 DEF IInv, TypeOK, GuestTypeOK, ExecTypeOK, IsPartialMap
<1>4. status'[cur'] # "new" /\ \A s \in DOMAIN saved' : status'[s] # "new"
  BY <1>1, <1>2 DEF IInv
<1>5. FinalEntriesReal'
  BY <1>2 DEF IInv, FinalEntriesReal
<1> QED BY <1>2, <1>3, <1>4, <1>5 DEF IInv

\* slotStateSwitch preserves the inductive invariant.
LEMMA StateSwitchStep ==
  ASSUME IInv, NEW n \in States, StateSwitch(n)
  PROVE  IInv'
<1>1. /\ cur \in States
      /\ log \in Logger
      /\ DOMAIN saved \subseteq States
      /\ saved \in [DOMAIN saved -> Logger]
      /\ IsPartialMap(files, States \cup {Final}, TraceInfoRecord)
  BY DEF IInv, TypeOK, GuestTypeOK, ExecTypeOK, IsPartialMap
<1>2. /\ phase = "running"
      /\ n # cur /\ status[n] = "live" /\ cur' = n
      /\ status' = status /\ frames' = frames /\ block' = block
      /\ files' = Put(files, cur, log.ti)
  BY DEF StateSwitch, GuestSwitch, ExecSwitch
<1>3. IsPartialMap(files', States \cup {Final}, TraceInfoRecord) /\ FinalEntriesReal'
  <2>1. log.ti \in TraceInfoRecord /\ cur \in States \cup {Final} /\ cur # Final
    BY <1>1, StatesAssumption DEF Logger, Final
  <2>2. /\ IsPartialMap(files', States \cup {Final}, TraceInfoRecord)
        /\ DOMAIN files' = DOMAIN files \cup {cur}
        /\ \A k \in DOMAIN files \ {cur} : files'[k] = files[k]
    BY <1>1, <1>2, <2>1 DEF Put, IsPartialMap
  <2> QED BY <2>1, <2>2 DEF IInv, FinalEntriesReal
<1>4. GuestTypeOK' /\ status'[cur'] # "new"
  BY <1>2 DEF IInv, TypeOK, GuestTypeOK, ExecTypeOK
<1>5. CASE n \in DOMAIN saved
  <2>1. /\ log' = Restore(saved[n])
        /\ saved' = Erase(saved, {n, cur})
        /\ phase' = phase
    BY <1>5 DEF StateSwitch
  <2>2. saved[n] \in Logger
    BY <1>1, <1>5
  <2>3. log' = saved[n] /\ log' \in Logger
    BY <2>1, <2>2, CopyLogger
  <2>4. /\ DOMAIN saved' = DOMAIN saved \ {n, cur}
        /\ \A s \in DOMAIN saved' : saved'[s] = saved[s]
        /\ IsPartialMap(saved', States, Logger)
    BY <1>1, <2>1 DEF Erase, IsPartialMap
  <2>5. TypeOK'
    BY <1>2, <1>3, <1>4, <2>1, <2>3, <2>4 DEF TypeOK
  <2>6. /\ PlaceholderLast(log'.ti)
        /\ \A s \in DOMAIN saved' : PlaceholderLast(saved'[s].ti) /\ status'[s] # "new"
    BY <1>2, <1>5, <2>3, <2>4 DEF IInv
  <2>7. /\ Embeds(frames'[cur'], log'.callStack)
        /\ \A s \in DOMAIN saved' \ {cur'} : Embeds(frames'[s], saved'[s].callStack)
    BY <1>2, <1>5, <2>3, <2>4 DEF IInv
  <2> QED BY <1>2, <1>3, <1>4, <2>1, <2>5, <2>6, <2>7 DEF IInv
<1>6. CASE n \notin DOMAIN saved
  <2>1. phase' = "aborted" /\ log' = log /\ saved' = saved
    BY <1>6 DEF StateSwitch
  <2>2. TypeOK'
    BY <1>3, <1>4, <2>1 DEF IInv, TypeOK
  <2> QED BY <1>2, <1>3, <1>4, <2>1, <2>2 DEF IInv
<1> QED BY <1>5, <1>6

\* ~FunctionLog preserves the inductive invariant.
LEMMA ShutdownStep ==
  ASSUME IInv, Shutdown
  PROVE  IInv'
<1> DEFINE final == FinalTrace(log.ti)
<1>1. /\ log \in Logger
      /\ IsPartialMap(files, States \cup {Final}, TraceInfoRecord)
      /\ PlaceholderLast(log.ti)
  BY DEF IInv, TypeOK, Shutdown
<1>2. /\ phase' = "done" /\ saved' = saved
      /\ cur' = cur /\ status' = status /\ frames' = frames /\ block' = block
      /\ log' = [log EXCEPT !.ti = final]
      /\ files' = Put(files, Final, final)
  BY DEF Shutdown, guestVars, execVars
<1>3. /\ final \in TraceInfoRecord
      /\ \A i \in 1..Len(final.entries) : final.entries[i] # NoPc
  <2>1. log.ti \in TraceInfoRecord
    BY <1>1 DEF Logger
  <2> QED BY <1>1, <2>1, FinalTraceType
<1> HIDE DEF final
<1>4. log' \in Logger
  BY <1>1, <1>2, <1>3 DEF Logger
<1>5. /\ IsPartialMap(files', States \cup {Final}, TraceInfoRecord)
      /\ files'[Final] = final
  BY <1>1, <1>2, <1>3 DEF Put, IsPartialMap
<1>6. TypeOK'
  BY <1>2, <1>4, <1>5 DEF IInv, TypeOK, GuestTypeOK, ExecTypeOK
<1>7. FinalEntriesReal'
  BY <1>3, <1>5 DEF FinalEntriesReal
<1> QED BY <1>2, <1>6, <1>7 DEF IInv

\* Every step preserves the inductive invariant.
LEMMA NextIInv == IInv /\ [Next]_vars => IInv'
<1> SUFFICES ASSUME IInv, [Next]_vars PROVE IInv'
  OBVIOUS
<1>1. CASE Next
  BY <1>1, ModuleExecuteStep, FunctionCallStep, FunctionReturnStep, UnwindStep,
     StateForkStep, StateExitStep, StateSwitchStep, ShutdownStep DEF Next
<1>2. CASE UNCHANGED vars
  <2>1. /\ cur' = cur /\ status' = status /\ frames' = frames /\ block' = block
        /\ log' = log /\ saved' = saved /\ files' = files /\ phase' = phase
    BY <1>2 DEF vars, guestVars, execVars, logVars
  <2> QED BY <2>1 DEF IInv, TypeOK, GuestTypeOK, ExecTypeOK, IsPartialMap, FinalEntriesReal
<1> QED BY <1>1, <1>2

\* The inductive invariant holds in every reachable state.
THEOREM Invariant == Spec => []IInv
  BY InitIInv, NextIInv, PTL DEF Spec

\* FunctionLog's variables, copies and files keep their types, whatever the
\* guest program does and however S2E forks and switches.
THEOREM TypeCorrect == Spec => []TypeOK
<1>1. IInv => TypeOK
  BY DEF IInv
<1> QED BY <1>1, Invariant, PTL

\* onFunctionReturn never takes the top of an empty shadow call stack.
THEOREM ReturnsSafe == Spec => []ReturnFindsFrame
<1>1. IInv => ReturnFindsFrame
  <2> SUFFICES ASSUME IInv, phase = "running", frames[cur] # <<>>
               PROVE  log.callStack # <<>>
    BY DEF ReturnFindsFrame, Pending
  <2>1. /\ frames[cur] \in Seq(Frame)
        /\ log.callStack \in Seq(Pc)
        /\ Embeds(frames[cur], log.callStack)
    BY DEF IInv, TypeOK, GuestTypeOK, ExecTypeOK, Logger
  <2> QED BY <2>1, EmbedsNonempty
<1> QED BY <1>1, Invariant, PTL

\* No pending call of a state that can still run loses its shadow frame.
THEOREM FramesAreKept == Spec => []FramesKept
<1>1. IInv => FramesKept
  BY DEF IInv, FramesKept, Traced, LoggerOf
<1> QED BY <1>1, Invariant, PTL

\* The placeholder entry point stays last and never reaches traceInfo.json.
THEOREM EntriesSound == Spec => [](EntriesWellFormed /\ FinalEntriesReal)
<1>1. IInv => EntriesWellFormed /\ FinalEntriesReal
  BY DEF IInv, EntriesWellFormed, Traced, LoggerOf
<1> QED BY <1>1, Invariant, PTL
-----------------------------------------------------------------------------
(* Attribution.  A guest that is disciplined (GuestMay = {}) runs blocks   *)
(* of the innermost pending call; the plugin takes the top of the shadow   *)
(* stack for that function.  The two agree although the plugin pushes the  *)
(* frame of an entry point twice and never removes the second one.         *)

\* The pending calls are the topmost frames of the shadow stack.
OnTop(stack, calls) ==
  /\ Len(calls) <= Len(stack)
  /\ \A i \in 1..Len(calls) : stack[Len(stack) - Len(calls) + i] = calls[i].callee

\* The outermost pending call is the one into the program, and its function is the
\* current entry point from its first block until it returns.
FirstIsEntry(ti, calls) ==
  /\ AwaitsEntry(ti) <=> (calls = <<>> \/ ~calls[1].entered)
  /\ Len(calls) > 1 => calls[1].entered
  /\ calls # <<>> =>
       /\ calls[1].callee \in Module /\ calls[1].caller \notin Module
       /\ \A i \in 2..Len(calls) : calls[i].callee # calls[1].callee
       /\ ~AwaitsEntry(ti) => Top(ti.entries) = calls[1].callee

\* A call made by a block of the module is pending above that block's function.
CallersOwn(calls) ==
  \A i \in 2..Len(calls) :
    calls[i].caller \in Module => Owner[calls[i].caller] = calls[i - 1].callee

\* The guest is inside its innermost pending call, in a function that owns pc.
Inside(calls, pc) == calls # <<>> /\ Owner[pc] = calls[Len(calls)].callee

\* Before a block is left and after a call returned.
BlockOwn(l, calls, pc) ==
  /\ pc # NoPc => Inside(calls, pc) /\ calls[Len(calls)].entered /\ l.executedBBPc = pc
  /\ l.callerPc \in Module => Inside(calls, l.callerPc) /\ pc = NoPc

\* The tracing variables l of an execution state agree with what its guest does.
InStep(l, calls, pc) ==
  /\ OnTop(l.callStack, calls)
  /\ FirstIsEntry(l.ti, calls)
  /\ CallersOwn(calls)
  /\ BlockOwn(l, calls, pc)

\* What a trace attributes to functions is right.
Attributed(ti) ==
  /\ \A e \in ti.entryToTbs : Owner[e[2]] = e[1]
  /\ \A c \in ti.callerToFollowUp : c[1] \in Module => Owner[c[1]] = Owner[c[2]]
  /\ \A r \in ti.entryToReturn : r[1] \in Module => r[2] \in Module /\ Owner[r[2]] = r[1]

AttributionInv ==
  /\ Attributed(log.ti)
  /\ \A s \in DOMAIN saved : Attributed(saved[s].ti)
  /\ \A k \in DOMAIN files : Attributed(files[k])
  /\ phase = "running" =>
       /\ InStep(log, frames[cur], block[cur])
       /\ \A s \in DOMAIN saved \ {cur} : InStep(saved[s], frames[s], block[s])

\* The topmost of the frames.
LEMMA OnTopLast ==
  ASSUME NEW calls \in Seq(Frame), calls # <<>>, NEW stack \in Seq(Pc), OnTop(stack, calls)
  PROVE  stack # <<>> /\ Top(stack) = calls[Len(calls)].callee
<1>1. Len(calls) \in Nat \ {0} /\ Len(stack) \in Nat
  BY EmptySeq, LenProperties
<1>2. Len(stack) - Len(calls) + Len(calls) = Len(stack) /\ Len(stack) # 0
  BY <1>1 DEF OnTop
<1>3. Len(calls) \in 1..Len(calls)
  BY <1>1
<1> QED  BY <1>2, <1>3 DEF OnTop, Top

\* A block of the innermost function runs: it is recorded under that function, and as
\* what follows the call that returned to it.
LEMMA ExecuteInStep ==
  ASSUME NEW l \in Logger, PlaceholderLast(l.ti), NEW calls \in Seq(Frame), calls # <<>>,
         NEW blk, InStep(l, calls, blk), Attributed(l.ti), NEW pc \in Module,
         Owner[pc] = calls[Len(calls)].callee,
         calls[Len(calls)].entered \/ pc = calls[Len(calls)].callee,
         NEW new \in Seq(Frame), Len(new) = Len(calls),
         \A i \in 1..Len(calls) : /\ new[i].caller = calls[i].caller
                                  /\ new[i].callee = calls[i].callee
                                  /\ i # Len(calls) => new[i].entered = calls[i].entered,
         new[Len(calls)].entered
  PROVE  InStep(OnExecute(l, pc), new, pc) /\ Attributed(OnExecute(l, pc).ti)
<1> DEFINE n == Len(calls)
           stack == StackAfterExecute(l, pc)
           newL == OnExecute(l, pc)
<1>1. /\ pc \in Pc /\ l.ti \in TraceInfoRecord /\ l.callStack \in Seq(Pc) /\ n \in Nat \ {0}
      /\ calls[n] \in Frame /\ NoPc \notin Module /\ new # <<>>
  <2>1. l.ti \in TraceInfoRecord /\ l.callStack \in Seq(Pc)
    BY DEF Logger
  <2>2. n \in Nat \ {0}
    BY EmptySeq
  <2>3. calls[n] \in Frame /\ new # <<>>
    BY <2>2, ElementOfSeq
  <2> QED  BY <2>1, <2>2, <2>3, GuestAssumption, PcAssumption
<1>2. /\ OnTop(l.callStack, calls) /\ FirstIsEntry(l.ti, calls) /\ CallersOwn(calls)
      /\ BlockOwn(l, calls, blk)
  BY DEF InStep
<1>3. AwaitsEntry(l.ti) => n = 1 /\ pc = calls[1].callee
  BY <1>1, <1>2 DEF FirstIsEntry
<1>4. OnTop(stack, new) /\ stack \in Seq(Pc) /\ stack # <<>> /\ Top(stack) = Owner[pc]
  <2>1. CASE AwaitsEntry(l.ti)
    <3>1. stack = Append(l.callStack, pc)
      BY <2>1 DEF StackAfterExecute
    <3>2. /\ stack \in Seq(Pc) /\ Len(stack) = Len(l.callStack) + 1 /\ Len(l.callStack) \in Nat
          /\ stack[Len(l.callStack) + 1] = pc /\ stack # <<>>
      BY <1>1, <3>1, AppendProperties, LenProperties
    <3> HIDE DEF stack
    <3> QED  BY <1>1, <1>3, <2>1, <3>2 DEF OnTop, Top
  <2>2. CASE ~AwaitsEntry(l.ti)
    <3>1. stack = l.callStack
      BY <2>2 DEF StackAfterExecute
    <3>2. stack # <<>> /\ Top(stack) = Owner[pc]
      BY <1>1, <1>2, <3>1, OnTopLast
    <3> HIDE DEF stack
    <3> QED  BY <1>1, <1>2, <3>1, <3>2 DEF OnTop
  <2> QED  BY <2>1, <2>2
<1>5. /\ newL \in Logger /\ newL.callStack = stack /\ newL.executedBBPc = pc
      /\ newL.callerPc = NoPc
      /\ newL.ti.entries = EntriesAfterExecute(l.ti, pc)
      /\ newL.ti.entryToReturn = l.ti.entryToReturn
      /\ newL.ti.entryToTbs = l.ti.entryToTbs \cup {<<Owner[pc], pc>>}
      /\ newL.ti.callerToFollowUp =
           IF l.callerPc # NoPc THEN l.ti.callerToFollowUp \cup {<<l.callerPc, pc>>}
           ELSE l.ti.callerToFollowUp
  <2>1. newL \in Logger /\ newL.callStack = stack
    BY <1>1, OnExecuteType
  <2> DEFINE newTi == [ l.ti EXCEPT
        !.entries          = EntriesAfterExecute(l.ti, pc),
        !.entryToTbs       = @ \cup {<<Owner[pc], pc>>},
        !.callerToFollowUp = IF l.callerPc # NoPc THEN @ \cup {<<l.callerPc, pc>>} ELSE @ ]
  <2>2. newL = [ti |-> newTi, callStack |-> stack, executedBBPc |-> pc, callerPc |-> NoPc]
    BY <1>4 DEF OnExecute
  <2>3. newL.ti = newTi /\ newL.executedBBPc = pc /\ newL.callerPc = NoPc
    BY <2>2
  <2> HIDE DEF newL
  <2> QED  BY <1>1, <2>1, <2>3 DEF TraceInfoRecord
<1>6. ~AwaitsEntry(newL.ti) /\ Top(newL.ti.entries) = calls[1].callee
  <2>1. l.ti.entries \in Seq(Pc \cup {NoPc}) /\ l.ti.entries # <<>>
    BY <1>1 DEF TraceInfoRecord, PlaceholderLast
  <2>2. Len(l.ti.entries) \in Nat \ {0}
    BY <2>1, EmptySeq
  <2>3. CASE AwaitsEntry(l.ti)
    <3>1. newL.ti.entries = [l.ti.entries EXCEPT ![Len(l.ti.entries)] = pc]
      BY <1>5, <2>3 DEF EntriesAfterExecute
    <3>2. Top(newL.ti.entries) = pc
      BY <2>1, <2>2, <3>1 DEF Top
    <3> QED  BY <1>1, <1>3, <2>3, <3>2 DEF AwaitsEntry
  <2>4. CASE ~AwaitsEntry(l.ti)
    BY <1>1, <1>2, <1>5, <2>4 DEF EntriesAfterExecute, FirstIsEntry, AwaitsEntry
  <2> QED  BY <2>3, <2>4
<1> HIDE DEF newL, stack
<1>7. FirstIsEntry(newL.ti, new)
  <2>1. 1 \in 1..n /\ n \in 1..n /\ Len(new) = n
    BY <1>1
  <2>2. new[1].entered
    <3>1. CASE n = 1
      BY <3>1
    <3>2. CASE n # 1
      BY <1>1, <1>2, <2>1, <3>2 DEF FirstIsEntry
    <3> QED  BY <3>1, <3>2
  <2> HIDE DEF n
  <2>3. /\ new[1].callee = calls[1].callee /\ new[1].caller = calls[1].caller
        /\ \A i \in 2..n : new[i].callee = calls[i].callee
    BY <1>1, <2>1 DEF n
  <2> QED  BY <1>1, <1>2, <1>6, <2>1, <2>2, <2>3 DEF FirstIsEntry, n
<1>8. CallersOwn(new)
  BY <1>1, <1>2 DEF CallersOwn
<1>9. BlockOwn(newL, new, pc)
  BY <1>1, <1>5 DEF BlockOwn, Inside
<1>10. Attributed(newL.ti)
  <2>1. l.callerPc \in Module => Owner[l.callerPc] = Owner[pc]
    BY <1>2 DEF BlockOwn, Inside
  <2>2. \A e \in newL.ti.entryToTbs : Owner[e[2]] = e[1]
    BY <1>5 DEF Attributed
  <2>3. \A c \in newL.ti.callerToFollowUp : c[1] \in Module => Owner[c[1]] = Owner[c[2]]
    BY <1>5, <2>1 DEF Attributed
  <2> QED  BY <1>5, <2>2, <2>3 DEF Attributed
<1> QED  BY <1>4, <1>5, <1>7, <1>8, <1>9, <1>10 DEF InStep, newL

\* A call is pushed on both stacks; the guest has left its block, and no return is
\* waiting for its follow-up block.
LEMMA CallInStep ==
  ASSUME NEW l \in Logger, NEW calls \in Seq(Frame), NEW blk \in Module \cup {NoPc},
         InStep(l, calls, blk), NEW caller \in Pc, NEW callee \in Pc,
         Relevant(caller, callee),
         \/ caller = blk
         \/ caller \notin Module /\ (calls = <<>> \/ calls[Len(calls)].callee \notin Module),
         calls # <<>> => callee # calls[1].callee
  PROVE  InStep(OnCall(l, callee),
                Append(calls, [caller |-> caller, callee |-> callee, entered |-> FALSE]), NoPc)
<1> DEFINE n == Len(calls)
           frame == [caller |-> caller, callee |-> callee, entered |-> FALSE]
           new == Append(calls, frame)
           newL == OnCall(l, callee)
           stack == Append(l.callStack, callee)
<1>1. /\ frame \in Frame /\ n \in Nat /\ l.callStack \in Seq(Pc) /\ NoPc \notin Pc
      /\ frame.caller = caller /\ frame.callee = callee /\ ~frame.entered
  <2>1. frame \in Frame /\ frame.caller = caller /\ frame.callee = callee /\ ~frame.entered
    BY DEF Frame
  <2>2. l.callStack \in Seq(Pc) /\ n \in Nat
    BY LenProperties DEF Logger
  <2> QED  BY <2>1, <2>2, PcAssumption
<1> HIDE DEF frame
<1>2. /\ new \in Seq(Frame) /\ Len(new) = n + 1 /\ new # <<>> /\ new[n + 1] = frame
      /\ \A i \in 1..n : new[i] = calls[i]
  BY <1>1, AppendProperties
<1>3. /\ newL.ti = l.ti /\ newL.callStack = stack /\ newL.callerPc = l.callerPc
      /\ Len(stack) = Len(l.callStack) + 1 /\ Len(l.callStack) \in Nat
      /\ stack[Len(l.callStack) + 1] = callee
      /\ \A i \in 1..Len(l.callStack) : stack[i] = l.callStack[i]
  <2>1. newL.ti = l.ti /\ newL.callStack = stack /\ newL.callerPc = l.callerPc
    BY <1>1 DEF OnCall, Logger
  <2> QED  BY <1>1, <2>1, AppendProperties, LenProperties
<1>4. /\ OnTop(l.callStack, calls) /\ FirstIsEntry(l.ti, calls) /\ CallersOwn(calls)
      /\ BlockOwn(l, calls, blk)
  BY DEF InStep
<1> HIDE DEF n, new, newL, stack
<1>5. caller \in Module => Inside(calls, caller) /\ calls[n].entered
  BY <1>1, <1>4 DEF BlockOwn, n
<1>6. calls # <<>> => n > 0 /\ n \in 1..n /\ 1 \in 1..n
  BY <1>1, EmptySeq DEF n
<1>7. \A pc \in Module : Inside(calls, pc) => calls[n].callee \in Module
  BY GuestAssumption DEF Inside, n
<1>8. OnTop(stack, new)
  <2>1. n <= Len(l.callStack)
    BY <1>4 DEF OnTop, n
  <2>2. ASSUME NEW i \in 1..n + 1
        PROVE  stack[Len(stack) - (n + 1) + i] = new[i].callee
    <3>1. CASE i = n + 1
      <4>1. Len(stack) - (n + 1) + i = Len(l.callStack) + 1
        BY <1>1, <1>3, <3>1
      <4> QED  BY <1>1, <1>2, <1>3, <3>1, <4>1
    <3>2. CASE i # n + 1
      <4>1. i \in 1..n
        BY <1>1, <3>2
      <4>2. Len(l.callStack) - n + i \in 1..Len(l.callStack)
        BY <1>1, <1>3, <2>1, <4>1
      <4>3. Len(stack) - (n + 1) + i = Len(l.callStack) - n + i
        BY <1>1, <1>3, <4>1
      <4> QED  BY <1>2, <1>3, <1>4, <4>1, <4>2, <4>3 DEF OnTop, n
    <3> QED  BY <3>1, <3>2
  <2>3. Len(new) <= Len(stack)
    BY <1>1, <1>2, <1>3, <2>1
  <2> QED  BY <1>2, <2>2, <2>3 DEF OnTop
<1>9. FirstIsEntry(l.ti, new)
  <2>1. CASE calls = <<>>
    <3>1. n = 0 /\ Len(new) = 1 /\ new[1] = frame
      BY <1>1, <1>2, <2>1 DEF n
    <3>2. caller \notin Module /\ callee \in Module
      BY <1>5, <2>1 DEF Inside, Relevant
    <3>3. AwaitsEntry(l.ti)
      BY <1>4, <2>1 DEF FirstIsEntry
    <3> QED  BY <1>1, <1>2, <3>1, <3>2, <3>3 DEF FirstIsEntry
  <2>2. CASE calls # <<>>
    <3>1. new[1] = calls[1] /\ n \in Nat \ {0}
      BY <1>1, <1>2, <1>6, <2>2
    <3>2. calls[1].entered
      <4>1. CASE n > 1
        BY <1>4, <4>1 DEF FirstIsEntry, n
      <4>2. CASE n = 1
        <5>1. calls[n].callee \in Module
          BY <1>4, <2>2, <4>2 DEF FirstIsEntry
        <5>2. caller = blk /\ caller \in Module
          BY <1>1, <2>2, <5>1 DEF n
        <5> QED  BY <1>5, <4>2, <5>2
      <4> QED  BY <3>1, <4>1, <4>2
    <3>3. ASSUME NEW i \in 2..n + 1
          PROVE  new[i].callee # new[1].callee
      <4>1. CASE i = n + 1
        BY <1>1, <1>2, <2>2, <3>1, <4>1
      <4>2. CASE i # n + 1
        <5>1. i \in 2..n /\ i \in 1..n
          BY <1>1, <4>2
        <5> QED  BY <1>2, <1>4, <2>2, <3>1, <5>1 DEF FirstIsEntry, n
      <4> QED  BY <4>1, <4>2
    <3> QED  BY <1>2, <1>4, <2>2, <3>1, <3>2, <3>3 DEF FirstIsEntry
  <2> QED  BY <2>1, <2>2
<1>10. CallersOwn(new)
  <2>1. ASSUME NEW i \in 2..n + 1, new[i].caller \in Module
        PROVE  Owner[new[i].caller] = new[i - 1].callee
    <3>1. i - 1 \in 1..n /\ new[i - 1] = calls[i - 1]
      BY <1>1, <1>2
    <3>2. CASE i = n + 1
      <4>1. new[i].caller = caller /\ i - 1 = n
        BY <1>1, <1>2, <3>2
      <4> QED  BY <1>5, <2>1, <3>1, <4>1 DEF Inside, n
    <3>3. CASE i # n + 1
      <4>1. i \in 2..n /\ i \in 1..n
        BY <1>1, <3>3
      <4> QED  BY <1>2, <1>4, <2>1, <3>1, <4>1 DEF CallersOwn, n
    <3> QED  BY <3>2, <3>3
  <2> QED  BY <1>2, <2>1 DEF CallersOwn
<1>11. BlockOwn(newL, new, NoPc)
  <2>1. l.callerPc \notin Module
    <3> SUFFICES ASSUME l.callerPc \in Module PROVE FALSE
      OBVIOUS
    <3>1. Inside(calls, l.callerPc) /\ blk = NoPc
      BY <1>4 DEF BlockOwn
    <3>2. calls # <<>> /\ calls[Len(calls)].callee \in Module
      BY <1>7, <3>1 DEF Inside, n
    <3> QED  BY <1>1, <3>1, <3>2
  <2> QED  BY <1>3, <2>1 DEF BlockOwn
<1> QED  BY <1>3, <1>8, <1>9, <1>10, <1>11 DEF InStep, newL, new, frame

\* A function returns from the block that ran last: the top of the shadow stack is its
\* frame, and only the return of the entry function makes a new placeholder.
LEMMA ReturnInStep ==
  ASSUME NEW l \in Logger, PlaceholderLast(l.ti), NEW calls \in Seq(Frame), calls # <<>>,
         NEW blk \in Module \cup {NoPc}, InStep(l, calls, blk), Attributed(l.ti),
         calls[Len(calls)].callee \in Module => blk # NoPc
  PROVE  LET frame == calls[Len(calls)]
             new == OnReturn(l, frame.caller, frame.callee)
         IN  InStep(new, SubSeq(calls, 1, Len(calls) - 1), NoPc) /\ Attributed(new.ti)
<1> DEFINE n == Len(calls)
           caller == calls[n].caller
           begin == calls[n].callee
           less == SubSeq(calls, 1, n - 1)
           newL == OnReturn(l, caller, begin)
           stack == l.callStack
<1>1. n \in Nat \ {0} /\ l.ti \in TraceInfoRecord /\ stack \in Seq(Pc) /\ NoPc \notin Pc
  BY EmptySeq, PcAssumption DEF Logger
<1>2. caller \in Pc /\ begin \in Pc
  <2>1. calls[n] \in Frame
    BY <1>1, ElementOfSeq
  <2> QED  BY <2>1 DEF Frame
<1>3. /\ less \in Seq(Frame) /\ Len(less) = n - 1
      /\ \A i \in 1..n - 1 : less[i] = calls[i]
  <2>1. n - 1 \in 0..Len(calls)
    BY <1>1
  <2> QED  BY <2>1, Prefix
<1>4. /\ OnTop(stack, calls) /\ FirstIsEntry(l.ti, calls) /\ CallersOwn(calls)
      /\ BlockOwn(l, calls, blk)
  BY DEF InStep
<1>5. stack # <<>> /\ Top(stack) = begin
  BY <1>1, <1>4, OnTopLast
<1>6. /\ Pop(stack) \in Seq(Pc) /\ Len(Pop(stack)) = Len(stack) - 1 /\ Len(stack) \in Nat \ {0}
      /\ \A i \in 1..Len(stack) - 1 : Pop(stack)[i] = stack[i]
  BY <1>1, <1>5, TopPop
<1>7. ~Dropped(stack, begin) /\ StackAfterReturn(stack, begin) = Pop(stack)
  BY <1>5 DEF Dropped, Extra, StackAfterReturn
<1> HIDE DEF n, caller, begin, less
<1>8. /\ newL.callStack = Pop(stack) /\ newL.callerPc = caller
      /\ newL.ti.entries = EntriesAfterReturn(l.ti, begin)
      /\ newL.ti.entryToTbs = l.ti.entryToTbs
      /\ newL.ti.callerToFollowUp = l.ti.callerToFollowUp
      /\ newL.ti.entryToReturn = l.ti.entryToReturn \cup {<<begin, l.executedBBPc>>}
  <2> DEFINE newTi == [ l.ti EXCEPT
           !.entries       = EntriesAfterReturn(l.ti, begin),
           !.entryToCaller = @ \cup {<<begin, caller>>},
           !.entryToReturn = @ \cup {<<begin, l.executedBBPc>>} ]
  <2>1. newL = [ti |-> newTi, callStack |-> Pop(stack), executedBBPc |-> l.executedBBPc,
                callerPc |-> caller]
    BY <1>7 DEF OnReturn
  <2>2. newL.ti = newTi /\ newL.callStack = Pop(stack) /\ newL.callerPc = caller
    BY <2>1
  <2> HIDE DEF newL
  <2> QED  BY <1>1, <2>2 DEF TraceInfoRecord
<1> HIDE DEF newL, stack
<1>9. calls[1].entered /\ ~AwaitsEntry(l.ti) /\ Top(l.ti.entries) = calls[1].callee
  <2>1. calls[1].entered
    <3>1. CASE n > 1
      BY <1>4, <3>1 DEF FirstIsEntry, n
    <3>2. CASE n = 1
      <4>1. calls[n].callee \in Module
        BY <1>4, <3>2 DEF FirstIsEntry
      <4>2. blk # NoPc
        BY <4>1 DEF n
      <4> QED  BY <1>4, <3>2, <4>2 DEF BlockOwn, n
    <3> QED  BY <1>1, <3>1, <3>2
  <2> QED  BY <1>4, <2>1 DEF FirstIsEntry
<1>10. OnTop(Pop(stack), less)
  <2>1. n <= Len(stack)
    BY <1>4 DEF OnTop, n
  <2>2. ASSUME NEW i \in 1..n - 1
        PROVE  Pop(stack)[Len(Pop(stack)) - (n - 1) + i] = less[i].callee
    <3>1. i \in 1..n /\ Len(stack) - n + i \in 1..Len(stack) - 1
      BY <1>1, <1>6, <2>1
    <3>2. Len(Pop(stack)) - (n - 1) + i = Len(stack) - n + i
      BY <1>1, <1>6
    <3> QED  BY <1>3, <1>4, <1>6, <3>1, <3>2 DEF OnTop, n
  <2>3. Len(less) <= Len(Pop(stack))
    BY <1>1, <1>3, <1>6, <2>1
  <2> QED  BY <1>3, <2>2, <2>3 DEF OnTop
<1>11. FirstIsEntry(newL.ti, less)
  <2>1. l.ti.entries \in Seq(Pc \cup {NoPc})
    BY <1>1 DEF TraceInfoRecord
  <2>2. CASE n = 1
    <3>1. begin = Top(l.ti.entries) /\ less = <<>> /\ Len(less) = 0
      BY <1>3, <1>9, <2>2, EmptySeq DEF begin
    <3>2. newL.ti.entries = Append(l.ti.entries, NoPc)
      BY <1>8, <3>1 DEF EntriesAfterReturn
    <3>3. AwaitsEntry(newL.ti)
      BY <2>1, <3>2, AppendProperties DEF AwaitsEntry, Top
    <3> QED  BY <3>1, <3>3 DEF FirstIsEntry
  <2>3. CASE n # 1
    <3>1. n > 1 /\ n \in 2..n /\ 1 \in 1..n - 1
      BY <1>1, <2>3
    <3>2. begin # calls[1].callee
      BY <1>4, <3>1 DEF FirstIsEntry, begin, n
    <3>3. newL.ti.entries = l.ti.entries
      BY <1>8, <1>9, <3>2 DEF EntriesAfterReturn
    <3>4. ~AwaitsEntry(newL.ti) /\ Top(newL.ti.entries) = calls[1].callee
      BY <1>9, <3>3 DEF AwaitsEntry
    <3>5. less[1] = calls[1] /\ less # <<>> /\ \A i \in 2..n - 1 : less[i] = calls[i] /\ i \in 2..n
      BY <1>1, <1>3, <3>1
    <3> QED  BY <1>3, <1>4, <1>9, <3>4, <3>5 DEF FirstIsEntry, n
  <2> QED  BY <2>2, <2>3
<1>12. CallersOwn(less)
  <2>1. ASSUME NEW i \in 2..n - 1
        PROVE  /\ i \in 2..n /\ less[i] = calls[i] /\ less[i - 1] = calls[i - 1]
    BY <1>1, <1>3
  <2> QED  BY <1>3, <1>4, <2>1 DEF CallersOwn, n
<1>13. BlockOwn(newL, less, NoPc)
  <2>1. ASSUME caller \in Module
        PROVE  Inside(less, caller)
    <3>1. n # 1
      BY <1>4, <2>1 DEF FirstIsEntry, caller
    <3>2. n \in 2..n /\ n - 1 \in 1..n - 1
      BY <1>1, <3>1
    <3>3. Owner[caller] = calls[n - 1].callee
      BY <1>4, <2>1, <3>2 DEF CallersOwn, caller, n
    <3>4. less[n - 1] = calls[n - 1] /\ less # <<>>
      BY <1>1, <1>3, <3>2
    <3> QED  BY <1>3, <3>3, <3>4 DEF Inside
  <2> QED  BY <1>8, <2>1 DEF BlockOwn
<1>14. Attributed(newL.ti)
  <2>1. begin \in Module => l.executedBBPc \in Module /\ Owner[l.executedBBPc] = begin
    BY <1>4 DEF BlockOwn, Inside, begin, n
  <2>2. \A r \in newL.ti.entryToReturn : r[1] \in Module => r[2] \in Module /\ Owner[r[2]] = r[1]
    BY <1>8, <2>1 DEF Attributed
  <2> QED  BY <1>8, <2>2 DEF Attributed
<1> QED  BY <1>8, <1>10, <1>11, <1>12, <1>13, <1>14 DEF InStep, newL, less, caller, begin, n

\* Nothing has been traced at the start.
LEMMA InitAttribution == Init => AttributionInv
<1> SUFFICES ASSUME Init PROVE AttributionInv
  OBVIOUS
<1>1. PICK garbage \in Pc \cup {NoPc} : log = InitialLogger(garbage)
  BY DEF Init
<1>2. /\ log.ti = InitialTrace /\ log.callStack = <<>> /\ log.callerPc = NoPc
      /\ InitialTrace.entryToTbs = {} /\ InitialTrace.callerToFollowUp = {}
      /\ InitialTrace.entryToReturn = {} /\ InitialTrace.entries = <<NoPc>>
  BY <1>1 DEF InitialLogger, InitialTrace, EmptyTrace
<1>3. Attributed(log.ti) /\ AwaitsEntry(log.ti)
  BY <1>2 DEF Attributed, AwaitsEntry, Top
<1>4. cur \in States /\ frames[cur] = <<>> /\ block[cur] = NoPc
  BY StatesAssumption DEF Init, GuestInit, ExecInit
<1>5. NoPc \notin Module
  BY GuestAssumption, PcAssumption
<1>6. InStep(log, frames[cur], block[cur])
  BY <1>2, <1>3, <1>4, <1>5
     DEF InStep, OnTop, FirstIsEntry, CallersOwn, BlockOwn
<1>7. DOMAIN saved = {} /\ DOMAIN files = {}
  BY DEF Init
<1> QED  BY <1>3, <1>6, <1>7 DEF AttributionInv

\* A handler of the running state.
LEMMA HandlerAttribution ==
  ASSUME IInv, AttributionInv, phase = "running",
         UNCHANGED <<execVars, saved, files, phase>>,
         \A s \in States \ {cur} : frames'[s] = frames[s] /\ block'[s] = block[s],
         Attributed(log'.ti),
         InStep(log', frames'[cur], block'[cur])
  PROVE  AttributionInv'
<1>1. cur' = cur /\ saved' = saved /\ files' = files /\ phase' = phase
  BY DEF execVars
<1>2. DOMAIN saved \subseteq States
  BY DEF IInv, TypeOK, IsPartialMap
<1>3. \A s \in DOMAIN saved \ {cur} : InStep(saved[s], frames'[s], block'[s])
  BY <1>2 DEF AttributionInv
<1> QED  BY <1>1, <1>3 DEF AttributionInv

\* slotModuleExecute, for a block of the innermost function.
LEMMA ExecuteAttribution ==
  ASSUME GuestMay = {}, IInv, AttributionInv, NEW pc \in Module, ModuleExecute(pc)
  PROVE  AttributionInv'
<1> DEFINE calls == frames[cur]
           n == Len(calls)
           frame == [calls[n] EXCEPT !.entered = TRUE]
           new == [calls EXCEPT ![n] = frame]
<1>1. /\ cur \in States /\ frames \in [States -> Seq(Frame)]
      /\ block \in [States -> Module \cup {NoPc}] /\ log \in Logger
  BY DEF IInv, TypeOK, GuestTypeOK, ExecTypeOK
<1>2. /\ log' = OnExecute(log, pc) /\ phase = "running"
      /\ UNCHANGED <<execVars, saved, files, phase>>
      /\ block' = [block EXCEPT ![cur] = pc] /\ InTurn(pc)
      /\ PlaceholderLast(log.ti) /\ Attributed(log.ti)
      /\ InStep(log, calls, block[cur])
  BY DEF ModuleExecute, GuestExecute, IInv, AttributionInv
<1>3. /\ calls # <<>> /\ Owner[pc] = calls[n].callee
      /\ calls[n].entered \/ pc = calls[n].callee
  BY <1>2 DEF InTurn, InLibrary, Innermost, Pending
<1>4. calls \in Seq(Frame) /\ n \in Nat \ {0}
  BY <1>1, <1>3, EmptySeq
<1>5. calls[n] \in Frame
  BY <1>4, ElementOfSeq
<1>6. /\ frame \in Frame /\ frame.callee = calls[n].callee /\ frame.caller = calls[n].caller
      /\ frame.entered
  BY <1>5 DEF Frame
<1>7. frames' = [frames EXCEPT ![cur] = new]
  BY <1>3 DEF ModuleExecute, GuestExecute, Pending
<1> HIDE DEF frame
<1>8. /\ new \in Seq(Frame) /\ Len(new) = n /\ new[n] = frame
      /\ \A i \in 1..n : i # n => new[i] = calls[i]
  BY <1>4, <1>6
<1>9. \A i \in 1..n : /\ new[i].caller = calls[i].caller /\ new[i].callee = calls[i].callee
                      /\ i # n => new[i].entered = calls[i].entered
  BY <1>6, <1>8
<1> HIDE DEF new
<1>10. InStep(log', new, pc) /\ Attributed(log'.ti)
  BY <1>1, <1>2, <1>3, <1>4, <1>6, <1>8, <1>9, ExecuteInStep
<1>11. /\ frames'[cur] = new /\ block'[cur] = pc
       /\ \A s \in States \ {cur} : frames'[s] = frames[s] /\ block'[s] = block[s]
  BY <1>1, <1>2, <1>7
<1> QED  BY <1>2, <1>10, <1>11, HandlerAttribution

\* onFunctionCall.
LEMMA CallAttribution ==
  ASSUME GuestMay = {}, IInv, AttributionInv, NEW caller \in Pc, NEW callee \in Pc,
         FunctionCall(caller, callee)
  PROVE  AttributionInv'
<1> DEFINE calls == frames[cur]
           frame == [caller |-> caller, callee |-> callee, entered |-> FALSE]
<1>1. /\ cur \in States /\ frames \in [States -> Seq(Frame)]
      /\ block \in [States -> Module \cup {NoPc}] /\ log \in Logger
  BY DEF IInv, TypeOK, GuestTypeOK, ExecTypeOK
<1>2. /\ log' = OnCall(log, callee) /\ phase = "running"
      /\ UNCHANGED <<execVars, saved, files, phase>>
      /\ block' = [block EXCEPT ![cur] = NoPc]
      /\ frames' = [frames EXCEPT ![cur] = Append(calls, frame)]
      /\ Relevant(caller, callee)
      /\ Attributed(log.ti) /\ InStep(log, calls, block[cur])
  BY DEF FunctionCall, GuestCall, AttributionInv
<1>3. calls # <<>> => callee # calls[1].callee
  BY DEF FunctionCall, GuestCall, Pending
<1>4. \/ caller = block[cur]
      \/ caller \notin Module /\ (calls = <<>> \/ calls[Len(calls)].callee \notin Module)
  BY DEF FunctionCall, GuestCall, CallSites, InLibrary, Innermost, Pending
<1>5. calls \in Seq(Frame) /\ block[cur] \in Module \cup {NoPc}
  BY <1>1
<1>6. InStep(log', Append(calls, frame), NoPc)
  BY <1>1, <1>2, <1>3, <1>4, <1>5, CallInStep
<1>7. Attributed(log'.ti)
  BY <1>1, <1>2, OnCallType
<1> HIDE DEF frame
<1>8. /\ frames'[cur] = Append(calls, frame) /\ block'[cur] = NoPc
      /\ \A s \in States \ {cur} : frames'[s] = frames[s] /\ block'[s] = block[s]
  BY <1>1, <1>2
<1> QED  BY <1>2, <1>6, <1>7, <1>8, HandlerAttribution

\* onFunctionReturn.
LEMMA ReturnAttribution ==
  ASSUME IInv, AttributionInv, FunctionReturn
  PROVE  AttributionInv'
<1> DEFINE calls == frames[cur]
           n == Len(calls)
           frame == calls[n]
           less == SubSeq(calls, 1, n - 1)
<1>1. /\ cur \in States /\ frames \in [States -> Seq(Frame)]
      /\ block \in [States -> Module \cup {NoPc}] /\ log \in Logger
  BY DEF IInv, TypeOK, GuestTypeOK, ExecTypeOK
<1>2. /\ log' = OnReturn(log, frame.caller, frame.callee) /\ phase = "running"
      /\ UNCHANGED <<execVars, saved, files, phase>>
      /\ block' = [block EXCEPT ![cur] = NoPc]
      /\ calls # <<>> /\ frames' = [frames EXCEPT ![cur] = less]
      /\ PlaceholderLast(log.ti) /\ Attributed(log.ti) /\ InStep(log, calls, block[cur])
  BY DEF FunctionReturn, GuestReturn, IInv, AttributionInv, Pending, Innermost
<1>3. frame.callee \in Module => block[cur] # NoPc
  BY <1>2 DEF FunctionReturn, GuestReturn, InLibrary, Pending, Innermost
<1>4. calls \in Seq(Frame) /\ block[cur] \in Module \cup {NoPc}
  BY <1>1
<1>5. InStep(log', less, NoPc) /\ Attributed(log'.ti)
  BY <1>1, <1>2, <1>3, <1>4, ReturnInStep
<1> HIDE DEF less
<1>6. /\ frames'[cur] = less /\ block'[cur] = NoPc
      /\ \A s \in States \ {cur} : frames'[s] = frames[s] /\ block'[s] = block[s]
  BY <1>1, <1>2
<1> QED  BY <1>2, <1>5, <1>6, HandlerAttribution

\* slotStateFork: the copy is in step with the guest of the new state.
LEMMA ForkAttribution ==
  ASSUME IInv, AttributionInv, NEW n \in States, NEW newStates \in {{n}, {n, cur}},
         StateFork(n, newStates)
  PROVE  AttributionInv'
<1>1. /\ cur \in States /\ frames \in [States -> Seq(Frame)]
      /\ block \in [States -> Module \cup {NoPc}] /\ log \in Logger
      /\ DOMAIN saved \subseteq States
  BY DEF IInv, TypeOK, GuestTypeOK, ExecTypeOK, IsPartialMap
<1>2. /\ phase = "running" /\ status[n] = "new" /\ cur' = cur
      /\ frames' = [frames EXCEPT ![n] = frames[cur]]
      /\ block' = [block EXCEPT ![n] = block[cur]]
      /\ UNCHANGED <<log, files, phase>> /\ saved' = StoreCopies(newStates)
  BY DEF StateFork, GuestFork, ExecFork
<1>3. n # cur /\ n \notin DOMAIN saved
  BY <1>2 DEF IInv
<1>4. /\ DOMAIN saved' = DOMAIN saved \cup newStates
      /\ \A s \in DOMAIN saved : saved'[s] = saved[s]
      /\ \A s \in newStates \ DOMAIN saved : saved'[s] = log
  <2>1. Copy(log) = log
    BY <1>1, CopyLogger
  <2> QED  BY <1>2, <2>1 DEF StoreCopies
<1>5. newStates \subseteq {n, cur}
  OBVIOUS
<1>6. /\ Attributed(log'.ti) /\ InStep(log', frames'[cur'], block'[cur'])
      /\ \A k \in DOMAIN files' : Attributed(files'[k])
  BY <1>1, <1>2, <1>3 DEF AttributionInv
<1>7. \A s \in DOMAIN saved' : Attributed(saved'[s].ti)
  BY <1>4 DEF AttributionInv
<1>8. ASSUME NEW s \in DOMAIN saved' \ {cur'}
      PROVE  InStep(saved'[s], frames'[s], block'[s])
  <2>1. CASE s = n
    <3>1. frames'[s] = frames[cur] /\ block'[s] = block[cur] /\ saved'[s] = log
      BY <1>1, <1>2, <1>3, <1>4, <2>1
    <3> QED  BY <1>2, <3>1 DEF AttributionInv
  <2>2. CASE s # n
    <3>1. /\ s \in DOMAIN saved \ {cur} /\ saved'[s] = saved[s]
          /\ frames'[s] = frames[s] /\ block'[s] = block[s]
      BY <1>1, <1>2, <1>4, <1>5, <2>2
    <3> QED  BY <1>2, <3>1 DEF AttributionInv
  <2> QED  BY <2>1, <2>2
<1> QED  BY <1>6, <1>7, <1>8 DEF AttributionInv

\* slotStateSwitch: what is restored is in step with the state switched to.
LEMMA SwitchAttribution ==
  ASSUME IInv, AttributionInv, NEW n \in States, StateSwitch(n)
  PROVE  AttributionInv'
<1>1. /\ DOMAIN saved \subseteq States /\ saved \in [DOMAIN saved -> Logger]
  BY DEF IInv, TypeOK, IsPartialMap
<1>2. /\ phase = "running" /\ n # cur /\ cur' = n /\ frames' = frames /\ block' = block
      /\ files' = Put(files, cur, log.ti)
  BY DEF StateSwitch, GuestSwitch, ExecSwitch
<1>3. \A k \in DOMAIN files' : Attributed(files'[k])
  BY <1>2 DEF Put, AttributionInv
<1>4. CASE n \in DOMAIN saved
  <2>1. log' = saved[n] /\ saved' = Erase(saved, {n, cur})
    BY <1>1, <1>4, CopyLogger DEF StateSwitch
  <2>2. /\ DOMAIN saved' = DOMAIN saved \ {n, cur}
        /\ \A s \in DOMAIN saved' : saved'[s] = saved[s]
    BY <2>1 DEF Erase
  <2> QED  BY <1>2, <1>3, <1>4, <2>1, <2>2 DEF AttributionInv
<1>5. CASE n \notin DOMAIN saved
  <2>1. phase' = "aborted" /\ log' = log /\ saved' = saved
    BY <1>5 DEF StateSwitch
  <2> QED  BY <1>3, <2>1 DEF AttributionInv
<1> QED  BY <1>4, <1>5

\* A step keeps what is attributed right, whatever state runs and however S2E switches.
LEMMA NextAttribution ==
  ASSUME GuestMay = {}, IInv, AttributionInv, [Next]_vars
  PROVE  AttributionInv'
<1>1. CASE StateExit \/ UNCHANGED vars
  <2>1. /\ cur' = cur /\ frames' = frames /\ block' = block
        /\ log' = log /\ saved' = saved /\ files' = files /\ phase' = phase
    BY <1>1 DEF StateExit, GuestExit, ExecExit, vars, guestVars, execVars, logVars
  <2> QED  BY <2>1 DEF AttributionInv
<1>2. ASSUME NEW k \in 0..MaxDepth, Unwind(k) PROVE FALSE
  BY <1>2 DEF Unwind, GuestUnwind
<1>3. CASE Shutdown
  <2>1. log.ti \in TraceInfoRecord /\ log \in Logger
    BY DEF IInv, TypeOK, Logger
  <2>2. Attributed(FinalTrace(log.ti))
    <3>1. CASE AwaitsEntry(log.ti)
      <4>1. FinalTrace(log.ti) = [log.ti EXCEPT !.entries = Pop(log.ti.entries)]
        BY <3>1 DEF FinalTrace
      <4>2. /\ FinalTrace(log.ti).entryToTbs = log.ti.entryToTbs
            /\ FinalTrace(log.ti).callerToFollowUp = log.ti.callerToFollowUp
            /\ FinalTrace(log.ti).entryToReturn = log.ti.entryToReturn
        BY <2>1, <4>1 DEF TraceInfoRecord
      <4> QED  BY <4>2 DEF Attributed, AttributionInv
    <3>2. CASE ~AwaitsEntry(log.ti)
      BY <3>2 DEF FinalTrace, AttributionInv
    <3> QED  BY <3>1, <3>2
  <2>3. /\ log'.ti = FinalTrace(log.ti) /\ files' = Put(files, Final, FinalTrace(log.ti))
        /\ saved' = saved /\ phase' = "done"
    BY <1>3, <2>1 DEF Shutdown, Logger
  <2>4. \A k \in DOMAIN files' : Attributed(files'[k])
    BY <2>2, <2>3 DEF Put, AttributionInv
  <2> QED  BY <2>2, <2>3, <2>4 DEF AttributionInv
<1> QED
  BY <1>1, <1>2, <1>3, ExecuteAttribution, CallAttribution, ReturnAttribution,
     ForkAttribution, SwitchAttribution DEF Next

\* The shadow stack of a disciplined guest follows its calls, in every execution state
\* and in every copy.
THEOREM AttributionInvariant ==
  ASSUME GuestMay = {}
  PROVE  Spec => []AttributionInv
<1>1. IInv /\ AttributionInv /\ [Next]_vars => AttributionInv'
  BY NextAttribution
<1> QED  BY <1>1, InitAttribution, Invariant, PTL DEF Spec

\* What AttributionInv says of every trace there is.
LEMMA TracesAttributed ==
  ASSUME IInv, AttributionInv, NEW ti \in AllTraces
  PROVE  Attributed(ti)
BY DEF AllTraces, Traced, LoggerOf, AttributionInv

\* entryToTbs has each block under the function it belongs to: the lifter recovers the
\* functions of the program, for any disciplined program, any number of execution states
\* and any searcher.
THEOREM BlocksAreAttributed ==
  ASSUME GuestMay = {}
  PROVE  Spec => []BlocksBelongToFunction
<1>1. IInv /\ AttributionInv => BlocksBelongToFunction
  BY TracesAttributed DEF BlocksBelongToFunction, Attributed
<1> QED  BY <1>1, Invariant, AttributionInvariant, PTL

\* callerToFollowUp has a block of the calling function, also when the call returned in
\* another execution state than it was made in.
THEOREM FollowUpsAreAttributed ==
  ASSUME GuestMay = {}
  PROVE  Spec => []FollowUpInCaller
<1>1. IInv /\ AttributionInv => FollowUpInCaller
  BY TracesAttributed DEF FollowUpInCaller, Attributed
<1> QED  BY <1>1, Invariant, AttributionInvariant, PTL

\* entryToReturn has a block of the returning function: m_executedBBPc is never stale,
\* nor the garbage it starts with.
THEOREM ReturnsAreAttributed ==
  ASSUME GuestMay = {}
  PROVE  Spec => []ReturnsFromOwnBlock
<1>1. IInv /\ AttributionInv => ReturnsFromOwnBlock
  BY TracesAttributed DEF ReturnsFromOwnBlock, Attributed
<1> QED  BY <1>1, Invariant, AttributionInvariant, PTL

-----------------------------------------------------------------------------
(* When S2E leaves a state only after it exited, FunctionLog's one set of  *)
(* tracing variables implements PerStateTrace, where every state has its   *)
(* own.                                                                    *)

\* The instance's copies of the shared handlers and guest actions.
LEMMA SameHandlers ==
  /\ \A g : PerState!InitialLogger(g) = InitialLogger(g)
  /\ \A l, pc : PerState!OnExecute(l, pc) = OnExecute(l, pc)
  /\ \A l, pc : PerState!OnCall(l, pc) = OnCall(l, pc)
  /\ \A l, c, b : PerState!OnReturn(l, c, b) = OnReturn(l, c, b)
  /\ \A ti : PerState!FinalTrace(ti) = FinalTrace(ti)
<1>1. \A g : PerState!InitialLogger(g) = InitialLogger(g)
  BY DEF PerState!InitialLogger, PerState!InitialTrace, PerState!EmptyTrace, PerState!NoPc,
         PerState!NoSizes, InitialLogger, InitialTrace, EmptyTrace, NoPc, NoSizes
<1>2. \A l, pc : PerState!OnExecute(l, pc) = OnExecute(l, pc)
  BY DEF PerState!OnExecute, PerState!StackAfterExecute, PerState!EntriesAfterExecute,
         PerState!AwaitsEntry, PerState!Top, PerState!NoPc,
         OnExecute, StackAfterExecute, EntriesAfterExecute, AwaitsEntry, Top, NoPc
<1>3. \A l, pc : PerState!OnCall(l, pc) = OnCall(l, pc)
  BY DEF PerState!OnCall, OnCall
<1>4. \A l, c, b : PerState!OnReturn(l, c, b) = OnReturn(l, c, b)
  BY DEF PerState!OnReturn, PerState!Dropped, PerState!Extra, PerState!StackAfterReturn,
         PerState!EntriesAfterReturn, PerState!Top, PerState!Pop, PerState!NoPc,
         OnReturn, Dropped, Extra, StackAfterReturn, EntriesAfterReturn, Top, Pop, NoPc
<1>5. \A ti : PerState!FinalTrace(ti) = FinalTrace(ti)
  BY DEF PerState!FinalTrace, PerState!AwaitsEntry, PerState!Top, PerState!Pop,
         PerState!NoPc, FinalTrace, AwaitsEntry, Top, Pop, NoPc
<1> QED BY <1>1, <1>2, <1>3, <1>4, <1>5

\* The guest's actions are the same formulas in both specifications.
LEMMA SameGuest ==
  /\ PerState!GuestInit <=> GuestInit
  /\ \A pc : PerState!GuestExecute(pc) <=> GuestExecute(pc)
  /\ \A c, b : PerState!GuestCall(c, b) <=> GuestCall(c, b)
  /\ PerState!GuestReturn <=> GuestReturn
  /\ \A k : PerState!GuestUnwind(k) <=> GuestUnwind(k)
  /\ \A n : PerState!GuestFork(n) <=> GuestFork(n)
  /\ PerState!GuestExit <=> GuestExit
  /\ \A n : PerState!GuestSwitch(n) <=> GuestSwitch(n)
<1>1. PerState!GuestInit <=> GuestInit
  BY DEF PerState!GuestInit, PerState!ExecInit, PerState!NoPc, GuestInit, ExecInit, NoPc
<1>2. \A pc : PerState!GuestExecute(pc) <=> GuestExecute(pc)
  BY DEF PerState!GuestExecute, PerState!Running, PerState!InTurn, PerState!InLibrary,
         PerState!Pending, PerState!Innermost, PerState!execVars,
         GuestExecute, Running, InTurn, InLibrary, Pending, Innermost, execVars
<1>3. \A c, b : PerState!GuestCall(c, b) <=> GuestCall(c, b)
  BY DEF PerState!GuestCall, PerState!Running, PerState!CallSites, PerState!InLibrary,
         PerState!Relevant, PerState!Pending, PerState!Innermost, PerState!execVars,
         PerState!NoPc, GuestCall, Running, CallSites, InLibrary, Relevant, Pending,
         Innermost, execVars, NoPc
<1>4. PerState!GuestReturn <=> GuestReturn
  BY DEF PerState!GuestReturn, PerState!Running, PerState!InLibrary, PerState!Pending,
         PerState!Innermost, PerState!execVars, PerState!NoPc,
         GuestReturn, Running, InLibrary, Pending, Innermost, execVars, NoPc
<1>5. \A k : PerState!GuestUnwind(k) <=> GuestUnwind(k)
  BY DEF PerState!GuestUnwind, PerState!Running, PerState!Pending, PerState!execVars,
         PerState!NoPc, GuestUnwind, Running, Pending, execVars, NoPc
<1>6. \A n : PerState!GuestFork(n) <=> GuestFork(n)
  BY DEF PerState!GuestFork, PerState!ExecFork, PerState!Running,
         GuestFork, ExecFork, Running
<1>7. PerState!GuestExit <=> GuestExit
  BY DEF PerState!GuestExit, PerState!ExecExit, PerState!Running, GuestExit, ExecExit, Running
<1>8. \A n : PerState!GuestSwitch(n) <=> GuestSwitch(n)
  BY DEF PerState!GuestSwitch, PerState!ExecSwitch, PerState!Running,
         GuestSwitch, ExecSwitch, Running
<1> QED BY <1>1, <1>2, <1>3, <1>4, <1>5, <1>6, <1>7, <1>8

-----------------------------------------------------------------------------
(* Every state that can be switched to has its copy.                       *)
Complete == NeverAborts /\ CopyAvailable

\* Every live state has its copy initially: only the first is live.
LEMMA InitComplete == Init => Complete
  BY DEF Init, GuestInit, ExecInit, Complete, NeverAborts, CopyAvailable

\* Without preemption every step keeps a copy for each live state.
LEMMA NextComplete ==
  ASSUME ~Preemptive, IInv, Complete, [Next]_vars
  PROVE  Complete'
<1>1. /\ cur \in States
      /\ status \in [States -> {"new", "live", "dead"}]
      /\ DOMAIN saved \subseteq States
  BY DEF IInv, TypeOK, GuestTypeOK, ExecTypeOK, IsPartialMap
<1>2. ASSUME cur' = cur, status' = status, saved' = saved, phase' # "aborted"
      PROVE  Complete'
  BY <1>2 DEF Complete, NeverAborts, CopyAvailable
<1>3. ASSUME NEW pc \in Module, ModuleExecute(pc) PROVE Complete'
  BY <1>2, <1>3 DEF ModuleExecute, GuestExecute, execVars
<1>4. ASSUME NEW caller \in Pc, NEW callee \in Pc, FunctionCall(caller, callee)
      PROVE  Complete'
  BY <1>2, <1>4 DEF FunctionCall, GuestCall, execVars
<1>5. CASE FunctionReturn
  BY <1>2, <1>5 DEF FunctionReturn, GuestReturn, execVars
<1>6. ASSUME NEW k \in 0..MaxDepth, Unwind(k) PROVE Complete'
  BY <1>2, <1>6 DEF Unwind, GuestUnwind, execVars, logVars
<1>7. ASSUME NEW n \in States, NEW newStates \in {{n}, {n, cur}}, StateFork(n, newStates)
      PROVE  Complete'
  <2>1. /\ phase' = "running" /\ cur' = cur
        /\ status' = [status EXCEPT ![n] = "live"]
        /\ saved' = StoreCopies(newStates)
    BY <1>7 DEF StateFork, GuestFork, ExecFork
  <2>2. DOMAIN saved' = DOMAIN saved \cup newStates /\ n \in newStates
    BY <2>1 DEF StoreCopies
  <2> QED BY <1>1, <2>1, <2>2 DEF Complete, NeverAborts, CopyAvailable
<1>8. CASE StateExit
  <2>1. /\ phase' = "running" /\ cur' = cur /\ saved' = saved
        /\ status' = [status EXCEPT ![cur] = "dead"]
    BY <1>8 DEF StateExit, GuestExit, ExecExit, logVars
  <2> QED BY <1>1, <2>1 DEF Complete, NeverAborts, CopyAvailable
<1>9. ASSUME NEW n \in States, StateSwitch(n) PROVE Complete'
  <2>1. /\ status[cur] # "live" /\ status[n] = "live" /\ n # cur
        /\ cur' = n /\ status' = status
    BY <1>9 DEF StateSwitch, GuestSwitch, ExecSwitch, Running
  <2>2. n \in DOMAIN saved
    BY <2>1 DEF Complete, CopyAvailable
  <2>3. phase' = "running" /\ saved' = Erase(saved, {n, cur})
    BY <1>9, <2>2 DEF StateSwitch
  <2>4. DOMAIN saved' = DOMAIN saved \ {n, cur}
    BY <2>3 DEF Erase
  <2> QED BY <2>1, <2>3, <2>4 DEF Complete, NeverAborts, CopyAvailable
<1>10. CASE Shutdown
  BY <1>2, <1>10 DEF Shutdown, guestVars, execVars
<1>11. CASE UNCHANGED vars
  BY <1>2, <1>11 DEF vars, guestVars, execVars, logVars, Complete, NeverAborts
<1> QED BY <1>3, <1>4, <1>5, <1>6, <1>7, <1>8, <1>9, <1>10, <1>11 DEF Next

\* When S2E runs states to completion, the assertion of slotStateSwitch never
\* fails.
THEOREM SwitchNeverAborts ==
  ASSUME ~Preemptive PROVE Spec => [](NeverAborts /\ CopyAvailable)
<1>1. IInv /\ Complete /\ [Next]_vars => Complete'
  BY NextComplete
<1>2. Spec => []Complete
  BY <1>1, InitComplete, Invariant, PTL DEF Spec
<1>3. Complete => NeverAborts /\ CopyAvailable
  BY DEF Complete
<1> QED BY <1>2, <1>3, PTL

-----------------------------------------------------------------------------
(* The refinement.                                                         *)
LEMMA InitRefines == Init => PerState!Init
<1> SUFFICES ASSUME Init PROVE PerState!Init
  OBVIOUS
<1>1. PICK garbage \in Pc \cup {NoPc} : log = InitialLogger(garbage)
  BY DEF Init
<1>2. DOMAIN saved = {} /\ cur = FirstState
  BY DEF Init, GuestInit, ExecInit
<1>3. AbstractLogger = [ s \in States |->
        IF s = FirstState THEN InitialLogger(garbage) ELSE InitialLogger(NoPc) ]
  BY <1>1, <1>2 DEF AbstractLogger
<1>4. files = [s \in {} |-> PerState!EmptyTrace] /\ phase = "running"
  BY DEF Init
<1>5. PerState!GuestInit
  BY SameGuest DEF Init
<1> QED BY <1>1, <1>3, <1>4, <1>5, SameHandlers
        DEF PerState!Init, PerState!Unused, PerState!NoPc, NoPc

\* A step of the running state's handlers changes that state's variables only.
LEMMA HandlerLogger ==
  ASSUME cur \in States, cur' = cur, saved' = saved
  PROVE  AbstractLogger[cur] = log /\ AbstractLogger' = [AbstractLogger EXCEPT ![cur] = log']
  BY DEF AbstractLogger

\* Every step of FunctionLog maps to a step of PerStateTrace or a stutter.
LEMMA NextRefines ==
  ASSUME ~Preemptive, IInv, Complete, [Next]_vars
  PROVE  [PerState!Next]_(PerState!vars)
<1>1. /\ cur \in States
      /\ log \in Logger
      /\ saved \in [DOMAIN saved -> Logger]
      /\ DOMAIN saved \subseteq States
  BY DEF IInv, TypeOK, GuestTypeOK, ExecTypeOK, IsPartialMap
<1>2. ASSUME NEW pc \in Module, ModuleExecute(pc) PROVE PerState!ModuleExecute(pc)
  <2>1. cur' = cur /\ saved' = saved
    BY <1>2 DEF ModuleExecute, GuestExecute, execVars
  <2> QED BY <1>1, <1>2, <2>1, HandlerLogger, SameHandlers, SameGuest
          DEF ModuleExecute, PerState!ModuleExecute, PerState!Log
<1>3. ASSUME NEW caller \in Pc, NEW callee \in Pc, FunctionCall(caller, callee)
      PROVE  PerState!FunctionCall(caller, callee)
  <2>1. cur' = cur /\ saved' = saved
    BY <1>3 DEF FunctionCall, GuestCall, execVars
  <2> QED BY <1>1, <1>3, <2>1, HandlerLogger, SameHandlers, SameGuest
          DEF FunctionCall, PerState!FunctionCall, PerState!Log
<1>4. ASSUME FunctionReturn PROVE PerState!FunctionReturn
  <2>1. cur' = cur /\ saved' = saved
    BY <1>4 DEF FunctionReturn, GuestReturn, execVars
  <2> QED BY <1>1, <1>4, <2>1, HandlerLogger, SameHandlers, SameGuest
          DEF FunctionReturn, PerState!FunctionReturn, PerState!Log,
              Innermost, Pending, PerState!Innermost, PerState!Pending
<1>5. ASSUME NEW k \in 0..MaxDepth, Unwind(k) PROVE PerState!Unwind(k)
  <2>1. cur' = cur /\ saved' = saved /\ log' = log
    BY <1>5 DEF Unwind, GuestUnwind, execVars, logVars
  <2>2. AbstractLogger' = AbstractLogger
    BY <2>1 DEF AbstractLogger
  <2> QED BY <1>5, <2>2, SameGuest
          DEF Unwind, PerState!Unwind, logVars, PerState!traceVars
<1>6. ASSUME NEW n \in States, NEW newStates \in {{n}, {n, cur}}, StateFork(n, newStates)
      PROVE  PerState!StateFork(n)
  <2>1. /\ cur' = cur /\ log' = log
        /\ saved' = StoreCopies(newStates)
        /\ status[n] = "new"
    BY <1>6 DEF StateFork, GuestFork, ExecFork
  <2>2. n # cur /\ n \notin DOMAIN saved
    BY <2>1 DEF IInv
  <2>3. /\ DOMAIN saved' = DOMAIN saved \cup newStates
        /\ \A s \in DOMAIN saved : saved'[s] = saved[s]
        /\ saved'[n] = log
    BY <1>1, <2>1, <2>2, CopyLogger DEF StoreCopies
  <2>4. AbstractLogger' = [AbstractLogger EXCEPT ![n] = AbstractLogger[cur]]
    BY <1>1, <2>1, <2>2, <2>3 DEF AbstractLogger
  <2> QED BY <1>6, <2>4, SameGuest DEF StateFork, PerState!StateFork
<1>7. ASSUME StateExit PROVE PerState!StateExit
  <2>1. cur' = cur /\ saved' = saved /\ log' = log
    BY <1>7 DEF StateExit, GuestExit, ExecExit, logVars
  <2>2. AbstractLogger' = AbstractLogger
    BY <2>1 DEF AbstractLogger
  <2> QED BY <1>7, <2>2, SameGuest
          DEF StateExit, PerState!StateExit, logVars, PerState!traceVars
<1>8. ASSUME NEW n \in States, StateSwitch(n) PROVE PerState!StateSwitch(n)
  <2>1. status[n] = "live" /\ n # cur /\ cur' = n
    BY <1>8 DEF StateSwitch, GuestSwitch, ExecSwitch
  <2>2. n \in DOMAIN saved
    BY <2>1 DEF Complete, CopyAvailable
  <2>3. /\ log' = Restore(saved[n])
        /\ saved' = Erase(saved, {n, cur})
        /\ phase' = phase
        /\ files' = Put(files, cur, log.ti)
    BY <1>8, <2>2 DEF StateSwitch
  <2>4. log' = saved[n]
    BY <1>1, <2>2, <2>3, CopyLogger
  <2>5. /\ DOMAIN saved' = DOMAIN saved \ {n, cur}
        /\ \A s \in DOMAIN saved' : saved'[s] = saved[s]
    BY <2>3 DEF Erase
  <2>6. AbstractLogger' = [AbstractLogger EXCEPT ![cur] = InitialLogger(NoPc)]
    BY <1>1, <2>1, <2>2, <2>4, <2>5 DEF AbstractLogger
  <2>7. AbstractLogger[cur] = log
    BY <1>1 DEF AbstractLogger
  <2>8. files' = PerState!Publish(cur, AbstractLogger[cur].ti)
    BY <2>3, <2>7 DEF Put, PerState!Publish
  <2>9. PerState!Unused = InitialLogger(NoPc)
    BY SameHandlers DEF PerState!Unused, PerState!NoPc, NoPc
  <2> QED BY <1>8, <2>3, <2>6, <2>8, <2>9, SameGuest DEF StateSwitch, PerState!StateSwitch
<1>9. ASSUME Shutdown PROVE PerState!Shutdown
  <2>1. cur' = cur /\ saved' = saved
    BY <1>9 DEF Shutdown, guestVars, execVars
  <2>2. AbstractLogger[cur] = log /\ AbstractLogger' = [AbstractLogger EXCEPT ![cur] = log']
    BY <1>1, <2>1, HandlerLogger
  <2>3. files' = PerState!Publish(PerState!Final, FinalTrace(log.ti))
    BY <1>9 DEF Shutdown, Put, Final, PerState!Publish, PerState!Final
  <2> QED BY <1>9, <2>2, <2>3, SameHandlers
          DEF Shutdown, PerState!Shutdown, PerState!Log, guestVars, execVars,
              PerState!guestVars, PerState!execVars
<1>10. ASSUME UNCHANGED vars PROVE UNCHANGED PerState!vars
  <2>1. cur' = cur /\ saved' = saved /\ log' = log
    BY <1>10 DEF vars, guestVars, execVars, logVars
  <2>2. AbstractLogger' = AbstractLogger
    BY <2>1 DEF AbstractLogger
  <2> QED BY <1>10, <2>2 DEF vars, guestVars, execVars, logVars, PerState!vars,
          PerState!guestVars, PerState!execVars, PerState!traceVars
<1> QED BY <1>2, <1>3, <1>4, <1>5, <1>6, <1>7, <1>8, <1>9, <1>10 DEF Next, PerState!Next

\* FunctionLog implements PerStateTrace: with states run to completion, each
\* state's trace is that of its own execution, from any number of forks.
THEOREM Refinement ==
  ASSUME ~Preemptive PROVE Spec => TracesIsolated
<1>1. IInv /\ Complete /\ [Next]_vars => Complete'
  BY NextComplete
<1>2. IInv /\ Complete /\ [Next]_vars => [PerState!Next]_(PerState!vars)
  BY NextRefines
<1> QED BY <1>1, <1>2, InitComplete, InitRefines, Invariant, PTL
        DEF Spec, TracesIsolated, PerState!Spec
=============================================================================
