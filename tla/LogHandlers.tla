----------------------------- MODULE LogHandlers -----------------------------
(***************************************************************************)
(* What the signal handlers of the FunctionLog plugin do to the tracing    *)
(* variables of the running S2E state: the trace ti, the shadow call stack *)
(* m_callStack, the last block executed and the caller awaiting its        *)
(* follow-up block.  Each handler is a function of those four.             *)
(***************************************************************************)
EXTENDS TraceInfo

Logger ==
  [ ti           : TraceInfoRecord,
    callStack    : Seq(Pc),
    executedBBPc : Pc \cup {NoPc},
    callerPc     : Pc \cup {NoPc} ]

\* FunctionLog::initialize pushes the placeholder of the first entry point.
InitialTrace == [EmptyTrace EXCEPT !.entries = <<NoPc>>]

InitialLogger(executed) ==
  [ ti |-> InitialTrace, callStack |-> <<>>,
    executedBBPc |-> executed, callerPc |-> NoPc ]

Top(stack) == stack[Len(stack)]
Pop(stack) == SubSeq(stack, 1, Len(stack) - 1)

\* The last entry point is still the placeholder.
AwaitsEntry(ti) == Top(ti.entries) = NoPc

(* FunctionLog::slotModuleExecute.  The first block after a placeholder    *)
(* becomes an entry point and the bottom of a new shadow stack segment.    *)
EntriesAfterExecute(ti, pc) ==
  IF AwaitsEntry(ti) THEN [ti.entries EXCEPT ![Len(ti.entries)] = pc] ELSE ti.entries

\* Defect: the entry is pushed before the placeholder is replaced.
StackAfterExecute_TooEarly(l, pc) ==
  IF AwaitsEntry(l.ti) THEN Append(l.callStack, Top(l.ti.entries)) ELSE l.callStack

StackAfterExecute(l, pc) ==
  IF AwaitsEntry(l.ti) THEN Append(l.callStack, pc) ELSE l.callStack

\* Defect: the caller awaiting its follow-up block is not cleared.
OnExecute_CallerKept(l, pc) ==
  LET stack == StackAfterExecute(l, pc)
      newTi == [ l.ti EXCEPT
        !.entries          = EntriesAfterExecute(l.ti, pc),
        !.entryToTbs       = @ \cup {<<Top(stack), pc>>},
        !.callerToFollowUp = IF l.callerPc # NoPc THEN @ \cup {<<l.callerPc, pc>>} ELSE @ ]
  IN  [l EXCEPT !.ti = newTi, !.callStack = stack, !.executedBBPc = pc]

\* Defect: the last block is recorded only when a call awaits its follow-up.
OnExecute_BlockStale(l, pc) ==
  LET stack == StackAfterExecute(l, pc)
      newTi == [ l.ti EXCEPT
        !.entries    = EntriesAfterExecute(l.ti, pc),
        !.entryToTbs = @ \cup {<<Top(stack), pc>>} ]
  IN  [ ti |-> newTi, callStack |-> stack, callerPc |-> NoPc,
        executedBBPc |-> IF l.callerPc # NoPc THEN pc ELSE l.executedBBPc ]

OnExecute(l, pc) ==
  LET stack  == StackAfterExecute(l, pc)
      inside == stack # <<>>
      newTi  == [ l.ti EXCEPT
        !.entries          = EntriesAfterExecute(l.ti, pc),
        !.entryToTbs       = IF inside THEN @ \cup {<<Top(stack), pc>>} ELSE @,
        !.callerToFollowUp =
           IF inside /\ l.callerPc # NoPc THEN @ \cup {<<l.callerPc, pc>>} ELSE @ ]
  IN  [ ti           |-> newTi,
        callStack    |-> stack,
        executedBBPc |-> pc,
        callerPc     |-> IF inside THEN NoPc ELSE l.callerPc ]

(* FunctionLog::onFunctionCall, for a call into or out of the module.      *)
OnCall(l, calleePc) == [l EXCEPT !.callStack = Append(l.callStack, calleePc)]

(* FunctionLog::onFunctionReturn.  The shadow stack may hold one frame too *)
(* many above the function that returns; with more, the return is dropped. *)
Extra(stack, begin) ==
  /\ Len(stack) > 1
  /\ Top(stack) # begin
  /\ Top(Pop(stack)) = begin

Dropped(stack, begin) ==
  /\ Len(stack) > 1
  /\ Top(stack) # begin
  /\ Top(Pop(stack)) # begin

\* Defect: the second frame is looked at first.
StackAfterReturn_SecondFirst(stack, begin) ==
  IF Len(stack) > 1 /\ Top(Pop(stack)) = begin THEN Pop(Pop(stack))
  ELSE IF Top(stack) = begin THEN Pop(stack) ELSE stack

\* Defect: the frame of the function that returns stays.
StackAfterReturn_NotPopped(stack, begin) ==
  IF Extra(stack, begin) THEN Pop(stack) ELSE stack

StackAfterReturn(stack, begin) ==
  CASE Top(stack) = begin                     -> Pop(stack)
    [] Top(stack) # begin /\ Len(stack) = 1   -> stack
    [] Extra(stack, begin)                    -> Pop(Pop(stack))
    [] Dropped(stack, begin)                  -> stack

EntriesAfterReturn(ti, begin) ==
  IF begin = Top(ti.entries) THEN Append(ti.entries, NoPc) ELSE ti.entries

OnReturn(l, caller, begin) ==
  IF Dropped(l.callStack, begin)
  THEN l
  ELSE [ ti           |-> [ l.ti EXCEPT
           !.entries       = EntriesAfterReturn(l.ti, begin),
           !.entryToCaller = @ \cup {<<begin, caller>>},
           !.entryToReturn = @ \cup {<<begin, l.executedBBPc>>} ],
         callStack    |-> StackAfterReturn(l.callStack, begin),
         executedBBPc |-> l.executedBBPc,
         callerPc     |-> caller ]

\* Defect: the placeholder is written out.
FinalTrace_Unchanged(ti) == ti

\* ~FunctionLog drops the placeholder of an entry point that never came.
FinalTrace(ti) == IF AwaitsEntry(ti) THEN [ti EXCEPT !.entries = Pop(@)] ELSE ti

-----------------------------------------------------------------------------
\* The shape of the list of entry points that the handlers rely on.
PlaceholderLast(ti) ==
  /\ ti.entries # <<>>
  /\ \A i \in 1..Len(ti.entries) - 1 : ti.entries[i] # NoPc
=============================================================================
