----------------------------- MODULE FunctionLog -----------------------------
(***************************************************************************)
(* The FunctionLog plugin (binrec_plugins/FunctionLog.cpp).  One set of    *)
(* tracing variables, log, serves whichever execution state runs; a fork   *)
(* stores a copy of it for each new state, a switch publishes the trace of *)
(* the state it leaves and restores the copy of the state it enters.       *)
(***************************************************************************)
EXTENDS LogHandlers, GuestStates

CONSTANTS
  MaxEntries,  \* bound on recorded entry points
  MaxStack     \* bound on the shadow call stack

ASSUME LogBoundsAssumption == MaxEntries \in Nat /\ MaxStack \in Nat

VARIABLES
  log,    \* ti, m_callStack, m_executedBBPc and m_callerPc
  saved,  \* the four m_*ByState maps, which always have the same keys
  files,  \* traceInfo_<id>.json, and traceInfo.json under Final
  phase   \* "running", "aborted" (failed assertion) or "done"

logVars == <<log, saved, files, phase>>
vars == <<guestVars, logVars>>

\* saveTraceInfo(-1) writes the file without a number.
Final == -1

IsPartialMap(m, keys, values) == DOMAIN m \subseteq keys /\ m \in [DOMAIN m -> values]

TypeOK ==
  /\ GuestTypeOK
  /\ log \in Logger
  /\ IsPartialMap(saved, States, Logger)
  /\ IsPartialMap(files, States \cup {Final}, TraceInfoRecord)
  /\ phase \in {"running", "aborted", "done"}

-----------------------------------------------------------------------------
\* The map m with key k holding v, whatever it held before.
Put(m, k, v) == [key \in DOMAIN m \cup {k} |-> IF key = k THEN v ELSE m[key]]

\* std::map::erase of a set of keys.
Erase(m, keys) == [k \in DOMAIN m \ keys |-> m[k]]

\* m_executedBBPc has no initialiser: it starts with any value.
Init ==
  /\ GuestInit
  /\ \E garbage \in Pc \cup {NoPc} : log = InitialLogger(garbage)
  /\ saved = [s \in {} |-> log]
  /\ files = [s \in {} |-> EmptyTrace]
  /\ phase = "running"

ModuleExecute(pc) ==
  /\ phase = "running"
  /\ Len(log.callStack) < MaxStack
  /\ GuestExecute(pc)
  /\ log' = OnExecute(log, pc)
  /\ UNCHANGED <<saved, files, phase>>

FunctionCall(caller, callee) ==
  /\ phase = "running"
  /\ Len(log.callStack) < MaxStack
  /\ GuestCall(caller, callee)
  /\ log' = OnCall(log, callee)
  /\ UNCHANGED <<saved, files, phase>>

FunctionReturn ==
  /\ phase = "running"
  /\ Len(log.ti.entries) < MaxEntries
  /\ GuestReturn
  /\ log' = OnReturn(log, Innermost.caller, Innermost.callee)
  /\ UNCHANGED <<saved, files, phase>>

Unwind(k) ==
  /\ phase = "running"
  /\ GuestUnwind(k)
  /\ UNCHANGED logVars

(* FunctionLog::slotStateFork.  S2E reports the new state, and on some     *)
(* forks the forking state with it; emplace keeps a copy already stored.   *)
Copy(l) == [l EXCEPT !.ti = GetCopy(l.ti)]

\* Defect: the copy is stored under the id of the forking state.
StoreCopies_WrongId(newStates) ==
  [s \in DOMAIN saved \cup {cur} |-> IF s \in DOMAIN saved THEN saved[s] ELSE Copy(log)]

StoreCopies(newStates) ==
  [ s \in DOMAIN saved \cup newStates |->
      IF s \in DOMAIN saved THEN saved[s] ELSE Copy(log) ]

StateFork(n, newStates) ==
  /\ phase = "running"
  /\ GuestFork(n)
  /\ saved' = StoreCopies(newStates)
  /\ UNCHANGED <<log, files, phase>>

StateExit ==
  /\ phase = "running"
  /\ GuestExit
  /\ UNCHANGED logVars

(* FunctionLog::slotStateSwitch.                                           *)
\* Defect: m_callerPc stays that of the state left behind.
Restore_CallerForgotten(l) ==
  [l EXCEPT !.ti = RestoreFromCopy(l.ti), !.callerPc = log.callerPc]

Restore(l) == [l EXCEPT !.ti = RestoreFromCopy(l.ti)]

StateSwitch(n) ==
  /\ phase = "running"
  /\ GuestSwitch(n)
  /\ files' = Put(files, cur, log.ti)
  /\ IF n \in DOMAIN saved
     THEN /\ log' = Restore(saved[n])
          /\ saved' = Erase(saved, {n, cur})
          /\ UNCHANGED phase
     ELSE /\ phase' = "aborted"
          /\ UNCHANGED <<log, saved>>

(* ~FunctionLog, at the end of the analysis or when it is interrupted.     *)
Shutdown ==
  /\ phase = "running"
  /\ log' = [log EXCEPT !.ti = FinalTrace(log.ti)]
  /\ files' = Put(files, Final, FinalTrace(log.ti))
  /\ phase' = "done"
  /\ UNCHANGED <<guestVars, saved>>

Next ==
  \/ \E pc \in Module : ModuleExecute(pc)
  \/ \E caller, callee \in Pc : FunctionCall(caller, callee)
  \/ FunctionReturn
  \/ \E k \in 0..MaxDepth : Unwind(k)
  \/ \E n \in States : \E newStates \in {{n}, {n, cur}} : StateFork(n, newStates)
  \/ StateExit
  \/ \E n \in States : StateSwitch(n)
  \/ Shutdown

Spec == Init /\ [][Next]_vars

-----------------------------------------------------------------------------
(* Properties.                                                             *)

\* The tracing variables of a state that may still run.
LoggerOf(s) == IF s = cur THEN log ELSE saved[s]

Traced == {s \in States : status[s] # "new" /\ (s = cur \/ s \in DOMAIN saved)}

\* The pending calls occur, in order, among the frames of the shadow stack.
Embeds(calls, stack) ==
  \E at \in [1..Len(calls) -> 1..Len(stack)] :
    /\ \A i, j \in 1..Len(calls) : i < j => at[i] < at[j]
    /\ \A i \in 1..Len(calls) : stack[at[i]] = calls[i].callee

\* m_callStack.top() in onFunctionReturn is never taken of an empty stack:
\* while the running state has a return signal pending, the shadow stack has
\* a frame, whatever returns were dropped, mismatched or unwound before and
\* whichever copy of the stack a state switch brought back.
ReturnFindsFrame == phase = "running" /\ Pending # <<>> => log.callStack # <<>>

\* What makes ReturnFindsFrame inductive, in the running state and in every
\* stored copy: no pending call lost its frame of the shadow stack, although a
\* return that does not match the top may pop two frames.
FramesKept ==
  phase = "running" => \A s \in Traced : Embeds(frames[s], LoggerOf(s).callStack)

\* The placeholder 0 is only ever the last of the recorded entry points, so the
\* final pop_back of ~FunctionLog is enough to keep it out of traceInfo.json,
\* and the list is never empty when a handler takes back() of it.
EntriesWellFormed ==
  phase # "done" => \A s \in Traced : PlaceholderLast(LoggerOf(s).ti)

\* traceInfo.json never lists the placeholder as an entry point: the lifter
\* would look up the function at address 0.
FinalEntriesReal ==
  Final \in DOMAIN files =>
    \A i \in 1..Len(files[Final].entries) : files[Final].entries[i] # NoPc

\* Every execution state that S2E may switch to has its copy of the tracing
\* variables, as the assertion of slotStateSwitch demands.
CopyAvailable == \A s \in States : status[s] = "live" /\ s # cur => s \in DOMAIN saved

\* The assertion " Could not restore traceinfo state!" never fails.
NeverAborts == phase # "aborted"

AllTraces == {LoggerOf(s).ti : s \in Traced} \cup {files[k] : k \in DOMAIN files}

\* Each block is recorded under the function it belongs to: entryToTbs is what
\* the lifter recovers functions from.
BlocksBelongToFunction ==
  \A ti \in AllTraces : \A e \in ti.entryToTbs : Owner[e[2]] = e[1]

\* The block recorded as following a call is in the function that made it.
FollowUpInCaller ==
  \A ti \in AllTraces : \A c \in ti.callerToFollowUp :
    c[1] \in Module => Owner[c[1]] = Owner[c[2]]

\* The block recorded as the last one of a function is in that function.
ReturnsFromOwnBlock ==
  \A ti \in AllTraces : \A r \in ti.entryToReturn :
    r[1] \in Module => r[2] \in Module /\ Owner[r[2]] = r[1]

\* One set of variables that is swapped at forks and switches behaves as if
\* every state had its own.
AbstractLogger ==
  [ s \in States |->
      CASE s = cur                            -> log
        [] s # cur /\ s \in DOMAIN saved      -> saved[s]
        [] s # cur /\ s \notin DOMAIN saved   -> InitialLogger(NoPc) ]

PerState == INSTANCE PerStateTrace WITH logger <- AbstractLogger

TracesIsolated == PerState!Spec
=============================================================================
