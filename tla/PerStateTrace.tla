---------------------------- MODULE PerStateTrace ----------------------------
(***************************************************************************)
(* What FunctionLog promises: every execution state has tracing variables  *)
(* of its own.  They start as a copy of the forking state's, only the      *)
(* state's own execution changes them, and when S2E leaves the state for   *)
(* another its trace is written.                                           *)
(***************************************************************************)
EXTENDS LogHandlers, GuestStates

CONSTANTS MaxEntries, MaxStack

VARIABLES
  logger,  \* of each state: its tracing variables
  files,   \* the traces written, by state id; Final for the last one
  phase

traceVars == <<logger, files, phase>>
vars == <<guestVars, traceVars>>

Final == -1

Unused == InitialLogger(NoPc)

Publish(key, ti) == [k \in DOMAIN files \cup {key} |-> IF k = key THEN ti ELSE files[k]]

Init ==
  /\ GuestInit
  /\ \E garbage \in Pc \cup {NoPc} :
       logger = [s \in States |-> IF s = FirstState THEN InitialLogger(garbage) ELSE Unused]
  /\ files = [s \in {} |-> EmptyTrace]
  /\ phase = "running"

Log(l) == logger' = [logger EXCEPT ![cur] = l]

ModuleExecute(pc) ==
  /\ phase = "running"
  /\ Len(logger[cur].callStack) < MaxStack
  /\ GuestExecute(pc)
  /\ Log(OnExecute(logger[cur], pc))
  /\ UNCHANGED <<files, phase>>

FunctionCall(caller, callee) ==
  /\ phase = "running"
  /\ Len(logger[cur].callStack) < MaxStack
  /\ GuestCall(caller, callee)
  /\ Log(OnCall(logger[cur], callee))
  /\ UNCHANGED <<files, phase>>

FunctionReturn ==
  /\ phase = "running"
  /\ Len(logger[cur].ti.entries) < MaxEntries
  /\ GuestReturn
  /\ Log(OnReturn(logger[cur], Innermost.caller, Innermost.callee))
  /\ UNCHANGED <<files, phase>>

Unwind(k) ==
  /\ phase = "running"
  /\ GuestUnwind(k)
  /\ UNCHANGED traceVars

StateFork(n) ==
  /\ phase = "running"
  /\ GuestFork(n)
  /\ logger' = [logger EXCEPT ![n] = logger[cur]]
  /\ UNCHANGED <<files, phase>>

StateExit ==
  /\ phase = "running"
  /\ GuestExit
  /\ UNCHANGED traceVars

\* The variables of the state left behind are of no further use.
StateSwitch(n) ==
  /\ phase = "running"
  /\ GuestSwitch(n)
  /\ files' = Publish(cur, logger[cur].ti)
  /\ logger' = [logger EXCEPT ![cur] = Unused]
  /\ UNCHANGED phase

Shutdown ==
  /\ phase = "running"
  /\ Log([logger[cur] EXCEPT !.ti = FinalTrace(@)])
  /\ files' = Publish(Final, FinalTrace(logger[cur].ti))
  /\ phase' = "done"
  /\ UNCHANGED guestVars

Next ==
  \/ \E pc \in Module : ModuleExecute(pc)
  \/ \E caller, callee \in Pc : FunctionCall(caller, callee)
  \/ FunctionReturn
  \/ \E k \in 0..MaxDepth : Unwind(k)
  \/ \E n \in States : StateFork(n)
  \/ StateExit
  \/ \E n \in States : StateSwitch(n)
  \/ Shutdown

Spec == Init /\ [][Next]_vars
=============================================================================
