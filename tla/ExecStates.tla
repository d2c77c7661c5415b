----------------------------- MODULE ExecStates -----------------------------
(***************************************************************************)
(* S2E's execution states, as the tracing plugins see them through         *)
(* onStateFork and onStateSwitch: states fork, one of them runs, they      *)
(* exit, and S2E switches to another.  External code, modelled from how    *)
(* binrec_plugins uses it.                                                 *)
(***************************************************************************)
EXTENDS Integers

CONSTANTS
  States,      \* ids of the execution states
  FirstState,  \* the id of the initial one
  Preemptive   \* the searcher may leave a state that has not exited

ASSUME StatesAssumption ==
  /\ States \subseteq Nat
  /\ FirstState \in States
  /\ Preemptive \in BOOLEAN

VARIABLES
  cur,    \* the running state
  status  \* of each state: not created, alive or exited

execVars == <<cur, status>>

ExecTypeOK ==
  /\ cur \in States
  /\ status \in [States -> {"new", "live", "dead"}]

ExecInit ==
  /\ cur = FirstState
  /\ status = [s \in States |-> IF s = FirstState THEN "live" ELSE "new"]

Running == status[cur] = "live"

ExecFork(n) ==
  /\ Running
  /\ status[n] = "new"
  /\ status' = [status EXCEPT ![n] = "live"]
  /\ UNCHANGED cur

ExecExit ==
  /\ Running
  /\ status' = [status EXCEPT ![cur] = "dead"]
  /\ UNCHANGED cur

ExecSwitch(n) ==
  /\ n # cur
  /\ status[n] = "live"
  /\ Running => Preemptive
  /\ cur' = n
  /\ UNCHANGED status
=============================================================================
