----------------------------- MODULE GuestStates -----------------------------
(***************************************************************************)
(* The guest program in each execution state, seen through S2E's           *)
(* FunctionMonitor.  External code, modelled from how FunctionLog.cpp uses *)
(* it: a call that concerns the traced module gets a return signal that    *)
(* FunctionLog connects to; frames[s] are the calls of state s whose       *)
(* return signal is still pending.                                         *)
(***************************************************************************)
EXTENDS TraceInfo, ExecStates

CONSTANTS
  Module,      \* the addresses of the traced binary; the others are libraries
  Owner,       \* the function (its first block) each block of Module is in
  GuestMay,    \* what an undisciplined guest does, a subset of GuestLicence
  MaxDepth     \* bound on pending calls

GuestLicence == {"longjmp", "jump", "reenter"}

ASSUME GuestAssumption ==
  /\ Module \subseteq Pc
  /\ Owner \in [Module -> Module]
  /\ GuestMay \subseteq GuestLicence
  /\ MaxDepth \in Nat

VARIABLES
  frames,  \* of each state: its pending calls, innermost last
  block    \* of each state: the block of Module it is at the end of, or NoPc
           \* when it has not run one since the last call or return

guestVars == <<execVars, frames, block>>

Frame == [caller : Pc, callee : Pc, entered : BOOLEAN]

GuestTypeOK ==
  /\ ExecTypeOK
  /\ frames \in [States -> Seq(Frame)]
  /\ block \in [States -> Module \cup {NoPc}]

GuestInit ==
  /\ ExecInit
  /\ frames = [s \in States |-> <<>>]
  /\ block = [s \in States |-> NoPc]

-----------------------------------------------------------------------------
Pending == frames[cur]
Innermost == Pending[Len(Pending)]

\* The guest is in a library (or the loader) rather than in the module.
InLibrary == Pending = <<>> \/ Innermost.callee \notin Module

\* A disciplined guest runs the blocks of the innermost function, its first
\* block first.
InTurn(pc) ==
  /\ ~InLibrary
  /\ Owner[pc] = Innermost.callee
  /\ Innermost.entered \/ pc = Innermost.callee

GuestExecute(pc) ==
  /\ Running
  /\ pc \in Module
  /\ "jump" \notin GuestMay => InTurn(pc)
  /\ block' = [block EXCEPT ![cur] = pc]
  /\ frames' = IF Pending = <<>> THEN frames
               ELSE [frames EXCEPT ![cur][Len(Pending)].entered = TRUE]
  /\ UNCHANGED execVars

\* The module filter of FunctionLog::onFunctionCall; for any other call the
\* plugin connects to nothing and no state changes.
Relevant(caller, callee) == caller \in Module \/ callee \in Module

\* Where a call can come from: the block that just ran, or a library.
CallSites == {block[cur]} \cup (IF InLibrary THEN Pc \ Module ELSE {})

GuestCall(caller, callee) ==
  /\ Running
  /\ Len(Pending) < MaxDepth
  /\ caller \in CallSites \ {NoPc}
  /\ Relevant(caller, callee)
  /\ callee \in Module => Owner[callee] = callee
  /\ Pending # <<>> /\ "reenter" \notin GuestMay => callee # Pending[1].callee
  /\ frames' = [frames EXCEPT ![cur] =
       Append(@, [caller |-> caller, callee |-> callee, entered |-> FALSE])]
  /\ block' = [block EXCEPT ![cur] = NoPc]
  /\ UNCHANGED execVars

GuestReturn ==
  /\ Running
  /\ Pending # <<>>
  /\ ~InLibrary => block[cur] # NoPc
  /\ frames' = [frames EXCEPT ![cur] = SubSeq(@, 1, Len(@) - 1)]
  /\ block' = [block EXCEPT ![cur] = NoPc]
  /\ UNCHANGED execVars

\* longjmp abandons the frames above the k-th without their return signal.
GuestUnwind(k) ==
  /\ Running
  /\ "longjmp" \in GuestMay
  /\ k < Len(Pending)
  /\ frames' = [frames EXCEPT ![cur] = SubSeq(@, 1, k)]
  /\ block' = [block EXCEPT ![cur] = NoPc]
  /\ UNCHANGED execVars

\* A fork clones the plugin state that FunctionMonitor keeps per state.
GuestFork(n) ==
  /\ ExecFork(n)
  /\ frames' = [frames EXCEPT ![n] = frames[cur]]
  /\ block' = [block EXCEPT ![n] = block[cur]]

GuestExit == ExecExit /\ UNCHANGED <<frames, block>>

GuestSwitch(n) == ExecSwitch(n) /\ UNCHANGED <<frames, block>>
=============================================================================
