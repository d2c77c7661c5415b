------------------------------ MODULE CallStack ------------------------------
(***************************************************************************)
(* The call stack of the trace library: live stack frames, the map by      *)
(* which the frame of an address is found, and the stack pointer and frame *)
(* pointer offsets recorded per function and call site                     *)
(* (binrec_traceinfo/src/call_stack.cpp, stack_frame.cpp).                 *)
(*                                                                         *)
(* The library is built with assertions, so one that fails ends the run.   *)
(* The guest reports every call, return and update; a stack grows down.    *)
(***************************************************************************)
EXTENDS Integers, Sequences, FiniteSets

CONSTANTS
  Functions,    \* FunctionAddress
  Instructions, \* InstructionAddress of calls and updates, but 0
  Addresses,    \* StackAddress, but 0
  MaxDepth,     \* bound on live frames
  MaxRecorded   \* bound on recorded offsets

ASSUME CallStackAssumption ==
  /\ 0 \notin Instructions
  /\ Addresses \subseteq Nat \ {0}
  /\ MaxDepth \in Nat
  /\ MaxRecorded \in Nat

VARIABLES
  stackBase,  \* the first stack pointer outside all functions, 0 if none
  chain,      \* topFrame and its parents, topFrame last
  active,     \* the keys of activeFrames
  frames,     \* the recorded StackFrames by Id
  aborted     \* an assertion failed

vars == <<stackBase, chain, active, frames, aborted>>

Id == Functions \X Instructions
NoFrame == <<>>

FrameSizeUpdate == Instructions \X Int

\* frame is the Id of the StackFrame, nullptr for the frame below all functions.
LiveStackFrame ==
  [frame : Id \cup {NoFrame}, base : Addresses \cup {0}, top : Addresses \cup {0},
   inCallAt : Instructions \cup {0}]

TypeOK ==
  /\ stackBase \in Addresses \cup {0}
  /\ chain \in Seq(LiveStackFrame)
  /\ active \in SUBSET Addresses
  /\ DOMAIN frames \subseteq Id
  /\ \A id \in DOMAIN frames :
       frames[id] \in [sp : SUBSET FrameSizeUpdate, fp : SUBSET FrameSizeUpdate]
  /\ aborted \in BOOLEAN

NewLive(id, base) == [frame |-> id, base |-> base, top |-> base, inCallAt |-> 0]

Init ==
  /\ stackBase = 0
  /\ chain = <<NewLive(NoFrame, 0)>>
  /\ active = {}
  /\ frames = [id \in {} |-> 0]
  /\ aborted = FALSE

Top == chain[Len(chain)]
Below == SubSeq(chain, 1, Len(chain) - 1)
Parent == chain[Len(chain) - 1]
InFunction == Top.frame # NoFrame

Bases == {chain[i].base : i \in 2..Len(chain)}

\* Entries of activeFrames whose frame has been freed.
Stale == active \ Bases

-----------------------------------------------------------------------------
(* What the guest does.  A call finds the stack pointer inside the caller's *)
(* frame; how a function uses the stack pointer otherwise is its own        *)
(* business.                                                                *)

Calling(callSite) == [Top EXCEPT !.inCallAt = callSite]
PointingTo(value) == [Top EXCEPT !.top = value]

\* The StackFrame of an Id is made by the first call that has it.
WithFrame(id) ==
  [i \in DOMAIN frames \cup {id} |->
     IF i \in DOMAIN frames THEN frames[i] ELSE [sp |-> {}, fp |-> {}]]

\* Defect: only frames that are live count.
Refused_ByLive(top) == \E base \in Bases : base <= top

\* A frame that is active must not begin at or below the new one.
Refused(top) == \E base \in active : base <= top

recordCall ==
  /\ ~aborted
  /\ Len(chain) <= MaxDepth
  /\ \E target \in Functions, callSite \in Instructions, top \in Addresses :
       /\ InFunction => top < Top.base
       /\ IF Refused(top)
          THEN aborted' = TRUE /\ UNCHANGED <<chain, active, frames>>
          ELSE /\ frames' = WithFrame(<<target, callSite>>)
               /\ chain' = Append(Append(Below, Calling(callSite)), NewLive(<<target, callSite>>, top))
               /\ active' = active \cup {top}
               /\ UNCHANGED aborted
  /\ UNCHANGED stackBase

\* The caller goes on.
AfterReturn(below) == [below EXCEPT ![Len(below)].inCallAt = 0]

\* Defect: the entry is looked up by the stack pointer.
Erased_ByTop == active \ {Top.top}

Erased == active \ {Top.base}

\* The function on top of the stack returns.
recordReturn ==
  /\ ~aborted
  /\ InFunction
  /\ active' = Erased
  /\ chain' = AfterReturn(Below)
  /\ UNCHANGED <<stackBase, frames, aborted>>

Recorded ==
  UNION {{<<id, "sp", u>> : u \in frames[id].sp} \cup {<<id, "fp", u>> : u \in frames[id].fp} :
           id \in DOMAIN frames}

\* A stack pointer set before any call is the base of the stack.
setStackBase ==
  /\ ~aborted
  /\ ~InFunction
  /\ \E value \in Addresses : stackBase' = IF stackBase = 0 THEN value ELSE stackBase
  /\ UNCHANGED <<chain, active, frames, aborted>>

\* Defect: any caller whose frame is reached is freed.
Moved_FreesReached(value) ==
  IF value > Top.base
  THEN Append(SubSeq(chain, 1, Len(chain) - 2), PointingTo(value))
  ELSE Append(Below, PointingTo(value))

\* A function that sets the stack pointer to where the frame of its caller begins has
\* removed that frame, and its caller is freed; activeFrames still points to it.
Moved(value) ==
  IF value > Top.base /\ value = Parent.base
  THEN Append(SubSeq(chain, 1, Len(chain) - 2), PointingTo(value))
  ELSE Append(Below, PointingTo(value))

\* Offsets are relative to where the frame begins.
SpOffset(value) == value - Top.base

recordStackPointerUpdate ==
  /\ ~aborted
  /\ InFunction
  /\ \E at \in Instructions, value \in Addresses :
       /\ <<at, SpOffset(value)>> \in frames[Top.frame].sp \/ Cardinality(Recorded) < MaxRecorded
       /\ frames' = [frames EXCEPT ![Top.frame].sp = @ \cup {<<at, SpOffset(value)>>}]
       /\ IF value > Top.base /\ Len(chain) = 1
          THEN aborted' = TRUE /\ UNCHANGED chain
          ELSE chain' = Moved(value) /\ UNCHANGED aborted
  /\ UNCHANGED <<stackBase, active>>

recordFramePointerUpdate ==
  /\ ~aborted
  /\ InFunction
  /\ \E at \in Instructions, value \in Addresses :
       /\ <<at, value - Top.base>> \in frames[Top.frame].fp \/ Cardinality(Recorded) < MaxRecorded
       /\ frames' = [frames EXCEPT ![Top.frame].fp = @ \cup {<<at, value - Top.base>>}]
  /\ UNCHANGED <<stackBase, chain, active, aborted>>

Next ==
  \/ recordCall
  \/ recordReturn
  \/ setStackBase
  \/ recordStackPointerUpdate
  \/ recordFramePointerUpdate

Spec == Init /\ [][Next]_vars

-----------------------------------------------------------------------------
(* Looking up the frame of an address.                                     *)

\* activeFrames.lower_bound: the keys descend, so the greatest not above an address.
LowerBound(address) ==
  {b \in active : b <= address /\ \A c \in active : c <= address => c <= b}

\* find asks the frame found for its range, which a freed one has no longer.
FindReadsFreed(address) == LowerBound(address) \cap Stale # {}

-----------------------------------------------------------------------------
\* The frames of a chain of calls lie below each other, and the frame below all
\* functions stays at the bottom: freeing callers never frees it, so recordReturn and
\* recordStackPointerUpdate always have a parent to go to.
FramesDescend ==
  /\ Len(chain) >= 1
  /\ chain[1].frame = NoFrame /\ chain[1].base = 0
  /\ \A i \in 2..Len(chain) : chain[i].frame \in DOMAIN frames
  /\ \A i, j \in 2..Len(chain) : i < j => chain[j].base < chain[i].base

\* Every live frame but the one on top is in a call, also after callers were freed.
InCallExact ==
  \A i \in DOMAIN chain : (chain[i].inCallAt # 0) <=> i < Len(chain)

\* Every live frame can be found; a call fails its assertion only if some function has
\* removed the frame of its caller and returned (the assertion then sees a frame that
\* is not active any more).
AbortsOnlyOnStale ==
  /\ Bases \subseteq active
  /\ aborted => Stale # {}

\* The offset of the stack pointer in a live frame is among those recorded for its
\* function and call site, whatever was called and returned in between.
OffsetRecorded ==
  \A i \in 2..Len(chain) :
    \/ chain[i].top = chain[i].base
    \/ \E u \in frames[chain[i].frame].sp : u[2] = chain[i].top - chain[i].base

\* Only a return can make find, which recordMemoryWrite calls, read a freed frame for an
\* address below the base of the function that runs: a function may remove its caller's
\* frame and call others, which all begin below every entry of activeFrames, freed or not.
OwnFrameFreed ==
  InFunction /\ \E a \in Addresses : a < Top.base /\ FindReadsFreed(a)

FreedByReturnOnly ==
  [][OwnFrameFreed' /\ ~OwnFrameFreed => recordReturn]_vars
=============================================================================
