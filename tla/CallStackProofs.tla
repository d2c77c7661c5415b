--------------------------- MODULE CallStackProofs ---------------------------
(***************************************************************************)
(* The invariants of CallStack hold for all functions, instructions,       *)
(* addresses and bounds.  IInv is inductive: that a call aborts only on a  *)
(* stale entry needs the order of the frames and that each of them is in   *)
(* the map; that the frame below all functions stays needs its base.       *)
(***************************************************************************)
EXTENDS CallStack, TLAPS

IInv ==
  /\ TypeOK
  /\ FramesDescend
  /\ InCallExact
  /\ AbortsOnlyOnStale
  /\ OffsetRecorded

\* The frame below all functions has no Id.
LEMMA NoFrameIsNoId == NoFrame \notin Id
<1>1. \A a \in Functions, b \in Instructions : Len(<<a, b>>) = 2
  OBVIOUS
<1>2. Len(<<>>) = 0
  OBVIOUS
<1> QED
  BY <1>1, <1>2 DEF NoFrame, Id

\* The chain is never empty, and its top is a function's exactly if it has a parent.
LEMMA TopFacts ==
  ASSUME TypeOK, FramesDescend, AbortsOnlyOnStale
  PROVE  /\ Len(chain) \in Nat \ {0}
         /\ Top \in LiveStackFrame
         /\ Top = chain[Len(chain)]
         /\ InFunction <=> Len(chain) >= 2
         /\ InFunction => Top.frame \in DOMAIN frames /\ Top.base \in Addresses /\ Top.base \in Bases
         /\ \A i \in DOMAIN chain : chain[i] \in LiveStackFrame
         /\ DOMAIN chain = 1..Len(chain)
<1>1. /\ Len(chain) \in Nat /\ DOMAIN chain = 1..Len(chain)
      /\ \A i \in DOMAIN chain : chain[i] \in LiveStackFrame
  BY DEF TypeOK
<1>2. Len(chain) \in Nat \ {0} /\ Top \in LiveStackFrame
  BY <1>1 DEF FramesDescend, Top
<1>3. Len(chain) >= 2 => Top.frame \in DOMAIN frames /\ Top.frame \in Id /\ Top.base \in Bases
  BY <1>1, <1>2 DEF FramesDescend, Top, TypeOK, Bases
<1>4. InFunction <=> Len(chain) >= 2
  BY <1>2, <1>3, NoFrameIsNoId DEF InFunction, Top, FramesDescend
<1>5. Len(chain) >= 2 => Top.base \in Addresses
  BY <1>3 DEF AbortsOnlyOnStale, TypeOK
<1> QED
  BY <1>1, <1>2, <1>3, <1>4, <1>5 DEF Top

\* Replacing the topmost frame of a chain changes no other.
LEMMA ReplaceTop ==
  ASSUME NEW S, NEW c \in Seq(S), NEW x \in S, NEW k \in 1..Len(c)
  PROVE  /\ Append(SubSeq(c, 1, k - 1), x) \in Seq(S)
         /\ Len(Append(SubSeq(c, 1, k - 1), x)) = k
         /\ Append(SubSeq(c, 1, k - 1), x)[k] = x
         /\ \A i \in 1..k - 1 : Append(SubSeq(c, 1, k - 1), x)[i] = c[i]
<1>1. /\ SubSeq(c, 1, k - 1) \in Seq(S)
      /\ Len(SubSeq(c, 1, k - 1)) = k - 1
      /\ \A i \in 1..k - 1 : SubSeq(c, 1, k - 1)[i] = c[i]
  OBVIOUS
<1> QED
  BY <1>1

\* Pushing a frame changes none below it.
LEMMA Push ==
  ASSUME NEW S, NEW c \in Seq(S), NEW x \in S
  PROVE  /\ Append(c, x) \in Seq(S)
         /\ Len(Append(c, x)) = Len(c) + 1
         /\ Append(c, x)[Len(c) + 1] = x
         /\ \A i \in 1..Len(c) : Append(c, x)[i] = c[i]
  OBVIOUS

\* How each operation changes the chain.
LEMMA CallChain ==
  ASSUME TypeOK, FramesDescend, AbortsOnlyOnStale,
         NEW id \in Id, NEW callSite \in Instructions, NEW top \in Addresses,
         chain' = Append(Append(Below, Calling(callSite)), NewLive(id, top))
  PROVE  /\ chain' \in Seq(LiveStackFrame)
         /\ Len(chain') = Len(chain) + 1
         /\ \A i \in 1..Len(chain) - 1 : chain'[i] = chain[i]
         /\ chain'[Len(chain)] = Calling(callSite)
         /\ chain'[Len(chain) + 1] = NewLive(id, top)
<1> DEFINE x == Calling(callSite)
           y == NewLive(id, top)
           n == Len(chain)
           mid == Append(SubSeq(chain, 1, n - 1), x)
<1>1. x \in LiveStackFrame
  BY TopFacts DEF LiveStackFrame, Calling
<1>2. y \in LiveStackFrame
  BY DEF NewLive, LiveStackFrame
<1>3. n \in 1..Len(chain) /\ chain \in Seq(LiveStackFrame) /\ n \in Nat \ {0}
  BY TopFacts DEF TypeOK
<1>4. chain' = Append(mid, y)
  BY DEF Below
<1> HIDE DEF x, y, n
<1>5. /\ mid \in Seq(LiveStackFrame)
      /\ Len(mid) = n
      /\ mid[n] = x
      /\ \A i \in 1..n - 1 : mid[i] = chain[i]
  BY <1>1, <1>3, ReplaceTop
<1> HIDE DEF mid
<1>6. /\ chain' \in Seq(LiveStackFrame)
      /\ Len(chain') = n + 1
      /\ \A i \in 1..n - 1 : chain'[i] = chain[i]
      /\ chain'[n] = x
      /\ chain'[n + 1] = y
  <2>1. /\ Append(mid, y) \in Seq(LiveStackFrame)
        /\ Len(Append(mid, y)) = n + 1
        /\ Append(mid, y)[n + 1] = y
        /\ \A i \in 1..n : Append(mid, y)[i] = mid[i]
    BY <1>2, <1>5, Push
  <2> QED
    BY <1>3, <1>4, <1>5, <2>1
<1> QED
  BY <1>6 DEF x, y, n

LEMMA ReturnChain ==
  ASSUME TypeOK, FramesDescend, AbortsOnlyOnStale, InFunction, chain' = AfterReturn(Below)
  PROVE  /\ chain' \in Seq(LiveStackFrame)
         /\ Len(chain') = Len(chain) - 1
         /\ \A i \in 1..Len(chain) - 2 : chain'[i] = chain[i]
         /\ chain'[Len(chain) - 1] = [chain[Len(chain) - 1] EXCEPT !.inCallAt = 0]
<1>1. /\ Below \in Seq(LiveStackFrame)
      /\ Len(Below) = Len(chain) - 1
      /\ \A i \in 1..Len(chain) - 1 : Below[i] = chain[i]
  BY TopFacts DEF Below, TypeOK
<1>2. [Below[Len(Below)] EXCEPT !.inCallAt = 0] \in LiveStackFrame
  BY <1>1, TopFacts DEF LiveStackFrame
<1>3. chain' = [Below EXCEPT ![Len(Below)] = [Below[Len(Below)] EXCEPT !.inCallAt = 0]]
  BY DEF AfterReturn
<1> QED
  BY <1>1, <1>2, <1>3, TopFacts

\* The number of frames after an update of the stack pointer.
Kept(value) == IF value > Top.base /\ value = Parent.base THEN Len(chain) - 1 ELSE Len(chain)

LEMMA MovedChain ==
  ASSUME TypeOK, FramesDescend, AbortsOnlyOnStale, InFunction,
         NEW value \in Addresses, chain' = Moved(value)
  PROVE  /\ chain' \in Seq(LiveStackFrame)
         /\ Len(chain') = Kept(value)
         /\ Kept(value) \in 2..Len(chain)
         /\ \A i \in 1..Kept(value) - 1 : chain'[i] = chain[i]
         /\ chain'[Kept(value)] = PointingTo(value)
<1>1. PointingTo(value) \in LiveStackFrame
  BY TopFacts DEF LiveStackFrame, PointingTo
<1>2. Kept(value) \in 2..Len(chain)
  <2>1. value \in Nat \ {0} /\ Top.base \in Nat \ {0} /\ Len(chain) >= 2 /\ Len(chain) \in Nat
    BY TopFacts, CallStackAssumption
  <2>2. Len(chain) = 2 => Parent.base = 0
    BY <2>1 DEF Parent, FramesDescend
  <2>3. CASE value > Top.base /\ value = Parent.base
    <3>1. Len(chain) # 2
      BY <2>1, <2>2, <2>3
    <3>2. Kept(value) = Len(chain) - 1
      BY <2>3 DEF Kept
    <3>3. \A n \in Nat : n >= 2 /\ n # 2 => n - 1 \in 2..n
      OBVIOUS
    <3> QED
      BY <2>1, <3>1, <3>2, <3>3
  <2>4. CASE ~(value > Top.base /\ value = Parent.base)
    BY <2>1, <2>4 DEF Kept
  <2> QED
    BY <2>3, <2>4
<1>3. chain' = Append(SubSeq(chain, 1, Kept(value) - 1), PointingTo(value))
  <2>1. (Len(chain) - 1) - 1 = Len(chain) - 2
    BY TopFacts
  <2>2. CASE value > Top.base /\ value = Parent.base
    BY <2>1, <2>2 DEF Kept, Moved
  <2>3. CASE ~(value > Top.base /\ value = Parent.base)
    BY <2>3 DEF Kept, Moved, Below
  <2> QED
    BY <2>2, <2>3
<1> QED
  BY <1>1, <1>2, <1>3, TopFacts, ReplaceTop DEF TypeOK

LEMMA InitIInv == Init => IInv
<1> SUFFICES ASSUME Init PROVE IInv
  OBVIOUS
<1> USE DEF Init
<1>1. NewLive(NoFrame, 0) \in LiveStackFrame
  BY DEF NewLive, LiveStackFrame
<1>2. Len(chain) = 1 /\ chain[1] = NewLive(NoFrame, 0) /\ DOMAIN chain = 1..1
  OBVIOUS
<1>3. chain \in Seq(LiveStackFrame)
  BY <1>1
<1>4. DOMAIN frames = {}
  OBVIOUS
<1>5. TypeOK
  BY <1>3, <1>4 DEF TypeOK
<1>6. FramesDescend /\ InCallExact /\ OffsetRecorded
  BY <1>2 DEF FramesDescend, InCallExact, OffsetRecorded, NewLive
<1>7. AbortsOnlyOnStale
  BY <1>2 DEF AbortsOnlyOnStale, Bases
<1> QED
  BY <1>5, <1>6, <1>7 DEF IInv

\* A call: below the caller, and aborted only by an entry that is no live frame's.
LEMMA CallStep == IInv /\ recordCall => IInv'
<1> SUFFICES ASSUME IInv, recordCall PROVE IInv'
  OBVIOUS
<1> USE DEF IInv
<1>1. PICK target \in Functions, callSite \in Instructions, top \in Addresses :
        /\ InFunction => top < Top.base
        /\ IF Refused(top)
           THEN aborted' = TRUE /\ UNCHANGED <<chain, active, frames>>
           ELSE /\ frames' = WithFrame(<<target, callSite>>)
                /\ chain' = Append(Append(Below, Calling(callSite)), NewLive(<<target, callSite>>, top))
                /\ active' = active \cup {top}
                /\ UNCHANGED aborted
  BY DEF recordCall
<1>2. UNCHANGED stackBase /\ ~aborted
  BY DEF recordCall
<1>3. \A i \in 2..Len(chain) : top < chain[i].base
  <2> SUFFICES ASSUME NEW i \in 2..Len(chain) PROVE top < chain[i].base
    OBVIOUS
  <2>1. top < Top.base /\ top \in Nat /\ Top.base \in Nat
    <3>1. Len(chain) \in Nat \ {0} /\ (InFunction <=> Len(chain) >= 2)
      BY TopFacts
    <3>2. InFunction
      BY <3>1
    <3>3. Top.base \in Addresses
      BY <3>2, TopFacts
    <3> QED
      BY <1>1, <3>2, <3>3, CallStackAssumption
  <2>2. chain[i].base \in Nat
    BY CallStackAssumption DEF AbortsOnlyOnStale, Bases, TypeOK
  <2>3. i = Len(chain) \/ Top.base < chain[i].base
    BY TopFacts DEF FramesDescend, Top
  <2> QED
    BY <2>1, <2>2, <2>3 DEF Top
<1>4. CASE Refused(top)
  <2>1. PICK base \in active : base <= top
    BY <1>4 DEF Refused
  <2>2. base \in Nat /\ top \in Nat
    BY CallStackAssumption DEF TypeOK
  <2>3. base \notin Bases
    BY <1>3, <2>1, <2>2 DEF Bases
  <2>4. UNCHANGED <<stackBase, chain, active, frames>> /\ aborted' = TRUE
    BY <1>1, <1>2, <1>4
  <2>5. AbortsOnlyOnStale'
    BY <2>3, <2>4 DEF AbortsOnlyOnStale, Stale, Bases
  <2> QED
    BY <2>4, <2>5 DEF TypeOK, FramesDescend, InCallExact, OffsetRecorded
<1>5. CASE ~Refused(top)
  <2> DEFINE id == <<target, callSite>>
             n == Len(chain)
  <2>1. /\ frames' = WithFrame(id)
        /\ chain' = Append(Append(Below, Calling(callSite)), NewLive(id, top))
        /\ active' = active \cup {top}
        /\ UNCHANGED aborted
    BY <1>1, <1>5
  <2>2. id \in Id
    BY DEF Id
  <2>3. /\ chain' \in Seq(LiveStackFrame)
        /\ Len(chain') = n + 1
        /\ \A i \in 1..n - 1 : chain'[i] = chain[i]
        /\ chain'[n] = Calling(callSite)
        /\ chain'[n + 1] = NewLive(id, top)
    BY <2>1, <2>2, CallChain
  <2>4. /\ DOMAIN frames' = DOMAIN frames \cup {id}
        /\ \A i \in DOMAIN frames : frames'[i] = frames[i]
        /\ id \notin DOMAIN frames => frames'[id] = [sp |-> {}, fp |-> {}]
    BY <2>1 DEF WithFrame
  <2> HIDE DEF id
  <2>5. n \in Nat \ {0} /\ DOMAIN chain' = 1..n + 1
    BY <2>3, TopFacts
  <2>6. \A i \in 1..n : /\ chain'[i].frame = chain[i].frame
                         /\ chain'[i].base = chain[i].base
                         /\ chain'[i].top = chain[i].top
    BY <2>3, <2>5, TopFacts DEF Top, LiveStackFrame, Calling
  <2>7. TypeOK'
    <3>1. \A i \in DOMAIN frames' :
            frames'[i] \in [sp : SUBSET FrameSizeUpdate, fp : SUBSET FrameSizeUpdate]
      BY <2>4 DEF TypeOK
    <3> QED
      BY <1>2, <2>1, <2>2, <2>3, <2>4, <3>1 DEF TypeOK
  <2>8. FramesDescend'
    <3>1. \A i \in 2..n + 1 : chain'[i].frame \in DOMAIN frames'
      BY <2>3, <2>4, <2>5, <2>6 DEF FramesDescend, NewLive
    <3>2. \A i, j \in 2..n + 1 : i < j => chain'[j].base < chain'[i].base
      BY <1>3, <2>3, <2>5, <2>6 DEF FramesDescend, NewLive
    <3> QED
      BY <2>3, <2>5, <2>6, <3>1, <3>2 DEF FramesDescend
  <2>9. InCallExact'
    <3>1. \A i \in 1..n - 1 : chain'[i].inCallAt # 0
      BY <2>3, <2>5, TopFacts DEF InCallExact
    <3>2. chain'[n].inCallAt # 0
      BY <2>3, TopFacts, CallStackAssumption DEF LiveStackFrame, Calling
    <3>3. chain'[n + 1].inCallAt = 0
      BY <2>3 DEF NewLive
    <3>4. \A i \in 1..n + 1 : (chain'[i].inCallAt # 0) <=> i < n + 1
      BY <2>5, <3>1, <3>2, <3>3
    <3> QED
      BY <2>3, <2>5, <3>4 DEF InCallExact
  <2>10. AbortsOnlyOnStale'
    <3>1. Bases' \subseteq active'
      BY <2>1, <2>3, <2>5, <2>6 DEF AbortsOnlyOnStale, Bases, NewLive
    <3> QED
      BY <1>2, <2>1, <3>1 DEF AbortsOnlyOnStale
  <2>11. OffsetRecorded'
    <3> SUFFICES ASSUME NEW i \in 2..n + 1
                 PROVE  \/ chain'[i].top = chain'[i].base
                        \/ \E u \in frames'[chain'[i].frame].sp : u[2] = chain'[i].top - chain'[i].base
      BY <2>3 DEF OffsetRecorded
    <3>1. CASE i = n + 1
      BY <2>3, <3>1 DEF NewLive
    <3>2. CASE i \in 2..n
      <4>1. chain[i].frame \in DOMAIN frames
        BY <3>2 DEF FramesDescend
      <4>2. frames'[chain[i].frame] = frames[chain[i].frame]
        BY <2>4, <4>1
      <4> QED
        BY <2>5, <2>6, <3>2, <4>2 DEF OffsetRecorded
    <3> QED
      BY <2>5, <3>1, <3>2
  <2> QED
    BY <2>7, <2>8, <2>9, <2>10, <2>11
<1> QED
  BY <1>4, <1>5

\* A return: the frame's own entry goes, and no other frame has it.
LEMMA ReturnStep == IInv /\ recordReturn => IInv'
<1> SUFFICES ASSUME IInv, recordReturn PROVE IInv'
  OBVIOUS
<1> USE DEF IInv
<1> DEFINE n == Len(chain)
<1>1. /\ InFunction /\ ~aborted
      /\ active' = active \ {Top.base}
      /\ chain' = AfterReturn(Below)
      /\ UNCHANGED <<stackBase, frames, aborted>>
  BY DEF recordReturn, Erased
<1>2. n \in Nat /\ n >= 2 /\ DOMAIN chain = 1..n /\ \A i \in 1..n : chain[i] \in LiveStackFrame
  BY <1>1, TopFacts
<1>3. /\ chain' \in Seq(LiveStackFrame)
      /\ Len(chain') = n - 1
      /\ \A i \in 1..n - 2 : chain'[i] = chain[i]
      /\ chain'[n - 1] = [chain[n - 1] EXCEPT !.inCallAt = 0]
  BY <1>1, ReturnChain
<1> HIDE DEF n
<1>4. DOMAIN chain' = 1..n - 1
  BY <1>2, <1>3
<1>5. \A i \in 1..n - 1 : /\ chain'[i].frame = chain[i].frame
                           /\ chain'[i].base = chain[i].base
                           /\ chain'[i].top = chain[i].top
  BY <1>2, <1>3 DEF LiveStackFrame
<1>6. TypeOK'
  BY <1>1, <1>3 DEF TypeOK
<1>7. FramesDescend'
  BY <1>1, <1>2, <1>3, <1>4, <1>5 DEF FramesDescend, n
<1>8. InCallExact'
  <2>1. \A i \in 1..n - 2 : chain'[i].inCallAt # 0
    BY <1>2, <1>3 DEF InCallExact, n
  <2>2. chain'[n - 1].inCallAt = 0
    <3>1. chain[n - 1] \in LiveStackFrame
      BY <1>2
    <3> QED
      BY <1>3, <3>1 DEF LiveStackFrame
  <2>3. \A i \in 1..n - 1 : (chain'[i].inCallAt # 0) <=> i < n - 1
    BY <1>2, <2>1, <2>2
  <2> QED
    BY <1>2, <1>3, <1>4, <2>3 DEF InCallExact
<1>9. AbortsOnlyOnStale'
  <2>1. ASSUME NEW i \in 2..n - 1 PROVE chain'[i].base \in active'
    <3>1. chain[i].base \in active
      BY <1>2, <2>1 DEF AbortsOnlyOnStale, Bases, n
    <3>2. chain[n].base < chain[i].base
      BY <1>2, <2>1 DEF FramesDescend, n
    <3>3. chain[i].base \in Nat
      BY <3>1, CallStackAssumption DEF TypeOK
    <3>4. chain[i].base # Top.base
      BY <3>2, <3>3 DEF Top, n
    <3> QED
      BY <1>1, <1>2, <1>5, <2>1, <3>1, <3>4
  <2>2. Bases' \subseteq active'
    BY <1>3, <2>1 DEF Bases
  <2> QED
    BY <1>1, <2>2 DEF AbortsOnlyOnStale
<1>10. OffsetRecorded'
  BY <1>1, <1>2, <1>3, <1>5 DEF OffsetRecorded, n
<1> QED
  BY <1>6, <1>7, <1>8, <1>9, <1>10

\* Of the frames only the topmost changes, and perhaps its parent goes.
LEMMA StackPointerStep == IInv /\ recordStackPointerUpdate => IInv'
<1> SUFFICES ASSUME IInv, recordStackPointerUpdate PROVE IInv'
  OBVIOUS
<1> USE DEF IInv
<1>1. /\ InFunction /\ ~aborted /\ Len(chain) \in Nat /\ Len(chain) >= 2
      /\ Top.frame \in DOMAIN frames /\ Top.base \in Addresses /\ Top \in LiveStackFrame
      /\ DOMAIN chain = 1..Len(chain)
      /\ UNCHANGED <<stackBase, active>>
  BY TopFacts DEF recordStackPointerUpdate
<1>2. PICK at \in Instructions, value \in Addresses :
        /\ frames' = [frames EXCEPT ![Top.frame].sp = @ \cup {<<at, SpOffset(value)>>}]
        /\ IF value > Top.base /\ Len(chain) = 1
           THEN aborted' = TRUE /\ UNCHANGED chain
           ELSE chain' = Moved(value) /\ UNCHANGED aborted
  BY DEF recordStackPointerUpdate
<1>3. chain' = Moved(value) /\ UNCHANGED aborted
  BY <1>1, <1>2
<1> DEFINE u == <<at, SpOffset(value)>>
           k == Kept(value)
           n == Len(chain)
<1>4. u \in FrameSizeUpdate /\ u[2] = value - Top.base /\ value \in Nat /\ Top.base \in Nat
  <2>1. value \in Nat /\ Top.base \in Nat
    BY <1>1, CallStackAssumption
  <2>2. value - Top.base \in Int
    BY <2>1
  <2> QED
    BY <2>1, <2>2 DEF FrameSizeUpdate, SpOffset
<1> HIDE DEF u
<1>5. /\ DOMAIN frames' = DOMAIN frames
      /\ \A i \in DOMAIN frames :
           /\ frames[i].sp \subseteq frames'[i].sp
           /\ frames'[i] \in [sp : SUBSET FrameSizeUpdate, fp : SUBSET FrameSizeUpdate]
      /\ u \in frames'[Top.frame].sp
  <2>1. frames' = [frames EXCEPT ![Top.frame] = [frames[Top.frame] EXCEPT !.sp = @ \cup {u}]]
    BY <1>2 DEF u
  <2>2. \A i \in DOMAIN frames :
          frames[i] \in [sp : SUBSET FrameSizeUpdate, fp : SUBSET FrameSizeUpdate]
    BY DEF TypeOK
  <2> QED
    BY <1>1, <1>4, <2>1, <2>2
<1>6. /\ chain' \in Seq(LiveStackFrame)
      /\ Len(chain') = k
      /\ k \in 2..n
      /\ \A i \in 1..k - 1 : chain'[i] = chain[i]
      /\ chain'[k] = PointingTo(value)
  BY <1>1, <1>3, MovedChain
<1>7. /\ chain'[k].frame = Top.frame /\ chain'[k].base = Top.base
      /\ chain'[k].top = value /\ chain'[k].inCallAt = Top.inCallAt
  BY <1>1, <1>6 DEF PointingTo, LiveStackFrame
<1> HIDE DEF k
<1>8. n \in Nat /\ k \in Nat /\ DOMAIN chain' = 1..k
  BY <1>1, <1>6
<1>9. Top = chain[n]
  BY DEF Top
<1>10. TypeOK'
  BY <1>1, <1>3, <1>5, <1>6 DEF TypeOK
<1>11. FramesDescend'
  <2>1. \A i \in 2..k : chain'[i].frame \in DOMAIN frames'
    BY <1>1, <1>5, <1>6, <1>7, <1>8 DEF FramesDescend
  <2>2. ASSUME NEW i \in 2..k, NEW j \in 2..k, i < j PROVE chain'[j].base < chain'[i].base
    <3>1. i \in 1..k - 1 /\ i \in 2..n /\ i < n /\ chain'[i] = chain[i]
      BY <1>6, <1>8, <2>2
    <3>2. CASE j = k
      <4>1. chain[n].base < chain[i].base
        BY <1>1, <3>1 DEF FramesDescend
      <4> QED
        BY <1>7, <1>9, <3>1, <3>2, <4>1
    <3>3. CASE j \in 1..k - 1
      <4>1. chain'[j] = chain[j] /\ j \in 2..n
        BY <1>6, <1>8, <3>3
      <4> QED
        BY <2>2, <3>1, <4>1 DEF FramesDescend
    <3> QED
      BY <1>8, <3>2, <3>3
  <2>3. Len(chain') = k /\ Len(chain') >= 1 /\ chain'[1] = chain[1]
    BY <1>6, <1>8
  <2>4. chain'[1].frame = NoFrame /\ chain'[1].base = 0
    BY <2>3 DEF FramesDescend
  <2> HIDE DEF IInv
  <2>5. \A i, j \in 2..Len(chain') : i < j => chain'[j].base < chain'[i].base
    BY <2>2, <2>3
  <2> QED
    BY <2>1, <2>3, <2>4, <2>5 DEF FramesDescend
<1>12. InCallExact'
  <2>1. \A i \in 1..k - 1 : chain'[i].inCallAt # 0
    BY <1>1, <1>6, <1>8 DEF InCallExact
  <2>2. chain'[k].inCallAt = 0
    BY <1>1, <1>7, <1>9 DEF InCallExact
  <2> QED
    BY <1>6, <1>8, <2>1, <2>2 DEF InCallExact
<1>13. AbortsOnlyOnStale'
  <2>1. \A i \in 2..k : chain'[i].base \in Bases
    BY <1>1, <1>6, <1>7, <1>8, <1>9 DEF Bases
  <2>2. Bases' \subseteq Bases
    BY <1>6, <2>1 DEF Bases
  <2> QED
    BY <1>1, <1>3, <2>2 DEF AbortsOnlyOnStale
<1>14. OffsetRecorded'
  <2> SUFFICES ASSUME NEW i \in 2..k
               PROVE  \/ chain'[i].top = chain'[i].base
                      \/ \E w \in frames'[chain'[i].frame].sp : w[2] = chain'[i].top - chain'[i].base
    BY <1>6 DEF OffsetRecorded
  <2>1. CASE i = k
    BY <1>4, <1>5, <1>7, <2>1
  <2>2. CASE i \in 1..k - 1
    <3>1. chain'[i] = chain[i] /\ i \in 2..n
      BY <1>6, <1>8, <2>2
    <3>2. frames[chain[i].frame].sp \subseteq frames'[chain[i].frame].sp
      BY <1>5, <3>1 DEF FramesDescend
    <3> QED
      BY <3>1, <3>2 DEF OffsetRecorded
  <2> QED
    BY <1>8, <2>1, <2>2
<1> QED
  BY <1>10, <1>11, <1>12, <1>13, <1>14

\* A frame pointer is only recorded.
LEMMA FramePointerStep == IInv /\ recordFramePointerUpdate => IInv'
<1> SUFFICES ASSUME IInv, recordFramePointerUpdate PROVE IInv'
  OBVIOUS
<1> USE DEF IInv
<1>1. /\ Top.frame \in DOMAIN frames /\ Top.base \in Addresses
      /\ UNCHANGED <<stackBase, chain, active, aborted>>
  BY TopFacts DEF recordFramePointerUpdate
<1>2. PICK at \in Instructions, value \in Addresses :
        frames' = [frames EXCEPT ![Top.frame].fp = @ \cup {<<at, value - Top.base>>}]
  BY DEF recordFramePointerUpdate
<1> DEFINE u == <<at, value - Top.base>>
<1>3. u \in FrameSizeUpdate
  <2>1. value \in Nat /\ Top.base \in Nat
    BY <1>1, CallStackAssumption
  <2>2. value - Top.base \in Int
    BY <2>1
  <2> QED
    BY <2>2 DEF FrameSizeUpdate
<1> HIDE DEF u
<1>4. /\ DOMAIN frames' = DOMAIN frames
      /\ \A i \in DOMAIN frames :
           /\ frames'[i].sp = frames[i].sp
           /\ frames'[i] \in [sp : SUBSET FrameSizeUpdate, fp : SUBSET FrameSizeUpdate]
  <2>1. frames' = [frames EXCEPT ![Top.frame] = [frames[Top.frame] EXCEPT !.fp = @ \cup {u}]]
    BY <1>2 DEF u
  <2>2. \A i \in DOMAIN frames :
          frames[i] \in [sp : SUBSET FrameSizeUpdate, fp : SUBSET FrameSizeUpdate]
    BY DEF TypeOK
  <2> QED
    BY <1>1, <1>3, <2>1, <2>2
<1>5. TypeOK'
  BY <1>1, <1>4 DEF TypeOK
<1>6. FramesDescend' /\ InCallExact'
  BY <1>1, <1>4 DEF FramesDescend, InCallExact
<1>7. AbortsOnlyOnStale'
  BY <1>1 DEF AbortsOnlyOnStale, Stale, Bases
<1>8. OffsetRecorded'
  BY <1>1, <1>4 DEF OffsetRecorded, FramesDescend
<1> QED
  BY <1>5, <1>6, <1>7, <1>8

LEMMA NextIInv == IInv /\ [Next]_vars => IInv'
<1> SUFFICES ASSUME IInv, [Next]_vars PROVE IInv'
  OBVIOUS
<1>1. CASE setStackBase
  <2>1. stackBase' \in Addresses \cup {0} /\ UNCHANGED <<chain, active, frames, aborted>>
    BY <1>1 DEF setStackBase, IInv, TypeOK
  <2> QED
    BY <2>1 DEF IInv, TypeOK, FramesDescend, InCallExact, AbortsOnlyOnStale, Stale, Bases,
                OffsetRecorded
<1>2. CASE UNCHANGED vars
  BY <1>2 DEF vars, IInv, TypeOK, FramesDescend, InCallExact, AbortsOnlyOnStale, Stale, Bases,
              OffsetRecorded
<1> QED
  BY <1>1, <1>2, CallStep, ReturnStep, StackPointerStep, FramePointerStep DEF Next

\* All parts of the inductive invariant hold for every guest that calls from inside its
\* frames, whatever its functions do with the stack pointer.
LEMMA IInvAlways == Spec => []IInv
  BY InitIInv, NextIInv, PTL DEF Spec

\* The types of the stack's variables.
THEOREM StackTypes == Spec => []TypeOK
<1>1. IInv => TypeOK
  BY DEF IInv
<1> QED
  BY <1>1, IInvAlways, PTL

\* The frames lie below each other on the frame below all functions, so that
\* recordReturn and recordStackPointerUpdate always have a parent.
THEOREM StackDescends == Spec => []FramesDescend
<1>1. IInv => FramesDescend
  BY DEF IInv
<1> QED
  BY <1>1, IInvAlways, PTL

\* All frames but the topmost are in a call, also after a caller was freed.
THEOREM StackInCall == Spec => []InCallExact
<1>1. IInv => InCallExact
  BY DEF IInv
<1> QED
  BY <1>1, IInvAlways, PTL

\* The assertion of recordCall fails only on an entry that recordStackPointerUpdate
\* left behind when it freed a caller.
THEOREM StackAborts == Spec => []AbortsOnlyOnStale
<1>1. IInv => AbortsOnlyOnStale
  BY DEF IInv
<1> QED
  BY <1>1, IInvAlways, PTL

\* The stack pointer offset of every live frame has been recorded for its function and
\* call site.
THEOREM StackOffsets == Spec => []OffsetRecorded
<1>1. IInv => OffsetRecorded
  BY DEF IInv
<1> QED
  BY <1>1, IInvAlways, PTL

\* An entry below the running function whose frame is freed is found for its own address.
LEMMA FreedBelow ==
  ASSUME IInv, InFunction, NEW b \in active, b \notin Bases, b < Top.base
  PROVE  OwnFrameFreed
<1>1. b \in Addresses /\ b \in Nat
  BY CallStackAssumption DEF IInv, TypeOK
<1>2. b \in LowerBound(b) \cap Stale
  BY <1>1 DEF LowerBound, Stale
<1> QED
  BY <1>1, <1>2 DEF OwnFrameFreed, FindReadsFreed

\* What find reads for an address below a running function is freed only when it has
\* been returned to: a call that is accepted begins below every entry, and a caller that
\* is freed began above the function that removed its frame.
THEOREM FreedOnlyByReturn == Spec => FreedByReturnOnly
<1>1. IInv /\ IInv' /\ [Next]_vars => (OwnFrameFreed' /\ ~OwnFrameFreed => recordReturn)
  <2> SUFFICES ASSUME IInv, IInv', [Next]_vars, OwnFrameFreed', ~OwnFrameFreed, ~recordReturn
               PROVE  FALSE
    OBVIOUS
  <2>1. PICK b \in active' : b \notin Bases' /\ b \in Nat /\ b < chain'[Len(chain')].base
    <3>1. PICK a \in Addresses : a < chain'[Len(chain')].base /\ (LowerBound(a) \cap Stale # {})'
      BY DEF OwnFrameFreed, FindReadsFreed, Top
    <3>2. PICK b \in active' : b <= a /\ b \notin Bases'
      BY <3>1 DEF LowerBound, Stale
    <3>3. /\ b \in Nat /\ a \in Nat
          /\ chain'[Len(chain')].base \in Addresses
      <4>1. b \in Nat /\ a \in Nat
        BY CallStackAssumption DEF IInv, TypeOK
      <4>2. Top'.base \in Addresses
        <5>1. InFunction'
          BY DEF OwnFrameFreed
        <5>2. (InFunction => Top.base \in Addresses)'
          BY TopFacts, PTL DEF IInv
        <5> QED
          BY <5>1, <5>2
      <4> QED
        BY <4>1, <4>2 DEF Top
    <3>4. chain'[Len(chain')].base \in Nat
      BY <3>3, CallStackAssumption
    <3> QED
      BY <3>1, <3>2, <3>3, <3>4
  <2>2. CASE UNCHANGED <<chain, active>>
    BY <2>2 DEF OwnFrameFreed, FindReadsFreed, LowerBound, Stale, Bases, InFunction, Top
  <2>3. CASE recordCall
    <3>1. PICK target \in Functions, callSite \in Instructions, top \in Addresses :
            IF Refused(top)
            THEN aborted' = TRUE /\ UNCHANGED <<chain, active, frames>>
            ELSE /\ frames' = WithFrame(<<target, callSite>>)
                 /\ chain' = Append(Append(Below, Calling(callSite)), NewLive(<<target, callSite>>, top))
                 /\ active' = active \cup {top}
                 /\ UNCHANGED aborted
      BY <2>3 DEF recordCall
    <3>2. ~Refused(top) /\ active' = active \cup {top}
          /\ chain' = Append(Append(Below, Calling(callSite)), NewLive(<<target, callSite>>, top))
      BY <2>2, <3>1
    <3>3. Len(chain') = Len(chain) + 1 /\ chain'[Len(chain) + 1] = NewLive(<<target, callSite>>, top)
      BY <3>2, CallChain DEF IInv, Id
    <3>4. chain'[Len(chain')].base = top
      BY <3>3 DEF NewLive
    <3>5. top \in Nat /\ b # top
      <4>1. Len(chain) \in Nat \ {0}
        BY TopFacts DEF IInv
      <4> QED
        BY <2>1, <3>3, <3>4, <4>1, CallStackAssumption DEF Bases
    <3> QED
      BY <2>1, <3>2, <3>4, <3>5 DEF Refused
  <2>4. CASE recordStackPointerUpdate
    <3>1. InFunction /\ active' = active
      BY <2>4 DEF recordStackPointerUpdate
    <3>2. PICK value \in Addresses : chain' = Moved(value)
      BY <2>2, <2>4, <3>1 DEF recordStackPointerUpdate
    <3>3. chain'[Len(chain')] = PointingTo(value)
      BY <3>1, <3>2, MovedChain DEF IInv
    <3>4. Top \in LiveStackFrame /\ Top = chain[Len(chain)] /\ Len(chain) \in Nat
      BY TopFacts DEF IInv
    <3>5. chain'[Len(chain')].base = Top.base
      BY <3>3, <3>4 DEF PointingTo, LiveStackFrame
    <3>6. b \in Bases
      BY <2>1, <3>1, <3>5, FreedBelow
    <3>7. PICK i \in 2..Len(chain) : b = chain[i].base
      BY <3>6 DEF Bases
    <3>8. i = Len(chain) \/ Top.base < b
      BY <3>4, <3>7 DEF IInv, FramesDescend
    <3>9. Top.base \in Nat
      BY <3>1, TopFacts, CallStackAssumption DEF IInv
    <3> QED
      BY <2>1, <3>4, <3>5, <3>7, <3>8, <3>9
  <2> QED
    BY <2>2, <2>3, <2>4 DEF Next, vars, setStackBase, recordFramePointerUpdate
<1> QED
  BY <1>1, IInvAlways, PTL DEF Spec, FreedByReturnOnly
=============================================================================
