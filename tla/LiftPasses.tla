----------------------------- MODULE LiftPasses -----------------------------
(***************************************************************************)
(* The passes of the lifting stage that decide about control flow, as      *)
(* functions on what they change of the module (binrec_lift/src/lifting).  *)
(* First a module is one LLVM function per translation block, with the     *)
(* addresses of its successors as metadata; then one function per guest    *)
(* function, with one basic block <<f, pc>> for each translation block     *)
(* recorded in it.                                                         *)
(***************************************************************************)
EXTENDS TraceInfo, GuestProgram, SequencesExt

Sorted(set) == SetToSortSeq(set, LAMBDA a, b : a < b)

\* The blocks a trace speaks of, all of which the merged bitcode has.
TracedBlocks(ti) ==
  UNION {{e[1], e[2]} : e \in ti.successors} \cup {e[2] : e \in ti.entryToTbs}

(* SuccessorLists: std::set<Successor> is ordered by address.              *)
SuccessorLists(ti) ==
  [pc \in TracedBlocks(ti) |-> Sorted({e[2] : e \in {d \in ti.successors : d[1] = pc}})]

(* ELFSymbols: the two blocks between a PLT entry and the library function *)
(* of its first call go, and their successors become the entry's.          *)
Lookups(prog, tbs, pc) == (Range(tbs[pc]) \cap prog.plt) \ {pc}

Lookup(prog, tbs, pc) == CHOOSE l \in Lookups(prog, tbs, pc) : TRUE

Unresolved(prog, tbs) ==
  {pc \in DOMAIN tbs : IsStub(prog, pc) /\ Cardinality(Lookups(prog, tbs, pc)) = 1}

\* A stub without successors, a lookup block without or with several, or PLT
\* code without one ends the lifting.
ELFSymbolsFails(prog, tbs) ==
  \/ \E pc \in DOMAIN tbs : IsStub(prog, pc) /\ tbs[pc] = <<>>
  \/ \E pc \in Unresolved(prog, tbs) :
       LET next == tbs[Lookup(prog, tbs, pc)] IN Len(next) # 1 \/ tbs[next[1]] = <<>>

Join(s, t) == s \o SelectSeq(t, LAMBDA x : x \notin Range(s))

ELFSymbols(prog, tbs) ==
  LET lookup(pc) == Lookup(prog, tbs, pc)
      plt(pc)    == tbs[lookup(pc)][1]
      stubs      == Unresolved(prog, tbs)
      erased     == {lookup(pc) : pc \in stubs} \cup {plt(pc) : pc \in stubs}
      merged     == [pc \in DOMAIN tbs |->
                       IF pc \in stubs
                       THEN Join(SelectSeq(tbs[pc], LAMBDA x : x # lookup(pc)), tbs[plt(pc)])
                       ELSE tbs[pc]]
  IN  [pc \in DOMAIN tbs \ erased |-> merged[pc]]

(* PruneNullSuccs: references to erased functions have become null.        *)
PruneNullSuccs(tbs) ==
  [pc \in DOMAIN tbs |-> SelectSeq(tbs[pc], LAMBDA x : x \in DOMAIN tbs)]

-----------------------------------------------------------------------------
(* RecoverFunctions.                                                       *)
NoBB == <<0, 0>>

\* A basic block calls one of the callees, if any, and then ends with "ret", with
\* "branch" to its only successor or with "switch" on PC among the successors.
BB(succs) == [succs |-> succs, exit |-> "ret", callees |-> {}]

RecoveredBlocks(ti, tbs) ==
  {e \in ti.entryToTbs : e[1] \in DOMAIN tbs /\ e[2] \in DOMAIN tbs}

\* A function must hold the block it is named after: its entry.
RecoverFunctionsFails(prog, ti, tbs) ==
  LET blocks == RecoveredBlocks(ti, tbs) IN
  \/ \E b \in blocks : <<b[1], b[1]>> \notin blocks
  \/ ti.entries = <<>>
  \/ <<ti.entries[1], ti.entries[1]>> \notin blocks
  \/ <<prog.main, prog.main>> \notin blocks

\* patch_successors: the block of the same function, or else the one that is an
\* entry, or else the first in the multimap, which is any.
Successor(blocks, any, f, pc) ==
  CASE <<f, pc>> \in blocks                            -> <<f, pc>>
    [] <<f, pc>> \notin blocks /\ <<pc, pc>> \in blocks -> <<pc, pc>>
    [] OTHER                                           -> any[pc]

\* The first block of the multimap for each address, as an order of the functions
\* gives it.
FirstFound(blocks) ==
  LET own(pc) == {b \in blocks : b[2] = pc}
      open    == {b[2] : b \in {c \in blocks : Cardinality(own(c[2])) > 1}}
      picks   == {pick \in [open -> blocks] : \A pc \in open : pick[pc] \in own(pc)}
  IN  { [ pc \in {b[2] : b \in blocks} |->
            IF pc \in open THEN pick[pc] ELSE CHOOSE b \in own(pc) : TRUE ] : pick \in picks }

RecoverFunctions(ti, tbs, any) ==
  LET blocks == RecoveredBlocks(ti, tbs)
      patched(f, pc) == [i \in 1..Len(tbs[pc]) |-> Successor(blocks, any, f, tbs[pc][i])]
  IN  [b \in blocks |-> BB(patched(b[1], b[2]))]

-----------------------------------------------------------------------------
(* FixOverlaps: of the blocks of a function that end at the same address,  *)
(* each is cut off where the next begins, which takes its successors over. *)
SameEnd(prog, bbs, b) ==
  {c \in DOMAIN bbs : c[1] = b[1] /\ LastPc(prog, c[2]) = LastPc(prog, b[2])}

Bucket(prog, bbs, b) == SetToSortSeq(SameEnd(prog, bbs, b), LAMBDA c, d : c[2] < d[2])

\* Defect: the successors of the block cut off are lost.
Inherited_Dropped(bbs, bucket, i) == bbs[bucket[i]].succs

\* What the i-th block of a bucket has when its predecessors were cut off.
Inherited(bbs, bucket, i) ==
  LET upTo[k \in 1..i] == IF k = 1 THEN bbs[bucket[1]].succs
                          ELSE Join(bbs[bucket[k]].succs, upTo[k - 1])
  IN  upTo[i]

FixOverlaps(prog, bbs) ==
  [ b \in DOMAIN bbs |->
      LET bucket == Bucket(prog, bbs, b)
          i      == CHOOSE k \in 1..Len(bucket) : bucket[k] = b
      IN  IF i < Len(bucket)
          THEN [bbs[b] EXCEPT !.succs = <<bucket[i + 1]>>, !.exit = "branch"]
          ELSE [bbs[b] EXCEPT !.succs = Inherited(bbs, bucket, i)] ]

-----------------------------------------------------------------------------
(* PruneTriviallyDeadSuccs: a constant stored to PC leaves one successor.  *)
Constant(prog, bbs) ==
  {b \in DOMAIN bbs : bbs[b].exit = "ret" /\ Exit(prog, b[2]).op \in {"jump", "call"}}

OnlySucc(prog, bbs, b) == SelectSeq(bbs[b].succs, LAMBDA x : x[2] \in Exit(prog, b[2]).to)

PruneFails(prog, bbs) == \E b \in Constant(prog, bbs) : OnlySucc(prog, bbs, b) = <<>>

PruneTriviallyDeadSuccs(prog, bbs) ==
  [ b \in DOMAIN bbs |->
      IF b \in Constant(prog, bbs)
      THEN [bbs[b] EXCEPT !.succs = <<OnlySucc(prog, bbs, b)[1]>>] ELSE bbs[b] ]

-----------------------------------------------------------------------------
(* InsertCalls.                                                            *)
IsEntry(b) == b[1] = b[2]
ReturnsFrom(ti, b) == b \in ti.entryToReturn

\* Defect: a jump to the function's own entry is left a jump.
IsCall_OtherOnly(prog, ti, bbs, b) ==
  /\ ~IsStub(prog, b[1])
  /\ ~ReturnsFrom(ti, b)
  /\ bbs[b].succs # <<>>
  /\ bbs[b].succs[1][1] # b[1]

\* Defect: blocks that return are not excepted.
IsCall_ReturnsToo(prog, ti, bbs, b) ==
  /\ ~IsStub(prog, b[1])
  /\ bbs[b].succs # <<>>
  /\ bbs[b].succs[1][1] # b[1] \/ IsEntry(bbs[b].succs[1])

\* The first successor decides whether a block ends with a call.
IsCall(prog, ti, bbs, b) ==
  /\ ~IsStub(prog, b[1])
  /\ ~ReturnsFrom(ti, b)
  /\ bbs[b].succs # <<>>
  /\ bbs[b].succs[1][1] # b[1] \/ IsEntry(bbs[b].succs[1])

\* caller_pc_to_follow_up_pc keeps the first of a caller.
FollowUpOf(ti, caller) ==
  LET known == {e[2] : e \in {d \in ti.callerToFollowUp : d[1] = caller}} IN
  IF known = {} THEN 0 ELSE CHOOSE pc \in known : \A q \in known : pc <= q

FollowUp(prog, ti, b) ==
  LET pc == FollowUpOf(ti, LastPc(prog, b[2])) IN IF pc = 0 THEN NoBB ELSE <<b[1], pc>>

\* The follow-up block must be in the function, and a call of several targets
\* must have one and must not have targets inside the function.
InsertCallsFails(prog, ti, bbs) ==
  \E b \in DOMAIN bbs :
    /\ IsCall(prog, ti, bbs, b)
    /\ \/ FollowUp(prog, ti, b) \notin DOMAIN bbs \cup {NoBB}
       \/ /\ Len(bbs[b].succs) > 1
          /\ \/ FollowUp(prog, ti, b) = NoBB
             \/ \E c \in Range(bbs[b].succs) : c[1] = b[1] /\ ~IsEntry(c)

InsertCalls(prog, ti, bbs) ==
  [ b \in DOMAIN bbs |->
      IF ~IsCall(prog, ti, bbs, b) THEN bbs[b]
      ELSE [ bbs[b] EXCEPT
               !.callees = Range(bbs[b].succs),
               !.succs   = IF FollowUp(prog, ti, b) = NoBB THEN <<>>
                           ELSE <<FollowUp(prog, ti, b)>> ] ]

(* ExternPLT: the entry block of a stub calls the library function.        *)
ExternPLT(prog, bbs) ==
  [ b \in DOMAIN bbs |->
      IF IsStub(prog, b[2]) /\ IsEntry(b) THEN [bbs[b] EXCEPT !.succs = <<>>] ELSE bbs[b] ]

\* PcJumps takes a block with a successor elsewhere for one that returns, too.
Leaves(ti, bbs, b) ==
  ReturnsFrom(ti, b) \/ \E c \in Range(bbs[b].succs) : c[1] # b[1]

(* PcJumps: other blocks with successors end with a switch on PC.          *)
PcJumps(ti, bbs) ==
  [ b \in DOMAIN bbs |->
      IF bbs[b].exit = "ret" /\ bbs[b].succs # <<>> /\ ~Leaves(ti, bbs, b)
      THEN [bbs[b] EXCEPT !.exit = "switch"] ELSE bbs[b] ]

-----------------------------------------------------------------------------
(* FixCFG.  A block that calls a library function is left to where its     *)
(* caller goes on: the follow-up of a call, or those of the function that  *)
(* jumps to it.                                                            *)
Preds(bbs, b) ==
  {p \in DOMAIN bbs : bbs[p].exit \in {"branch", "switch"} /\ b \in Range(bbs[p].succs)}

\* Blocks that nothing leads to are passed over.
Live(bbs) == {b \in DOMAIN bbs : IsEntry(b) \/ Preds(bbs, b) # {}}

\* has_pc: the block stores the address to PC, of an instruction or of its only target.
HasPc(prog, bbs, b, pc) ==
  IF bbs[b].exit = "branch" THEN pc \in b[2]..bbs[b].succs[1][2] - 1
  ELSE \/ pc \in b[2]..LastPc(prog, b[2])
       \/ Exit(prog, b[2]).op \in {"jump", "call"} /\ pc \in Exit(prog, b[2]).to

CallersOf(ti, f) == {e[2] : e \in {d \in ti.entryToCaller : d[1] = f}}

NewSuccs(prog, ti, bbs, b) ==
  LET calls(p)  == {c \in CallersOf(ti, b[2]) : HasPc(prog, bbs, p, c)}
      owners(p) == {e[1] : e \in {d \in ti.entryToTbs : d[2] = p[2]}}
      sites(p)  == IF calls(p) = {} /\ ~IsStub(prog, p[2])
                   THEN UNION {CallersOf(ti, f) : f \in owners(p)} ELSE calls(p)
      callers   == UNION {sites(p) : p \in Preds(bbs, b) \cap Live(bbs)}
  IN  {FollowUpOf(ti, c) : c \in callers} \ {c[2] : c \in Range(bbs[b].succs)}

\* The library calls that end with a switch, and so get new cases.
Extended(prog, bbs) ==
  {b \in Live(bbs) : IsStub(prog, b[2]) /\ bbs[b].exit = "switch"}

\* A new successor that is no block of the function is a null pointer.
FixCFGFails(prog, ti, bbs) ==
  \E b \in Extended(prog, bbs) :
    \E pc \in NewSuccs(prog, ti, bbs, b) : <<b[1], pc>> \notin Live(bbs)

FixCFG(prog, ti, bbs) ==
  [ b \in DOMAIN bbs |->
      IF b \in Extended(prog, bbs)
      THEN [bbs[b] EXCEPT !.succs = @ \o SetToSeq({b[1]} \X NewSuccs(prog, ti, bbs, b))] ELSE bbs[b] ]
=============================================================================
