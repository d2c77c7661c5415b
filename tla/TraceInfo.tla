------------------------------ MODULE TraceInfo ------------------------------
(***************************************************************************)
(* The record a trace leaves behind (binrec_traceinfo): which blocks       *)
(* followed which, which function each block ran in, who called and where  *)
(* each function returned, and the program's entry points.                 *)
(*                                                                         *)
(* std::set<std::pair> and std::map<pc, std::set<pc>> are relations (a map *)
(* key with an empty set is invisible to every consumer, see               *)
(* function_info.cpp); std::vector is a sequence; std::unordered_map is a  *)
(* function whose domain is the set of its keys.                           *)
(***************************************************************************)
EXTENDS Integers, Sequences

CONSTANTS
  Pc,       \* code addresses of the guest program, 0 excluded
  FnNames,  \* the keys of stackFrameSizes and stackDifference
  Access    \* memory accesses

\* Address 0 is the "no address yet" mark of entries and m_callerPc.
NoPc == 0

ASSUME PcAssumption == Pc \subseteq Nat \ {NoPc}

SizeMap == UNION { [names -> Nat] : names \in SUBSET FnNames }

TraceInfoRecord ==
  [ stackFrameSizes  : SizeMap,
    stackDifference  : SizeMap,
    memoryAccesses   : Seq(Access),
    successors       : SUBSET (Pc \X Pc),
    entries          : Seq(Pc \cup {NoPc}),
    entryToCaller    : SUBSET (Pc \X Pc),
    entryToReturn    : SUBSET (Pc \X (Pc \cup {NoPc})),
    callerToFollowUp : SUBSET (Pc \X Pc),
    entryToTbs       : SUBSET (Pc \X Pc) ]

NoSizes == [n \in {} |-> 0]

EmptyTrace ==
  [ stackFrameSizes  |-> NoSizes,
    stackDifference  |-> NoSizes,
    memoryAccesses   |-> <<>>,
    successors       |-> {},
    entries          |-> <<>>,
    entryToCaller    |-> {},
    entryToReturn    |-> {},
    callerToFollowUp |-> {},
    entryToTbs       |-> {} ]

-----------------------------------------------------------------------------
(* TraceInfo::add, field by field.                                         *)

\* A frame needs as much stack as its largest observation.
AddFrameSizes(mine, theirs) ==
  [ n \in DOMAIN mine \cup DOMAIN theirs |->
      CASE n \notin DOMAIN mine                            -> theirs[n]
        [] n \in DOMAIN mine /\ n \notin DOMAIN theirs     -> mine[n]
        [] n \in DOMAIN mine /\ n \in DOMAIN theirs        ->
             IF mine[n] >= theirs[n] THEN mine[n] ELSE theirs[n] ]

\* assert(it->second == difference): adding is only defined when both agree.
DifferencesAgree(mine, theirs) ==
  \A n \in DOMAIN mine \cap DOMAIN theirs : mine[n] = theirs[n]

AddDifferences(mine, theirs) ==
  [ n \in DOMAIN mine \cup DOMAIN theirs |->
      IF n \in DOMAIN mine THEN mine[n] ELSE theirs[n] ]

\* Entry points are taken over only by a trace that has none yet.
AddEntries(mine, theirs) == IF mine = <<>> THEN theirs ELSE mine

Add(mine, theirs) ==
  [ stackFrameSizes  |-> AddFrameSizes(mine.stackFrameSizes, theirs.stackFrameSizes),
    stackDifference  |-> AddDifferences(mine.stackDifference, theirs.stackDifference),
    memoryAccesses   |-> mine.memoryAccesses \o theirs.memoryAccesses,
    successors       |-> mine.successors \cup theirs.successors,
    entries          |-> AddEntries(mine.entries, theirs.entries),
    entryToCaller    |-> mine.entryToCaller \cup theirs.entryToCaller,
    entryToReturn    |-> mine.entryToReturn \cup theirs.entryToReturn,
    callerToFollowUp |-> mine.callerToFollowUp \cup theirs.callerToFollowUp,
    entryToTbs       |-> mine.entryToTbs \cup theirs.entryToTbs ]

(* TraceInfo::getCopy copies every container into a fresh TraceInfo.       *)
GetCopy(ti) ==
  [ stackFrameSizes  |-> ti.stackFrameSizes,
    stackDifference  |-> ti.stackDifference,
    memoryAccesses   |-> EmptyTrace.memoryAccesses \o ti.memoryAccesses,
    successors       |-> EmptyTrace.successors \cup ti.successors,
    entries          |-> EmptyTrace.entries \o ti.entries,
    entryToCaller    |-> EmptyTrace.entryToCaller \cup ti.entryToCaller,
    entryToReturn    |-> EmptyTrace.entryToReturn \cup ti.entryToReturn,
    callerToFollowUp |-> EmptyTrace.callerToFollowUp \cup ti.callerToFollowUp,
    entryToTbs       |-> EmptyTrace.entryToTbs \cup ti.entryToTbs ]

(* TraceInfo::restoreFromCopy clears every container, then adds the copy.  *)
RestoreFromCopy(copyTi) == Add(EmptyTrace, copyTi)
=============================================================================
