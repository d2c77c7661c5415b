----------------------------- MODULE TraceMerge -----------------------------
(***************************************************************************)
(* Merging (binrec/merge.py): every captured*.bc of the trace directories  *)
(* is prepared for linking, which keeps the functions of the blocks that   *)
(* its trace info knows (RenameBlockFuncs); the prepared files are linked, *)
(* the trace infos added up (binrec_tracemerge).  Traces may be added and  *)
(* merged again; prepared files stay in the trace directories.             *)
(***************************************************************************)
EXTENDS TraceFiles, FiniteSets

CONSTANTS
  Base,      \* numerals are written to this base: ten in the code
  MaxDirs,   \* bound on trace directories
  MaxMerges  \* bound on merges

ASSUME TraceMergeAssumption ==
  /\ Base \in Nat \ {0, 1}
  /\ MaxDirs \in Nat
  /\ MaxMerges \in Nat

VARIABLES
  step,    \* of the merge: "idle" (none since the last trace), "prepare", "link",
           \* "infos", "merged" or "failed"
  merges,  \* how many merges were started
  todo,    \* files of the trace directories not looked at yet
  ready,   \* the prepared files of the trace directories: the blocks in them
  linked,  \* prepared files still to be linked
  infos,   \* trace info files to be added up, in the order found
  outBc,   \* s2e-out/captured.bc: the blocks in it
  outInfo  \* the sum of the trace infos so far

mergeVars == <<step, merges, todo, ready, linked, infos, outBc, outInfo>>
vars == <<sessionVars, dirs, mergeVars>>

\* <<d, key, n>> is the captured file key of the d-th directory, with the suffix
\* "-link-ready" n times; <<d, key>> a trace info file.
BcFile == (1..MaxDirs) \X FileKey \X (0..MaxMerges + 1)
InfoFile == (1..MaxDirs) \X FileKey

TypeOK ==
  /\ TraceFilesTypeOK
  /\ step \in {"idle", "prepare", "link", "infos", "merged", "failed"}
  /\ merges \in 0..MaxMerges
  /\ todo \subseteq BcFile \cup InfoFile
  /\ DOMAIN ready \subseteq BcFile
  /\ ready \in [DOMAIN ready -> SUBSET Pc]
  /\ linked \subseteq DOMAIN ready
  /\ infos \in Seq(InfoFile)
  /\ outBc \subseteq Pc
  /\ outInfo \in TraceInfoRecord

Init ==
  /\ TraceFilesInit
  /\ step = "idle"
  /\ merges = 0
  /\ todo = {}
  /\ ready = NoFiles
  /\ linked = {}
  /\ infos = <<>>
  /\ outBc = {}
  /\ outInfo = EmptyTrace

Resting == step \in {"idle", "merged", "failed"}

\* Traces are run between merges; what was merged before is then out of date.
Trace ==
  /\ Resting
  /\ Len(dirs) < MaxDirs
  /\ Tracing
  /\ step' = "idle"
  /\ UNCHANGED <<merges, todo, ready, linked, infos, outBc, outInfo>>

-----------------------------------------------------------------------------
\* get_trace_dirs: the name must end in a single digit.
TraceDirs == {d \in 1..Len(dirs) : d - 1 < Base}

Files(d) ==
  {<<d, key, 0>> : key \in DOMAIN dirs[d].bc}
    \cup {f \in DOMAIN ready : f[1] = d}
    \cup {<<d, key>> : key \in DOMAIN dirs[d].json}

\* merge_bitcode empties the destination, then walks through the directories.
BeginMerge ==
  /\ Resting
  /\ ~tracing
  /\ merges < MaxMerges
  /\ TraceDirs # {}
  /\ step' = "prepare"
  /\ merges' = merges + 1
  /\ todo' = UNION {Files(d) : d \in TraceDirs}
  /\ linked' = {}
  /\ infos' = <<>>
  /\ outBc' = {}
  /\ outInfo' = EmptyTrace
  /\ UNCHANGED <<sessionVars, dirs, ready>>

\* The next file: directories in order, the files of each as os.listdir has them.
Listed(f) == f \in todo /\ \A g \in todo : f[1] <= g[1]

\* RenameBlockFuncs looks for the trace info with the first digit of the number.
FirstDigit(n) ==
  IF n < Base THEN n
  ELSE CHOOSE d \in 1..Base - 1 : \E k \in 1..n : d * Base^k <= n /\ n < (d + 1) * Base^k

\* Defect: the trace info of the last state is used for every file.
InfoKey_Final(f) == Final

InfoKey(f) == IF f[2] = Final THEN Final ELSE FirstDigit(f[2])

InfoOf(f) == dirs[f[1]].json[InfoKey(f)]
HasInfo(f) == InfoKey(f) \in DOMAIN dirs[f[1]].json

\* Functions already named Func_ stay; of the others those of known blocks.
Prepared(f) ==
  IF f[3] = 0 THEN dirs[f[1]].bc[f[2]] \cap BlocksOf(InfoOf(f)) ELSE ready[f]

Again(f) == <<f[1], f[2], f[3] + 1>>

\* Defect: the loop sees the files that it writes, whose names its own pattern matches.
Prepare_Rescanned(f) ==
  /\ step = "prepare"
  /\ f \in BcFile
  /\ Listed(f)
  /\ HasInfo(f)
  /\ todo' = (todo \ {f}) \cup {Again(f)}
  /\ ready' = Write(ready, Again(f), Prepared(f))
  /\ linked' = linked \cup {Again(f)}
  /\ UNCHANGED <<sessionVars, dirs, step, merges, infos, outBc, outInfo>>

\* Both stages of prep_bitcode_for_linkage: the first drops functions, the second
\* only rewrites their bodies.
Prepare(f) ==
  /\ step = "prepare"
  /\ f \in BcFile
  /\ Listed(f)
  /\ HasInfo(f)
  /\ todo' = todo \ {f}
  /\ ready' = Write(ready, Again(f), Prepared(f))
  /\ linked' = linked \cup {Again(f)}
  /\ UNCHANGED <<sessionVars, dirs, step, merges, infos, outBc, outInfo>>

\* s2eOpen fails, and with it the merge.
PrepareFails(f) ==
  /\ step = "prepare"
  /\ f \in BcFile
  /\ Listed(f)
  /\ ~HasInfo(f)
  /\ step' = "failed"
  /\ UNCHANGED <<sessionVars, dirs, merges, todo, ready, linked, infos, outBc, outInfo>>

\* The second stage fails: the file of the first is left behind.
SecondStageFails(f) ==
  /\ step = "prepare"
  /\ f \in BcFile
  /\ Listed(f)
  /\ HasInfo(f)
  /\ ready' = Write(ready, Again(f), Prepared(f))
  /\ step' = "failed"
  /\ UNCHANGED <<sessionVars, dirs, merges, todo, linked, infos, outBc, outInfo>>

FindInfo(f) ==
  /\ step = "prepare"
  /\ f \in InfoFile
  /\ Listed(f)
  /\ todo' = todo \ {f}
  /\ infos' = Append(infos, f)
  /\ UNCHANGED <<sessionVars, dirs, step, merges, ready, linked, outBc, outInfo>>

\* linked_paths[0] of an empty list raises.
AllPrepared ==
  /\ step = "prepare"
  /\ todo = {}
  /\ step' = IF linked = {} THEN "failed" ELSE "link"
  /\ UNCHANGED <<sessionVars, dirs, merges, todo, ready, linked, infos, outBc, outInfo>>

\* The first prepared file is copied, the others are linked into the result.
Link(f) ==
  /\ step = "link"
  /\ f \in linked
  /\ outBc' = outBc \cup ready[f]
  /\ linked' = linked \ {f}
  /\ step' = IF linked' = {} THEN "infos" ELSE "link"
  /\ UNCHANGED <<sessionVars, dirs, merges, todo, ready, infos, outInfo>>

\* Defect: the infos replace each other.
AddInfo_Last(ti) == ti

AddInfo(ti) == Add(outInfo, ti)

MergeInfo ==
  /\ step = "infos"
  /\ infos # <<>>
  /\ outInfo' = AddInfo(dirs[Head(infos)[1]].json[Head(infos)[2]])
  /\ infos' = Tail(infos)
  /\ UNCHANGED <<sessionVars, dirs, step, merges, todo, ready, linked, outBc>>

EndMerge ==
  /\ step = "infos"
  /\ infos = <<>>
  /\ step' = "merged"
  /\ UNCHANGED <<sessionVars, dirs, merges, todo, ready, linked, infos, outBc, outInfo>>

\* A tool fails: the exception leaves merge_traces.
ToolFails ==
  /\ ~Resting
  /\ \/ /\ step' = "failed"
        /\ UNCHANGED <<sessionVars, dirs, merges, todo, ready, linked, infos, outBc, outInfo>>
     \/ \E f \in todo : SecondStageFails(f)

Merge ==
  \/ \E f \in todo : Prepare(f) \/ PrepareFails(f) \/ FindInfo(f)
  \/ AllPrepared
  \/ \E f \in linked : Link(f)
  \/ MergeInfo
  \/ EndMerge

Next == Trace \/ BeginMerge \/ Merge \/ ToolFails

Spec == Init /\ [][Next]_vars

\* The merge is a sequential program: once begun it goes on.
FairSpec == Spec /\ WF_vars(Merge)

-----------------------------------------------------------------------------
(* Properties.                                                             *)

\* merged captured.bc has code for every block that merged traceInfo.json
\* mentions, although RenameBlockFuncs erased functions file by file and the
\* two outputs are put together separately.
MergedCovers == step = "merged" => BlocksOf(outInfo) \subseteq outBc

\* Every trace info file of every completed trace directory is part of a
\* finished merge ("the list of project completed trace directories", env.py).
NothingLost ==
  step = "merged" =>
    \A d \in 1..Len(dirs) : \A key \in DOMAIN dirs[d].json :
      dirs[d].json[key].successors \subseteq outInfo.successors

\* A bitcode file that a merge comes to has the trace info that RenameBlockFuncs
\* opens for it, but for one: the intermediate file of the state in which S2E
\* ended, which a session without a later switch leaves behind, with nothing in it
\* that captured.bc lacks.  "Symbolic traces that are numbered have correspondingly
\* name trace info files" (rename_block_funcs.cpp) has no such exception, and the
\* merge fails at the file.
InfoPresent ==
  \A f \in todo \cap BcFile :
    ~HasInfo(f) =>
      /\ f[3] = 0
      /\ f[2] = dirs[f[1]].last
      /\ Final \in DOMAIN dirs[f[1]].bc
      /\ dirs[f[1]].bc[f[2]] \subseteq dirs[f[1]].bc[Final]

\* A merge that was begun comes to an end.
MergeEnds == step = "prepare" ~> step \in {"merged", "failed"}
=============================================================================
