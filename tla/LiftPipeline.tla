---------------------------- MODULE LiftPipeline ----------------------------
(***************************************************************************)
(* lift_trace (binrec/lift.py): a fixed sequence of stages that read and   *)
(* write files of the merged trace directory.  A directory is a function   *)
(* from the names of its files to the traces whose code or edges they      *)
(* hold; the binary, and what is extracted of it, hold none.               *)
(***************************************************************************)
EXTENDS Integers, Sequences

CONSTANT Traces

\* The content of a file that a failed stage truncated.
Broken == {"broken"}

ASSUME TracesAssumption == "broken" \notin Traces

\* A stage fails when a file it reads is missing or broken, or its tool fails.
\* Its output is kept until the tool is done, or opened (early) once the files
\* in "first" were read; a failure then leaves a broken file.
Stage(reads, writes) == [reads |-> reads, writes |-> writes, early |-> FALSE, first |-> {}]
EarlyStage(first, reads, writes) ==
  [reads |-> first \cup reads, writes |-> writes, early |-> TRUE, first |-> first]

\* Each tool's output is read before the file is opened, but for the symbols.
ExtractBinarySymbols == EarlyStage({}, {"binary"}, {"symbols"})
ExtractDataImports == Stage({"binary"}, {"data_imports"})
ExtractSections == Stage({"binary"}, {"sections"})
ExtractDependencies == Stage({"binary"}, {"dependencies"})

\* run_lift parses its input, opens its output and runs the passes; llvm-link, llc
\* and binrec_link write the result at the end.  The file rfuncs is never read.
CleanBitcode == EarlyStage({"captured.bc"}, {}, {"cleaned.bc"})
ApplyFixups == Stage({"cleaned.bc"}, {"linked.bc"})
LiftBitcode ==
  EarlyStage({"linked.bc"}, {"traceInfo.json", "symbols", "sections", "data_imports"},
             {"lifted.bc"})
OptimizeBitcode == EarlyStage({"lifted.bc"}, {}, {"optimized.bc"})
DisassembleBitcode == Stage({"optimized.bc"}, {})
RecoverBitcode == EarlyStage({"optimized.bc"}, {}, {"recovered.bc"})
CompileBitcode == Stage({"recovered.bc"}, {"recovered.o"})
LinkRecoveredBinary == Stage({"binary", "recovered.o", "dependencies"}, {"recovered"})

\* lift_trace calls them in this order.
LiftTrace ==
  << ExtractBinarySymbols, ExtractDataImports, ExtractSections, ExtractDependencies,
     CleanBitcode, ApplyFixups, LiftBitcode, OptimizeBitcode, DisassembleBitcode,
     RecoverBitcode, CompileBitcode, LinkRecoveredBinary >>

\* Files that stand for traced code, from the merge to the recovered binary.
TraceFile ==
  {"captured.bc", "traceInfo.json", "cleaned.bc", "linked.bc", "lifted.bc",
   "optimized.bc", "recovered.bc", "recovered.o", "recovered"}

File ==
  {"binary"} \cup TraceFile
    \cup UNION {LiftTrace[i].reads \cup LiftTrace[i].writes : i \in 1..Len(LiftTrace)}

Content == (SUBSET Traces) \cup {Broken}

IsDir(dir) == DOMAIN dir \subseteq File /\ dir \in [DOMAIN dir -> Content]

Store(dir, names, content) ==
  [f \in DOMAIN dir \cup names |-> IF f \in names THEN content ELSE dir[f]]

Readable(dir, names) == \A f \in names : f \in DOMAIN dir /\ dir[f] # Broken

\* Lifting needs code and edges: what is in all the trace files read.
Derived(dir, stage) ==
  IF stage.reads \cap TraceFile = {} THEN {}
  ELSE {t \in Traces : \A f \in stage.reads \cap TraceFile : t \in dir[f]}

AfterSuccess(dir, stage) == Store(dir, stage.writes, Derived(dir, stage))

AfterFailure(dir, stage) ==
  IF stage.early /\ Readable(dir, stage.first) THEN Store(dir, stage.writes, Broken) ELSE dir
=============================================================================
