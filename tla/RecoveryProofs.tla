--------------------------- MODULE RecoveryProofs ---------------------------
(***************************************************************************)
(* The invariants of Recovery for all projects, traces, handlers and       *)
(* bounds, however requests interleave and whenever the application is     *)
(* restarted.  AppState knows the worker started last until it has ended   *)
(* and its exit code is stored (KnownInv); a worker that has the           *)
(* directories of its project to itself leaves files of one merge          *)
(* (WorkerInv).                                                            *)
(***************************************************************************)
EXTENDS Recovery, TLAPS

Job ==
  [ project : Projects, step : JobStep, plan : Campaign, next : Nat,
    dirs : Nat, code : ExitCode \cup {NoCode} ]

Request ==
  [ op : {"idle", "recover", "edit", "save", "clear"},
    project : Projects \cup {""}, loaded : Campaign ]

-----------------------------------------------------------------------------
(* The inductive invariants.                                               *)

\* A request that is being served is about a project.
AboutProject == \A h \in Handlers : request[h].op # "idle" => request[h].project \in Projects

\* A worker has an exit code once it has ended.
CodeAtEnd == \A j \in 1..Len(jobs) : jobs[j].code # NoCode <=> ~Live(j)

\* The worker that AppState knows is the one started last.
RunningLast == running # NoJob => running = Len(jobs)

\* Traces and stages are counted from 1, and a worker that lifts is at one of the stages.
AtStage ==
  \A j \in 1..Len(jobs) :
    jobs[j].next >= 1 /\ (jobs[j].step = "lift" => jobs[j].next <= Len(LiftTrace))

\* A stored result is the exit code of the worker started last for the project.
StoredIsLast ==
  \A p \in Projects :
    results[p] # NoCode =>
      \E j \in 1..Len(jobs) :
        /\ jobs[j].project = p
        /\ jobs[j].code = results[p]
        /\ \A i \in j + 1..Len(jobs) : jobs[i].project # p

ResultInv ==
  /\ TypeOK
  /\ AtStage
  /\ AboutProject
  /\ CodeAtEnd
  /\ RunningLast
  /\ StoredIsLast

\* AppState knows the last worker, unless it was restarted since, or has its exit code.
Known ==
  forgotten < Len(jobs) =>
    \/ running = Len(jobs)
    \/ /\ ~Live(Len(jobs))
       /\ results[jobs[Len(jobs)].project] = jobs[Len(jobs)].code

\* A request that looked after the last worker was registered found that it had ended,
\* and stored its exit code.
Informed ==
  informed # {} =>
    /\ forgotten < Len(jobs)
    /\ ~Live(Len(jobs))
    /\ results[jobs[Len(jobs)].project] = jobs[Len(jobs)].code

\* The exit code of a project's last worker is stored or about to be, unless AppState
\* forgot the worker.
Kept ==
  \A k \in 1..Len(jobs) :
    ~Live(k) /\ forgotten < k /\ k + 1 \notin blind /\ LastFor(jobs[k].project, k) =>
      running = k \/ results[jobs[k].project] = jobs[k].code

\* A project with a worker has a last one.
HasLast ==
  \A j \in 1..Len(jobs) : \E k \in 1..Len(jobs) : LastFor(jobs[j].project, k)

\* A recovered binary was made by a worker.
MadeByWorker ==
  \A p \in Projects : HasRecovered(p) => \E j \in 1..Len(jobs) : jobs[j].project = p

KnownInv ==
  /\ ResultInv
  /\ Known
  /\ Informed
  /\ SingleWorker
  /\ Kept
  /\ HasLast
  /\ MadeByWorker

\* All trace files hold what captured.bc does, except those that a failure broke.
OneMerge(files) ==
  \A f \in DOMAIN files \cap TraceFile :
    files[f] # Broken => "captured.bc" \in DOMAIN files /\ files[f] = files["captured.bc"]

\* A worker that has not been disturbed is the only one of its project that runs.
Alone ==
  \A i, j \in 1..Len(jobs) :
    Live(i) /\ Live(j) /\ jobs[i].project = jobs[j].project /\ j \notin disturbed => i = j

\* The traces of the plan that have been run are in the trace directories; from the
\* merge on, all of them are in those listed and in what was made of them.
InProgress(j) ==
  LET p      == jobs[j].project
      files  == merged[p].files
      listed == Complete(p, jobs[j].dirs)
      Holds(names) == merged[p].there /\ DOMAIN files = names /\ \A f \in names : files[f] = listed
      planned == Range(jobs[j].plan)
  IN
  /\ jobs[j].step = "load" => jobs[j].next = 1
  /\ jobs[j].step = "run" =>
       \A i \in 1..Len(jobs[j].plan) :
         i < jobs[j].next => jobs[j].plan[i] \in Range(collected[p])
  /\ jobs[j].step \in {"bitcode", "info", "binary"} =>
       /\ jobs[j].dirs = Len(collected[p])
       /\ planned \subseteq listed
  /\ jobs[j].step = "bitcode" => Holds({})
  /\ jobs[j].step = "info" => Holds({"captured.bc"})
  /\ jobs[j].step = "binary" => Holds({"captured.bc", "traceInfo.json"})
  /\ jobs[j].step = "lift" =>
       /\ "captured.bc" \in DOMAIN files
       /\ planned \subseteq files["captured.bc"]
       /\ OneMerge(files)

Progress == \A j \in 1..Len(jobs) : j \notin disturbed => InProgress(j)

WorkerInv ==
  /\ ResultInv
  /\ Alone
  /\ Progress
  /\ NoStaleFile

-----------------------------------------------------------------------------
(* Campaigns, stages and files.                                            *)

\* A campaign is a list of at most MaxTraces traces.
LEMMA CampaignIsSeq ==
  ASSUME NEW c \in Campaign
  PROVE  c \in Seq(Traces) /\ Len(c) \in 0..MaxTraces
BY RecoveryAssumption DEF Campaign

\* Conversely, such a list is a campaign.
LEMMA SeqIsCampaign ==
  ASSUME NEW c \in Seq(Traces), Len(c) <= MaxTraces
  PROVE  c \in Campaign
<1>1. Len(c) \in 0..MaxTraces /\ c \in [1..Len(c) -> Traces]
  BY RecoveryAssumption
<1> QED
  BY <1>1 DEF Campaign

\* A project starts without traces.
LEMMA EmptyCampaign == <<>> \in Campaign
<1>1. <<>> \in Seq(Traces) /\ Len(<<>>) <= MaxTraces
  BY RecoveryAssumption
<1> QED
  BY <1>1, SeqIsCampaign

\* Adding a trace below the bound.
LEMMA AddedTrace ==
  ASSUME NEW c \in Campaign, Len(c) < MaxTraces, NEW t \in Traces
  PROVE  Append(c, t) \in Campaign
<1>1. c \in Seq(Traces) /\ Len(c) \in Nat
  BY CampaignIsSeq, RecoveryAssumption
<1>2. Append(c, t) \in Seq(Traces) /\ Len(Append(c, t)) <= MaxTraces
  BY <1>1, RecoveryAssumption
<1> QED
  BY <1>2, SeqIsCampaign

\* Removing a trace at any position.
LEMMA RemovedTrace ==
  ASSUME NEW c \in Campaign, NEW i \in 1..Len(c)
  PROVE  RemoveAt(c, i) \in Campaign
<1>1. c \in Seq(Traces) /\ Len(c) \in Nat /\ Len(c) <= MaxTraces
  BY CampaignIsSeq, RecoveryAssumption
<1>2. SubSeq(c, 1, i - 1) \in Seq(Traces) /\ Len(SubSeq(c, 1, i - 1)) = i - 1
  BY <1>1
<1>3. SubSeq(c, i + 1, Len(c)) \in Seq(Traces) /\ Len(SubSeq(c, i + 1, Len(c))) = Len(c) - i
  BY <1>1
<1>4. RemoveAt(c, i) \in Seq(Traces) /\ Len(RemoveAt(c, i)) = Len(c) - 1
  <2> DEFINE a == SubSeq(c, 1, i - 1)
             b == SubSeq(c, i + 1, Len(c))
  <2>1. a \in Seq(Traces) /\ b \in Seq(Traces) /\ Len(a) = i - 1 /\ Len(b) = Len(c) - i
    BY <1>2, <1>3
  <2>2. RemoveAt(c, i) = a \o b
    BY DEF RemoveAt
  <2> HIDE DEF a, b
  <2>3. a \o b \in Seq(Traces) /\ Len(a \o b) = Len(a) + Len(b)
    BY <2>1
  <2> QED
    BY <1>1, <2>1, <2>2, <2>3
<1> QED
  BY <1>1, <1>4, SeqIsCampaign, RecoveryAssumption

\* No stage writes captured.bc, one that writes a trace file reads one, and the last
\* makes the recovered binary of the object file.
LEMMA StageFacts ==
  /\ Len(LiftTrace) = 12
  /\ \A i \in 1..12 :
       LET stage == LiftTrace[i] IN
       /\ stage.writes \subseteq File
       /\ "captured.bc" \notin stage.writes
       /\ stage.writes \cap TraceFile # {} => stage.reads \cap TraceFile # {}
  /\ LiftTrace[12].writes = {"recovered"}
  /\ "recovered.o" \in LiftTrace[12].reads \cap TraceFile
  /\ "captured.bc" \in File /\ "traceInfo.json" \in File /\ "binary" \in File
  /\ "binary" \notin TraceFile
<1>1. Len(LiftTrace) = 12
  BY DEF LiftTrace
<1>2. /\ LiftTrace[1] = ExtractBinarySymbols /\ LiftTrace[2] = ExtractDataImports
      /\ LiftTrace[3] = ExtractSections /\ LiftTrace[4] = ExtractDependencies
      /\ LiftTrace[5] = CleanBitcode /\ LiftTrace[6] = ApplyFixups
      /\ LiftTrace[7] = LiftBitcode /\ LiftTrace[8] = OptimizeBitcode
      /\ LiftTrace[9] = DisassembleBitcode /\ LiftTrace[10] = RecoverBitcode
      /\ LiftTrace[11] = CompileBitcode /\ LiftTrace[12] = LinkRecoveredBinary
  BY DEF LiftTrace
<1>3. \A i \in 1..12 : LiftTrace[i].writes \subseteq File
  <2> SUFFICES ASSUME NEW i \in 1..12, NEW f \in LiftTrace[i].writes
               PROVE  f \in File
    OBVIOUS
  <2>1. f \in LiftTrace[i].reads \cup LiftTrace[i].writes /\ i \in 1..Len(LiftTrace)
    BY <1>1
  <2> QED
    BY <2>1 DEF File
<1>4. ASSUME NEW i \in 1..12
      PROVE  /\ "captured.bc" \notin LiftTrace[i].writes
             /\ LiftTrace[i].writes \cap TraceFile # {} => LiftTrace[i].reads \cap TraceFile # {}
  <2>1. i \in {1, 2, 3, 4} \/ i \in {5, 6, 7, 8} \/ i \in {9, 10, 11, 12}
    OBVIOUS
  <2>2. CASE i \in {1, 2, 3, 4}
    BY <1>2, <2>2 DEF ExtractBinarySymbols, ExtractDataImports, ExtractSections,
       ExtractDependencies, Stage, EarlyStage, TraceFile
  <2>3. CASE i \in {5, 6, 7, 8}
    BY <1>2, <2>3 DEF CleanBitcode, ApplyFixups, LiftBitcode, OptimizeBitcode, Stage,
       EarlyStage, TraceFile
  <2>4. CASE i \in {9, 10, 11, 12}
    BY <1>2, <2>4 DEF DisassembleBitcode, RecoverBitcode, CompileBitcode,
       LinkRecoveredBinary, Stage, EarlyStage, TraceFile
  <2> QED
    BY <2>1, <2>2, <2>3, <2>4
<1>5. LiftTrace[12].writes = {"recovered"} /\ "recovered.o" \in LiftTrace[12].reads \cap TraceFile
  BY <1>2 DEF LinkRecoveredBinary, Stage, TraceFile
<1>6. "captured.bc" \in File /\ "traceInfo.json" \in File /\ "binary" \in File
      /\ "binary" \notin TraceFile
  BY DEF File, TraceFile
<1> QED
  BY <1>1, <1>3, <1>4, <1>5, <1>6


\* A stage that succeeds derives its trace files from those of the one merge.
LEMMA SuccessOneMerge ==
  ASSUME NEW dir, IsDir(dir), OneMerge(dir), NEW i \in 1..12, Readable(dir, LiftTrace[i].reads)
  PROVE  /\ IsDir(AfterSuccess(dir, LiftTrace[i]))
         /\ OneMerge(AfterSuccess(dir, LiftTrace[i]))
         /\ "captured.bc" \in DOMAIN dir =>
              /\ "captured.bc" \in DOMAIN AfterSuccess(dir, LiftTrace[i])
              /\ AfterSuccess(dir, LiftTrace[i])["captured.bc"] = dir["captured.bc"]
         /\ i = 12 =>
              /\ "recovered" \in DOMAIN AfterSuccess(dir, LiftTrace[i])
              /\ AfterSuccess(dir, LiftTrace[i])["recovered"] = dir["captured.bc"]
<1> DEFINE stage == LiftTrace[i]
           derived == Derived(dir, stage)
           after == AfterSuccess(dir, stage)
<1>1. derived \in SUBSET Traces
  BY DEF Derived
<1>2. stage.writes \subseteq File /\ derived \in Content
  BY <1>1, StageFacts DEF Content
<1>3. /\ IsDir(after) /\ DOMAIN after = DOMAIN dir \cup stage.writes
      /\ \A f \in stage.writes : after[f] = derived
      /\ \A f \in DOMAIN dir \ stage.writes : after[f] = dir[f]
  <2>1. after = Store(dir, stage.writes, derived)
    BY DEF AfterSuccess
  <2> HIDE DEF derived, after, stage
  <2> QED
    BY <1>2, <2>1 DEF IsDir, Store
<1>4. ASSUME stage.reads \cap TraceFile # {}
      PROVE  "captured.bc" \in DOMAIN dir /\ derived = dir["captured.bc"]
  <2>1. \A f \in stage.reads \cap TraceFile :
          "captured.bc" \in DOMAIN dir /\ dir[f] = dir["captured.bc"] /\ dir[f] # Broken
    BY DEF Readable, OneMerge
  <2>2. PICK f \in stage.reads \cap TraceFile : TRUE
    BY <1>4
  <2>3. dir["captured.bc"] \in SUBSET Traces
    <3>1. dir["captured.bc"] \in Content /\ dir["captured.bc"] # Broken
      BY <2>1, <2>2 DEF IsDir
    <3> QED
      BY <3>1 DEF Content
  <2>4. derived = {t \in Traces : \A g \in stage.reads \cap TraceFile : t \in dir[g]}
    BY <1>4 DEF Derived
  <2>5. derived = {t \in Traces : t \in dir["captured.bc"]}
    <3> HIDE DEF derived, stage
    <3>1. ASSUME NEW t \in Traces
          PROVE  (\A g \in stage.reads \cap TraceFile : t \in dir[g]) <=> t \in dir["captured.bc"]
      BY <2>1, <2>2
    <3> QED
      BY <2>4, <3>1
  <2> QED
    BY <2>1, <2>2, <2>3, <2>5
<1>5. "captured.bc" \notin stage.writes
  BY StageFacts
<1>6. OneMerge(after)
  <2> SUFFICES ASSUME NEW f \in DOMAIN after \cap TraceFile, after[f] # Broken
               PROVE  "captured.bc" \in DOMAIN after /\ after[f] = after["captured.bc"]
    BY DEF OneMerge
  <2>1. CASE f \in stage.writes
    <3>1. stage.reads \cap TraceFile # {}
      BY <2>1, StageFacts
    <3> QED
      BY <1>3, <1>4, <1>5, <2>1, <3>1
  <2>2. CASE f \notin stage.writes
    BY <1>3, <1>5, <2>2 DEF OneMerge
  <2> QED
    BY <2>1, <2>2
<1>7. i = 12 => stage.writes = {"recovered"} /\ stage.reads \cap TraceFile # {}
  BY StageFacts
<1> QED
  BY <1>3, <1>4, <1>5, <1>6, <1>7

\* A stage that fails leaves the trace files, or breaks one it writes.
LEMMA FailureOneMerge ==
  ASSUME NEW dir, IsDir(dir), OneMerge(dir), NEW i \in 1..12
  PROVE  IsDir(AfterFailure(dir, LiftTrace[i])) /\ OneMerge(AfterFailure(dir, LiftTrace[i]))
<1> DEFINE after == Store(dir, LiftTrace[i].writes, Broken)
<1>1. LiftTrace[i].writes \subseteq File /\ "captured.bc" \notin LiftTrace[i].writes
      /\ Broken \in Content
  <2>1. Broken \in Content
    BY DEF Content
  <2> QED
    BY <2>1, StageFacts
<1>2. /\ IsDir(after) /\ DOMAIN after = DOMAIN dir \cup LiftTrace[i].writes
      /\ \A f \in LiftTrace[i].writes : after[f] = Broken
      /\ \A f \in DOMAIN dir \ LiftTrace[i].writes : after[f] = dir[f]
  <2> DEFINE names == LiftTrace[i].writes
  <2>1. names \subseteq File
    BY <1>1
  <2> HIDE DEF names
  <2>2. /\ IsDir(Store(dir, names, Broken)) /\ DOMAIN Store(dir, names, Broken) = DOMAIN dir \cup names
        /\ \A f \in names : Store(dir, names, Broken)[f] = Broken
        /\ \A f \in DOMAIN dir \ names : Store(dir, names, Broken)[f] = dir[f]
    BY <1>1, <2>1 DEF IsDir, Store
  <2> QED
    BY <2>2 DEF names
<1>3. OneMerge(after)
  BY <1>1, <1>2 DEF OneMerge
<1> QED
  BY <1>2, <1>3 DEF AfterFailure

-----------------------------------------------------------------------------
(* A step of a worker changes its own job, which has not ended, and no     *)
(* variable of the web application.                                        *)

\* The parts of the type invariant that the steps of a worker need.
LEMMA Types ==
  ASSUME TypeOK
  PROVE  /\ campaign \in [Projects -> Campaign \cup {Torn}]
         /\ collected \in [Projects -> Seq(Traces \cup {Incomplete})]
         /\ merged = [p \in Projects |-> merged[p]]
         /\ \A p \in Projects : IsMergedDir(merged[p])
         /\ jobs \in Seq(Job)
         /\ request \in [Handlers -> Request]
         /\ HistoryOK
BY Zenon DEF TypeOK, Job, Request

\* A job and the project it is for.
LEMMA JobFacts ==
  ASSUME TypeOK, NEW j \in 1..Len(jobs)
  PROVE  /\ jobs[j] \in Job
         /\ jobs[j].project \in Projects
         /\ DOMAIN jobs = 1..Len(jobs)
         /\ Len(jobs) \in Nat
<1>1. jobs \in Seq(Job)
  BY Types
<1>2. jobs[j] \in Job /\ DOMAIN jobs = 1..Len(jobs) /\ Len(jobs) \in Nat
  BY <1>1
<1> QED
  BY <1>2 DEF Job

\* A worker that exits keeps its project and has a code.
LEMMA ExitJob ==
  ASSUME TypeOK, NEW j \in 1..Len(jobs), NEW code \in ExitCode, Exit(j, code)
  PROVE  \E job \in Job : /\ jobs' = [jobs EXCEPT ![j] = job]
                          /\ job.project = jobs[j].project
                          /\ job.step = "done" /\ job.code = code /\ job.plan = <<>>
<1> DEFINE job == [NewJob(jobs[j].project) EXCEPT !.step = "done", !.code = code]
<1>1. job \in Job /\ job.project = jobs[j].project /\ job.step = "done" /\ job.code = code
      /\ job.plan = <<>>
  BY JobFacts, EmptyCampaign DEF NewJob, Job, JobStep
<1> QED
  BY <1>1 DEF Exit

\* A job as a step of the worker leaves it: it goes on, or it has ended.
Stepped(old, new) ==
  /\ new \in Job
  /\ new.project = old.project
  /\ \/ new.step # "done" /\ new.code = old.code
     \/ new.step = "done" /\ new.code \in ExitCode

\* An exit is a step of the job.
LEMMA ExitStepped ==
  ASSUME TypeOK, NEW j \in 1..Len(jobs), NEW code \in ExitCode, Exit(j, code)
  PROVE  \E job : Stepped(jobs[j], job) /\ jobs' = [jobs EXCEPT ![j] = job]
BY ExitJob DEF Stepped

\* Going on is a step of the job.
LEMMA ProceedStepped ==
  ASSUME TypeOK, NEW j \in 1..Len(jobs), NEW job \in Job, Proceed(j, job),
         job.project = jobs[j].project, job.step # "done", job.code = jobs[j].code
  PROVE  \E new : Stepped(jobs[j], new) /\ jobs' = [jobs EXCEPT ![j] = new]
BY DEF Stepped, Proceed

\* A step of a worker is a step of its own job and leaves the web application alone.
LEMMA WorkerStep ==
  ASSUME TypeOK, NEW j \in 1..Len(jobs), Worker(j)
  PROVE  /\ Live(j)
         /\ \E job : Stepped(jobs[j], job) /\ jobs' = [jobs EXCEPT ![j] = job]
         /\ UNCHANGED <<campaign, running, results, request>>
<1> USE DEF Live
<1> DEFINE Goal == \E job : Stepped(jobs[j], job) /\ jobs' = [jobs EXCEPT ![j] = job]
<1>1. /\ jobs[j] \in Job /\ jobs[j].next + 1 \in Nat
      /\ 0 \in ExitCode /\ FailCode \in ExitCode /\ campaign \in [Projects -> Campaign \cup {Torn}]
      /\ jobs[j].project \in Projects
  BY JobFacts, Types DEF Job, ExitCode, FailCode
<1>2. CASE Load(j)
  <2>1. CASE campaign[jobs[j].project] = Torn
    BY <1>1, <1>2, <2>1, ExitStepped DEF Load, appVars
  <2>2. CASE campaign[jobs[j].project] # Torn
    <3> DEFINE job == [jobs[j] EXCEPT !.step = "run", !.plan = campaign[jobs[j].project]]
    <3>1. campaign[jobs[j].project] \in Campaign
      BY <1>1, <2>2
    <3>2. job \in Job /\ job.project = jobs[j].project /\ job.step # "done" /\ job.code = jobs[j].code
      BY <1>1, <3>1 DEF Job, JobStep
    <3>3. Proceed(j, job)
      BY <1>2, <2>2 DEF Load
    <3> HIDE DEF job
    <3>4. Goal
      BY <3>2, <3>3, ProceedStepped
    <3> QED
      BY <1>2, <3>4 DEF Load, appVars
  <2> QED
    BY <2>1, <2>2
<1>3. CASE RunTrace(j)
  <2> DEFINE job == [jobs[j] EXCEPT !.next = @ + 1]
  <2>1. job \in Job /\ job.project = jobs[j].project /\ job.step # "done" /\ job.code = jobs[j].code
        /\ Proceed(j, job)
    BY <1>1, <1>3 DEF Job, JobStep, RunTrace
  <2> HIDE DEF job
  <2>2. Goal
    BY <2>1, ProceedStepped
  <2> QED
    BY <1>3, <2>2 DEF RunTrace, appVars
<1>4. CASE RunTraceFails(j) \/ MergeBitcodeFails(j) \/ MergeFails(j) \/ LiftFails(j)
  <2>1. Exit(j, FailCode) /\ jobs[j].step # "done" /\ UNCHANGED <<campaign, running, results, request>>
    BY <1>4 DEF RunTraceFails, MergeBitcodeFails, MergeFails, LiftFails, appVars
  <2> QED
    BY <1>1, <2>1, ExitStepped
<1>5. CASE BeginMerge(j)
  <2>1. CASE collected[jobs[j].project] = <<>>
    BY <1>1, <1>5, <2>1, ExitStepped DEF BeginMerge, appVars
  <2>2. CASE collected[jobs[j].project] # <<>>
    <3> DEFINE job == [jobs[j] EXCEPT !.step = "bitcode", !.dirs = Len(collected[jobs[j].project])]
    <3>1. Len(collected[jobs[j].project]) \in Nat
      BY <1>1, Types
    <3>2. job \in Job /\ job.project = jobs[j].project /\ job.step # "done" /\ job.code = jobs[j].code
      BY <1>1, <3>1 DEF Job, JobStep
    <3>3. Proceed(j, job)
      BY <1>5, <2>2 DEF BeginMerge
    <3> HIDE DEF job
    <3>4. Goal
      BY <3>2, <3>3, ProceedStepped
    <3> QED
      BY <1>5, <3>4 DEF BeginMerge, appVars
  <2> QED
    BY <2>1, <2>2
<1>6. CASE MergeBitcode(j) \/ MergeTraceInfo(j) \/ CopyBinary(j)
  <2>1. PICK step \in {"info", "binary", "lift"}, next \in Nat :
          Proceed(j, [jobs[j] EXCEPT !.step = step, !.next = next])
    <3>1. CASE MergeBitcode(j) \/ MergeTraceInfo(j)
      <4>1. \A step : [jobs[j] EXCEPT !.step = step] = [jobs[j] EXCEPT !.step = step, !.next = jobs[j].next]
        BY <1>1 DEF Job
      <4> QED
        BY <1>1, <3>1, <4>1 DEF MergeBitcode, MergeTraceInfo, Job
    <3>2. CASE CopyBinary(j)
      BY <3>2 DEF CopyBinary
    <3> QED
      BY <1>6, <3>1, <3>2
  <2> DEFINE job == [jobs[j] EXCEPT !.step = step, !.next = next]
  <2>2. job \in Job /\ job.project = jobs[j].project /\ job.step # "done" /\ job.code = jobs[j].code
        /\ Proceed(j, job)
    BY <1>1, <2>1 DEF Job, JobStep
  <2> HIDE DEF job
  <2>3. Goal
    BY <2>2, ProceedStepped
  <2> QED
    BY <1>6, <2>3 DEF MergeBitcode, MergeTraceInfo, CopyBinary, appVars
<1>7. CASE Lift(j)
  <2>1. CASE jobs[j].next = Len(LiftTrace)
    BY <1>1, <1>7, <2>1, ExitStepped DEF Lift, appVars
  <2>2. CASE jobs[j].next # Len(LiftTrace)
    <3> DEFINE job == [jobs[j] EXCEPT !.next = @ + 1]
    <3>1. job \in Job /\ job.project = jobs[j].project /\ job.step # "done" /\ job.code = jobs[j].code
          /\ Proceed(j, job)
      BY <1>1, <1>7, <2>2 DEF Job, JobStep, Lift
    <3> HIDE DEF job
    <3>2. Goal
      BY <3>1, ProceedStepped
    <3> QED
      BY <1>7, <3>2 DEF Lift, appVars
  <2> QED
    BY <2>1, <2>2
<1> QED
  BY <1>2, <1>3, <1>4, <1>5, <1>6, <1>7 DEF Worker

\* No step of a worker is part of the history.
LEMMA WorkerHistory ==
  ASSUME NEW j \in 1..Len(jobs), Worker(j)
  PROVE  UNCHANGED <<forgotten, informed, blind, disturbed>>
BY DEF Worker, Load, RunTrace, RunTraceFails, BeginMerge, MergeBitcode, MergeBitcodeFails,
   MergeTraceInfo, CopyBinary, MergeFails, Lift, LiftFails, history

-----------------------------------------------------------------------------
(* The files that a worker changes.                                        *)

\* The traces that have been collected completely.
LEMMA CompleteFacts ==
  ASSUME TypeOK, NEW p \in Projects, NEW n \in Nat, n <= Len(collected[p])
  PROVE  /\ Complete(p, n) \in SUBSET Traces
         /\ Complete(p, n) \in Content
<1> DEFINE s == collected[p]
<1>1. s \in Seq(Traces \cup {Incomplete}) /\ Len(s) \in Nat /\ n <= Len(s)
  BY Types
<1> HIDE DEF s
<1>2. SubSeq(s, 1, n) \in Seq(Traces \cup {Incomplete})
  BY <1>1
<1>3. Range(SubSeq(s, 1, n)) \subseteq Traces \cup {Incomplete}
  BY <1>2 DEF Range
<1> QED
  BY <1>3 DEF Complete, s, Content

\* The merged directory of a project.
LEMMA DirFacts ==
  ASSUME TypeOK, NEW p \in Projects
  PROVE  /\ DOMAIN merged = Projects
         /\ DOMAIN merged[p] = {"there", "files"}
         /\ merged[p].there \in BOOLEAN
         /\ IsDir(merged[p].files)
BY Types DEF IsMergedDir

\* The merged directories are typed when one is replaced.
LEMMA ReplacedDir ==
  ASSUME TypeOK, NEW p \in Projects, NEW d, IsMergedDir(d), merged' = [merged EXCEPT ![p] = d]
  PROVE  /\ merged' = [q \in Projects |-> merged'[q]]
         /\ \A q \in Projects : IsMergedDir(merged'[q])
         /\ merged'[p] = d
         /\ \A q \in Projects \ {p} : merged'[q] = merged[q]
BY Types

\* Replacing the files of a merged directory.
LEMMA ReplacedFiles ==
  ASSUME TypeOK, NEW p \in Projects, NEW files, IsDir(files),
         merged' = [merged EXCEPT ![p].files = files]
  PROVE  /\ merged' = [q \in Projects |-> merged'[q]]
         /\ \A q \in Projects : IsMergedDir(merged'[q])
         /\ merged'[p].there = merged[p].there
         /\ merged'[p].files = files
         /\ \A q \in Projects \ {p} : merged'[q] = merged[q]
<1> DEFINE d == [merged[p] EXCEPT !.files = files]
<1>1. d = [there |-> merged[p].there, files |-> files]
  BY DirFacts
<1>2. IsMergedDir(d)
  BY <1>1, DirFacts DEF IsMergedDir
<1>3. merged' = [merged EXCEPT ![p] = d]
  OBVIOUS
<1>4. d.there = merged[p].there /\ d.files = files
  BY <1>1
<1> HIDE DEF d
<1>5. /\ merged' = [q \in Projects |-> merged'[q]]
      /\ \A q \in Projects : IsMergedDir(merged'[q])
      /\ merged'[p] = d
      /\ \A q \in Projects \ {p} : merged'[q] = merged[q]
  BY <1>2, <1>3, ReplacedDir
<1> QED
  BY <1>4, <1>5

\* Writing one file of a merged directory.
LEMMA WrittenFile ==
  ASSUME TypeOK, NEW p \in Projects, NEW name \in File, NEW content \in Content,
         Write(p, name, content)
  PROVE  /\ merged' = [q \in Projects |-> merged'[q]]
         /\ \A q \in Projects : IsMergedDir(merged'[q])
         /\ merged'[p].there = merged[p].there
         /\ DOMAIN merged'[p].files = DOMAIN merged[p].files \cup {name}
         /\ merged'[p].files[name] = content
         /\ \A f \in DOMAIN merged[p].files \ {name} : merged'[p].files[f] = merged[p].files[f]
         /\ \A q \in Projects \ {p} : merged'[q] = merged[q]
<1> DEFINE files == Store(merged[p].files, {name}, content)
<1>1. /\ IsDir(files)
      /\ DOMAIN files = DOMAIN merged[p].files \cup {name}
      /\ files[name] = content
      /\ \A f \in DOMAIN merged[p].files \ {name} : files[f] = merged[p].files[f]
  BY DirFacts DEF IsDir, Store
<1>2. merged' = [merged EXCEPT ![p].files = files]
  BY DEF Write
<1> HIDE DEF files
<1> QED
  BY <1>1, <1>2, ReplacedFiles

\* What a stage of lift_trace leaves, whether it succeeds or fails.
LEMMA StageDirs ==
  ASSUME NEW dir, IsDir(dir), NEW i \in 1..12
  PROVE  IsDir(AfterSuccess(dir, LiftTrace[i])) /\ IsDir(AfterFailure(dir, LiftTrace[i]))
<1>1. LiftTrace[i].writes \subseteq File
  BY StageFacts
<1>2. ASSUME NEW names, names \subseteq File, NEW content \in Content
      PROVE  IsDir(Store(dir, names, content))
  BY <1>2 DEF IsDir, Store
<1>3. Derived(dir, LiftTrace[i]) \in Content /\ Broken \in Content
  BY DEF Derived, Content
<1>4. IsDir(Store(dir, LiftTrace[i].writes, Derived(dir, LiftTrace[i])))
  BY <1>1, <1>2, <1>3
<1>5. IsDir(Store(dir, LiftTrace[i].writes, Broken))
  BY <1>1, <1>2, <1>3
<1> QED
  BY <1>4, <1>5 DEF AfterSuccess, AfterFailure

\* A worker changes the directories of its project only.
LEMMA WorkerFiles ==
  ASSUME TypeOK, AtStage, NEW j \in 1..Len(jobs), Worker(j)
  PROVE  /\ collected' \in [Projects -> Seq(Traces \cup {Incomplete})]
         /\ merged' = [q \in Projects |-> merged'[q]]
         /\ \A q \in Projects : IsMergedDir(merged'[q])
         /\ \A q \in Projects \ {jobs[j].project} :
              collected'[q] = collected[q] /\ merged'[q] = merged[q]
<1> DEFINE p == jobs[j].project
<1> DEFINE Goal == /\ collected' \in [Projects -> Seq(Traces \cup {Incomplete})]
                   /\ merged' = [q \in Projects |-> merged'[q]]
                   /\ \A q \in Projects : IsMergedDir(merged'[q])
                   /\ \A q \in Projects \ {p} : collected'[q] = collected[q] /\ merged'[q] = merged[q]
<1>1. p \in Projects /\ jobs[j] \in Job /\ jobs[j].dirs \in Nat
  BY JobFacts DEF Job
<1>2. /\ collected \in [Projects -> Seq(Traces \cup {Incomplete})]
      /\ merged = [q \in Projects |-> merged[q]]
      /\ \A q \in Projects : IsMergedDir(merged[q])
  BY Types
<1>3. CASE UNCHANGED <<collected, merged>>
  BY <1>2, <1>3
<1>4. ASSUME NEW t \in Traces \cup {Incomplete}, UNCHANGED merged,
             collected' = [collected EXCEPT ![p] = Append(@, t)]
      PROVE  Goal
  <2>1. Append(collected[p], t) \in Seq(Traces \cup {Incomplete})
    BY <1>1, <1>2
  <2> QED
    BY <1>1, <1>2, <1>4, <2>1
<1>5. ASSUME NEW name \in File, NEW content \in Content, Write(p, name, content), UNCHANGED collected
      PROVE  Goal
  <2>1. /\ merged' = [q \in Projects |-> merged'[q]]
        /\ \A q \in Projects : IsMergedDir(merged'[q])
        /\ \A q \in Projects \ {p} : merged'[q] = merged[q]
    <3> HIDE DEF p
    <3> QED
      BY <1>1, <1>5, WrittenFile
  <2> QED
    BY <1>2, <1>5, <2>1
<1>6. ASSUME NEW n \in Nat, n <= jobs[j].dirs, InPlace(j)
      PROVE  Complete(p, n) \in Content
  <2>1. Len(collected[p]) \in Nat
    BY <1>1, <1>2
  <2>2. n <= Len(collected[p])
    BY <1>1, <1>6, <2>1 DEF InPlace
  <2> QED
    BY <1>1, <2>2, CompleteFacts
<1>7. CASE Load(j) \/ MergeFails(j)
  BY <1>3, <1>7 DEF Load, MergeFails
<1>8. CASE RunTrace(j)
  <2>1. jobs[j].plan[jobs[j].next] \in Traces
    <3>1. jobs[j].plan \in Seq(Traces)
      BY <1>1, CampaignIsSeq DEF Job
    <3>2. jobs[j].next \in Nat /\ jobs[j].next <= Len(jobs[j].plan)
      BY <1>1, <1>8 DEF RunTrace, Job
    <3>3. jobs[j].next # 0
      BY DEF AtStage
    <3> QED
      BY <3>1, <3>2, <3>3
  <2> QED
    BY <1>4, <1>8, <2>1 DEF RunTrace
<1>9. CASE RunTraceFails(j)
  BY <1>3, <1>4, <1>9 DEF RunTraceFails
<1>10. CASE BeginMerge(j)
  <2>1. CASE UNCHANGED merged
    BY <1>3, <1>10, <2>1 DEF BeginMerge
  <2>2. CASE merged' = [merged EXCEPT ![p] = EmptyDir]
    <3>1. IsMergedDir(EmptyDir)
      BY DEF IsMergedDir, EmptyDir, IsDir
    <3>2. UNCHANGED collected
      BY <1>10 DEF BeginMerge
    <3> DEFINE d == EmptyDir
    <3>3. IsMergedDir(d) /\ merged' = [merged EXCEPT ![p] = d]
      BY <2>2, <3>1
    <3> HIDE DEF p, d
    <3>4. /\ merged' = [q \in Projects |-> merged'[q]]
          /\ \A q \in Projects : IsMergedDir(merged'[q])
          /\ \A q \in Projects \ {p} : merged'[q] = merged[q]
      BY <1>1, <3>3, ReplacedDir
    <3> QED
      BY <1>2, <3>2, <3>4 DEF p
  <2> QED
    BY <1>10, <2>1, <2>2 DEF BeginMerge, Emptied
<1>11. CASE MergeBitcode(j)
  <2>1. Complete(p, jobs[j].dirs) \in Content
    BY <1>1, <1>6, <1>11 DEF MergeBitcode
  <2> QED
    BY <1>5, <1>11, <2>1, StageFacts DEF MergeBitcode
<1>12. CASE MergeBitcodeFails(j)
  <2>1. CASE UNCHANGED merged
    BY <1>3, <1>12, <2>1 DEF MergeBitcodeFails
  <2>2. CASE merged' # merged
    <3>1. PICK n \in 1..jobs[j].dirs : InPlace(j) /\ Write(p, "captured.bc", Complete(p, n))
      BY <1>12, <2>2 DEF MergeBitcodeFails
    <3>2. Complete(p, n) \in Content
      BY <1>1, <1>6, <3>1
    <3> QED
      BY <1>5, <1>12, <3>1, <3>2, StageFacts DEF MergeBitcodeFails
  <2> QED
    BY <2>1, <2>2
<1>13. CASE MergeTraceInfo(j)
  <2>1. Complete(p, jobs[j].dirs) \in Content
    BY <1>1, <1>6, <1>13 DEF MergeTraceInfo
  <2> QED
    BY <1>5, <1>13, <2>1, StageFacts DEF MergeTraceInfo
<1>14. CASE CopyBinary(j)
  <2>1. {} \in Content
    BY DEF Content
  <2> QED
    BY <1>5, <1>14, <2>1, StageFacts DEF CopyBinary
<1>15. ASSUME NEW files, IsDir(files), merged' = [merged EXCEPT ![p].files = files], UNCHANGED collected
       PROVE  Goal
  <2> HIDE DEF p
  <2> QED
    BY <1>1, <1>2, <1>15, ReplacedFiles
<1>16. CASE Lift(j)
  <2>1. jobs[j].next \in 1..12
    BY <1>1, <1>16, StageFacts DEF Lift, AtStage, Job
  <2>2. IsDir(AfterSuccess(merged[p].files, LiftTrace[jobs[j].next]))
    BY <1>1, <2>1, DirFacts, StageDirs
  <2>3. merged' = [merged EXCEPT ![p].files = AfterSuccess(merged[p].files, LiftTrace[jobs[j].next])]
        /\ UNCHANGED collected
    BY <1>16 DEF Lift
  <2> QED
    BY <1>15, <2>2, <2>3
<1>17. CASE LiftFails(j)
  <2>1. jobs[j].next \in 1..12
    BY <1>1, <1>17, StageFacts DEF LiftFails, AtStage, Job
  <2>2. IsDir(AfterFailure(merged[p].files, LiftTrace[jobs[j].next]))
    BY <1>1, <2>1, DirFacts, StageDirs
  <2>3. CASE ~merged[p].there
    BY <1>3, <1>17, <2>3 DEF LiftFails
  <2>4. CASE merged[p].there
    <3>1. merged' = [merged EXCEPT ![p].files = AfterFailure(merged[p].files, LiftTrace[jobs[j].next])]
          /\ UNCHANGED collected
      BY <1>17, <2>4 DEF LiftFails
    <3> QED
      BY <1>15, <2>2, <3>1
  <2> QED
    BY <2>3, <2>4
<1> QED
  BY <1>7, <1>8, <1>9, <1>10, <1>11, <1>12, <1>13, <1>14, <1>16, <1>17 DEF Worker

-----------------------------------------------------------------------------
(* Types and results.                                                      *)

\* The worker known to the application and the results shown.
LEMMA MoreTypes ==
  ASSUME TypeOK
  PROVE  /\ running \in {NoJob} \cup 1..Len(jobs)
         /\ results \in [Projects -> ExitCode \cup {NoCode}]
BY Zenon DEF TypeOK

\* No worker has been started.
LEMMA InitResultInv == Init => ResultInv
<1> SUFFICES ASSUME Init PROVE ResultInv
  OBVIOUS
<1>1. /\ campaign = [p \in Projects |-> <<>>] /\ collected = [p \in Projects |-> <<>>]
      /\ merged = [p \in Projects |-> NoDir] /\ jobs = <<>> /\ running = NoJob
      /\ results = [p \in Projects |-> NoCode] /\ request = [h \in Handlers |-> Idle]
  BY DEF Init
<1>2. campaign \in [Projects -> Campaign \cup {Torn}]
  BY <1>1, EmptyCampaign
<1>3. collected \in [Projects -> Seq(Traces \cup {Incomplete})]
  BY <1>1
<1>4. IsMergedDir(NoDir)
  BY DEF IsMergedDir, NoDir, IsDir
<1>5. merged = [p \in Projects |-> merged[p]] /\ \A p \in Projects : IsMergedDir(merged[p])
  BY <1>1, <1>4
<1>6. jobs \in Seq(Job) /\ Len(jobs) = 0
  BY <1>1
<1>7. Idle \in Request
  BY EmptyCampaign DEF Idle, Request
<1>8. request \in [Handlers -> Request]
  BY <1>1, <1>7
<1>9. TypeOK
  <2>1. running \in {NoJob} \cup 1..Len(jobs) /\ results \in [Projects -> ExitCode \cup {NoCode}]
    BY <1>1
  <2>2. HistoryOK
    BY <1>6 DEF HistoryOK, Init
  <2> QED
    BY <1>2, <1>3, <1>5, <1>6, <1>8, <2>1, <2>2, Zenon DEF TypeOK, Job, Request
<1>10. AtStage /\ CodeAtEnd
  BY <1>6 DEF AtStage, CodeAtEnd
<1>11. AboutProject
  BY <1>1 DEF AboutProject, Idle
<1>12. RunningLast /\ StoredIsLast
  BY <1>1 DEF RunningLast, StoredIsLast
<1> QED
  BY <1>9, <1>10, <1>11, <1>12 DEF ResultInv

\* AppState, once polled, holds exit codes of last workers only.
LEMMA PolledIsLast ==
  ASSUME ResultInv
  PROVE  /\ Polled \in {NoJob, running}
         /\ PolledResults \in [Projects -> ExitCode \cup {NoCode}]
         /\ \A p \in Projects :
              PolledResults[p] # NoCode =>
                \E j \in 1..Len(jobs) :
                  /\ jobs[j].project = p
                  /\ jobs[j].code = PolledResults[p]
                  /\ \A i \in j + 1..Len(jobs) : jobs[i].project # p
<1>1. TypeOK /\ RunningLast /\ StoredIsLast
  BY DEF ResultInv
<1>2. running \in {NoJob} \cup 1..Len(jobs) /\ results \in [Projects -> ExitCode \cup {NoCode}]
  BY <1>1, MoreTypes
<1>3. Polled \in {NoJob, running}
  BY DEF Polled
<1>4. CASE ~Ended
  BY <1>1, <1>2, <1>3, <1>4 DEF PolledResults, StoredIsLast
<1>5. CASE Ended
  <2> DEFINE q == jobs[running].project
  <2>1. running = Len(jobs) /\ running \in 1..Len(jobs) /\ Len(jobs) \in Nat
    BY <1>1, <1>2, <1>5, Types DEF Ended, RunningLast
  <2>2. jobs[running] \in Job /\ q \in Projects
    BY <1>1, <2>1, JobFacts
  <2>3. PolledResults = [results EXCEPT ![q] = jobs[running].code]
    BY <1>5 DEF PolledResults
  <2>4. jobs[running].code \in ExitCode \cup {NoCode}
    BY <2>2 DEF Job
  <2>5. PolledResults \in [Projects -> ExitCode \cup {NoCode}]
    BY <1>2, <2>2, <2>3, <2>4
  <2>6. ASSUME NEW p \in Projects, PolledResults[p] # NoCode
        PROVE  \E j \in 1..Len(jobs) :
                 /\ jobs[j].project = p /\ jobs[j].code = PolledResults[p]
                 /\ \A i \in j + 1..Len(jobs) : jobs[i].project # p
    <3>1. CASE p = q
      <4>1. PolledResults[p] = jobs[running].code
        BY <1>2, <2>3, <3>1
      <4>2. \A i \in running + 1..Len(jobs) : FALSE
        BY <2>1
      <4> QED
        BY <2>1, <3>1, <4>1, <4>2
    <3>2. CASE p # q
      <4>1. PolledResults[p] = results[p]
        BY <1>2, <2>2, <2>3, <3>2
      <4> QED
        BY <1>1, <2>6, <4>1 DEF StoredIsLast
    <3> QED
      BY <3>1, <3>2
  <2> QED
    BY <1>3, <2>5, <2>6
<1> QED
  BY <1>4, <1>5

\* before_request forgets a worker that has ended and keeps its exit code.
LEMMA PollStep ==
  ASSUME ResultInv, Poll, UNCHANGED jobs
  PROVE  /\ running' \in {NoJob, running}
         /\ running' \in {NoJob} \cup 1..Len(jobs')
         /\ results' \in [Projects -> ExitCode \cup {NoCode}]
         /\ RunningLast'
         /\ StoredIsLast'
<1>1. TypeOK /\ RunningLast
  BY DEF ResultInv
<1>2. running' = Polled /\ results' = PolledResults
  BY DEF Poll
<1>3. running' \in {NoJob, running}
  BY <1>2, PolledIsLast
<1>4. running' \in {NoJob} \cup 1..Len(jobs') /\ RunningLast'
  BY <1>1, <1>3, MoreTypes DEF RunningLast
<1>5. results' \in [Projects -> ExitCode \cup {NoCode}] /\ StoredIsLast'
  BY <1>2, PolledIsLast DEF StoredIsLast
<1> QED
  BY <1>3, <1>4, <1>5

\* A worker's step: the stage stays in range.
LEMMA WorkerStage ==
  ASSUME TypeOK, AtStage, NEW j \in 1..Len(jobs), Worker(j)
  PROVE  jobs'[j].next >= 1 /\ (jobs'[j].step = "lift" => jobs'[j].next <= Len(LiftTrace))
<1>1. jobs \in Seq(Job) /\ jobs[j] \in Job /\ jobs[j].next \in Nat /\ jobs[j].next >= 1
  BY Types, JobFacts DEF Job, AtStage
<1>2. \A job : jobs' = [jobs EXCEPT ![j] = job] => jobs'[j] = job
  BY <1>1
<1>3. CASE \E code \in ExitCode : Exit(j, code)
  <2>1. PICK code \in ExitCode :
          jobs'[j] = [NewJob(jobs[j].project) EXCEPT !.step = "done", !.code = code]
    BY <1>2, <1>3 DEF Exit
  <2>2. jobs'[j].next = 1 /\ jobs'[j].step = "done"
    BY <2>1 DEF NewJob
  <2> QED
    BY <2>2
<1>4. 0 \in ExitCode /\ FailCode \in ExitCode
  BY DEF ExitCode
<1>5. CASE Load(j)
  BY <1>1, <1>2, <1>3, <1>4, <1>5 DEF Load, Proceed, Job
<1>6. CASE RunTrace(j)
  BY <1>1, <1>2, <1>6 DEF RunTrace, Proceed, Job
<1>7. CASE RunTraceFails(j) \/ MergeBitcodeFails(j) \/ MergeFails(j) \/ LiftFails(j)
  BY <1>3, <1>4, <1>7 DEF RunTraceFails, MergeBitcodeFails, MergeFails, LiftFails
<1>8. CASE BeginMerge(j)
  BY <1>1, <1>2, <1>3, <1>4, <1>8 DEF BeginMerge, Proceed, Job
<1>9. CASE MergeBitcode(j) \/ MergeTraceInfo(j)
  BY <1>1, <1>2, <1>9 DEF MergeBitcode, MergeTraceInfo, Proceed, Job
<1>10. CASE CopyBinary(j)
  BY <1>1, <1>2, <1>10, StageFacts DEF CopyBinary, Proceed, Job
<1>11. CASE Lift(j)
  <2>1. CASE jobs[j].next = Len(LiftTrace)
    BY <1>3, <1>4, <1>11, <2>1 DEF Lift
  <2>2. CASE jobs[j].next # Len(LiftTrace)
    <3>1. jobs[j].next < 12
      BY <1>1, <1>11, <2>2, StageFacts DEF Lift, AtStage
    <3>2. jobs'[j] = [jobs[j] EXCEPT !.next = @ + 1]
      BY <1>2, <1>11, <2>2 DEF Lift, Proceed
    <3>3. jobs'[j].next = jobs[j].next + 1
      BY <1>1, <3>2 DEF Job
    <3> QED
      BY <1>1, <3>1, <3>3, StageFacts
  <2> QED
    BY <2>1, <2>2
<1> QED
  BY <1>5, <1>6, <1>7, <1>8, <1>9, <1>10, <1>11 DEF Worker

\* Steps of a worker.
LEMMA WorkerResultInv ==
  ASSUME ResultInv, NEW j \in 1..Len(jobs), Worker(j)
  PROVE  ResultInv'
<1>1. TypeOK /\ AtStage /\ AboutProject /\ CodeAtEnd /\ RunningLast /\ StoredIsLast
  BY DEF ResultInv
<1>2. PICK job : Stepped(jobs[j], job) /\ jobs' = [jobs EXCEPT ![j] = job]
  BY <1>1, WorkerStep
<1>3. Live(j) /\ UNCHANGED <<campaign, running, results, request>>
  BY <1>1, WorkerStep
<1>4. jobs \in Seq(Job) /\ job \in Job
  BY <1>1, <1>2, Types DEF Stepped
<1>5. /\ jobs' \in Seq(Job) /\ Len(jobs') = Len(jobs) /\ Len(jobs) \in Nat
      /\ jobs'[j] = job
      /\ \A i \in 1..Len(jobs) : i # j => jobs'[i] = jobs[i]
  BY <1>2, <1>4
<1>6. TypeOK'
  <2>1. campaign' \in [Projects -> Campaign \cup {Torn}] /\ request' \in [Handlers -> Request]
    BY <1>1, <1>3, Types
  <2>2. running' \in {NoJob} \cup 1..Len(jobs') /\ results' \in [Projects -> ExitCode \cup {NoCode}]
    BY <1>1, <1>3, <1>5, MoreTypes
  <2>3. /\ collected' \in [Projects -> Seq(Traces \cup {Incomplete})]
        /\ merged' = [q \in Projects |-> merged'[q]]
        /\ \A q \in Projects : IsMergedDir(merged'[q])
    BY <1>1, WorkerFiles
  <2>4. HistoryOK'
    BY <1>1, <1>5, Types, WorkerHistory DEF HistoryOK
  <2> QED
    BY <1>5, <2>1, <2>2, <2>3, <2>4, Zenon DEF TypeOK, Job, Request
<1>7. AtStage'
  BY <1>1, <1>5, WorkerStage DEF AtStage
<1>8. AboutProject'
  BY <1>1, <1>3 DEF AboutProject
<1>9. jobs[j].code = NoCode /\ jobs[j].step # "done"
  BY <1>1, <1>3 DEF CodeAtEnd, Live
<1>10. CodeAtEnd'
  <2>1. job.code # NoCode <=> job.step = "done"
    BY <1>2, <1>9 DEF Stepped, ExitCode, NoCode, FailCode
  <2>2. \A i \in 1..Len(jobs') : jobs'[i].code # NoCode <=> jobs'[i].step = "done"
    BY <1>1, <1>5, <2>1 DEF CodeAtEnd, Live
  <2> QED
    BY <2>2 DEF CodeAtEnd, Live
<1>11. RunningLast'
  BY <1>1, <1>3, <1>5 DEF RunningLast
<1>12. StoredIsLast'
  <2> SUFFICES ASSUME NEW p \in Projects, results[p] # NoCode
               PROVE  \E k \in 1..Len(jobs) :
                        /\ jobs'[k].project = p /\ jobs'[k].code = results[p]
                        /\ \A i \in k + 1..Len(jobs) : jobs'[i].project # p
    BY <1>3, <1>5 DEF StoredIsLast
  <2>1. PICK k \in 1..Len(jobs) :
          /\ jobs[k].project = p /\ jobs[k].code = results[p]
          /\ \A i \in k + 1..Len(jobs) : jobs[i].project # p
    BY <1>1 DEF StoredIsLast
  <2>2. k # j
    BY <1>9, <2>1
  <2>3. \A i \in 1..Len(jobs) : jobs'[i].project = jobs[i].project
    BY <1>2, <1>5 DEF Stepped
  <2>4. \A i \in k + 1..Len(jobs) : i \in 1..Len(jobs)
    BY <1>5
  <2> QED
    BY <1>5, <2>1, <2>2, <2>3, <2>4
<1> QED
  BY <1>6, <1>7, <1>8, <1>10, <1>11, <1>12 DEF ResultInv

\* A request is taken up.
LEMMA BeginResultInv ==
  ASSUME ResultInv, NEW h \in Handlers, NEW p \in Projects, NEW loaded \in Campaign,
         NEW op \in {"recover", "edit", "clear"}, Begin(h, op, p, loaded),
         UNCHANGED <<campaign, merged, jobs>>,
         collected' \in [Projects -> Seq(Traces \cup {Incomplete})], HistoryOK'
  PROVE  ResultInv'
<1>1. TypeOK /\ AtStage /\ AboutProject /\ CodeAtEnd
  BY DEF ResultInv
<1>2. /\ running' \in {NoJob} \cup 1..Len(jobs')
      /\ results' \in [Projects -> ExitCode \cup {NoCode}]
      /\ RunningLast' /\ StoredIsLast'
  BY PollStep DEF Begin
<1>3. request \in [Handlers -> Request]
  BY <1>1, Types
<1>4. [op |-> op, project |-> p, loaded |-> loaded] \in Request
  BY DEF Request
<1>5. request' = [request EXCEPT ![h] = [op |-> op, project |-> p, loaded |-> loaded]]
  BY DEF Begin
<1>6. request' \in [Handlers -> Request]
  BY <1>3, <1>4, <1>5
<1>7. TypeOK'
  <2>1. /\ campaign' \in [Projects -> Campaign \cup {Torn}]
        /\ merged' = [q \in Projects |-> merged'[q]]
        /\ \A q \in Projects : IsMergedDir(merged'[q])
        /\ jobs' \in Seq(Job)
    BY <1>1, Types
  <2> QED
    BY <1>2, <1>6, <2>1, Zenon DEF TypeOK, Job, Request
<1>8. AtStage' /\ CodeAtEnd'
  BY <1>1 DEF AtStage, CodeAtEnd, Live
<1>9. AboutProject'
  BY <1>1, <1>3, <1>5 DEF AboutProject
<1> QED
  BY <1>2, <1>7, <1>8, <1>9 DEF ResultInv

\* A worker is started: set_running_project forgets the result of the project.
LEMMA StartResultInv ==
  ASSUME ResultInv, NEW h \in Handlers, StartWorker(h)
  PROVE  /\ ResultInv'
         /\ Len(jobs') = Len(jobs) + 1 /\ Len(jobs) \in Nat /\ running' = Len(jobs) + 1
         /\ jobs'[Len(jobs) + 1] = NewJob(request[h].project)
         /\ \A i \in 1..Len(jobs) : jobs'[i] = jobs[i]
<1>1. TypeOK /\ AtStage /\ AboutProject /\ CodeAtEnd /\ RunningLast /\ StoredIsLast
  BY DEF ResultInv
<1> DEFINE p == request[h].project
           new == NewJob(p)
           n == Len(jobs)
<1>2. p \in Projects
  BY <1>1 DEF StartWorker, AboutProject
<1>3. new \in Job /\ new.project = p /\ new.code = NoCode /\ new.step = "load" /\ new.next = 1
  BY <1>2, EmptyCampaign DEF NewJob, Job, JobStep
<1>4. jobs \in Seq(Job) /\ n \in Nat
  BY <1>1, Types
<1>5. /\ jobs' = Append(jobs, new) /\ running' = Len(jobs')
      /\ results' = [results EXCEPT ![p] = NoCode]
      /\ request' = [request EXCEPT ![h] = Idle]
      /\ UNCHANGED <<campaign, collected, merged>>
  BY <1>4 DEF StartWorker, ResultsAtStart
<1> HIDE DEF new
<1>6. /\ jobs' \in Seq(Job) /\ Len(jobs') = n + 1
      /\ jobs'[n + 1] = new /\ \A i \in 1..n : jobs'[i] = jobs[i]
  BY <1>3, <1>4, <1>5
<1>7. request \in [Handlers -> Request] /\ Idle \in Request /\ Idle.op = "idle"
  BY <1>1, Types, EmptyCampaign DEF Idle, Request
<1>8. results \in [Projects -> ExitCode \cup {NoCode}]
  BY <1>1, MoreTypes
<1>9. TypeOK'
  <2>1. /\ campaign' \in [Projects -> Campaign \cup {Torn}]
        /\ collected' \in [Projects -> Seq(Traces \cup {Incomplete})]
        /\ merged' = [q \in Projects |-> merged'[q]]
        /\ \A q \in Projects : IsMergedDir(merged'[q])
    BY <1>1, <1>5, Types
  <2>2. running' \in {NoJob} \cup 1..Len(jobs')
    BY <1>4, <1>5, <1>6
  <2>3. results' \in [Projects -> ExitCode \cup {NoCode}] /\ request' \in [Handlers -> Request]
    BY <1>5, <1>7, <1>8
  <2>4. HistoryOK'
    <3>1. /\ forgotten \in 0..n /\ blind \subseteq 1..n /\ disturbed \subseteq 1..n
      BY <1>1, Types DEF HistoryOK
    <3>2. LiveFor(p) \subseteq 1..n
      BY DEF LiveFor
    <3>3. /\ forgotten' = forgotten /\ informed' = {}
          /\ blind' \subseteq blind \cup {n + 1}
          /\ disturbed' \subseteq disturbed \cup LiveFor(p) \cup {n + 1}
      BY DEF StartWorker
    <3> QED
      BY <1>4, <1>6, <3>1, <3>2, <3>3 DEF HistoryOK
  <2> QED
    BY <1>6, <2>1, <2>2, <2>3, <2>4, Zenon DEF TypeOK, Job, Request
<1>10. \A i \in 1..Len(jobs') : i \in 1..n \/ i = n + 1
  BY <1>4, <1>6
<1>11. AtStage' /\ CodeAtEnd'
  BY <1>1, <1>3, <1>6, <1>10 DEF AtStage, CodeAtEnd, Live
<1>12. AboutProject'
  BY <1>1, <1>5, <1>7 DEF AboutProject
<1>13. RunningLast'
  BY <1>5 DEF RunningLast
<1>14. StoredIsLast'
  <2> SUFFICES ASSUME NEW q \in Projects, results'[q] # NoCode
               PROVE  \E k \in 1..Len(jobs') :
                        /\ jobs'[k].project = q /\ jobs'[k].code = results'[q]
                        /\ \A i \in k + 1..Len(jobs') : jobs'[i].project # q
    BY DEF StoredIsLast
  <2>1. q # p /\ results'[q] = results[q]
    BY <1>2, <1>5, <1>8
  <2>2. PICK k \in 1..n :
          /\ jobs[k].project = q /\ jobs[k].code = results[q]
          /\ \A i \in k + 1..n : jobs[i].project # q
    BY <1>1, <2>1 DEF StoredIsLast
  <2>3. \A i \in k + 1..Len(jobs') : (i \in k + 1..n /\ i \in 1..n) \/ i = n + 1
    BY <1>4, <1>6
  <2>4. \A i \in k + 1..Len(jobs') : jobs'[i].project # q
    BY <1>3, <1>6, <2>1, <2>2, <2>3
  <2>5. k \in 1..Len(jobs') /\ jobs'[k] = jobs[k]
    BY <1>4, <1>6
  <2> QED
    BY <2>1, <2>2, <2>4, <2>5
<1> QED
  BY <1>4, <1>5, <1>6, <1>9, <1>11, <1>12, <1>13, <1>14 DEF ResultInv, new

\* Steps of a request that leave jobs and results alone.
LEMMA OtherResultInv ==
  ASSUME ResultInv, UNCHANGED <<jobs, running, results>>,
         campaign' \in [Projects -> Campaign \cup {Torn}],
         collected' \in [Projects -> Seq(Traces \cup {Incomplete})],
         merged' = [q \in Projects |-> merged'[q]],
         \A q \in Projects : IsMergedDir(merged'[q]),
         request' \in [Handlers -> Request],
         AboutProject', HistoryOK'
  PROVE  ResultInv'
<1>1. TypeOK /\ AtStage /\ CodeAtEnd /\ RunningLast /\ StoredIsLast
  BY DEF ResultInv
<1>2. TypeOK'
  <2>1. /\ jobs' \in Seq(Job) /\ running' \in {NoJob} \cup 1..Len(jobs')
        /\ results' \in [Projects -> ExitCode \cup {NoCode}]
    BY <1>1, Types, MoreTypes
  <2> QED
    BY <2>1, Zenon DEF TypeOK, Job, Request
<1>3. AtStage' /\ CodeAtEnd' /\ RunningLast' /\ StoredIsLast'
  BY <1>1 DEF AtStage, CodeAtEnd, Live, RunningLast, StoredIsLast
<1> QED
  BY <1>2, <1>3 DEF ResultInv

\* Steps of a request, of which the poll of the worker stores the result.
LEMMA HandleResultInv ==
  ASSUME ResultInv, NEW h \in Handlers, Handle(h)
  PROVE  ResultInv'
<1>1. TypeOK /\ AtStage /\ AboutProject /\ CodeAtEnd /\ RunningLast /\ StoredIsLast
  BY DEF ResultInv
<1>2. /\ campaign \in [Projects -> Campaign \cup {Torn}]
      /\ collected \in [Projects -> Seq(Traces \cup {Incomplete})]
      /\ merged = [q \in Projects |-> merged[q]]
      /\ \A q \in Projects : IsMergedDir(merged[q])
      /\ jobs \in Seq(Job) /\ request \in [Handlers -> Request]
  BY <1>1, Types
<1> DEFINE Grown == /\ UNCHANGED jobs /\ UNCHANGED <<forgotten, blind>>
                    /\ informed' \subseteq informed \cup {h}
                    /\ disturbed' \subseteq disturbed \cup 1..Len(jobs)
<1>h. Grown => HistoryOK'
  BY <1>1, Types DEF HistoryOK
<1>3. Idle \in Request /\ Idle.op = "idle"
  BY EmptyCampaign DEF Idle, Request
<1>4. CASE Get(h)
  <2>1. /\ running' \in {NoJob} \cup 1..Len(jobs')
        /\ results' \in [Projects -> ExitCode \cup {NoCode}] /\ RunningLast' /\ StoredIsLast'
    BY <1>4, PollStep DEF Get
  <2>2. UNCHANGED <<campaign, collected, merged, jobs, request>> /\ HistoryOK'
    BY <1>4, <1>h DEF Get, history
  <2>3. TypeOK'
    <3>1. /\ campaign' \in [Projects -> Campaign \cup {Torn}]
          /\ collected' \in [Projects -> Seq(Traces \cup {Incomplete})]
          /\ merged' = [q \in Projects |-> merged'[q]]
          /\ \A q \in Projects : IsMergedDir(merged'[q])
          /\ jobs' \in Seq(Job) /\ request' \in [Handlers -> Request]
      BY <1>2, <2>2
    <3> QED
      BY <2>1, <2>2, <3>1, Zenon DEF TypeOK, Job, Request
  <2>4. AtStage' /\ CodeAtEnd' /\ AboutProject'
    BY <1>1, <2>2 DEF AtStage, CodeAtEnd, Live, AboutProject
  <2> QED
    BY <2>1, <2>3, <2>4 DEF ResultInv
<1>5. ASSUME NEW p \in Projects, PostRecover(h, p)
      PROVE  ResultInv'
  <2>1. HistoryOK'
    BY <1>5, <1>h DEF PostRecover
  <2> QED
    BY <1>2, <1>5, <2>1, BeginResultInv, EmptyCampaign DEF PostRecover
<1>6. ASSUME NEW p \in Projects, PostClear(h, p)
      PROVE  ResultInv'
  <2>1. collected' \in [Projects -> Seq(Traces \cup {Incomplete})]
    <3>1. collected' = [collected EXCEPT ![p] = <<>>]
      BY <1>6 DEF PostClear
    <3> QED
      BY <1>2, <3>1
  <2>2. HistoryOK'
    BY <1>6, <1>h DEF PostClear, LiveFor
  <2> QED
    BY <1>6, <2>1, <2>2, BeginResultInv, EmptyCampaign DEF PostClear
<1>7. ASSUME NEW p \in Projects, campaign[p] # Torn
      PROVE  campaign[p] \in Campaign
  BY <1>2, <1>7
<1>8. ASSUME NEW p \in Projects, NEW t \in Traces, PostAddTrace(h, p, t)
      PROVE  ResultInv'
  <2>1. Append(campaign[p], t) \in Campaign
    BY <1>7, <1>8, AddedTrace DEF PostAddTrace
  <2>2. HistoryOK'
    BY <1>8, <1>h DEF PostAddTrace, history
  <2> QED
    BY <1>2, <1>8, <2>1, <2>2, BeginResultInv DEF PostAddTrace
<1>9. ASSUME NEW p \in Projects, NEW i \in 1..MaxTraces, PostRemoveTrace(h, p, i)
      PROVE  ResultInv'
  <2>1. RemoveAt(campaign[p], i) \in Campaign
    BY <1>7, <1>9, RemovedTrace DEF PostRemoveTrace
  <2>2. HistoryOK'
    BY <1>9, <1>h DEF PostRemoveTrace, history
  <2> QED
    BY <1>2, <1>9, <2>1, <2>2, BeginResultInv DEF PostRemoveTrace
<1>10. CASE StartWorker(h)
  BY <1>10, StartResultInv
<1>11. CASE OpenCampaign(h)
  <2>1. campaign' \in [Projects -> Campaign \cup {Torn}]
    BY <1>2, <1>11 DEF OpenCampaign
  <2>2. request' \in [Handlers -> Request]
    <3>1. [request[h] EXCEPT !.op = "save"] \in Request
      BY <1>2 DEF Request
    <3>2. request' = [request EXCEPT ![h] = [request[h] EXCEPT !.op = "save"]]
      BY <1>11 DEF OpenCampaign
    <3> QED
      BY <1>2, <3>1, <3>2
  <2>3. AboutProject'
    <3>1. request'[h].project = request[h].project /\ request[h].op = "edit"
      BY <1>2, <1>11 DEF OpenCampaign, Request
    <3>2. \A g \in Handlers : g # h => request'[g] = request[g]
      BY <1>2, <1>11 DEF OpenCampaign
    <3> QED
      BY <1>1, <3>1, <3>2 DEF AboutProject
  <2>4. /\ collected' \in [Projects -> Seq(Traces \cup {Incomplete})]
        /\ merged' = [q \in Projects |-> merged'[q]]
        /\ \A q \in Projects : IsMergedDir(merged'[q])
        /\ UNCHANGED <<jobs, running, results>>
    BY <1>2, <1>11 DEF OpenCampaign
  <2>5. HistoryOK'
    BY <1>11, <1>h DEF OpenCampaign, history, LiveFor
  <2> QED
    BY <2>1, <2>2, <2>3, <2>4, <2>5, OtherResultInv
<1>12. ASSUME request' = [request EXCEPT ![h] = Idle]
       PROVE  request' \in [Handlers -> Request] /\ AboutProject'
  BY <1>1, <1>2, <1>3, <1>12 DEF AboutProject
<1>13. CASE SaveCampaign(h)
  <2>1. request[h] \in Request /\ request[h].loaded \in Campaign
    BY <1>2 DEF Request
  <2>2. campaign' \in [Projects -> Campaign \cup {Torn}]
    BY <1>2, <1>13, <2>1 DEF SaveCampaign
  <2>3. request' \in [Handlers -> Request] /\ AboutProject'
    BY <1>12, <1>13 DEF SaveCampaign
  <2>4. /\ collected' \in [Projects -> Seq(Traces \cup {Incomplete})]
        /\ merged' = [q \in Projects |-> merged'[q]]
        /\ \A q \in Projects : IsMergedDir(merged'[q])
        /\ UNCHANGED <<jobs, running, results>>
    BY <1>2, <1>13 DEF SaveCampaign
  <2>5. HistoryOK'
    BY <1>13, <1>h DEF SaveCampaign, history, LiveFor
  <2> QED
    BY <2>2, <2>3, <2>4, <2>5, OtherResultInv
<1>14. CASE ClearMerged(h)
  <2> DEFINE p == request[h].project
             d == NoDir
  <2>1. p \in Projects /\ IsMergedDir(d) /\ merged' = [merged EXCEPT ![p] = d]
    <3>1. IsMergedDir(NoDir)
      BY DEF IsMergedDir, NoDir, IsDir
    <3> QED
      BY <1>1, <1>14, <3>1 DEF ClearMerged, AboutProject
  <2> HIDE DEF p, d
  <2>2. merged' = [q \in Projects |-> merged'[q]] /\ \A q \in Projects : IsMergedDir(merged'[q])
    BY <1>1, <2>1, ReplacedDir
  <2>3. request' \in [Handlers -> Request] /\ AboutProject'
    BY <1>12, <1>14 DEF ClearMerged
  <2>4. /\ campaign' \in [Projects -> Campaign \cup {Torn}]
        /\ collected' \in [Projects -> Seq(Traces \cup {Incomplete})]
        /\ UNCHANGED <<jobs, running, results>>
    BY <1>2, <1>14 DEF ClearMerged
  <2>5. HistoryOK'
    BY <1>14, <1>h DEF ClearMerged, history, LiveFor
  <2> QED
    BY <2>2, <2>3, <2>4, <2>5, OtherResultInv
<1> QED
  BY <1>4, <1>5, <1>6, <1>8, <1>9, <1>10, <1>11, <1>13, <1>14 DEF Handle

\* The application started again shows no result.
LEMMA RestartResultInv ==
  ASSUME ResultInv, Restart
  PROVE  ResultInv'
<1>1. TypeOK /\ AtStage /\ CodeAtEnd
  BY DEF ResultInv
<1>2. /\ running' = NoJob /\ results' = [p \in Projects |-> NoCode]
      /\ request' = [h \in Handlers |-> Idle]
      /\ UNCHANGED <<campaign, collected, merged, jobs>>
  BY DEF Restart
<1>3. TypeOK'
  <2>1. /\ campaign' \in [Projects -> Campaign \cup {Torn}]
        /\ collected' \in [Projects -> Seq(Traces \cup {Incomplete})]
        /\ merged' = [q \in Projects |-> merged'[q]]
        /\ \A q \in Projects : IsMergedDir(merged'[q])
        /\ jobs' \in Seq(Job)
    BY <1>1, <1>2, Types
  <2>2. running' \in {NoJob} \cup 1..Len(jobs') /\ results' \in [Projects -> ExitCode \cup {NoCode}]
    BY <1>2
  <2>3. Idle \in Request
    BY EmptyCampaign DEF Idle, Request
  <2>4. request' \in [Handlers -> Request]
    BY <1>2, <2>3
  <2>5. HistoryOK'
    <3>1. Len(jobs) \in Nat /\ HistoryOK
      BY <1>1, Types
    <3> QED
      BY <3>1 DEF HistoryOK, Restart
  <2> QED
    BY <2>1, <2>2, <2>4, <2>5, Zenon DEF TypeOK, Job, Request
<1>4. AtStage' /\ CodeAtEnd'
  BY <1>1, <1>2 DEF AtStage, CodeAtEnd, Live
<1>5. AboutProject'
  BY <1>2 DEF AboutProject, Idle
<1>6. RunningLast' /\ StoredIsLast'
  BY <1>2 DEF RunningLast, StoredIsLast
<1> QED
  BY <1>3, <1>4, <1>5, <1>6 DEF ResultInv

\* Every step keeps ResultInv.
LEMMA NextResultInv == ResultInv /\ [Next]_vars => ResultInv'
<1>1. ASSUME ResultInv, Next
      PROVE  ResultInv'
  BY <1>1, WorkerResultInv, HandleResultInv, RestartResultInv DEF Next
<1>2. ASSUME ResultInv, UNCHANGED vars
      PROVE  ResultInv'
  <2>1. UNCHANGED <<campaign, collected, merged, jobs, running, results, request>>
    BY <1>2 DEF vars, appVars
  <2>2. TypeOK /\ AboutProject
    BY <1>2 DEF ResultInv
  <2>3. AboutProject'
    BY <2>1, <2>2 DEF AboutProject
  <2>4. /\ campaign' \in [Projects -> Campaign \cup {Torn}]
        /\ collected' \in [Projects -> Seq(Traces \cup {Incomplete})]
        /\ merged' = [q \in Projects |-> merged'[q]]
        /\ \A q \in Projects : IsMergedDir(merged'[q])
        /\ request' \in [Handlers -> Request]
    BY <2>1, <2>2, Types
  <2>5. HistoryOK'
    BY <1>2, <2>1, <2>2, Types DEF HistoryOK, vars, history
  <2> QED
    BY <1>2, <2>1, <2>3, <2>4, <2>5, OtherResultInv
<1> QED
  BY <1>1, <1>2

\* The variables keep their types, for all projects, traces, handlers and bounds, with
\* any interleaving of requests, workers and restarts of the application.
THEOREM RecoveryTypes == Spec => []TypeOK
<1>1. ResultInv => TypeOK
  BY DEF ResultInv
<1> QED
  BY <1>1, InitResultInv, NextResultInv, PTL DEF Spec
-----------------------------------------------------------------------------
(* The workers that AppState knows, and the result that a page shows.      *)

\* What the last worker is, in the terms of Known and Informed.
LastStored ==
  ~Live(Len(jobs)) /\ results[jobs[Len(jobs)].project] = jobs[Len(jobs)].code

\* The parts of the types used below.
LEMMA KnownTypes ==
  ASSUME ResultInv
  PROVE  /\ jobs \in Seq(Job) /\ Len(jobs) \in Nat
         /\ forgotten \in 0..Len(jobs)
         /\ informed \subseteq Handlers
         /\ blind \subseteq 1..Len(jobs)
         /\ running \in {NoJob} \cup 1..Len(jobs)
         /\ results \in [Projects -> ExitCode \cup {NoCode}]
         /\ \A j \in 1..Len(jobs) : jobs[j].project \in Projects
<1>1. TypeOK
  BY DEF ResultInv
<1>2. jobs \in Seq(Job) /\ HistoryOK
  BY <1>1, Types
<1> QED
  BY <1>1, <1>2, MoreTypes, JobFacts DEF HistoryOK

\* No worker has been started.
LEMMA InitKnownInv == Init => KnownInv
<1> SUFFICES ASSUME Init PROVE KnownInv
  OBVIOUS
<1>1. ResultInv
  BY InitResultInv
<1>2. Len(jobs) = 0 /\ forgotten = 0 /\ informed = {} /\ merged = [p \in Projects |-> NoDir]
  BY DEF Init
<1>3. Known /\ Informed /\ SingleWorker /\ Kept /\ HasLast
  BY <1>2 DEF Known, Informed, SingleWorker, Kept, HasLast
<1>4. MadeByWorker
  BY <1>2 DEF MadeByWorker, HasRecovered, NoDir
<1> QED
  BY <1>1, <1>3, <1>4 DEF KnownInv

\* A worker's step: when it ends, AppState knows it or was made to forget it.
LEMMA WorkerKnownInv ==
  ASSUME KnownInv, NEW j \in 1..Len(jobs), Worker(j)
  PROVE  KnownInv'
<1>1. ResultInv /\ Known /\ Informed /\ SingleWorker /\ Kept /\ HasLast /\ MadeByWorker
      /\ TypeOK /\ AtStage
  BY DEF KnownInv, ResultInv
<1>2. /\ jobs \in Seq(Job) /\ Len(jobs) \in Nat /\ blind \subseteq 1..Len(jobs)
      /\ \A i \in 1..Len(jobs) : jobs[i].project \in Projects
  BY <1>1, KnownTypes
<1>3. PICK job : Stepped(jobs[j], job) /\ jobs' = [jobs EXCEPT ![j] = job]
  BY <1>1, WorkerStep
<1>4. Live(j) /\ UNCHANGED <<running, results, forgotten, informed, blind>>
  BY <1>1, WorkerStep, WorkerHistory
<1>5. job \in Job /\ job.project = jobs[j].project
  BY <1>3 DEF Stepped
<1>6. /\ Len(jobs') = Len(jobs) /\ jobs'[j] = job
      /\ \A i \in 1..Len(jobs) : i # j => jobs'[i] = jobs[i]
  BY <1>2, <1>3, <1>5
<1>7. \A i \in 1..Len(jobs) : jobs'[i].project = jobs[i].project
  BY <1>5, <1>6
<1>8. \A i \in 1..Len(jobs) : Live(i)' => Live(i)
  BY <1>4, <1>6 DEF Live
<1>9. \A p, k : k \in 1..Len(jobs) => (LastFor(p, k)' <=> LastFor(p, k))
  <2> SUFFICES ASSUME NEW p, NEW k \in 1..Len(jobs)
               PROVE  LastFor(p, k)' <=> LastFor(p, k)
    OBVIOUS
  <2>1. \A i \in k + 1..Len(jobs) : i \in 1..Len(jobs)
    BY <1>2
  <2> QED
    BY <1>6, <1>7, <2>1 DEF LastFor
<1>10. Known'
  <2> SUFFICES ASSUME forgotten < Len(jobs), running # Len(jobs)
               PROVE  ~Live(Len(jobs))' /\ results[jobs'[Len(jobs)].project] = jobs'[Len(jobs)].code
    BY <1>4, <1>6 DEF Known
  <2>1. ~Live(Len(jobs)) /\ results[jobs[Len(jobs)].project] = jobs[Len(jobs)].code
    BY <1>1 DEF Known
  <2>2. Len(jobs) \in 1..Len(jobs) /\ Len(jobs) # j
    BY <1>2, <1>4, <2>1
  <2> QED
    BY <1>6, <2>1, <2>2 DEF Live
<1>11. Informed'
  <2> SUFFICES ASSUME informed # {}
               PROVE  /\ forgotten < Len(jobs)
                      /\ ~Live(Len(jobs))'
                      /\ results[jobs'[Len(jobs)].project] = jobs'[Len(jobs)].code
    BY <1>4, <1>6 DEF Informed
  <2>1. /\ forgotten < Len(jobs) /\ ~Live(Len(jobs))
        /\ results[jobs[Len(jobs)].project] = jobs[Len(jobs)].code
    BY <1>1 DEF Informed
  <2>2. Len(jobs) \in 1..Len(jobs) /\ Len(jobs) # j
    BY <1>2, <1>4, <2>1
  <2> QED
    BY <1>6, <2>1, <2>2 DEF Live
<1>12. SingleWorker'
  <2>1. \A i \in 1..Len(jobs) - 1 : i \in 1..Len(jobs)
    BY <1>2
  <2> QED
    BY <1>1, <1>4, <1>6, <1>8, <2>1 DEF SingleWorker
<1>13. Kept'
  <2> SUFFICES ASSUME NEW k \in 1..Len(jobs), ~Live(k)', forgotten < k, k + 1 \notin blind,
                      LastFor(jobs[k].project, k)
               PROVE  running = k \/ results[jobs[k].project] = jobs'[k].code
    BY <1>4, <1>6, <1>7, <1>9 DEF Kept
  <2>1. CASE k # j
    BY <1>1, <1>6, <2>1 DEF Kept, Live
  <2>2. CASE k = j /\ k = Len(jobs)
    BY <1>1, <1>4, <2>2 DEF Known
  <2>3. CASE k = j /\ k # Len(jobs)
    <3>1. k \in 1..Len(jobs) - 1
      BY <1>2, <2>3
    <3> QED
      BY <1>1, <1>4, <2>3, <3>1 DEF SingleWorker
  <2> QED
    BY <2>1, <2>2, <2>3
<1>14. HasLast'
  BY <1>1, <1>6, <1>7, <1>9 DEF HasLast
<1>15. MadeByWorker'
  <2> SUFFICES ASSUME NEW p \in Projects, HasRecovered(p)'
               PROVE  \E i \in 1..Len(jobs) : jobs[i].project = p
    BY <1>6, <1>7 DEF MadeByWorker
  <2>1. CASE p = jobs[j].project
    BY <2>1
  <2>2. CASE p # jobs[j].project
    <3>1. merged'[p] = merged[p]
      BY <1>1, <2>2, WorkerFiles
    <3> QED
      BY <1>1, <3>1 DEF HasRecovered, MadeByWorker
  <2> QED
    BY <2>1, <2>2
<1>16. ResultInv'
  BY <1>1, WorkerResultInv
<1> QED
  BY <1>10, <1>11, <1>12, <1>13, <1>14, <1>15, <1>16 DEF KnownInv

\* Polling AppState keeps what is known; if it then knows no worker and was not restarted
\* since the last was started, that one has ended and its exit code is stored.
LEMMA PollKnown ==
  ASSUME KnownInv, Poll, UNCHANGED <<jobs, forgotten, blind>>
  PROVE  /\ Known'
         /\ Kept'
         /\ informed # {} => LastStored'
         /\ Polled = NoJob /\ forgotten < Len(jobs) => LastStored'
<1>1. ResultInv /\ Known /\ Informed /\ Kept /\ RunningLast
  BY DEF KnownInv, ResultInv
<1>2. /\ Len(jobs) \in Nat /\ results \in [Projects -> ExitCode \cup {NoCode}]
      /\ running \in {NoJob} \cup 1..Len(jobs)
      /\ forgotten \in 0..Len(jobs)
      /\ \A i \in 1..Len(jobs) : jobs[i].project \in Projects
  BY <1>1, KnownTypes
<1>3. running' = Polled /\ results' = PolledResults
  BY DEF Poll
<1>4. CASE ~Ended
  <2>1. running' = running /\ results' = results
    BY <1>3, <1>4 DEF Polled, PolledResults
  <2>2. Known'
    BY <1>1, <2>1 DEF Known, Live
  <2>3. Kept'
    BY <1>1, <2>1 DEF Kept, Live, LastFor
  <2>4. informed # {} => LastStored'
    BY <1>1, <2>1 DEF Informed, LastStored, Live
  <2>5. Polled = NoJob /\ forgotten < Len(jobs) => LastStored'
    <3> SUFFICES ASSUME Polled = NoJob, forgotten < Len(jobs)
                 PROVE  LastStored'
      OBVIOUS
    <3>1. running # Len(jobs)
      BY <1>2, <1>3, <2>1 DEF NoJob
    <3>2. LastStored
      BY <1>1, <3>1 DEF Known, LastStored
    <3> QED
      BY <2>1, <3>2 DEF LastStored, Live
  <2> QED
    BY <2>2, <2>3, <2>4, <2>5
<1>5. CASE Ended
  <2> DEFINE n == Len(jobs)
             q == jobs[n].project
  <2>1. running = n /\ n \in 1..n /\ ~Live(n) /\ q \in Projects
    BY <1>1, <1>2, <1>5 DEF Ended, RunningLast, Live, NoJob
  <2>2. results' = [results EXCEPT ![q] = jobs[n].code] /\ running' = NoJob
    BY <1>3, <1>5, <2>1 DEF Polled, PolledResults
  <2>3. results'[q] = jobs[n].code /\ \A p \in Projects : p # q => results'[p] = results[p]
    BY <1>2, <2>1, <2>2
  <2>4. LastStored'
    BY <2>1, <2>3 DEF LastStored, Live
  <2>5. Known'
    BY <2>4 DEF Known, LastStored
  <2>6. Kept'
    <3> SUFFICES ASSUME NEW k \in 1..n, ~Live(k), forgotten < k, k + 1 \notin blind,
                        LastFor(jobs[k].project, k)
                 PROVE  results'[jobs[k].project] = jobs[k].code
      BY DEF Kept, Live, LastFor
    <3>1. CASE jobs[k].project = q
      <4>1. ~(n \in k + 1..n)
        BY <3>1 DEF LastFor
      <4>2. k = n
        BY <1>2, <4>1
      <4> QED
        BY <2>3, <4>2
    <3>2. CASE jobs[k].project # q
      <4>1. k # n
        BY <3>2
      <4> QED
        BY <1>1, <1>2, <2>1, <2>3, <3>2, <4>1 DEF Kept
    <3> QED
      BY <3>1, <3>2
  <2> QED
    BY <2>4, <2>5, <2>6
<1> QED
  BY <1>4, <1>5
\* A worker is started: it is the last, of all and of its project.
LEMMA StartKnownInv ==
  ASSUME KnownInv, NEW h \in Handlers, StartWorker(h)
  PROVE  KnownInv'
<1> DEFINE n == Len(jobs)
<1>p. PICK p \in Projects : p = request[h].project
  BY DEF KnownInv, ResultInv, AboutProject, StartWorker
<1>1. ResultInv /\ Informed /\ SingleWorker /\ Kept /\ HasLast /\ MadeByWorker /\ RunningLast
      /\ AboutProject
  BY DEF KnownInv, ResultInv
<1>2. /\ n \in Nat /\ results \in [Projects -> ExitCode \cup {NoCode}]
      /\ forgotten \in 0..n /\ informed \subseteq Handlers /\ blind \subseteq 1..n
      /\ running \in {NoJob} \cup 1..n
      /\ \A i \in 1..n : jobs[i].project \in Projects
  BY <1>1, KnownTypes
<1>3. /\ ResultInv' /\ Len(jobs') = n + 1 /\ running' = n + 1
      /\ jobs'[n + 1] = NewJob(p) /\ \A i \in 1..n : jobs'[i] = jobs[i]
  BY <1>1, <1>p, StartResultInv
<1>4. /\ results' = [results EXCEPT ![p] = NoCode] /\ informed' = {} /\ forgotten' = forgotten
      /\ blind' = IF h \in informed THEN blind ELSE blind \cup {n + 1}
      /\ merged' = merged
  BY <1>p DEF StartWorker, ResultsAtStart
<1>5. jobs'[n + 1].project = p /\ jobs'[n + 1].step = "load"
  BY <1>3 DEF NewJob
<1>6. \A q \in Projects : q # p => results'[q] = results[q]
  BY <1>2, <1>4
<1>7. \A i \in 1..n + 1 : i \in 1..n \/ i = n + 1
  BY <1>2
<1>8. Known' /\ Informed'
  BY <1>3, <1>4 DEF Known, Informed
<1>9. SingleWorker'
  <2> SUFFICES ASSUME NEW j \in 1..n, Live(j)
               PROVE  j + 1 \in blind'
    BY <1>2, <1>3 DEF SingleWorker, Live
  <2>1. CASE j = n
    BY <1>1, <1>4, <2>1 DEF Informed
  <2>2. CASE j # n
    <3>1. j \in 1..n - 1
      BY <1>2, <2>2
    <3> QED
      BY <1>1, <1>4, <3>1 DEF SingleWorker
  <2> QED
    BY <2>1, <2>2
<1>10. ASSUME NEW q, q # p, NEW k \in 1..n
       PROVE  LastFor(q, k)' <=> LastFor(q, k)
  <2>1. \A i \in k + 1..n + 1 : (i \in k + 1..n /\ i \in 1..n) \/ i = n + 1
    BY <1>2
  <2>2. \A i \in k + 1..n : i \in 1..n /\ i \in k + 1..n + 1
    BY <1>2
  <2> QED
    BY <1>3, <1>5, <1>10, <2>1, <2>2 DEF LastFor
<1>11. ASSUME NEW k \in 1..n, jobs[k].project = p
       PROVE  ~LastFor(p, k)'
  <2>1. n + 1 \in k + 1..n + 1
    BY <1>2
  <2> QED
    BY <1>3, <1>5, <2>1 DEF LastFor
<1>12. Kept'
  <2> SUFFICES ASSUME NEW k \in 1..n + 1, ~Live(k)', forgotten < k, k + 1 \notin blind',
                      LastFor(jobs[k].project, k)'
               PROVE  results'[jobs'[k].project] = jobs'[k].code
    BY <1>3, <1>4 DEF Kept
  <2>1. k \in 1..n
    BY <1>5, <1>7 DEF Live
  <2> DEFINE q == jobs[k].project
  <2>2. q # p
    BY <1>3, <1>11, <2>1
  <2>3. LastFor(q, k) /\ ~Live(k) /\ k + 1 \notin blind
    BY <1>3, <1>4, <1>10, <2>1, <2>2 DEF Live
  <2>4. running = k \/ results[q] = jobs[k].code
    BY <1>1, <2>1, <2>3 DEF Kept
  <2>5. k = n => results[q] = jobs[k].code
    <3>1. k = n => h \in informed
      BY <1>4
    <3> QED
      BY <1>1, <3>1 DEF Informed
  <2>6. running = k => k = n
    BY <1>1, <2>1 DEF RunningLast, NoJob
  <2>7. results'[q] = results[q] /\ jobs'[k] = jobs[k]
    BY <1>2, <1>3, <1>6, <2>1, <2>2
  <2> QED
    BY <2>4, <2>5, <2>6, <2>7
<1>13. HasLast'
  <2> SUFFICES ASSUME NEW j \in 1..n + 1
               PROVE  \E k \in 1..n + 1 : LastFor(jobs[j].project, k)'
    BY <1>3 DEF HasLast
  <2>1. CASE jobs'[j].project = p
    <3>1. n + 1 \in 1..n + 1 /\ \A i \in (n + 1) + 1..n + 1 : FALSE
      BY <1>2
    <3> QED
      BY <1>3, <1>5, <2>1, <3>1 DEF LastFor
  <2>2. CASE jobs'[j].project # p
    <3>1. j \in 1..n /\ jobs'[j] = jobs[j]
      BY <1>3, <1>5, <1>7, <2>2
    <3>2. PICK k \in 1..n : LastFor(jobs[j].project, k)
      BY <1>1, <3>1 DEF HasLast
    <3>3. LastFor(jobs[j].project, k)' /\ k \in 1..n + 1
      BY <1>2, <1>10, <2>2, <3>1, <3>2
    <3> QED
      BY <3>3
  <2> QED
    BY <2>1, <2>2
<1>14. MadeByWorker'
  <2> SUFFICES ASSUME NEW q \in Projects, HasRecovered(q)'
               PROVE  \E i \in 1..n + 1 : jobs'[i].project = q
    BY <1>3 DEF MadeByWorker
  <2>1. PICK i \in 1..n : jobs[i].project = q
    BY <1>1, <1>4 DEF MadeByWorker, HasRecovered
  <2>2. i \in 1..n + 1 /\ jobs'[i] = jobs[i]
    BY <1>2, <1>3
  <2> QED
    BY <2>1, <2>2
<1> QED
  BY <1>3, <1>8, <1>9, <1>12, <1>13, <1>14 DEF KnownInv

\* Steps of a request that start no worker, and what they leave of the merged directories.
LEMMA HandleKnownInv ==
  ASSUME KnownInv, NEW h \in Handlers, Handle(h)
  PROVE  KnownInv'
<1>1. /\ ResultInv /\ Known /\ Informed /\ SingleWorker /\ Kept /\ HasLast /\ MadeByWorker
      /\ AboutProject /\ TypeOK
  BY DEF KnownInv, ResultInv
<1>2. ResultInv'
  BY <1>1, HandleResultInv
<1>3. CASE StartWorker(h)
  BY <1>3, StartKnownInv
<1>4. ASSUME UNCHANGED <<jobs, forgotten, blind>>,
             \A p \in Projects : HasRecovered(p)' => HasRecovered(p),
             Known', Kept', Informed'
      PROVE  KnownInv'
  <2>1. SingleWorker' /\ HasLast'
    BY <1>1, <1>4 DEF SingleWorker, HasLast, LastFor, Live
  <2>2. MadeByWorker'
    BY <1>1, <1>4 DEF MadeByWorker
  <2> QED
    BY <1>2, <1>4, <2>1, <2>2 DEF KnownInv
<1>5. UNCHANGED merged => \A p \in Projects : HasRecovered(p)' => HasRecovered(p)
  BY DEF HasRecovered
<1>6. ASSUME Poll, UNCHANGED <<jobs, merged, forgotten, blind, informed>>
      PROVE  KnownInv'
  <2>1. Known' /\ Kept' /\ (informed # {} => LastStored')
    BY <1>6, PollKnown
  <2>2. Informed'
    BY <1>1, <1>6, <2>1 DEF Informed, LastStored
  <2> QED
    BY <1>4, <1>5, <1>6, <2>1, <2>2
<1>7. CASE Get(h)
  BY <1>6, <1>7 DEF Get, history
<1>8. ASSUME NEW p \in Projects, PostRecover(h, p)
      PROVE  KnownInv'
  <2>1. Poll /\ UNCHANGED <<jobs, merged, forgotten, blind>> /\ Polled = NoJob
        /\ informed' = IF forgotten < Len(jobs) THEN informed \cup {h} ELSE informed
    BY <1>8 DEF PostRecover, Begin, WorkerRunning
  <2>2. Known' /\ Kept' /\ (informed # {} => LastStored')
        /\ (Polled = NoJob /\ forgotten < Len(jobs) => LastStored')
    BY <2>1, PollKnown
  <2>3. Informed'
    BY <1>1, <2>1, <2>2 DEF Informed, LastStored
  <2> QED
    BY <1>4, <1>5, <2>1, <2>2, <2>3
<1>9. ASSUME NEW p \in Projects,
             PostClear(h, p)
               \/ (\E t \in Traces : PostAddTrace(h, p, t))
               \/ (\E i \in 1..MaxTraces : PostRemoveTrace(h, p, i))
      PROVE  KnownInv'
  BY <1>6, <1>9 DEF PostClear, PostAddTrace, PostRemoveTrace, Begin, history
<1>10. ASSUME UNCHANGED <<jobs, running, results, forgotten, blind, informed>>
       PROVE  Known' /\ Kept' /\ Informed'
  BY <1>1, <1>10 DEF Known, Kept, Informed, LastFor, Live
<1>11. CASE OpenCampaign(h) \/ SaveCampaign(h)
  BY <1>4, <1>5, <1>10, <1>11 DEF OpenCampaign, SaveCampaign, history
<1>12. CASE ClearMerged(h)
  <2>1. /\ UNCHANGED <<jobs, running, results, forgotten, blind, informed>>
        /\ merged' = [merged EXCEPT ![request[h].project] = NoDir]
    BY <1>12 DEF ClearMerged
  <2>2. \A p \in Projects : HasRecovered(p)' => HasRecovered(p)
    <3>1. \A p \in Projects : merged'[p] = merged[p] \/ merged'[p] = NoDir
      BY <1>1, <2>1, DirFacts
    <3> QED
      BY <3>1 DEF HasRecovered, NoDir
  <2> QED
    BY <1>4, <1>10, <2>1, <2>2
<1> QED
  BY <1>3, <1>7, <1>8, <1>9, <1>11, <1>12 DEF Handle

\* A new AppState knows nothing of the workers started before.
LEMMA RestartKnownInv ==
  ASSUME KnownInv, Restart
  PROVE  KnownInv'
<1>1. /\ ResultInv /\ SingleWorker /\ HasLast /\ MadeByWorker
  BY DEF KnownInv
<1>2. /\ UNCHANGED <<merged, jobs, blind>> /\ informed' = {} /\ forgotten' = Len(jobs)
  BY DEF Restart
<1>3. Len(jobs) \in Nat
  BY <1>1, KnownTypes
<1>4. Known' /\ Kept' /\ Informed'
  BY <1>2, <1>3 DEF Known, Kept, Informed
<1>5. SingleWorker' /\ HasLast' /\ MadeByWorker'
  BY <1>1, <1>2 DEF SingleWorker, HasLast, MadeByWorker, HasRecovered, LastFor, Live
<1>6. ResultInv'
  BY <1>1, RestartResultInv
<1> QED
  BY <1>4, <1>5, <1>6 DEF KnownInv

\* Every step keeps KnownInv.
LEMMA NextKnownInv == KnownInv /\ [Next]_vars => KnownInv'
<1>1. ASSUME KnownInv, Next
      PROVE  KnownInv'
  BY <1>1, WorkerKnownInv, HandleKnownInv, RestartKnownInv DEF Next
<1>2. ASSUME KnownInv, UNCHANGED vars
      PROVE  KnownInv'
  <2>1. ResultInv'
    BY <1>2, NextResultInv DEF KnownInv
  <2>2. UNCHANGED <<merged, jobs, running, results, forgotten, informed, blind>>
    BY <1>2 DEF vars, appVars, history
  <2> QED
    BY <1>2, <2>1, <2>2 DEF KnownInv, Known, Informed, SingleWorker, Kept, HasLast, MadeByWorker,
       HasRecovered, LastFor, Live
<1> QED
  BY <1>1, <1>2

\* What KnownInv says of the pages.
LEMMA PageShowsLast == KnownInv => ResultIsLast
<1> SUFFICES ASSUME KnownInv, NEW p \in Projects, Page(p).result # NoCode
             PROVE  \E k \in 1..Len(jobs) :
                      /\ LastFor(p, k)
                      /\ \/ Page(p).result = jobs[k].code
                         \/ /\ Page(p).result = 0 /\ Page(p).state = "Recovered"
                            /\ Live(k) \/ k <= forgotten \/ k + 1 \in blind
  BY DEF ResultIsLast
<1> DEFINE stored == PolledResults[p]
<1>1. /\ ResultInv /\ Kept /\ HasLast /\ MadeByWorker /\ RunningLast /\ TypeOK /\ CodeAtEnd
  BY DEF KnownInv, ResultInv
<1>2. Page(p).result = IF stored = NoCode /\ HasRecovered(p) THEN 0 ELSE stored
  BY DEF Page
<1>3. CASE stored # NoCode
  <2>1. PICK k \in 1..Len(jobs) :
          /\ jobs[k].project = p /\ jobs[k].code = stored
          /\ \A i \in k + 1..Len(jobs) : jobs[i].project # p
    BY <1>1, <1>3, PolledIsLast
  <2> QED
    BY <1>2, <1>3, <2>1 DEF LastFor
<1>4. CASE stored = NoCode
  <2>1. HasRecovered(p) /\ Page(p).result = 0
    BY <1>2, <1>4
  <2>2. Page(p).state = "Recovered"
    BY <2>1 DEF Page
  <2>3. PICK j \in 1..Len(jobs) : jobs[j].project = p
    BY <1>1, <2>1 DEF MadeByWorker
  <2>4. PICK k \in 1..Len(jobs) : LastFor(p, k)
    BY <1>1, <2>3 DEF HasLast
  <2>5. Live(k) \/ k <= forgotten \/ k + 1 \in blind
    <3> SUFFICES ASSUME ~Live(k), ~(k <= forgotten), k + 1 \notin blind
                 PROVE  FALSE
      OBVIOUS
    <3>1. jobs[k].project = p /\ jobs[k].code # NoCode
      BY <1>1, <2>4 DEF LastFor, CodeAtEnd
    <3>2. forgotten < k
      BY <1>1, KnownTypes
    <3>3. running = k \/ results[p] = jobs[k].code
      BY <1>1, <2>4, <3>1, <3>2 DEF Kept
    <3>4. results \in [Projects -> ExitCode \cup {NoCode}]
      BY <1>1, KnownTypes
    <3>5. CASE running = k
      <4>1. Ended
        BY <3>5 DEF Ended, Live, NoJob
      <4>2. stored = jobs[k].code
        BY <3>1, <3>4, <3>5, <4>1 DEF PolledResults
      <4> QED
        BY <1>4, <3>1, <4>2
    <3>6. CASE running # k /\ results[p] = jobs[k].code
      <4>1. CASE ~Ended
        BY <1>4, <3>1, <3>6, <4>1 DEF PolledResults
      <4>2. CASE Ended
        <5>1. running = Len(jobs) /\ running \in 1..Len(jobs)
          BY <1>1, <4>2, KnownTypes DEF Ended, RunningLast
        <5>2. running \in k + 1..Len(jobs)
          BY <1>1, <3>6, <5>1, KnownTypes
        <5>3. jobs[running].project # p
          BY <2>4, <5>2 DEF LastFor
        <5>4. stored = results[p]
          BY <3>4, <4>2, <5>3 DEF PolledResults
        <5> QED
          BY <1>4, <3>1, <3>6, <5>4
      <4> QED
        BY <4>1, <4>2
    <3> QED
      BY <3>3, <3>5, <3>6
  <2> QED
    BY <2>1, <2>2, <2>4, <2>5
<1> QED
  BY <1>3, <1>4

\* The result on a project's page is that of its worker started last, or success that an
\* earlier recovered binary stands for, although requests are served concurrently and the
\* application may be restarted.
THEOREM ResultShownIsLast == Spec => []ResultIsLast
BY InitKnownInv, NextKnownInv, PageShowsLast, PTL DEF Spec

\* A worker that AppState knows is never passed by: another starts beside it only from a
\* request that looked before it was registered, or once the application was restarted.
THEOREM OneWorker == Spec => []SingleWorker
<1>1. KnownInv => SingleWorker
  BY DEF KnownInv
<1> QED
  BY <1>1, InitKnownInv, NextKnownInv, PTL DEF Spec

-----------------------------------------------------------------------------
(* Workers that have the directories of their project to themselves.       *)

\* NoStaleFile is about each project by itself.
LEMMA StaleByProject ==
  NoStaleFile <=>
    \A p \in Projects : (\A j \in disturbed : jobs[j].project # p) => OneMerge(merged[p].files)
BY DEF NoStaleFile, OneMerge

\* Nothing is asked of a job that is done.
LEMMA DoneInProgress ==
  ASSUME NEW j \in 1..Len(jobs'), jobs'[j].step = "done"
  PROVE  InProgress(j)'
BY DEF InProgress

\* A step that touches neither a job nor its project's directories.
LEMMA Untouched ==
  ASSUME NEW j \in 1..Len(jobs), InProgress(j), jobs'[j] = jobs[j],
         collected'[jobs[j].project] = collected[jobs[j].project],
         merged'[jobs[j].project] = merged[jobs[j].project]
  PROVE  InProgress(j)'
BY DEF InProgress, Complete

\* A worker's own step leaves files of one merge, those that its next step reads.
LEMMA WorkerProgress ==
  ASSUME ResultInv, NEW j \in 1..Len(jobs), InProgress(j), Worker(j)
  PROVE  /\ InProgress(j)'
         /\ \/ merged'[jobs[j].project] = merged[jobs[j].project]
            \/ OneMerge(merged'[jobs[j].project].files)
<1> DEFINE p == jobs[j].project
           job == jobs[j]
           files == merged[p].files
           Clean == merged'[p] = merged[p] \/ OneMerge(merged'[p].files)
<1>1. TypeOK /\ AtStage /\ InProgress(j) /\ CodeAtEnd
  BY DEF ResultInv
<1>2. jobs \in Seq(Job) /\ job \in Job /\ p \in Projects /\ job.dirs \in Nat /\ job.next \in Nat
      /\ job.plan \in Seq(Traces) /\ Len(job.plan) \in Nat
  <2>1. jobs \in Seq(Job) /\ jobs[j] \in Job /\ jobs[j].project \in Projects
    BY <1>1, Types, JobFacts
  <2>2. jobs[j].dirs \in Nat /\ jobs[j].next \in Nat /\ jobs[j].plan \in Campaign
    BY <2>1 DEF Job
  <2> QED
    BY <2>1, <2>2, CampaignIsSeq
<1>3. \A new : jobs' = [jobs EXCEPT ![j] = new] => jobs'[j] = new /\ j \in 1..Len(jobs')
  BY <1>2
<1>4. /\ collected \in [Projects -> Seq(Traces \cup {Incomplete})]
      /\ Len(collected[p]) \in Nat /\ collected[p] \in Seq(Traces \cup {Incomplete})
      /\ IsDir(files)
  BY <1>1, <1>2, Types, DirFacts
<1>6. OneMerge(merged'[p].files) => Clean
  OBVIOUS
<1>7. UNCHANGED merged => Clean
  OBVIOUS
<1>8. ASSUME NEW code \in ExitCode, Exit(j, code)
      PROVE  InProgress(j)'
  <2>1. PICK new \in Job : jobs' = [jobs EXCEPT ![j] = new] /\ new.step = "done"
    BY <1>1, <1>8, ExitJob
  <2> QED
    BY <1>3, <2>1, DoneInProgress
<1>9. 0 \in ExitCode /\ FailCode \in ExitCode
  BY DEF ExitCode
<1>10. CASE Load(j)
  <2>1. Clean
    BY <1>7, <1>10 DEF Load
  <2>2. CASE campaign[p] = Torn
    BY <1>8, <1>9, <1>10, <2>1, <2>2 DEF Load
  <2>3. CASE campaign[p] # Torn
    <3>1. jobs'[j] = [job EXCEPT !.step = "run", !.plan = campaign[p]]
      BY <1>3, <1>10, <2>3 DEF Load, Proceed
    <3>2. job.next = 1
      BY <1>1, <1>10 DEF Load, InProgress
    <3>3. jobs'[j].step = "run" /\ jobs'[j].next = 1 /\ jobs'[j].plan = campaign[p]
      BY <1>2, <3>1, <3>2 DEF Job
    <3>4. Len(campaign[p]) \in Nat
      <4>1. campaign[p] \in Campaign
        BY <1>1, <1>2, <2>3, Types
      <4> QED
        BY <4>1, CampaignIsSeq, RecoveryAssumption
    <3>5. InProgress(j)'
      BY <3>3, <3>4 DEF InProgress
    <3> QED
      BY <2>1, <3>5
  <2> QED
    BY <2>2, <2>3
<1>11. CASE RunTrace(j)
  <2> DEFINE t == job.plan[job.next]
  <2>1. Clean
    BY <1>7, <1>11 DEF RunTrace
  <2>2. jobs'[j] = [job EXCEPT !.next = @ + 1]
    BY <1>3, <1>11 DEF RunTrace, Proceed
  <2>3. /\ jobs'[j].step = "run" /\ jobs'[j].next = job.next + 1 /\ jobs'[j].plan = job.plan
        /\ jobs'[j].project = p
    BY <1>2, <1>11, <2>2 DEF Job, RunTrace
  <2>4. collected'[p] = Append(collected[p], t)
    BY <1>2, <1>4, <1>11 DEF RunTrace
  <2>5. job.next \in 1..Len(job.plan)
    BY <1>1, <1>2, <1>11 DEF RunTrace, AtStage
  <2>6. t \in Traces
    BY <1>2, <2>5
  <2> HIDE DEF t
  <2>7. t \in Range(collected'[p]) /\ Range(collected[p]) \subseteq Range(collected'[p])
    <3> DEFINE c == collected[p]
    <3>1. c \in Seq(Traces \cup {Incomplete}) /\ Len(c) \in Nat /\ collected'[p] = Append(c, t)
      BY <1>4, <2>4
    <3> HIDE DEF c
    <3>2. Append(c, t)[Len(c) + 1] = t /\ \A i \in 1..Len(c) : Append(c, t)[i] = c[i]
      BY <2>6, <3>1
    <3>3. DOMAIN Append(c, t) = 1..Len(c) + 1 /\ DOMAIN c = 1..Len(c)
      BY <2>6, <3>1
    <3> QED
      <4>1. Len(c) + 1 \in DOMAIN Append(c, t) /\ \A i \in DOMAIN c : i \in DOMAIN Append(c, t)
        BY <3>1, <3>3
      <4>2. t \in Range(Append(c, t))
        BY <3>2, <4>1 DEF Range
      <4>3. Range(c) \subseteq Range(Append(c, t))
        BY <3>2, <3>3, <4>1 DEF Range
      <4> QED
        BY <3>1, <4>2, <4>3 DEF c
  <2>8. ASSUME NEW i \in 1..Len(job.plan), i < job.next + 1
        PROVE  job.plan[i] \in Range(collected'[p])
    <3>1. CASE i = job.next
      BY <2>7, <3>1 DEF t
    <3>2. CASE i # job.next
      <4>1. i < job.next
        BY <1>2, <2>8, <3>2
      <4>2. job.plan[i] \in Range(collected[p])
        BY <1>1, <1>11, <4>1 DEF InProgress, RunTrace
      <4> QED
        BY <2>7, <4>2
    <3> QED
      BY <3>1, <3>2
  <2>9. InProgress(j)'
    BY <2>3, <2>8 DEF InProgress
  <2> QED
    BY <2>1, <2>9
<1>12. CASE RunTraceFails(j) \/ MergeFails(j)
  BY <1>7, <1>8, <1>9, <1>12 DEF RunTraceFails, MergeFails
<1>13. CASE BeginMerge(j)
  <2>1. CASE collected[p] = <<>>
    BY <1>7, <1>8, <1>9, <1>13, <2>1 DEF BeginMerge
  <2>2. CASE collected[p] # <<>>
    <3>1. merged'[p] = EmptyDir /\ UNCHANGED collected
      BY <1>1, <1>2, <1>13, <2>2, DirFacts DEF BeginMerge, Emptied
    <3>2. jobs'[j] = [job EXCEPT !.step = "bitcode", !.dirs = Len(collected[p])]
      BY <1>3, <1>13, <2>2 DEF BeginMerge, Proceed
    <3>3. /\ jobs'[j].step = "bitcode" /\ jobs'[j].dirs = Len(collected[p])
          /\ jobs'[j].plan = job.plan /\ jobs'[j].project = p
      BY <1>2, <3>2 DEF Job
    <3>4. Clean
      BY <1>6, <3>1 DEF OneMerge, EmptyDir
    <3>5. Range(job.plan) \subseteq Range(collected[p]) \ {Incomplete}
      <4>1. \A i \in 1..Len(job.plan) : i < job.next
        BY <1>2, <1>13 DEF BeginMerge
      <4>2. \A i \in 1..Len(job.plan) : job.plan[i] \in Range(collected[p]) /\ job.plan[i] \in Traces
        BY <1>1, <1>2, <1>13, <4>1 DEF InProgress, BeginMerge
      <4>3. DOMAIN job.plan = 1..Len(job.plan) /\ Incomplete \notin Traces
        BY <1>2, TracesAssumption DEF Incomplete
      <4> QED
        BY <4>2, <4>3 DEF Range
    <3>6. SubSeq(collected[p], 1, Len(collected[p])) = collected[p]
      BY <1>4
    <3>7. Range(job.plan) \subseteq Range(SubSeq(collected'[p], 1, Len(collected[p]))) \ {Incomplete}
      BY <3>1, <3>5, <3>6
    <3>8. merged'[p].there /\ DOMAIN merged'[p].files = {}
      BY <3>1 DEF EmptyDir
    <3>9. InProgress(j)'
      BY <3>1, <3>3, <3>7, <3>8 DEF InProgress, Complete
    <3> QED
      BY <3>4, <3>9
  <2> QED
    BY <2>1, <2>2
<1> DEFINE listed == Complete(p, job.dirs)
<1>14. ASSUME job.step \in {"bitcode", "info", "binary"}
       PROVE  /\ merged[p].there /\ job.dirs = Len(collected[p]) /\ Range(job.plan) \subseteq listed
              /\ listed \in Content
              /\ DOMAIN files = IF job.step = "bitcode" THEN {}
                                ELSE IF job.step = "info" THEN {"captured.bc"}
                                ELSE {"captured.bc", "traceInfo.json"}
              /\ \A f \in DOMAIN files : files[f] = listed
  <2>1. job.dirs = Len(collected[p]) /\ Range(job.plan) \subseteq listed
    BY <1>1, <1>14 DEF InProgress
  <2>2. listed \in Content
    <3>1. job.dirs <= Len(collected[p])
      BY <1>4, <2>1
    <3> QED
      BY <1>1, <1>2, <3>1, CompleteFacts
  <2>3. CASE job.step = "bitcode"
    BY <1>1, <2>1, <2>2, <2>3 DEF InProgress
  <2>4. CASE job.step = "info"
    BY <1>1, <2>1, <2>2, <2>4 DEF InProgress
  <2>5. CASE job.step = "binary"
    BY <1>1, <2>1, <2>2, <2>5 DEF InProgress
  <2> QED
    BY <1>14, <2>3, <2>4, <2>5
<1>15. CASE MergeBitcode(j)
  <2>1. /\ merged[p].there /\ job.dirs = Len(collected[p]) /\ Range(job.plan) \subseteq listed
        /\ listed \in Content /\ DOMAIN files = {}
    BY <1>14, <1>15 DEF MergeBitcode
  <2>2. /\ merged'[p].there = merged[p].there
        /\ DOMAIN merged'[p].files = {"captured.bc"}
        /\ merged'[p].files["captured.bc"] = listed
    <3>1. "captured.bc" \in File /\ Write(p, "captured.bc", listed)
      BY <1>15, StageFacts DEF MergeBitcode
    <3> HIDE DEF p, job, listed
    <3>2. /\ merged'[p].there = merged[p].there
          /\ DOMAIN merged'[p].files = DOMAIN merged[p].files \cup {"captured.bc"}
          /\ merged'[p].files["captured.bc"] = listed
          /\ \A f \in DOMAIN merged[p].files \ {"captured.bc"} : merged'[p].files[f] = merged[p].files[f]
      BY <1>1, <1>2, <2>1, <3>1, WrittenFile
    <3> QED
      BY <2>1, <3>2
  <2>3. Clean
    BY <1>6, <2>2 DEF OneMerge
  <2>4. jobs'[j] = [job EXCEPT !.step = "info"] /\ UNCHANGED collected
    BY <1>3, <1>15 DEF MergeBitcode, Proceed
  <2>5. /\ jobs'[j].step = "info" /\ jobs'[j].dirs = job.dirs
        /\ jobs'[j].plan = job.plan /\ jobs'[j].project = p
    BY <1>2, <2>4 DEF Job
  <2>6. InProgress(j)'
    BY <2>1, <2>2, <2>4, <2>5 DEF InProgress, Complete
  <2> QED
    BY <2>3, <2>6
<1>16. CASE MergeBitcodeFails(j)
  <2>1. InProgress(j)'
    BY <1>8, <1>9, <1>16 DEF MergeBitcodeFails
  <2>2. CASE UNCHANGED merged
    BY <1>7, <2>1, <2>2
  <2>3. CASE merged' # merged
    <3>1. PICK n \in 1..job.dirs : Write(p, "captured.bc", Complete(p, n))
      BY <1>16, <2>3 DEF MergeBitcodeFails
    <3>2. job.dirs = Len(collected[p]) /\ DOMAIN files = {}
      BY <1>14, <1>16 DEF MergeBitcodeFails
    <3>3. n \in Nat /\ n <= Len(collected[p])
      BY <1>2, <3>2
    <3>4. Complete(p, n) \in Content
      BY <1>1, <1>2, <3>3, CompleteFacts
    <3>5. DOMAIN merged'[p].files = {"captured.bc"}
      <4>1. "captured.bc" \in File
        BY StageFacts
      <4>2. DOMAIN merged'[p].files = DOMAIN merged[p].files \cup {"captured.bc"}
        BY <1>1, <1>2, <3>1, <3>4, <4>1, WrittenFile
      <4> QED
        BY <3>2, <4>2
    <3> QED
      BY <1>6, <2>1, <3>5 DEF OneMerge
  <2> QED
    BY <2>2, <2>3
<1>17. CASE MergeTraceInfo(j)
  <2>1. /\ merged[p].there /\ job.dirs = Len(collected[p]) /\ Range(job.plan) \subseteq listed
        /\ listed \in Content /\ DOMAIN files = {"captured.bc"} /\ files["captured.bc"] = listed
    BY <1>14, <1>17 DEF MergeTraceInfo
  <2>2. /\ merged'[p].there = merged[p].there
        /\ DOMAIN merged'[p].files = {"captured.bc", "traceInfo.json"}
        /\ merged'[p].files["traceInfo.json"] = listed
        /\ merged'[p].files["captured.bc"] = listed
    <3>1. "traceInfo.json" \in File /\ Write(p, "traceInfo.json", listed)
      BY <1>17, StageFacts DEF MergeTraceInfo
    <3> HIDE DEF p, job, listed
    <3>2. /\ merged'[p].there = merged[p].there
          /\ DOMAIN merged'[p].files = DOMAIN merged[p].files \cup {"traceInfo.json"}
          /\ merged'[p].files["traceInfo.json"] = listed
          /\ \A f \in DOMAIN merged[p].files \ {"traceInfo.json"} : merged'[p].files[f] = merged[p].files[f]
      BY <1>1, <1>2, <2>1, <3>1, WrittenFile
    <3> QED
      BY <2>1, <3>2
  <2>3. Clean
    BY <1>6, <2>2 DEF OneMerge
  <2>4. jobs'[j] = [job EXCEPT !.step = "binary"] /\ UNCHANGED collected
    BY <1>3, <1>17 DEF MergeTraceInfo, Proceed
  <2>5. /\ jobs'[j].step = "binary" /\ jobs'[j].dirs = job.dirs
        /\ jobs'[j].plan = job.plan /\ jobs'[j].project = p
    BY <1>2, <2>4 DEF Job
  <2>6. InProgress(j)'
    BY <2>1, <2>2, <2>4, <2>5 DEF InProgress, Complete
  <2> QED
    BY <2>3, <2>6
<1>18. CASE CopyBinary(j)
  <2>1. /\ Range(job.plan) \subseteq listed
        /\ DOMAIN files = {"captured.bc", "traceInfo.json"}
        /\ files["captured.bc"] = listed /\ files["traceInfo.json"] = listed
    BY <1>14, <1>18 DEF CopyBinary
  <2>2. {} \in Content
    BY DEF Content
  <2>3. /\ DOMAIN merged'[p].files = {"captured.bc", "traceInfo.json", "binary"}
        /\ merged'[p].files["traceInfo.json"] = listed
        /\ merged'[p].files["captured.bc"] = listed
    <3>1. "binary" \in File /\ Write(p, "binary", {})
      BY <1>18, StageFacts DEF CopyBinary
    <3> HIDE DEF p, job, listed
    <3>2. /\ merged'[p].there = merged[p].there
          /\ DOMAIN merged'[p].files = DOMAIN merged[p].files \cup {"binary"}
          /\ merged'[p].files["binary"] = {}
          /\ \A f \in DOMAIN merged[p].files \ {"binary"} : merged'[p].files[f] = merged[p].files[f]
      BY <1>1, <1>2, <2>1, <2>2, <3>1, WrittenFile
    <3> QED
      BY <2>1, <2>2, <3>2
  <2>4. Clean
    BY <1>6, <2>3, StageFacts DEF OneMerge
  <2>5. jobs'[j] = [job EXCEPT !.step = "lift", !.next = 1]
    BY <1>3, <1>18 DEF CopyBinary, Proceed
  <2>6. jobs'[j].step = "lift" /\ jobs'[j].plan = job.plan /\ jobs'[j].project = p
    BY <1>2, <2>5 DEF Job
  <2>7. OneMerge(merged'[p].files)
    BY <2>3, StageFacts DEF OneMerge
  <2>8. InProgress(j)'
    BY <2>1, <2>3, <2>6, <2>7 DEF InProgress
  <2> QED
    BY <2>4, <2>8
<1>19. ASSUME job.step = "lift"
       PROVE  /\ job.next \in 1..12 /\ "captured.bc" \in DOMAIN files
              /\ Range(job.plan) \subseteq files["captured.bc"] /\ OneMerge(files)
  <2>1. /\ "captured.bc" \in DOMAIN files /\ Range(job.plan) \subseteq files["captured.bc"]
        /\ OneMerge(files)
    BY <1>1, <1>19 DEF InProgress
  <2>2. job.next \in 1..12
    <3>1. job.next >= 1 /\ job.next <= Len(LiftTrace)
      BY <1>1, <1>19 DEF AtStage
    <3>2. Len(LiftTrace) = 12
      BY StageFacts
    <3> QED
      BY <1>2, <3>1, <3>2
  <2> QED
    BY <2>1, <2>2
<1>20. CASE Lift(j)
  <2> DEFINE after == AfterSuccess(files, LiftTrace[job.next])
  <2>1. /\ job.next \in 1..12 /\ "captured.bc" \in DOMAIN files
        /\ Range(job.plan) \subseteq files["captured.bc"]
        /\ Readable(files, LiftTrace[job.next].reads) /\ OneMerge(files)
    BY <1>19, <1>20 DEF Lift
  <2>2. /\ IsDir(after) /\ OneMerge(after) /\ "captured.bc" \in DOMAIN after
        /\ after["captured.bc"] = files["captured.bc"]
    BY <1>4, <2>1, SuccessOneMerge
  <2>3. merged' = [merged EXCEPT ![p].files = after]
    BY <1>20 DEF Lift
  <2> HIDE DEF after
  <2>4. merged'[p].files = after
    BY <1>1, <1>2, <2>2, <2>3, ReplacedFiles
  <2>5. Clean
    BY <1>6, <2>2, <2>4
  <2>6. CASE job.next = Len(LiftTrace)
    BY <1>8, <1>9, <1>20, <2>5, <2>6 DEF Lift
  <2>7. CASE job.next # Len(LiftTrace)
    <3>1. jobs'[j] = [job EXCEPT !.next = @ + 1]
      BY <1>3, <1>20, <2>7 DEF Lift, Proceed
    <3>2. jobs'[j].step = "lift" /\ jobs'[j].plan = job.plan /\ jobs'[j].project = p
      BY <1>2, <1>20, <3>1 DEF Job, Lift
    <3>3. InProgress(j)'
      BY <2>1, <2>2, <2>4, <3>2 DEF InProgress
    <3> QED
      BY <2>5, <3>3
  <2> QED
    BY <2>6, <2>7
<1>21. CASE LiftFails(j)
  <2> DEFINE after == AfterFailure(files, LiftTrace[job.next])
  <2>1. InProgress(j)'
    BY <1>8, <1>9, <1>21 DEF LiftFails
  <2>2. IsDir(after) /\ OneMerge(after)
    BY <1>4, <1>19, <1>21, FailureOneMerge DEF LiftFails
  <2>3. CASE UNCHANGED merged
    BY <1>7, <2>1, <2>3
  <2>4. CASE merged' # merged
    <3>1. merged' = [merged EXCEPT ![p].files = after]
      BY <1>21, <2>4 DEF LiftFails
    <3> HIDE DEF after
    <3>2. merged'[p].files = after
      BY <1>1, <1>2, <2>2, <3>1, ReplacedFiles
    <3> QED
      BY <1>6, <2>1, <2>2, <3>2
  <2> QED
    BY <2>3, <2>4
<1> QED
  BY <1>10, <1>11, <1>12, <1>13, <1>15, <1>16, <1>17, <1>18, <1>20, <1>21 DEF Worker

\* No worker has been started.
LEMMA InitWorkerInv == Init => WorkerInv
<1> SUFFICES ASSUME Init PROVE WorkerInv
  OBVIOUS
<1>1. ResultInv
  BY InitResultInv
<1>2. Len(jobs) = 0 /\ merged = [p \in Projects |-> NoDir]
  BY DEF Init
<1>3. Alone /\ Progress
  BY <1>2 DEF Alone, Progress
<1>4. NoStaleFile
  BY <1>2 DEF NoStaleFile, NoDir
<1> QED
  BY <1>1, <1>3, <1>4 DEF WorkerInv

\* Steps of a worker.  Those of one that was disturbed touch no project with an undisturbed
\* worker that runs.
LEMMA WorkerWorkerInv ==
  ASSUME WorkerInv, NEW j \in 1..Len(jobs), Worker(j)
  PROVE  WorkerInv'
<1>1. ResultInv /\ TypeOK /\ AtStage /\ Alone /\ Progress /\ NoStaleFile
  BY DEF WorkerInv, ResultInv
<1>2. ResultInv'
  BY <1>1, WorkerResultInv
<1>3. PICK job : Stepped(jobs[j], job) /\ jobs' = [jobs EXCEPT ![j] = job]
  BY <1>1, WorkerStep
<1>4. Live(j) /\ disturbed' = disturbed
  BY <1>1, WorkerStep, WorkerHistory
<1>5. jobs \in Seq(Job) /\ job \in Job /\ job.project = jobs[j].project
  BY <1>1, <1>3, Types DEF Stepped
<1>6. /\ Len(jobs') = Len(jobs) /\ jobs'[j] = job
      /\ \A i \in 1..Len(jobs) : i # j => jobs'[i] = jobs[i]
  BY <1>3, <1>5
<1>7. \A i \in 1..Len(jobs) : jobs'[i].project = jobs[i].project /\ jobs[i].project \in Projects
  BY <1>1, <1>5, <1>6, JobFacts
<1>8. \A i \in 1..Len(jobs) : Live(i)' => Live(i)
  BY <1>4, <1>6 DEF Live
<1>9. disturbed \subseteq 1..Len(jobs)
  BY <1>1, Types DEF HistoryOK
<1>10. \A q \in Projects \ {jobs[j].project} : collected'[q] = collected[q] /\ merged'[q] = merged[q]
  BY <1>1, WorkerFiles
<1>11. Alone'
  BY <1>1, <1>4, <1>6, <1>7, <1>8 DEF Alone
<1>12. j \notin disturbed =>
         /\ InProgress(j)'
         /\ \/ merged'[jobs[j].project] = merged[jobs[j].project]
            \/ OneMerge(merged'[jobs[j].project].files)
  BY <1>1, WorkerProgress DEF Progress
<1>13. Progress'
  <2> SUFFICES ASSUME NEW i \in 1..Len(jobs'), i \notin disturbed
               PROVE  InProgress(i)'
    BY <1>4 DEF Progress
  <2>1. CASE i = j
    BY <1>12, <2>1
  <2>2. CASE i # j /\ Live(i)
    <3>1. jobs[i].project # jobs[j].project
      BY <1>1, <1>4, <1>6, <2>2 DEF Alone
    <3>2. InProgress(i)
      BY <1>1, <1>6 DEF Progress
    <3> QED
      BY <1>6, <1>7, <1>10, <2>2, <3>1, <3>2, Untouched
  <2>3. CASE i # j /\ ~Live(i)
    BY <1>6, <2>3, DoneInProgress DEF Live
  <2> QED
    BY <2>1, <2>2, <2>3
<1>14. NoStaleFile'
  <2> SUFFICES ASSUME NEW q \in Projects, \A i \in disturbed : jobs'[i].project # q
               PROVE  OneMerge(merged'[q].files)
    BY <1>4 DEF NoStaleFile, OneMerge
  <2>1. OneMerge(merged[q].files)
    BY <1>1, <1>7, <1>9, StaleByProject
  <2>2. CASE q = jobs[j].project
    <3>1. j \notin disturbed
      BY <1>7, <2>2
    <3> QED
      BY <1>12, <2>1, <2>2, <3>1
  <2>3. CASE q # jobs[j].project
    BY <1>10, <2>1, <2>3
  <2> QED
    BY <2>2, <2>3
<1> QED
  BY <1>2, <1>11, <1>13, <1>14 DEF WorkerInv

\* Steps that start no worker: what is left to show is that no directory of a worker that
\* runs and stays undisturbed was touched.
LEMMA RequestWorkerInv ==
  ASSUME WorkerInv, ResultInv', UNCHANGED jobs, disturbed \subseteq disturbed',
         \A j \in 1..Len(jobs) : Live(j) /\ j \notin disturbed' =>
           /\ collected'[jobs[j].project] = collected[jobs[j].project]
           /\ merged'[jobs[j].project] = merged[jobs[j].project],
         \A p \in Projects : merged'[p] = merged[p] \/ merged'[p] = NoDir
  PROVE  WorkerInv'
<1>1. Alone'
  BY DEF WorkerInv, Alone, Live
<1>2. Progress'
  <2> SUFFICES ASSUME NEW j \in 1..Len(jobs'), j \notin disturbed'
               PROVE  InProgress(j)'
    BY DEF Progress
  <2>1. CASE Live(j)
    BY <2>1, Untouched DEF WorkerInv, Progress
  <2>2. CASE ~Live(j)
    BY <2>2, DoneInProgress DEF Live
  <2> QED
    BY <2>1, <2>2
<1>3. NoStaleFile'
  <2> SUFFICES ASSUME NEW p \in Projects, \A j \in disturbed' : jobs[j].project # p
               PROVE  OneMerge(merged'[p].files)
    BY DEF NoStaleFile, OneMerge
  <2>1. CASE merged'[p] = merged[p]
    BY <2>1, StaleByProject DEF WorkerInv
  <2>2. CASE merged'[p] = NoDir
    BY <2>2 DEF OneMerge, NoDir
  <2> QED
    BY <2>1, <2>2
<1> QED
  BY <1>1, <1>2, <1>3 DEF WorkerInv

\* A worker is started: if another one of its project runs, neither is alone.
LEMMA StartWorkerInv ==
  ASSUME WorkerInv, NEW h \in Handlers, StartWorker(h)
  PROVE  WorkerInv'
<1> DEFINE n == Len(jobs)
<1>1. ResultInv /\ TypeOK /\ Alone /\ Progress /\ NoStaleFile
  BY DEF WorkerInv, ResultInv
<1>p. PICK p : p = request[h].project
  OBVIOUS
<1>2. /\ ResultInv' /\ Len(jobs') = n + 1 /\ n \in Nat
      /\ jobs'[n + 1] = NewJob(p) /\ \A i \in 1..n : jobs'[i] = jobs[i]
  BY <1>1, <1>p, StartResultInv
<1>3. /\ UNCHANGED <<collected, merged>>
      /\ disturbed' = IF LiveFor(p) = {} THEN disturbed ELSE disturbed \cup LiveFor(p) \cup {n + 1}
  BY <1>p DEF StartWorker
<1>4. jobs'[n + 1].project = p /\ jobs'[n + 1].step = "load" /\ jobs'[n + 1].next = 1
  BY <1>2 DEF NewJob
<1>5. \A i \in 1..n + 1 : i \in 1..n \/ i = n + 1
  BY <1>2
<1>6. disturbed \subseteq 1..n /\ disturbed \subseteq disturbed'
  BY <1>1, <1>3, Types DEF HistoryOK
<1>7. \A i \in 1..n : Live(i) /\ jobs[i].project = p => i \in disturbed' /\ n + 1 \in disturbed'
  BY <1>3 DEF LiveFor
<1>8. Alone'
  <2> SUFFICES ASSUME NEW i \in 1..n + 1, NEW j \in 1..n + 1,
                      Live(i)', Live(j)', jobs'[i].project = jobs'[j].project, j \notin disturbed'
               PROVE  i = j
    BY <1>2 DEF Alone
  <2>1. CASE i \in 1..n /\ j \in 1..n
    BY <1>1, <1>2, <1>6, <2>1 DEF Alone, Live
  <2>2. CASE i = n + 1 /\ j \in 1..n
    BY <1>2, <1>4, <1>7, <2>2 DEF Live
  <2>3. CASE i \in 1..n /\ j = n + 1
    BY <1>2, <1>4, <1>7, <2>3 DEF Live
  <2> QED
    BY <1>5, <2>1, <2>2, <2>3
<1>9. Progress'
  <2> SUFFICES ASSUME NEW i \in 1..n + 1, i \notin disturbed'
               PROVE  InProgress(i)'
    BY <1>2 DEF Progress
  <2>1. CASE i \in 1..n
    <3>1. InProgress(i)
      BY <1>1, <1>6, <2>1 DEF Progress
    <3> QED
      BY <1>2, <1>3, <2>1, <3>1, Untouched
  <2>2. CASE i = n + 1
    BY <1>4, <2>2 DEF InProgress
  <2> QED
    BY <1>5, <2>1, <2>2
<1>10. NoStaleFile'
  <2> SUFFICES ASSUME NEW q \in Projects, \A i \in disturbed' : jobs'[i].project # q
               PROVE  OneMerge(merged'[q].files)
    BY DEF NoStaleFile, OneMerge
  <2>1. \A i \in disturbed : jobs[i].project # q
    BY <1>2, <1>6
  <2> QED
    BY <1>1, <1>3, <2>1, StaleByProject
<1> QED
  BY <1>2, <1>8, <1>9, <1>10 DEF WorkerInv

\* Steps of a request: those that remove files of a worker that runs disturb it.
LEMMA HandleWorkerInv ==
  ASSUME WorkerInv, NEW h \in Handlers, Handle(h)
  PROVE  WorkerInv'
<1>1. ResultInv /\ TypeOK /\ AboutProject
  BY DEF WorkerInv, ResultInv
<1>2. ResultInv'
  BY <1>1, HandleResultInv
<1>3. CASE StartWorker(h)
  BY <1>3, StartWorkerInv
<1>4. CASE UNCHANGED <<collected, merged, jobs, disturbed>>
  BY <1>2, <1>4, RequestWorkerInv
<1>5. CASE Get(h) \/ OpenCampaign(h) \/ SaveCampaign(h)
  BY <1>4, <1>5 DEF Get, OpenCampaign, SaveCampaign, history
<1>6. ASSUME NEW p \in Projects,
             PostRecover(h, p)
               \/ (\E t \in Traces : PostAddTrace(h, p, t))
               \/ (\E i \in 1..MaxTraces : PostRemoveTrace(h, p, i))
      PROVE  WorkerInv'
  BY <1>4, <1>6 DEF PostRecover, PostAddTrace, PostRemoveTrace, history
<1>7. ASSUME NEW p \in Projects, PostClear(h, p)
      PROVE  WorkerInv'
  <2>1. /\ UNCHANGED <<jobs, merged>> /\ collected' = [collected EXCEPT ![p] = <<>>]
        /\ disturbed' = disturbed \cup LiveFor(p)
    BY <1>7 DEF PostClear
  <2>2. ASSUME NEW j \in 1..Len(jobs), Live(j), j \notin disturbed'
        PROVE  collected'[jobs[j].project] = collected[jobs[j].project]
    <3>1. jobs[j].project # p
      BY <2>1, <2>2 DEF LiveFor
    <3>2. jobs[j].project \in Projects /\ collected \in [Projects -> Seq(Traces \cup {Incomplete})]
      BY <1>1, JobFacts, Types
    <3> QED
      BY <2>1, <3>1, <3>2
  <2> QED
    BY <1>2, <2>1, <2>2, RequestWorkerInv
<1>8. CASE ClearMerged(h)
  <2>p. PICK p \in Projects : p = request[h].project
    BY <1>1, <1>8 DEF AboutProject, ClearMerged
  <2>1. /\ UNCHANGED <<jobs, collected>> /\ merged' = [merged EXCEPT ![p] = NoDir]
        /\ disturbed' = disturbed \cup LiveFor(p)
    BY <1>8, <2>p DEF ClearMerged
  <2>2. merged'[p] = NoDir /\ \A q \in Projects \ {p} : merged'[q] = merged[q]
    BY <1>1, <2>1, DirFacts
  <2>3. ASSUME NEW j \in 1..Len(jobs), Live(j), j \notin disturbed'
        PROVE  merged'[jobs[j].project] = merged[jobs[j].project]
    <3>1. jobs[j].project # p /\ jobs[j].project \in Projects
      BY <1>1, <2>1, <2>3, JobFacts DEF LiveFor
    <3> QED
      BY <2>2, <3>1
  <2> QED
    BY <1>2, <2>1, <2>2, <2>3, RequestWorkerInv
<1> QED
  BY <1>3, <1>5, <1>6, <1>7, <1>8 DEF Handle

\* Every step keeps WorkerInv.
LEMMA NextWorkerInv == WorkerInv /\ [Next]_vars => WorkerInv'
<1>1. ASSUME WorkerInv, Restart
      PROVE  WorkerInv'
  <2>1. ResultInv'
    BY <1>1, RestartResultInv DEF WorkerInv
  <2>2. UNCHANGED <<collected, merged, jobs, disturbed>>
    BY <1>1 DEF Restart
  <2> QED
    BY <1>1, <2>1, <2>2, RequestWorkerInv
<1>2. ASSUME WorkerInv, Next
      PROVE  WorkerInv'
  BY <1>1, <1>2, WorkerWorkerInv, HandleWorkerInv DEF Next
<1>3. ASSUME WorkerInv, UNCHANGED vars
      PROVE  WorkerInv'
  <2>1. ResultInv'
    BY <1>3, NextResultInv DEF WorkerInv
  <2>2. UNCHANGED <<collected, merged, jobs, disturbed>>
    BY <1>3 DEF vars, appVars, history
  <2> QED
    BY <1>3, <2>1, <2>2, RequestWorkerInv
<1> QED
  BY <1>2, <1>3

\* The invariant behind the theorems below.
LEMMA WorkerInvariant == Spec => []WorkerInv
BY InitWorkerInv, NextWorkerInv, PTL DEF Spec

-----------------------------------------------------------------------------
(* The theorems about the worker.                                          *)

\* What a merged directory holds comes from one merge, whichever merges and liftings
\* of the project failed before, as long as none of its workers was disturbed.
THEOREM FilesOfOneMerge == Spec => []NoStaleFile
<1>1. WorkerInv => NoStaleFile
  BY DEF WorkerInv
<1> QED
  BY <1>1, WorkerInvariant, PTL

\* A worker that reports success and was not disturbed leaves a binary recovered from all
\* traces of the campaign it loaded, whatever happened to the project before.
THEOREM SuccessIsComplete == Spec => SuccessCovers
<1> DEFINE Covered ==
      \A j \in 1..Len(jobs) \ disturbed :
        Live(j) /\ jobs'[j].code = 0 =>
          LET files == merged'[jobs[j].project].files IN
          "recovered" \in DOMAIN files /\ Range(jobs[j].plan) \subseteq files["recovered"]
<1>1. ASSUME WorkerInv, Next, NEW j \in 1..Len(jobs) \ disturbed, Live(j), jobs'[j].code = 0
      PROVE  /\ "recovered" \in DOMAIN merged'[jobs[j].project].files
             /\ Range(jobs[j].plan) \subseteq merged'[jobs[j].project].files["recovered"]
  <2>1. ResultInv /\ TypeOK /\ AtStage /\ CodeAtEnd /\ InProgress(j)
    BY <1>1 DEF WorkerInv, ResultInv, Progress
  <2>2. jobs[j].code = NoCode /\ NoCode # 0 /\ FailCode # 0
    BY <1>1, <2>1 DEF CodeAtEnd, NoCode, FailCode
  <2>3. jobs'[j] # jobs[j]
    BY <1>1, <2>2
  <2>4. \A h \in Handlers : Handle(h) => jobs'[j] = jobs[j]
    <3> SUFFICES ASSUME NEW h \in Handlers, Handle(h)
                 PROVE  jobs'[j] = jobs[j]
      OBVIOUS
    <3>1. CASE StartWorker(h)
      BY <2>1, <3>1, StartResultInv
    <3>2. CASE ~StartWorker(h)
      BY <3>2 DEF Handle, Get, PostRecover, PostClear, PostAddTrace, PostRemoveTrace,
         OpenCampaign, SaveCampaign, ClearMerged
    <3> QED
      BY <3>1, <3>2
  <2>5. Restart => jobs'[j] = jobs[j]
    BY DEF Restart
  <2>6. PICK k \in 1..Len(jobs) : Worker(k)
    BY <1>1, <2>3, <2>4, <2>5 DEF Next
  <2>7. jobs \in Seq(Job) /\ jobs[j] \in Job /\ jobs[j].project \in Projects
        /\ jobs[j].next \in Nat
    BY <2>1, Types, JobFacts DEF Job
  <2>8. k = j
    <3>1. PICK job : Stepped(jobs[k], job) /\ jobs' = [jobs EXCEPT ![k] = job]
      BY <2>1, <2>6, WorkerStep
    <3> QED
      BY <2>3, <2>7, <3>1
  <2>9. \A new : jobs' = [jobs EXCEPT ![j] = new] => jobs'[j] = new
    BY <2>7
  <2>10. ~Exit(j, FailCode)
    <3>1. Exit(j, FailCode) => jobs'[j].code = FailCode
      BY <2>9 DEF Exit, NewJob
    <3> QED
      BY <1>1, <2>2, <3>1
  <2>11. ASSUME NEW new, Proceed(j, new), new.code = jobs[j].code
         PROVE  FALSE
    BY <1>1, <2>2, <2>9, <2>11 DEF Proceed
  <2>12. Lift(j) /\ jobs[j].next = Len(LiftTrace)
    <3>1. ~RunTraceFails(j) /\ ~MergeBitcodeFails(j) /\ ~MergeFails(j) /\ ~LiftFails(j)
      BY <2>10 DEF RunTraceFails, MergeBitcodeFails, MergeFails, LiftFails
    <3>2. ~Load(j)
      BY <2>7, <2>10, <2>11 DEF Load, Job
    <3>3. ~RunTrace(j)
      BY <2>7, <2>11 DEF RunTrace, Job
    <3>4. ~BeginMerge(j)
      BY <2>7, <2>10, <2>11 DEF BeginMerge, Job
    <3>5. ~MergeBitcode(j) /\ ~MergeTraceInfo(j) /\ ~CopyBinary(j)
      BY <2>7, <2>11 DEF MergeBitcode, MergeTraceInfo, CopyBinary, Job
    <3>6. Lift(j)
      BY <2>6, <2>8, <3>1, <3>2, <3>3, <3>4, <3>5 DEF Worker
    <3> QED
      BY <2>7, <2>11, <3>6 DEF Lift, Job
  <2> DEFINE p == jobs[j].project
             files == merged[p].files
             after == AfterSuccess(files, LiftTrace[12])
  <2>13. jobs[j].next = 12
    BY <2>12, StageFacts
  <2>14. /\ IsDir(files) /\ OneMerge(files) /\ Readable(files, LiftTrace[12].reads)
         /\ merged' = [merged EXCEPT ![p].files = after]
         /\ Range(jobs[j].plan) \subseteq files["captured.bc"]
    BY <2>1, <2>7, <2>12, <2>13, DirFacts DEF Lift, InProgress
  <2>15. IsDir(after) /\ "recovered" \in DOMAIN after /\ after["recovered"] = files["captured.bc"]
    BY <2>14, SuccessOneMerge
  <2> HIDE DEF after
  <2>16. merged'[p].files = after
    BY <2>1, <2>7, <2>14, <2>15, ReplacedFiles
  <2> QED
    BY <2>14, <2>15, <2>16
<1>2. WorkerInv /\ [Next]_vars => [Covered]_vars
  <2>1. WorkerInv /\ Next => Covered
    BY <1>1
  <2> QED
    BY <2>1
<1> QED
  BY <1>2, WorkerInvariant, PTL DEF SuccessCovers, Spec
=============================================================================
