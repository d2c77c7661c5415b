------------------------------ MODULE Recovery ------------------------------
(***************************************************************************)
(* Recovering projects from the web front end: requests edit a project's   *)
(* campaign, clear its trace data and start a worker process               *)
(* (binrec/web/app.py); the worker runs the campaign's traces, merges and  *)
(* lifts them (binrec/web/worker.py).  Requests are served by threads and  *)
(* interleave where they wait for a file or a process.  Nothing but        *)
(* AppState keeps two workers apart, and nothing keeps a request from the  *)
(* worker's files; four history variables say when either happened.        *)
(***************************************************************************)
EXTENDS LiftPipeline, SequencesExt

CONSTANTS
  Projects,   \* projects that new_project has set up
  Handlers,   \* threads that serve requests
  MaxTraces,  \* bound on the traces of a campaign
  MaxJobs,    \* bound on worker processes started
  MaxEdits    \* bound on changes of campaigns under way at once

ASSUME RecoveryAssumption ==
  /\ MaxTraces \in Nat
  /\ MaxJobs \in Nat
  /\ MaxEdits \in Nat

VARIABLES
  campaign,   \* of each project: the traces in campaign.json
  collected,  \* of each project: the traces in s2e-out-0, s2e-out-1, ...
  merged,     \* of each project: the directory s2e-out, if it is there
  jobs,       \* the worker processes, in the order they were started
  running,    \* AppState.running_project: number of a job, or NoJob
  results,    \* AppState.lift_results
  request     \* what each handler is busy with

\* History, which no action looks at.
VARIABLES
  forgotten,  \* the workers started before the application was last restarted
  informed,   \* handlers that looked for a worker after the last one was registered
  blind,      \* workers started by a handler that was not informed
  disturbed   \* workers that were not alone with the directories of their project

appVars == <<running, results, request>>
history == <<forgotten, informed, blind, disturbed>>
vars == <<campaign, collected, merged, jobs, appVars, history>>

NoJob == 0
NoCode == -1
FailCode == 255  \* sys.exit(-1) as the parent process sees it
ExitCode == {0, FailCode}

\* campaign.json between open(file, "w") and the write, and a trace directory
\* that S2E did not complete.
Torn == <<"broken">>
Incomplete == "broken"

NoDir == [there |-> FALSE, files |-> [f \in {} |-> {}]]
EmptyDir == [there |-> TRUE, files |-> [f \in {} |-> {}]]

Campaign == UNION {[1..n -> Traces] : n \in 0..MaxTraces}

JobStep == {"load", "run", "bitcode", "info", "binary", "lift", "done"}

NewJob(p) ==
  [ project |-> p,
    step    |-> "load",
    plan    |-> <<>>,    \* the traces of the campaign as loaded
    next    |-> 1,       \* the trace or stage to come
    dirs    |-> 0,       \* how many trace directories are merged
    code    |-> NoCode ]

Idle == [op |-> "idle", project |-> "", loaded |-> <<>>]

IsMergedDir(d) ==
  /\ d = [there |-> d.there, files |-> d.files]
  /\ d.there \in BOOLEAN
  /\ IsDir(d.files)

HistoryOK ==
  /\ forgotten \in 0..Len(jobs)
  /\ informed \subseteq Handlers
  /\ blind \subseteq 1..Len(jobs)
  /\ disturbed \subseteq 1..Len(jobs)

TypeOK ==
  /\ campaign \in [Projects -> Campaign \cup {Torn}]
  /\ collected \in [Projects -> Seq(Traces \cup {Incomplete})]
  /\ \A p \in Projects : IsMergedDir(merged[p])
  /\ merged = [p \in Projects |-> merged[p]]
  /\ jobs \in Seq([ project : Projects, step : JobStep, plan : Campaign, next : Nat,
                    dirs : Nat, code : ExitCode \cup {NoCode} ])
  /\ running \in {NoJob} \cup 1..Len(jobs)
  /\ results \in [Projects -> ExitCode \cup {NoCode}]
  /\ request \in [Handlers -> [ op : {"idle", "recover", "edit", "save", "clear"},
                                project : Projects \cup {""},
                                loaded : Campaign ]]
  /\ HistoryOK

Init ==
  /\ campaign = [p \in Projects |-> <<>>]
  /\ collected = [p \in Projects |-> <<>>]
  /\ merged = [p \in Projects |-> NoDir]
  /\ jobs = <<>>
  /\ running = NoJob
  /\ results = [p \in Projects |-> NoCode]
  /\ request = [h \in Handlers |-> Idle]
  /\ forgotten = 0
  /\ informed = {}
  /\ blind = {}
  /\ disturbed = {}

-----------------------------------------------------------------------------
(* The worker process: recover_from_campaign.                              *)

Proceed(j, job) == jobs' = [jobs EXCEPT ![j] = job]

Exit(j, code) ==
  jobs' = [jobs EXCEPT ![j] = [NewJob(jobs[j].project) EXCEPT
             !.step = "done", !.code = code]]

Load(j) ==
  LET p == jobs[j].project IN
  /\ jobs[j].step = "load"
  /\ IF campaign[p] = Torn
     THEN Exit(j, FailCode)
     ELSE Proceed(j, [jobs[j] EXCEPT !.step = "run", !.plan = campaign[p]])
  /\ UNCHANGED <<campaign, collected, merged, appVars, history>>

RunTrace(j) ==
  LET p == jobs[j].project IN
  /\ jobs[j].step = "run"
  /\ jobs[j].next <= Len(jobs[j].plan)
  /\ collected' = [collected EXCEPT ![p] = Append(@, jobs[j].plan[jobs[j].next])]
  /\ Proceed(j, [jobs[j] EXCEPT !.next = @ + 1])
  /\ UNCHANGED <<campaign, merged, appVars, history>>

\* Defect: the result of s2e run is not looked at.
RunTraceFails_Ignored(j) ==
  /\ jobs[j].step = "run"
  /\ jobs[j].next <= Len(jobs[j].plan)
  /\ Proceed(j, [jobs[j] EXCEPT !.next = @ + 1])
  /\ UNCHANGED <<campaign, collected, merged, appVars, history>>

\* s2e run fails, before or after it created a trace directory.
RunTraceFails(j) ==
  LET p == jobs[j].project IN
  /\ jobs[j].step = "run"
  /\ jobs[j].next <= Len(jobs[j].plan)
  /\ \/ UNCHANGED collected
     \/ collected' = [collected EXCEPT ![p] = Append(@, Incomplete)]
  /\ Exit(j, FailCode)
  /\ UNCHANGED <<campaign, merged, appVars, history>>

\* Defect: the destination keeps the files of the merge before.
Emptied_Kept(dir) == [dir EXCEPT !.there = TRUE]

Emptied(dir) == EmptyDir

\* merge_traces lists the trace directories and empties the destination.
BeginMerge(j) ==
  LET p == jobs[j].project IN
  /\ jobs[j].step = "run"
  /\ jobs[j].next > Len(jobs[j].plan)
  /\ IF collected[p] = <<>>
     THEN Exit(j, FailCode) /\ UNCHANGED merged
     ELSE /\ merged' = [merged EXCEPT ![p] = Emptied(@)]
          /\ Proceed(j, [jobs[j] EXCEPT !.step = "bitcode", !.dirs = Len(collected[p])])
  /\ UNCHANGED <<campaign, collected, appVars, history>>

\* The traces in the first n of the directories.
Complete(p, n) == Range(SubSeq(collected[p], 1, n)) \ {Incomplete}

\* The directories listed and the destination have not been removed since.
InPlace(j) ==
  LET p == jobs[j].project IN
  merged[p].there /\ jobs[j].dirs <= Len(collected[p])

Write(p, name, content) ==
  merged' = [merged EXCEPT ![p].files = Store(@, {name}, content)]

MergeBitcode(j) ==
  LET p == jobs[j].project IN
  /\ jobs[j].step = "bitcode"
  /\ InPlace(j)
  /\ Complete(p, jobs[j].dirs) # {}
  /\ Write(p, "captured.bc", Complete(p, jobs[j].dirs))
  /\ Proceed(j, [jobs[j] EXCEPT !.step = "info"])
  /\ UNCHANGED <<campaign, collected, appVars, history>>

\* A merge that fails may have linked some of the traces.
MergeBitcodeFails(j) ==
  LET p == jobs[j].project IN
  /\ jobs[j].step = "bitcode"
  /\ \/ UNCHANGED merged
     \/ \E n \in 1..jobs[j].dirs : InPlace(j) /\ Write(p, "captured.bc", Complete(p, n))
  /\ Exit(j, FailCode)
  /\ UNCHANGED <<campaign, collected, appVars, history>>

MergeTraceInfo(j) ==
  LET p == jobs[j].project IN
  /\ jobs[j].step = "info"
  /\ InPlace(j)
  /\ Write(p, "traceInfo.json", Complete(p, jobs[j].dirs))
  /\ Proceed(j, [jobs[j] EXCEPT !.step = "binary"])
  /\ UNCHANGED <<campaign, collected, appVars, history>>

CopyBinary(j) ==
  /\ jobs[j].step = "binary"
  /\ InPlace(j)
  /\ Write(jobs[j].project, "binary", {})
  /\ Proceed(j, [jobs[j] EXCEPT !.step = "lift", !.next = 1])
  /\ UNCHANGED <<campaign, collected, appVars, history>>

MergeFails(j) ==
  /\ jobs[j].step \in {"info", "binary"}
  /\ Exit(j, FailCode)
  /\ UNCHANGED <<campaign, collected, merged, appVars, history>>

Lift(j) ==
  LET p     == jobs[j].project
      stage == LiftTrace[jobs[j].next] IN
  /\ jobs[j].step = "lift"
  /\ merged[p].there
  /\ Readable(merged[p].files, stage.reads)
  /\ merged' = [merged EXCEPT ![p].files = AfterSuccess(@, stage)]
  /\ IF jobs[j].next = Len(LiftTrace)
     THEN Exit(j, 0)
     ELSE Proceed(j, [jobs[j] EXCEPT !.next = @ + 1])
  /\ UNCHANGED <<campaign, collected, appVars, history>>

LiftFails(j) ==
  LET p     == jobs[j].project
      stage == LiftTrace[jobs[j].next] IN
  /\ jobs[j].step = "lift"
  /\ merged' = IF merged[p].there
               THEN [merged EXCEPT ![p].files = AfterFailure(@, stage)] ELSE merged
  /\ Exit(j, FailCode)
  /\ UNCHANGED <<campaign, collected, appVars, history>>

Worker(j) ==
  \/ Load(j)
  \/ RunTrace(j) \/ RunTraceFails(j)
  \/ BeginMerge(j)
  \/ MergeBitcode(j) \/ MergeBitcodeFails(j)
  \/ MergeTraceInfo(j) \/ CopyBinary(j) \/ MergeFails(j)
  \/ Lift(j) \/ LiftFails(j)

-----------------------------------------------------------------------------
(* Requests.  Every request first polls the worker (before_request).       *)

Live(j) == jobs[j].step # "done"

\* Defect: poll takes any answer of the process for its end.
Ended_Any == running # NoJob

Ended == running # NoJob /\ jobs[running].step = "done"

Polled == IF Ended THEN NoJob ELSE running

PolledResults ==
  IF Ended THEN [results EXCEPT ![jobs[running].project] = jobs[running].code]
  ELSE results

Poll ==
  /\ running' = Polled
  /\ results' = PolledResults

Begin(h, op, p, loaded) ==
  /\ request[h] = Idle
  /\ request' = [request EXCEPT ![h] = [op |-> op, project |-> p, loaded |-> loaded]]
  /\ Poll

\* The workers that run for a project.
LiveFor(p) == {j \in 1..Len(jobs) : jobs[j].project = p /\ Live(j)}

\* A recovered binary, usable or not.
HasRecovered(p) == merged[p].there /\ "recovered" \in DOMAIN merged[p].files

\* The state and the last result on the page of a project, from what a request has
\* polled.  There is no page while the campaign cannot be loaded.
Page(p) ==
  LET stored == PolledResults[p] IN
  [ state  |-> CASE HasRecovered(p) -> "Recovered"
                 [] ~HasRecovered(p) /\ Polled # NoJob /\ jobs[Polled].project = p -> "Recovering"
                 [] OTHER -> IF stored \notin {NoCode, 0} THEN "Failed"
                             ELSE IF campaign[p] # <<>> THEN "Ready" ELSE "New",
    result |-> IF stored = NoCode /\ HasRecovered(p) THEN 0 ELSE stored ]

\* Any page, among them that of a project (Page).
Get(h) ==
  /\ request[h] = Idle
  /\ Poll
  /\ UNCHANGED <<campaign, collected, merged, jobs, request, history>>

\* is_worker_running
WorkerRunning == Polled # NoJob

\* start_recover_project looks for a worker and loads the campaign; otherwise the
\* answer is 503 or 404.
PostRecover(h, p) ==
  /\ ~WorkerRunning
  /\ campaign[p] # Torn
  /\ Begin(h, "recover", p, <<>>)
  /\ informed' = IF forgotten < Len(jobs) THEN informed \cup {h} ELSE informed
  /\ UNCHANGED <<campaign, collected, merged, jobs, forgotten, blind, disturbed>>

\* Defect: the result of the recovery before is kept.
ResultsAtStart_Kept(p) == results

\* set_running_project
ResultsAtStart(p) == [results EXCEPT ![p] = NoCode]

StartWorker(h) ==
  LET p == request[h].project
      n == Len(jobs) + 1 IN
  /\ request[h].op = "recover"
  /\ Len(jobs) < MaxJobs
  /\ jobs' = Append(jobs, NewJob(p))
  /\ running' = n
  /\ results' = ResultsAtStart(p)
  /\ request' = [request EXCEPT ![h] = Idle]
  /\ informed' = {}
  /\ blind' = IF h \in informed THEN blind ELSE blind \cup {n}
  /\ disturbed' = IF LiveFor(p) = {} THEN disturbed ELSE disturbed \cup LiveFor(p) \cup {n}
  /\ UNCHANGED <<campaign, collected, merged, forgotten>>

Edits == {h \in Handlers : request[h].op \in {"edit", "save"}}

\* add_trace and remove_trace load the campaign, change it and save it.
PostAddTrace(h, p, t) ==
  /\ campaign[p] # Torn
  /\ Len(campaign[p]) < MaxTraces
  /\ Cardinality(Edits) < MaxEdits
  /\ Begin(h, "edit", p, Append(campaign[p], t))
  /\ UNCHANGED <<campaign, collected, merged, jobs, history>>

PostRemoveTrace(h, p, i) ==
  /\ campaign[p] # Torn
  /\ i \in 1..Len(campaign[p])
  /\ Cardinality(Edits) < MaxEdits
  /\ Begin(h, "edit", p, RemoveAt(campaign[p], i))
  /\ UNCHANGED <<campaign, collected, merged, jobs, history>>

OpenCampaign(h) ==
  /\ request[h].op = "edit"
  /\ campaign' = [campaign EXCEPT ![request[h].project] = Torn]
  /\ request' = [request EXCEPT ![h].op = "save"]
  /\ UNCHANGED <<collected, merged, jobs, running, results, history>>

SaveCampaign(h) ==
  /\ request[h].op = "save"
  /\ campaign' = [campaign EXCEPT ![request[h].project] = request[h].loaded]
  /\ request' = [request EXCEPT ![h] = Idle]
  /\ UNCHANGED <<collected, merged, jobs, running, results, history>>

\* clear_trace_data does not look for a worker.
PostClear(h, p) ==
  /\ collected' = [collected EXCEPT ![p] = <<>>]
  /\ Begin(h, "clear", p, <<>>)
  /\ disturbed' = disturbed \cup LiveFor(p)
  /\ UNCHANGED <<campaign, merged, jobs, forgotten, informed, blind>>

ClearMerged(h) ==
  LET p == request[h].project IN
  /\ request[h].op = "clear"
  /\ merged' = [merged EXCEPT ![p] = NoDir]
  /\ request' = [request EXCEPT ![h] = Idle]
  /\ disturbed' = disturbed \cup LiveFor(p)
  /\ UNCHANGED <<campaign, collected, jobs, running, results, forgotten, informed, blind>>

\* A new AppState; worker processes live on.
Restart ==
  /\ running' = NoJob
  /\ results' = [p \in Projects |-> NoCode]
  /\ request' = [h \in Handlers |-> Idle]
  /\ forgotten' = Len(jobs)
  /\ informed' = {}
  /\ UNCHANGED <<campaign, collected, merged, jobs, blind, disturbed>>

Handle(h) ==
  \/ Get(h)
  \/ \E p \in Projects :
       \/ PostRecover(h, p)
       \/ PostClear(h, p)
       \/ \E t \in Traces : PostAddTrace(h, p, t)
       \/ \E i \in 1..MaxTraces : PostRemoveTrace(h, p, i)
  \/ StartWorker(h)
  \/ OpenCampaign(h)
  \/ SaveCampaign(h)
  \/ ClearMerged(h)

Next ==
  \/ \E j \in 1..Len(jobs) : Worker(j)
  \/ \E h \in Handlers : Handle(h)
  \/ Restart

Spec == Init /\ [][Next]_vars

-----------------------------------------------------------------------------
(* Properties.                                                             *)

\* "A single project can be recovered at once" (using_web_gui.md) and "worker process is
\* already running" (start_recover_project): two workers run together only if the
\* request for the later one had looked before the other was registered, or the
\* application was restarted in between.  A worker that AppState knows is never passed by.
SingleWorker ==
  \A j \in 1..Len(jobs) - 1 : Live(j) => j + 1 \in blind

\* All bitcode, the merged trace info and the recovered binary in a merged directory
\* come from one and the same merge, whatever failed in between, unless two workers or
\* a worker and a request to clear used the directories of the project together.
NoStaleFile ==
  \A p \in Projects :
    LET files == merged[p].files IN
    (\A j \in disturbed : jobs[j].project # p) =>
      \A f \in DOMAIN files \cap TraceFile :
        files[f] # Broken => "captured.bc" \in DOMAIN files /\ files[f] = files["captured.bc"]

\* The worker that was started last for a project.
LastFor(p, k) ==
  jobs[k].project = p /\ \A i \in k + 1..Len(jobs) : jobs[i].project # p

\* The result on a project's page is the exit code of the worker started last for it.
\* Success is shown otherwise only because a binary of an earlier recovery is there:
\* while the worker runs, or when the application did not learn how it ended, because it
\* was restarted or passed the worker by.  A failure that is shown is always the last.
ResultIsLast ==
  \A p \in Projects :
    campaign[p] # Torn /\ Page(p).result # NoCode =>
      \E k \in 1..Len(jobs) :
        /\ LastFor(p, k)
        /\ \/ Page(p).result = jobs[k].code
           \/ /\ Page(p).result = 0 /\ Page(p).state = "Recovered"
              /\ Live(k) \/ k <= forgotten \/ k + 1 \in blind

\* A worker that was alone with its project's directories and reports success leaves a
\* binary recovered from every trace the campaign had when it was loaded ("All registered
\* traces were executed and recorded.  The trace results were merged, lifted",
\* using_web_gui.md).
SuccessCovers ==
  [][ \A j \in 1..Len(jobs) \ disturbed :
        Live(j) /\ jobs'[j].code = 0 =>
          LET files == merged'[jobs[j].project].files IN
          "recovered" \in DOMAIN files /\ Range(jobs[j].plan) \subseteq files["recovered"] ]_vars
=============================================================================
