------------------------------ MODULE LiftCalls ------------------------------
(***************************************************************************)
(* The functions of the extension module _binrec_lift and what they change *)
(* of the process that calls them: its working directory and LLVM's        *)
(* options (py_binrec_lift.cpp).  A call holds Python's global lock to its *)
(* end.  prep_bitcode_for_linkage (lift.py) makes two of them around       *)
(* temporary files.  Meanwhile another process may remove directories.     *)
(***************************************************************************)
EXTENDS Naturals, FiniteSets

CONSTANTS
  Pythons,       \* processes that have loaded the extension modules
  Dirs, Home,    \* directories; every process starts in Home
  Limits,        \* values given for memssa_check_limit; 0 stands for none
  DefaultLimit,  \* of MemorySSA
  LiftFlags,     \* values given for clean_names, skip_link and trace_calls of lift
  MaxRemoved,    \* bound: how many directories are removed
  None

ASSUME LiftCallsAssumption ==
  /\ Home \in Dirs
  /\ None \notin Dirs
  /\ Limits \subseteq Nat
  /\ 0 \in Limits
  /\ LiftFlags \subseteq BOOLEAN \X BOOLEAN \X BOOLEAN
  /\ MaxRemoved \in Nat
  /\ DefaultLimit \in Nat \ {0, 1}

VARIABLES
  at,        \* by process: what it does next
  job,       \* by process: the trace directory it works on
  cwd,       \* by process: its working directory
  limit,     \* by process: LLVM's option memssa-check-limit
  asked,     \* by process: the arguments of the call it has made last
  ran,       \* by process: the context in which the passes ran in that call
  temps,     \* by process: the temporary files of the preparation it is at
  leftover,  \* temporary files of preparations that ended
  stranded,  \* those of preparations that ended when bitcode could not be moved
  dirs       \* the directories that exist

TraceDirs == Dirs \ {Home}

liftVars == <<at, job, cwd, limit, asked, ran, temps, leftover, stranded, dirs>>

Operations ==
  {"link_prep_1", "link_prep_2", "clean", "lift", "optimize", "optimize_better", "compile_prep"}

\* A context of build_pipeline; only lift has flags.
Context ==
  { c \in [op : Operations, limit : Nat, clean_names : BOOLEAN, skip_link : BOOLEAN,
           trace_calls : BOOLEAN] :
      c.op # "lift" => ~c.clean_names /\ ~c.skip_link /\ ~c.trace_calls }

\* The functions of the module and their arguments besides the names of files.
Plain(op, l) ==
  [op |-> op, limit |-> l, clean_names |-> FALSE, skip_link |-> FALSE, trace_calls |-> FALSE]

link_prep_1(l) == Plain("link_prep_1", l)
link_prep_2(l) == Plain("link_prep_2", l)
clean(l) == Plain("clean", l)
optimize(l) == Plain("optimize", l)
optimize_better(l) == Plain("optimize_better", l)
compile_prep(l) == Plain("compile_prep", l)
lift(l, f) ==
  [op |-> "lift", limit |-> l, clean_names |-> f[1], skip_link |-> f[2], trace_calls |-> f[3]]

Arguments ==
  UNION { {link_prep_1(l), link_prep_2(l), clean(l), optimize(l), optimize_better(l),
           compile_prep(l)} \cup {lift(l, f) : f \in LiftFlags} : l \in Limits }

\* What mkstemp makes, and the outputs of run_lift in the order it opens them.
Outputs == <<".bc", ".ll", "-memssa.ll">>
TempFiles == {"tmp"} \cup {Outputs[i] : i \in 1..3}

LiftSteps == {"idle", "first", "move first", "second", "move second"}

LiftTypeOK ==
  /\ cwd \in [Pythons -> Dirs]
  /\ limit \in [Pythons -> ({DefaultLimit, 1} \cup Limits) \ {0}]
  /\ asked \in [Pythons -> Context \cup {None}]
  /\ ran \in [Pythons -> Context \cup {None}]
  /\ temps \in [Pythons -> SUBSET TempFiles]
  /\ leftover \cup stranded \subseteq TempFiles
  /\ dirs \subseteq Dirs

LiftInit ==
  /\ cwd = [p \in Pythons |-> Home]
  /\ limit = [p \in Pythons |-> DefaultLimit]
  /\ asked = [p \in Pythons |-> None]
  /\ ran = [p \in Pythons |-> None]
  /\ temps = [p \in Pythons |-> {}]
  /\ leftover = {}
  /\ stranded = {}
  /\ dirs = Dirs

-----------------------------------------------------------------------------
\* The keyword arguments as the variables of the function get them.  In lift the
\* order of the names and the order of the variables differ after working_dir.
Parsed(a) ==
  IF a.op = "lift"
  THEN [a EXCEPT !.limit = IF a.clean_names THEN 1 ELSE 0, !.clean_names = a.skip_link,
                 !.skip_link = a.trace_calls, !.trace_calls = a.limit # 0]
  ELSE a

\* Defect: the options are not reset, a limit stays until another is given.
CallLimit_Kept(p, given) == IF given # 0 THEN given ELSE limit[p]

\* The constructor resets LLVM's options and sets the limit if there is one.
CallLimit(p, given) == IF given # 0 THEN given ELSE DefaultLimit

\* Defect: the directory is only restored when the passes succeed.
Restored_OnSuccess(p, wd, result) ==
  IF wd # None /\ (result # "ok" \/ cwd[p] \notin dirs) THEN {wd} ELSE {cwd[p]}

\* The destructor changes back to the directory found before; if that had been removed
\* getcwd left the buffer uninitialized, and what chdir does with it is anything.
Restored(p, wd, result) == IF wd # None /\ cwd[p] \notin dirs THEN dirs \cup {wd} ELSE {cwd[p]}

\* No passes ran in the last call.
Forget(p) ==
  /\ asked' = [asked EXCEPT ![p] = None]
  /\ ran' = [ran EXCEPT ![p] = None]

\* A call with the arguments a in the working directory wd; the passes run unless the
\* directory cannot be entered.
Call(p, a, wd, result) ==
  /\ limit' = [limit EXCEPT ![p] = CallLimit(p, Parsed(a).limit)]
  /\ IF wd \in dirs \cup {None}
     THEN /\ result \in {"ok", "error"}
          /\ asked' = [asked EXCEPT ![p] = a]
          /\ ran' = [ran EXCEPT ![p] = [Parsed(a) EXCEPT !.limit = limit'[p]]]
          /\ \E d \in Restored(p, wd, result) : cwd' = [cwd EXCEPT ![p] = d]
     ELSE /\ result = "OSError"
          /\ Forget(p)
          /\ UNCHANGED cwd

\* A LiftError or a RuntimeError of the passes, or an OSError of the directory.
Results == {"ok", "error", "OSError"}

LiftCall(p) ==
  /\ at[p] = "idle"
  /\ \E a \in Arguments, wd \in TraceDirs \cup {None}, result \in Results : Call(p, a, wd, result)
  /\ UNCHANGED <<at, job, temps, leftover, stranded, dirs>>

-----------------------------------------------------------------------------
(* prep_bitcode_for_linkage, in the trace directory wd.                    *)
\* The outputs that exist after a call: all of them, or those opened before it failed.
Opened(result) ==
  { {Outputs[i] : i \in 1..n} : n \in
      CASE result = "ok" -> {3} [] result = "OSError" -> {0} [] OTHER -> 0..3 }

MakeTemp(p) ==
  /\ at[p] = "idle"
  /\ at' = [at EXCEPT ![p] = "first"]
  /\ \E d \in TraceDirs : job' = [job EXCEPT ![p] = d]
  /\ temps' = [temps EXCEPT ![p] = {"tmp"}]
  /\ Forget(p)
  /\ UNCHANGED <<cwd, limit, leftover, stranded, dirs>>

End(p) ==
  /\ at' = [at EXCEPT ![p] = "idle"]
  /\ job' = [job EXCEPT ![p] = None]
  /\ temps' = [temps EXCEPT ![p] = {}]

\* Defect: the bitcode of a failed call is left.
Kept_Bitcode(files) == files \ {"tmp"}

\* What the exception handlers leave: all but tmp and tmp.bc.
Kept(files) == files \ {"tmp", ".bc"}

Stage(p, step, arguments, next) ==
  /\ at[p] = step
  /\ \E result \in Results : \E new \in Opened(result) :
       /\ Call(p, arguments, job[p], result)
       /\ IF result = "ok"
          THEN /\ at' = [at EXCEPT ![p] = next]
               /\ temps' = [temps EXCEPT ![p] = @ \cup new]
               /\ UNCHANGED <<job, leftover>>
          ELSE End(p) /\ leftover' = leftover \cup Kept(temps[p] \cup new)
  /\ UNCHANGED <<stranded, dirs>>

FirstStage(p) == Stage(p, "first", link_prep_1(0), "move first")
SecondStage(p) == Stage(p, "second", link_prep_2(0), "move second")

\* The bitcode is moved into the trace directory.
Moves(p, step) ==
  /\ job[p] \in dirs
  /\ IF step = "move second"
     THEN End(p) /\ leftover' = leftover \cup (temps[p] \ {".bc", "tmp"})
     ELSE /\ at' = [at EXCEPT ![p] = "second"]
          /\ temps' = [temps EXCEPT ![p] = @ \ {".bc"}]
          /\ UNCHANGED <<job, leftover>>
  /\ UNCHANGED stranded

\* An error of shutil.move is not handled here: the directory is gone, or full, or may
\* not be written.
MoveFails(p) ==
  /\ End(p)
  /\ stranded' = stranded \cup temps[p]
  /\ UNCHANGED leftover

Move(p, step) ==
  /\ at[p] = step
  /\ Forget(p)
  /\ Moves(p, step) \/ MoveFails(p)
  /\ UNCHANGED <<cwd, limit, dirs>>

MoveFirst(p) == Move(p, "move first")
MoveSecond(p) == Move(p, "move second")

\* Traces are cleared, or a project is removed, by another process.
RemoveDir(d) ==
  /\ d \in dirs
  /\ Cardinality(Dirs \ dirs) < MaxRemoved
  /\ dirs' = dirs \ {d}
  /\ UNCHANGED <<at, job, cwd, limit, asked, ran, temps, leftover, stranded>>

LiftNext(p) ==
  \/ LiftCall(p)
  \/ MakeTemp(p)
  \/ FirstStage(p)
  \/ MoveFirst(p)
  \/ SecondStage(p)
  \/ MoveSecond(p)

-----------------------------------------------------------------------------
\* Whatever calls fail, a process is in the directory it started in after each of
\* them, unless that directory was removed.
CwdKept == Home \in dirs => \A p \in Pythons : cwd[p] = Home

\* What the docstrings say of the arguments.
Documented(a) == [a EXCEPT !.limit = IF a.limit = 0 THEN DefaultLimit ELSE a.limit]

\* The passes run with the options of their own call, not with those of an earlier one
\* (lift excepted, see LiftAsDocumented).
RunsAsAsked ==
  \A p \in Pythons : ran[p] # None /\ ran[p].op # "lift" => ran[p] = Documented(asked[p])

\* lift runs with the options that its docstring promises for its arguments.
LiftAsDocumented ==
  \A p \in Pythons : ran[p] # None /\ ran[p].op = "lift" => ran[p] = Documented(asked[p])

\* However the preparation of a trace ends, it leaves no bitcode behind, only the two
\* listings, unless shutil.move failed: whichever stage fails, with whatever it has
\* opened, and whatever directories are removed meanwhile.
TempRemoved == leftover \subseteq {".ll", "-memssa.ll"}
=============================================================================
