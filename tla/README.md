# BinRec: TLA+ models, checks and proofs

BinRec recovers a program from its executions. S2E runs the binary under trace
plugins, the traces are merged, the merged bitcode is lifted to ordinary LLVM
functions, optimised, compiled and linked back into the original binary. This
directory models the parts of it whose correctness depends on order, sharing and
failure, checks them with TLC on small instances and proves the central ones with
TLAPS for every value of the constants.

## 1. Inventory

| Part | Source | State it keeps | Operations | What makes it correct |
|---|---|---|---|---|
| TraceInfo | `binrec_traceinfo` | relations over code addresses, list of entry points | `add`, `getCopy`, `restoreFromCopy`, JSON | a copy restored is the trace it was taken of; merging loses nothing |
| FunctionLog plugin | `binrec_plugins/FunctionLog.*` | one trace, a shadow call stack, last block, last caller; a copy of them per forked state | `slotModuleExecute`, `onFunctionCall`, `onFunctionReturn`, `slotStateFork`, `slotStateSwitch`, destructor | the stack is never popped empty, blocks go to the right function, states do not see each other's trace |
| Export, ExportELF plugins | `binrec_plugins/Export*` | translation blocks held, how often a block was exported, which are final, the LLVM module | `exportBB`, `forceCodeGen`, `regenCode`, `addSuccessor`, `saveLLVMModule`, fork and switch handlers | every traced block has good code in every file written |
| ELFSelector plugin | `binrec_plugins/ELFSelector.*` | which module is traced | forwards S2E's block signals | only blocks of the binary are reported |
| CallStack of the trace library | `binrec_traceinfo/src/call_stack.cpp` | live stack frames, the frame of an address, recorded offsets | `recordCall`, `recordReturn`, `recordStackPointerUpdate`, `recordFramePointerUpdate`, `pointsToStack` | frames are ordered, a lookup does not read freed frames |
| Merging | `binrec/merge.py`, `binrec_tracemerge`, `binrec_lift/src/merging` | capture directories, merged directory | prepare, link, merge trace infos | the merged bitcode and the merged trace speak of the same blocks |
| Lifting passes | `binrec_lift/src` | an LLVM module | about sixty module passes | each pass keeps the control flow the trace recorded, the registers' values, and the symbols the code needs |
| Extension modules | `py_binrec_lift.cpp`, `py_binrec_link.cpp`, `binrec/lift.py` | working directory and LLVM options of the calling process, temporary files | `link_prep_1` ... `compile_prep`, `lift`, `link` | a call leaves the process as it found it and runs with its own options |
| Pipeline | `binrec/lift.py` | files of the merged directory | nine stages | the recovered binary comes from the bitcode just lifted |
| Linking | `binrec_link` | a work directory per call, sections of the original binary | the steps of `run_link` | original sections keep their addresses; nothing is left behind |
| Campaigns, projects | `binrec/campaign.py`, `binrec/project.py` | `campaign.json`, trace directories | add, remove, run, validate traces | the file matches the traces; every trace runs and is validated |
| Web front end | `binrec/web` | queue of jobs, project status | requests, worker | a job runs once, the status shown is current |
| Signatures | `binrec/_gdb_sigs.py`, `sigs.py` | records of functions | parse GDB output | pure conversion |
| Runtime | `binrec_rt`, `runlib` | emulated CPU state | helpers | which symbols it defines and needs is in `SymbolPasses`; what the helpers compute is outside the reach of a model checker |

The plugins interact through S2E's signals and one shared `TraceInfo`:
`ELFSelector` turns S2E's block signals into `onModuleExecute`; `ExportELF` and
`FunctionLog` both listen to it and write to the same trace; forks and switches of
S2E's execution states reach both. The later stages interact through files:
`captured*.bc` and `traceInfo*.json` in a capture directory, `captured.bc` and
`traceInfo.json` in the merged one.

What is hard here: one set of variables serving several interleaved execution
states; a shadow stack maintained from signals that may be missing (longjmp, tail
calls) or unexpected (library callbacks); code that S2E may translate again or
collect while the plugin refers to it; passes that each hold by themselves and meet only
in the module they hand on; files of several writers that must agree; process-wide state
changed by a library call; steps of a pipeline that fail half way. `PROJECT.json` lists each hazard at its
line.

## 2. Modules

| Module | Models | Uses |
|---|---|---|
| `TraceInfo` | the trace record and its `add`, `getCopy`, `restoreFromCopy` | |
| `LogHandlers` | what each FunctionLog handler does to the tracing variables, as functions of them | `TraceInfo` |
| `ExecStates` | S2E's execution states: fork, exit, switch (external) | |
| `GuestStates` | the guest program of each state as FunctionMonitor reports it: pending calls, the block at hand (external) | `TraceInfo`, `ExecStates` |
| `FunctionLog` | the plugin: the shared variables `log`, the stored copies `saved`, the files | `LogHandlers`, `GuestStates` |
| `PerStateTrace` | the abstract plugin: tracing variables per execution state | `LogHandlers`, `GuestStates` |
| `Export` | Export and ExportELF: LLVM functions, translation blocks, captured files | `ExecStates` |
| `TraceFiles` | one tracing session as its output directory sees it: when `captured*.bc` and `traceInfo*.json` are written and what is in them | `LogHandlers`, `ExecStates` |
| `TraceMerge` | the trace directories of several sessions, merged once or more often | `TraceFiles` |
| `LiftPipeline` | the stages of `lift_trace` and the files they read and write | |
| `Recovery` | the web application, its worker processes, `campaign.json` and the directories of a project | `LiftPipeline` |
| `GuestProgram` | a traced program: instructions, translation blocks, pending calls, PLT (external) | |
| `LiftPasses` | the lifting passes that decide about control flow, as functions of the module | `TraceInfo`, `GuestProgram` |
| `Lifting` | a program traced, merged, lifted pass by pass, and the recovered program run beside it | `LogHandlers`, `LiftPasses` |
| `RegisterFlow` | the data flow analysis of `GlobalEnvToAlloca` | |
| `GlobalEnvToAlloca` | the rewriting of global registers to locals, and the program run before and after it | `RegisterFlow` |
| `CallStack` | the call stack of the trace library | |
| `SymbolTable` | an LLVM module as the table of its symbols: dead code, inlining, linking (external) | |
| `SymbolPasses` | the passes that add, drop, rename or relink symbols, as functions of the table | `SymbolTable` |
| `Symbols` | all of these passes in order, from captured bitcode to the object file | `SymbolPasses` |
| `LiftCalls` | the functions of `_binrec_lift`, and `prep_bitcode_for_linkage` around two of them | |
| `Linking` | `binrec_link`, called from Python and as an executable | `LiftCalls` |
| `FunctionLogProofs` | theorems about the handlers, FunctionLog and its refinement of `PerStateTrace` | `FunctionLog` |
| `RegisterProofs` | theorems about the analysis and the rewriting of registers | `GlobalEnvToAlloca` |
| `ExportProofs`, `TraceMergeProofs`, `RecoveryProofs`, `LinkingProofs`, `CallStackProofs`, `SymbolProofs` | theorems about the module (`Symbols` for the last) of that name; `LinkingProofs` also about `LiftCalls` | |
| `MCFunctionLog`, `MCExport`, `MCRecovery`, `MCLifting`, `MCGlobalEnvToAlloca`, `MCSymbols`, `MCLinking` | constants, symmetry and programs for TLC | |

### FunctionLog

`log` holds `ti`, `m_callStack`, `m_executedBBPc` and `m_callerPc`; `saved` stands
for the four `m_*ByState` maps, which the code always changes together; `files` for
the `traceInfo*.json` files. Each handler is one action: `ModuleExecute`
(`slotModuleExecute`), `FunctionCall`, `FunctionReturn`, `StateFork`, `StateSwitch`,
`Shutdown` (the destructor). `m_executedBBPc` has no initialiser in the code, so
`Init` lets it be anything. `phase = "aborted"` is the failed assertion of
`slotStateSwitch`.

The guest is a parameter. `GuestMay` says what it may do beyond disciplined calls
and returns: `"longjmp"` (abandon frames without their return signal), `"jump"`
(execute any block of the module at any time: signal handlers, code that S2E
attributes to another function) and `"reenter"` (call the entry function again).
`Preemptive` says whether S2E's searcher may leave a state that has not exited.
A fork reports the new state and, on some forks, the forking state as well; both
are possible.

### Export

An LLVM function is abstracted to what `areBBsEqual` tells apart: the address, whether
it is free of an exception call, and the size of its last basic block.
`translation` and `hasLlvm` are `se_tb->translationBlock` and `tb->llvm_function`,
`tbs`, `bbCounts`, `finalized`, `regenerate` the plugin's members. The order of
functions in the module is the order of generation, and `RenameBlockFuncs` keeps the
first of an address (`Kept`). S2E's part is external: it generates code for a block
on its own, may translate a block again (`Retranslation`) and collects translation
blocks that nothing holds.

### TraceFiles and TraceMerge

`TraceFiles` takes the two plugins at what the models above establish (all traced blocks
are in the one LLVM module, every execution state has its own trace) and asks when each
writes a file. A file is keyed by the number in its name, `Final` for none. `exports` counts
exported blocks up to `Interval`, at which `captured_<id>.bc` of the running state is written;
`traceInfo_<id>.json` is written only when S2E leaves the state. `dirs` are the directories of
completed sessions, each with the state in which S2E ended (`last`).

`TraceMerge` is `merge.py` one file at a time: `BeginMerge` empties the destination and
lists the directories, `Prepare` is `prep_bitcode_for_linkage`, in which `RenameBlockFuncs`
drops the functions of blocks its trace info does not know, `FindInfo`, `Link`,
`MergeInfo` the rest. `os.listdir` has no order, so any file of the first directory left
may be next. Prepared files stay in the trace directories and match `captured*.bc` again:
`<<d, key, n>>` is a file prepared `n` times. `SecondStageFails` leaves such a file behind
half way. `FirstDigit` is the character of the file name that `RenameBlockFuncs` reads as
its number; numerals have base `Base` so that two digits fit into a small model.

### LiftPipeline and Recovery

A file of the merged directory is abstracted to the traces its content comes from, or
`Broken` for one that a failed stage opened and did not complete. A stage is a record of
the files read, the files written and whether the output is opened early. `Recovery` runs
them in worker processes (`jobs`), each with the step it has reached. A request of the
front end is several actions where others can come between: `PostRecover` tests for a
worker and `StartWorker` registers one; an edit loads, opens (`Torn`: the file is empty)
and saves `campaign.json`; clearing removes the trace directories, then the merged one.
Every request polls the worker first, as `before_request` does. `Handlers` are the
threads that serve requests: `app.run` starts one for each. `Page` is what `Get` answers for a
project, with the state and the result that `app.py:129-141` derive from a binary that is
there already. `Restart` is a new `AppState`, beside workers that live on, at any time; no
request looks for a worker before it clears.

Nothing in the code keeps these apart, so the properties say when it matters. Four history
variables, which no action reads, record it: `forgotten` (workers started before the last
restart), `informed` and `blind` (a worker started by a request that had looked before the
previous worker was registered), `disturbed` (a worker that shared its project's directories with
another worker or with a request to clear).

### LiftPasses and Lifting

`Lifting` starts with a guest program, `prog`, and follows it through three phases.

*Tracing* (`TraceBlock`, `TraceLibrary`, `EndTrace`): `guest` is the program's state,
`log` the variables of FunctionLog, changed by the operators of `LogHandlers`, and `prevPc`
what ExportELF remembers to record an edge. `traces` is the merged trace of `runs` runs,
whose branches may have gone different ways.

*Passes* (one action each, in the order of `build_pipeline`): `tbs` maps a translation
block to the addresses of its successors until `RecoverFunctions`; `bbs` maps a basic
block `<<f, pc>>`, the copy of block `pc` in function `f`, to its successors, the functions
it calls and how it ends. A pass that finds what it does not expect (a failed assertion, a
dereferenced end iterator, a fatal error) leads to `pass = "failed"`. The trace tells for which
programs that may be: `BranchesToEntry`, `CallsOwnTail`, `BranchesApart`, `ReturnsFromPlt` and
`StopsInStub` are five predicates of it. One outcome depends on
pointer order in the code (`any` in `RecoverFunctions`: the first element of a multimap of
blocks) and is a free choice. `InlineStubs` gives every block that leads to a stub its own
copy of the stub; the copies lead where the stub leads, so one basic block stands for all.

*Replay* (`StartReplay`, `RunOver`, `RunBlock`, `RunQuit`, `Return`): the recovered
functions run beside the program from `main` on. The program takes only edges and returns
that were traced, since recovered code has no others; `calls` is the stack of recovered
functions, each with its basic block, and `returns` says that the innermost has just
returned. `RunOver` is the end of a block that `FixOverlaps` cut off.

Of an instruction only what it does to PC is modelled. Left out are the code that locates
`main`, exceptions and `setjmp`, and the fallback modes; data is the subject of the next
modules. `FixCFG` adds cases to blocks that call a library and end with a switch; since such
blocks return, it normally has nothing to do, which the run shows rather than assumes.
`get_ret_bbs_by_merged_function` may read the value of a map's
end iterator; it is only compared with block pointers and taken as none of them.

### RegisterFlow and GlobalEnvToAlloca

A module maps functions to basic blocks of loads and stores of registers and calls.
`RegisterFlow` has a round of each of the three analyses of the pass: what a function sets on
every path to a return (`MustRound`), what it may set (`MayRound`), and the liveness of registers
across functions (`LivenessRound`), from which its arguments and results follow.
`GlobalEnvToAlloca` repeats the rounds until nothing changes (`DefineRound`, `LiveRound`), as the
loops of the code do, takes the other steps of the pass (`UpdateSignatures`, then `ReplaceCalls`
for one function at a time and in any order, since the code iterates over a map of pointers) and
then runs the program twice in lockstep: `env` is the old program's global registers, `frames[i].local` and `genv` the new
program's. A register for which the caller has no variable is `"crashed"`, the null pointer
that the code dereferences.

### CallStack

`chain` is the list of live frames (`topFrame` and its parents), `active` the keys of
`activeFrames`, `frames` what is recorded per function and call site. A stack pointer update
that reaches the base of the caller's frame frees the caller; the map keeps its entry (`Stale`).
A failed assertion ends the run (`aborted`). `LowerBound` is the map's lookup, which `find` makes
before it asks the frame for its range, and `FindReadsFreed` that this frame was freed. Nothing in
the repository calls this class, so the
caller is an assumption: a call is made with the stack pointer inside the caller's frame.

### SymbolTable, SymbolPasses and Symbols

A symbol is a record: function or variable, defined or not, linkage, the names its code refers
to, and what later passes look for in its code (accesses to fields of the CPU state, PLT
blocks, trampoline calls, addresses of data imports). A name is a base and the number LLVM
appends, since `f.1` is what some passes fail to recognise. `Symbols` chooses what each traced
block uses, which trace has it and the options `skip_link` and `trace_calls`. It prepares one
trace after the other (`prepared`: those not yet merged) and merges them one at a time, as the
calls of `llvm-link` do; then it runs the passes. Each action is one pass of `build_pipeline`, or
several where nothing can happen between them. LLVM's dead code elimination is a marking in
rounds: while `sweep` holds, the action `GlobalDCE` extends `live`, at first what is exported
(`Roots`), by what its code refers to (`Marked`), until nothing is added, and then drops the rest.
Passes that dereference what `getFunction` returns without a test have an operator `...Fails` for
the null pointer.

Three assumptions say what may be traced. `SymbolsAssumption` fixes types. `CapturedAssumption`:
the functions S2E links into a captured module refer only to each other and call no library of
the program. `NamesAssumption`: the names of recovered functions (`main`, `Func_...`) and of data
imports are not those of S2E's functions, of fields of the CPU state, of the run time support or
of library functions; no library function is called like a stub. Functions of the binary may
have any names, the same ones too, except that prefixing `Func_` does not give `main` or `Func`.

### LiftCalls and Linking

`cwd` and `limit` are the process state that a call of `_binrec_lift` changes. `asked` and `ran`
are the arguments of the last call and the context its passes ran in; `Parsed` is
`PyArg_ParseTupleAndKeywords`, whose format string in `lift` has another order than its variables.
`MakeTemp` to `MoveSecond` are `prep_bitcode_for_linkage`. `RemoveDir` is another process
clearing a trace directory, or even the working directory; `getcwd` then leaves the buffer the
destructor changes back to uninitialised, and `Restored` lets that be anything.
`leftover` has the files of preparations that ended when a stage failed or when all was done,
`stranded` those of preparations that a failing `shutil.move` ended: it may fail for any reason
and is not handled. `Linking` adds `run_link` step by step, with a work directory (`work`, `ctx`)
per call, for a Python process and an executable that differ in what they catch. Sections are records with a
name, address, size, flags and contents; the assembler and the linker are external and reject
duplicate symbols and overlapping sections. Every step may also fail by itself (`Fails`).
`unread` is a history variable: the work directories of calls that could not read their binary.

## 3. Runs

| Run | Shows |
|---|---|
| `log_states` | two execution states, two addresses, an unrestricted guest, no preemption: FunctionLog implements `PerStateTrace`, every live state has its copy, returns find a frame, pending calls keep theirs, the placeholder entry stays out of `traceInfo.json` |
| `log_attribution` | a disciplined guest with two functions and a library: blocks, follow-up blocks and return blocks are recorded under the right function |
| `export_regenerate` | two blocks, two states, one translation each, interval 2: the first function of a block is a good one, files cover the recorded edges |
| `export_retranslate` | with repeated translation and collection: a block declared final keeps a good function, and any traced block keeps one until S2E has translated it twice more than the translation block that `m_tbs` holds |
| `merge_traces` | two sessions of up to two execution states, two merges, files written at an interval and failing tools: merged code covers merged edges, the only file without trace info is the intermediate one of a state S2E never left, no trace info is lost, a merge begun ends |
| `recovery_worker` | a project recovered twice by two threads, with edits, clearing while a worker runs, restarts and failing tools: no worker the application knows is passed by, no stale file, the result shown is the last one's, success means all traces are in the binary, but for the exceptions below |
| `lifting_faithful` | 4557 programs, two traces each: lifting fails for five named reasons only, and but for two of them the recovered program goes where the program goes |
| `registers_local` | 3242 modules with branches, loops, recursion and functions that never return: after `GlobalEnvToAlloca` every load takes the value last stored, and the pass crashes only for a register a caller neither mentions nor passes on |
| `call_stack` | up to three frames on four addresses: frames descend on a bottom frame that is never freed, an assertion fails only because of a stale entry, and only a return lets a lookup below the running function reach a freed frame |
| `symbols` | two blocks in two traces with every choice of helper, library function, data import and option: passes fail only for a result without a register, no traced function is lost, the object file has no undefined symbol but those of the libraries and two that nothing defines, and shadows none of theirs, library calls and data imports are bound |
| `native_calls` | a Python process that lifts, prepares and links beside an executable that links, with failures everywhere and one directory removed: the working directory is kept, options do not leak into the next call, bitcode that could be moved and work directories are removed, original sections are in place |
| `lift_keywords` (violation) | keyword arguments of `lift` after `working_dir` reach other variables than their own |

The type invariants of `FunctionLog` (also checked), `Export`, `TraceMerge`, `Recovery`,
`Linking`, `CallStack` and `GlobalEnvToAlloca` are proved (section 4); those of the other modules
document the state and hold on the instances of the runs.

Bounds. `MaxDepth`, `MaxEntries`, `MaxStack`, `MaxFunctions`, `MaxTbs`, `MaxDirs`,
`MaxMerges`, `MaxTraces` and `MaxJobs` bound counters that are unbounded in the code; they
appear only in guards. Two pending calls and a shadow stack of four are the smallest at
which a return can be dropped, match the next frame and match the top in one behaviour,
since abandoned calls leave frames without a pending call. Two execution states and two
addresses give every order of fork, switch and handler between a state and its copy; the
theorems of section 4 cover every number of states, so forks of forked states too.
Two sizes of a last block are enough, since the code only compares them for equality.
Two merges of two directories let a file be prepared again, and let a trace be added
between merges; `Interval = 2` writes an intermediate file before and after a switch. Two jobs
and two handlers give a second recovery of the project beside or after the first, a request
between the test and the registration of another, and clearing under a running worker;
`MaxEdits = 1` bounds changes of the campaign under way at once. Workers of different projects
share only `AppState`; the theorems cover any number of projects, jobs and handlers. Traces and
handlers are interchangeable model values.
`MaxCalls`, `MaxRuns` and `MaxFrames` bound `Lifting`: four pending calls reach a recursion
within a call from `main` (two frames are taken by `__libc_start_main` and `main`), two runs
are the fewest that give a trace no single run has. `MCLifting` names programs with
overlapping blocks, function pointers, tail calls, a call that does not return and a function
that is called and jumped to, and adds every function of four instructions over calls, indirect
calls, loops (also to its entry), recursion, tail calls and branches, called from a loop that
enters a block in its middle. Its library function is bound at load time, or by the first call if
it is jumped to, or does not return. No program is left out for what lifting makes of it.
`MCGlobalEnvToAlloca` varies one register over a function of three blocks that branches or
loops, its caller and a third function that both may call and that may call back; a second
register is only set by the run-time library and read, since the analysis treats registers
independently. `MaxFrames = 5` is one recursion below `main`, wrapper, program and function.
In `CallStack` three frames are needed for a frame to be freed between two others, and four
addresses for three frames and one address between; the theorems cover all sizes. In `Symbols`
two blocks are a caller and its library function, two traces give a block of both and one of
each; helpers and library functions stand for one each of the ways the passes treat them. Two
work and two trace directories let both processes link the same and different projects;
`MaxRemoved = 1` removes any one directory at any time.
Deadlock is not checked: a session ends with the destructor or a failed assertion, a merge
and a worker end, and the bounds stop the rest.

Fairness. `MergeEnds` assumes `WF_vars(Merge)`: the merge is one sequential program and
its tools are local commands, so an enabled step is taken; starting a merge, tracing and
tool failures are not fair. The plugins only react to signals and must not eventually do
anything; a worker waits for S2E, which may trace for ever, so neither has a fair
specification.

What fails when an assumption is dropped. The passing runs hold under assumptions stated
by their constants; each was also dropped, and TLC then finds:

* `Preemptive = TRUE` breaks `NeverAborts`, the assertion of `slotStateSwitch`
  (`FunctionLog.cpp:233` and `250`): a live state that was left and is returned to finds its
  copy gone or not yet there.
* `"reenter"` in `GuestMay` breaks `BlocksBelongToFunction`: the return of a recursive call
  of the entry function is taken for the end of the program, and the next block recorded
  as a new entry point.
* `Retranslation = TRUE` breaks `BestVersionFirst` and `CapturedCoversTrace`: code is lost as
  `TracedCodeKept` describes (below).
* From the eleventh execution state on `RenameBlockFuncs` (`rename_block_funcs.cpp:31`) reads one
  digit of the state's number, so the wrong trace info, and drops code: `MergedCovers` fails.
* `Base = 2`, `MaxDirs = 3` breaks `NothingLost`: `get_trace_dirs` (`env.py:177`) accepts
  directories that end in one digit, so the eleventh trace of a project is never merged.

Library functions that call back into the program (other than `__libc_start_main`) are not
modelled; the manual lists them as unsupported (`docs/manual/manual.md:85`).

What the models say of the code where a property had to make an exception. The case is in the run,
and without the exception TLC finds the property violated:

* `TracedCodeKept`: `m_tbs.emplace` (`Export.cpp:141`) keeps the first translation block of an
  address, so nothing holds the later one that `regenCode` works on, and S2E may collect it with the
  code. The comment at `Export.cpp:132-136` says that this cannot happen; it takes two translations
  after the one that `m_tbs` holds. Final blocks are safe (`FinalizedKept`).
* `InfoPresent`: bitcode written at the interval (`Export.cpp:149`, which `project.py:561` sets to
  1000 blocks) for the state in which S2E ends has no trace info of its number: the merge fails
  there, contrary to the comment in `rename_block_funcs.cpp`. Nothing would be lost without the
  file.
* `SingleWorker`: the test for a worker and its registration (`app.py:286`) are two steps, and
  Flask's server answers in threads; and a worker outlives the web application, which knows nothing
  of it when started again (`blind`). So a project may have two workers, contrary to
  `using_web_gui.md`.
* `NoStaleFile` and `SuccessCovers`: `clear_trace_data` (`app.py:225`) does not look for a worker,
  and traces deleted before the merge are missing in a recovery that succeeds; two workers of a
  project mix their files (`disturbed`).
* `ResultIsLast`: a page with a binary and no stored result shows "Recovered" and 0
  (`app.py:129-141`), also while a worker runs on the project or after one that failed unnoticed.
* `LiftSucceeds`: lifting fails for a conditional branch to the entry of its own function
  (`BranchesToEntry`, `insert_calls.cpp:139`, "not implemented"; the comment at line 64 holds that
  it does not occur); for a call of a function that the caller also jumps to (`CallsOwnTail`); for
  a branch in code shared by tail calls that one function took in one direction only
  (`BranchesApart`); for a lazily bound library function that is only tail-called, once, whose
  return is recorded from a PLT block that `ELFSymbols` erases (`ReturnsFromPlt`,
  `function_info.cpp:98`; in a recursive function `FixCFG` meets the null blocks of
  `fix_cfg.cpp:131`); for a stub that is the last block executed, as that of `exit` is
  (`StopsInStub`, `elf_symbols.cpp:94`; the comment at line 52: "should not be the case").
* `Faithful` excepts `CallsOwnTail`, since the recorded return blocks do not tell a call from a
  jump, and `BranchesApart`: the comment at `pc_jumps.cpp:175` holds that a block with a successor in
  another function must return, the assertion is disabled, and such a block does not.
* `CrashesOnlyOnForeign`: a callee's result in a register its caller has no variable for is a
  null pointer in `GlobalEnvToAlloca`: a register that one caller wants back is a result of the
  function for all its callers. Whether the pass crashes also depends on the order of a map of
  pointers, since handling an argument may create the variable first.
* `AbortsOnlyOnStale`: after a function removed its caller's frame and returned, a call whose
  frame lies below the removed one fails the assertion. `FreedByReturnOnly`: from that return on
  `find` may also read the freed frame; before it no lookup below the running function can.
* `FailsOnlyOnOddResult`: a library function whose result has 12, 16 or 40 bytes in
  `libc-argsizes` makes the lifting fail.
* `Linkable` (`DefinedNowhere`): with `trace_calls` the code prints with `binrecrt_fdprintf`
  (`call_tracer.cpp:14`), which nothing in the repository defines. A numbered copy of a helper
  (`helper_ldl_mmu.5`), of which S2E's module may hold several, loses its body and is not recognised
  by the pass that replaces its calls. Neither object file can be linked.
* `WorkRemoved`: the (empty) work directory stays when the binary cannot be read
  (`py_binrec_link.cpp:86`), and an executable that is aborted by `LINK_ASSERT` leaves its files.
* `TempRemoved`: the listings `tmp.ll` and `tmp-memssa.ll` always stay; when `shutil.move` fails, on a
  full disk as well as without the directory, `tmp` and `tmp.bc` stay too (`stranded`).
* `SectionsInPlace` holds because linking fails for what it cannot place: a `.tbss` or other
  sections that share addresses, and names that differ only in a dot and a dash. A section with a
  flag of its processor is written without flags (`section_flags_to_str`) and not loaded.

Hazards that no run covers, because the code they concern is not modelled or the property fails
at once: an exit code that `poll` reads and stores while another request starts a worker
(`app.py:61`; `Poll` is one step of the model); concurrent edits of `campaign.json` lose one of
them (`app.py:202`), a crash while it is saved leaves it empty (`campaign.py:545`), a trace is
removed by its position in a page that may be old (`app.py:216`); a validation that was interrupted
leaves a hard link that the next one does not remove (`project.py:414`), and waits for a process
whose pipes it has not read (`project.py:440`).

## 4. Proofs

The constants' assumptions (`PcAssumption`, `StatesAssumption`, `GuestAssumption`,
`LogBoundsAssumption`, `ExportAssumption` and so on) fix types only; every theorem holds for all
sets and all bounds that satisfy them. A theorem that needs more says so as a hypothesis, and
section 3 lists what fails without it.

**FunctionLog** (`FunctionLogProofs`)

* `TypeCorrect`, `ReturnsSafe`, `FramesAreKept`, `EntriesSound`.
  The inductive invariant `IInv` adds to the type invariant that, in the running state
  and in every stored copy, the pending calls embed in order into the shadow stack.
  That the stack is nonempty when a return arrives is not inductive by itself, because
  a return may pop two frames: the embedding says which frame goes. The lemmas
  `EmbedsPush`, `EmbedsCall`, `EmbedsPrefix` and `EmbedsReturn` are the four ways the
  stack changes. The last one is the heart: if the top is not the function that returns
  but the next frame is, the innermost pending call cannot have been embedded at the
  top, so both frames may go.
* `BlocksAreAttributed`, `FollowUpsAreAttributed`, `ReturnsAreAttributed`, for a disciplined
  guest (`GuestMay = {}`), with preemption or without. `InStep` relates the tracing variables
  of a state to its guest: the pending calls are the topmost frames of the shadow stack (below
  them lie the second frames that entry points leave behind), the outermost one is the current
  entry point from its first block to its return, a caller in the module owns the frame below,
  and `m_executedBBPc` and `m_callerPc` belong to the innermost function when they are about
  to be used. `AttributionInv` says so of the running state and of every copy that can still
  be restored. `ExecuteInStep`, `CallInStep` and `ReturnInStep` are the three handlers.
* `SwitchNeverAborts` and `Refinement`, assuming `~Preemptive`.
  `Complete` says that every live state other than the running one has its copy and that
  a state not yet created has none. `CopyIsFaithful` shows that `restoreFromCopy` of
  `getCopy` is the identity, although `add` takes entry points over only when it has
  none. Each action of FunctionLog then maps to the action of the same name of
  `PerStateTrace`.

**Export** (`ExportProofs`)

* `ExportTypes`, `FinalStays` and `TracedCodeStays`, with retranslation, collection and preemption.
  `FinalizedKept` is not inductive: the function that made a block final could be collected with its translation
  block. `FinalOK` names the function that stays: nothing refers to it but the translation block
  that `m_tbs` holds, and that one is never collected. For `TracedCodeStays`, `Reachable` names the
  function of a traced block: that of the translation block in `m_tbs` or, if `regenCode` erased it,
  that of the next one, which S2E may collect only after another translation.
* `FirstIsBest`, `NeverReadsErased` and `FilesCoverTrace`, assuming
  `~Retranslation`. `CodeInv` says of each block that its one translation block refers to its
  latest function, and that the first one in the module is good, or is the only one and none was
  ever good: `regenCode` decides by comparing the two. `EdgesOK` adds that edges are recorded
  between blocks that have been exported, so that a file covers them whenever it is written, by
  the interval too.

**Merging** (`TraceMergeProofs`)

* `MergeTypesOK`, for any number of directories, states and merges. The invariant also says what
  preparing a file gives in terms of the captured file and the trace info (`Content0`), neither of
  which changes once its session is over.
* `NothingIsLost`, assuming `MaxDirs <= Base` (directory names that end in one digit).
  `InfosOnTheWay`: each trace info is among the files to be visited, in the list or added.
* `MergedHasCode`, assuming `States \subseteq 0..Base - 1` (state numbers of one digit).
  `BlocksOnTheWay`: each block of a trace info found so far is in the output, in a file to be
  linked, or in a captured file still to be prepared; it relies on what a session writes
  (`CoversInfos`: each trace info is covered by the bitcode of its own number).
* `InfosArePresent`, assuming state numbers of one digit, for every interval. `InfosWritten`: only the
  running state may have bitcode without trace info, and a session ends with all code in
  `captured.bc`.

**Recovery** (`RecoveryProofs`), for any number of projects, handlers, jobs and restarts

* `RecoveryTypes`, `ResultShownIsLast` and `OneWorker`. `ResultInv` says that the worker the
  application knows is the one started last, so an older result cannot be stored over a newer one.
  `KnownInv` adds that it knows the last worker or has its exit code unless it was restarted since,
  and that a request that looked after the last registration found that worker ended (`Informed`):
  only a blind start can pass a live worker by.
* `FilesOfOneMerge` and the action property `SuccessIsComplete`. `WorkerInv`: a worker that is not
  disturbed is the only live one of its project (`Alone`), and `InProgress` says what the directories
  hold at each of its steps; others leave them alone. `FilesOfOneMerge` needs the last part: a merge
  empties the directory first, and a stage of `lift_trace` makes files only from such files of the
  same directory.

**Extension modules and linking** (`LinkingProofs`)

* `LinkingTypes`, `NoWorkLeft`, `SectionsStay`, `CwdStays`, `OptionsOfOwnCall`, `NoBitcodeLeft`,
  for any processes, binaries and directories, any of which may be removed. `Owned` says what a
  call has in its context and its work directory at each step, `NotShared` that no two processes
  have the same one, `WholeCall` that a recovered binary is the output of all the steps for its
  own original. `NoWorkLeft` and `SectionsStay` are not inductive alone: what a step finds in the
  directory depends on no other process writing to it. `NoBitcodeLeft` has no condition on
  directories: whatever fails but `shutil.move`, only the listings are left.

**Call stack** (`CallStackProofs`, from `CallStackAssumption`)

* The invariants of the run (`StackDescends`, `StackAborts`), its action property
  (`FreedOnlyByReturn`) and three invariants more: `StackTypes`, `StackInCall` (the frames but the
  topmost are exactly those in a call) and `StackOffsets` (the offset of a frame is one recorded for it). Their conjunction but for
  the last is inductive; none is alone. That the frame below all functions is never freed needs
  its base to be 0 and the addresses to be positive; that only a stale entry aborts a call needs
  the order of the frames, since the top frame is then the lowest live one. `ReplaceTop`, `Push`,
  `CallChain`, `ReturnChain` and `MovedChain` say what the operations do to the chain.
  `FreedOnlyByReturn` uses all of it: the base of the running function is below every entry of the
  map until a return makes another function the top; a freed entry may lie below that one.

**Registers** (`RegisterProofs`, from `RegsFinite` and `ModulesAssumption`: modules are well
formed, with any number of functions, blocks and instructions)

* `RegistersAgree` is the inductive invariant, `LoadsLastStore` and `CrashNeedsForeign` are what
  follows for the two invariants of the run, and `RegisterTypes` the type invariant. `Sync` says
  which registers the two programs agree on: in every pending call those that are live after the
  call and not handed back by it, in the running function those that are live where it is. That a
  load reads the last store is not inductive: the value may have been stored calls ago.
* No induction over the analysis is needed. Its loops end when a round changes nothing, so from
  then on `Stable` holds: the sets satisfy the equations of a round, `flow` those of liveness and
  `may` its closure under calls. Each step of the replay uses the equation of the place it is at.
  The equation of `must` is not used: a register that the analysis takes for set by a call, rightly
  or not, is handed back by the callee if it is live after the call.
* The wrapper has variables for all registers, whatever the analysis says of it: after its call `Kept`
  has for it what it hands back and the registers that nothing it calls may set. This needs `Stack`: what a pending call may set is
  included in what the calls below it may set.

**Symbols** (`SymbolProofs`, from the three assumptions of `Symbols`)

* `FunctionsKept`, `LibrariesUnshadowed` and `DataImportsBound`, for any blocks, traces, captured
  helpers, libraries, data imports and symbols of the binary. `IInv` says for each stage what the
  module is: `Traced` (the blocks so far, exported, with their imports), `Liftable` (all blocks, and
  `main` with its call of a `Func_wrapper` still to come), `Recoverable` (`main`, wrapper and the
  functions refer to each other), and from the renaming on the same under some naming of the functions
  (`Namings`). That no function is lost is not inductive: the sweep may only drop what nothing
  exported leads to, so the references from `main` (`Calls`) belong to the invariant.
* `SweepInv` is the marking: the roots are alive, and no data import is alive before its variable is
  made. When a round adds nothing, `live` is closed under references, so that `Calls` carries over
  to what is left (`DroppedCalls`); no induction over the references is needed.
* `Mild` and `Local` are what the passes have in common (they keep the functions of the program
  and export nothing); there is a lemma for each pass. `LinkKept` shows that linking renames no
  exported name, so the blocks of two traces meet. `FunctionRenamingKept` shows that renaming is
  injective: functions whose addresses have the same symbol are told apart by counting those of
  smaller address (`NumbersDiffer`).
* `LibrariesUnshadowed` needs `OnlyExports`: after `InternalizeFunctions` no definition but `main`, the
  trampoline and the stubs is exported. `DataImportsBound` needs that no earlier pass leaves a symbol of
  the import's name (`Free`), dead or not: it would be found by name and the new variable be renamed.

Each inductive invariant was checked with TLC on the constants of the runs before it was proved
(for `Symbols` all but `IsSequence`, which quantifies over all sets).

Only model-checked:

* `MergeEnds`, since liveness is out of the prover's reach;
* `LiftSucceeds` and `Faithful` of `Lifting`: the passes of `LiftPasses` are recursive operators
  (the order of their worklists decides what they find), and what a recursive definition
  computes cannot be proved for every input here;
* `FailsOnlyOnOddResult` and `Linkable` of `Symbols`. They depend on what the captured helpers
  refer to, not on the passes alone: a numbered copy of a helper stays undefined (section 3), and a
  helper that uses `memcpy` otherwise than by a call would make `IntrinsicCleaner` fail. For
  all helpers they hold only under assumptions that would list those uses;
* `LibraryCallsKept`: it follows one reference through five forms (PLT block, trampoline, old
  stub, new stub, function), and `IInv` does not follow the references of functions to others
  than functions and imports.

## 5. Not modelled, and the plan

Next: `Validation` of a recovered binary (`project.py`) and concurrent edits of `campaign.json`,
once the code gives them a property that can hold; facts about single passes of `LiftPasses` that
need no induction.

Left out:

* `ELFSelector`. It forwards blocks of the binary to the other plugins, which are modelled for
  every order of them. Its state per execution state has no reader: nothing connects to
  `onModuleLeave` or `onModuleReturn` or calls `getPrevLocalPc`.
* Passes that rewrite instructions in place without deciding about control flow, registers
  across functions or symbols (`TagInstPc`, `UnalignStack`, `PruneRedundantBasicBlocks` and others).
* Passes that `build_pipeline` does not add, and `InsertTrampForRecFuncs`, which it adds and
  which has no function left to work on.
* Signatures (`_gdb_sigs.py`), a conversion of GDB's output; the emulation code of the runtime
  (`binrec_rt`), which has no protocol; ELF and LLVM file formats; HTML templates, logging and
  command lines.
