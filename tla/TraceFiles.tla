----------------------------- MODULE TraceFiles -----------------------------
(***************************************************************************)
(* One tracing session as its output directory sees it: ExportELF writes   *)
(* captured*.bc and FunctionLog traceInfo*.json, each at moments of its    *)
(* own.  The plugins are taken at what Export and FunctionLog establish:   *)
(* every traced block has a function in the one LLVM module, and every     *)
(* execution state has a trace of its own (PerStateTrace).  Of the trace   *)
(* only the successors and the entry points are followed.                  *)
(***************************************************************************)
EXTENDS LogHandlers, ExecStates

CONSTANTS
  Interval,   \* m_exportInterval, 0 for no intermediate files
  MaxEntries  \* bound on recorded entry points

ASSUME TraceFilesAssumption == Interval \in Nat /\ MaxEntries \in Nat

VARIABLES
  module,   \* the blocks with a function in the LLVM module
  trace,    \* of each state: its TraceInfo
  prevPc,   \* of each state: ExportELFState::prevPc
  exports,  \* m_exportCounter modulo Interval
  bc,       \* captured_<id>.bc of this session: the blocks in it
  json,     \* traceInfo_<id>.json
  tracing,  \* S2E is running
  dirs      \* the directories s2e-out-0, s2e-out-1, ... of completed sessions

sessionVars == <<execVars, module, trace, prevPc, exports, bc, json, tracing>>

Final == -1
FileKey == States \cup {Final}

NoFiles == [k \in {} |-> {}]

\* Files without number, captured.bc and traceInfo.json, have the key Final.
IsDirectory(d) ==
  /\ DOMAIN d.bc \subseteq FileKey
  /\ d.bc \in [DOMAIN d.bc -> SUBSET Pc]
  /\ DOMAIN d.json \subseteq FileKey
  /\ d.json \in [DOMAIN d.json -> TraceInfoRecord]

TraceFilesTypeOK ==
  /\ ExecTypeOK
  /\ module \subseteq Pc
  /\ trace \in [States -> TraceInfoRecord]
  /\ prevPc \in [States -> Pc \cup {NoPc}]
  /\ exports \in Nat
  /\ IsDirectory([bc |-> bc, json |-> json])
  /\ tracing \in BOOLEAN
  /\ \A i \in 1..Len(dirs) : IsDirectory(dirs[i]) /\ dirs[i].last \in States

TraceFilesInit ==
  /\ ExecInit
  /\ module = {}
  /\ trace = [s \in States |-> InitialTrace]
  /\ prevPc = [s \in States |-> NoPc]
  /\ exports = 0
  /\ bc = NoFiles
  /\ json = NoFiles
  /\ tracing = FALSE
  /\ dirs = <<>>

\* s2e run: a new S2E process with a new output directory.
StartTrace ==
  /\ ~tracing
  /\ tracing' = TRUE
  /\ UNCHANGED <<execVars, module, trace, prevPc, exports, bc, json, dirs>>

-----------------------------------------------------------------------------
Write(files, key, content) ==
  [k \in DOMAIN files \cup {key} |-> IF k = key THEN content ELSE files[k]]

\* Nothing is saved before the first block was exported.
SaveLLVMModule(key, functions) == IF functions = {} THEN bc ELSE Write(bc, key, functions)

\* onModuleExecute, which both plugins handle.  A new block is exported, a known
\* one is exported again only when its code was regenerated (reExported), which
\* the first fork ends.
Regenerating == \A s \in States \ {FirstState} : status[s] = "new"

Executed(ti, edge, pc) ==
  [ti EXCEPT !.successors = @ \cup edge, !.entries = EntriesAfterExecute(ti, pc)]

Execute(pc, reExported) ==
  LET exported == pc \notin module \/ reExported
      counted  == IF exported /\ Interval > 0 THEN (exports + 1) % Interval ELSE exports
      edge     == IF prevPc[cur] # NoPc THEN {<<prevPc[cur], pc>>} ELSE {}
  IN
  /\ tracing
  /\ Running
  /\ reExported => pc \in module /\ Regenerating
  /\ module' = module \cup {pc}
  /\ exports' = counted
  /\ bc' = IF exported /\ Interval > 0 /\ counted = 0
           THEN SaveLLVMModule(cur, module') ELSE bc
  /\ trace' = [trace EXCEPT ![cur] = Executed(trace[cur], edge, pc)]
  /\ prevPc' = [prevPc EXCEPT ![cur] = pc]
  /\ UNCHANGED <<execVars, json, tracing, dirs>>

\* onFunctionReturn from the last entry point.
EntryReturn ==
  /\ tracing
  /\ Running
  /\ Len(trace[cur].entries) < MaxEntries
  /\ ~AwaitsEntry(trace[cur])
  /\ trace' = [trace EXCEPT ![cur].entries = Append(@, NoPc)]
  /\ UNCHANGED <<execVars, module, prevPc, exports, bc, json, tracing, dirs>>

StateFork(n) ==
  /\ tracing
  /\ ExecFork(n)
  /\ trace' = [trace EXCEPT ![n] = trace[cur]]
  /\ prevPc' = [prevPc EXCEPT ![n] = prevPc[cur]]
  /\ UNCHANGED <<module, exports, bc, json, tracing, dirs>>

StateExit ==
  /\ tracing
  /\ ExecExit
  /\ UNCHANGED <<module, trace, prevPc, exports, bc, json, tracing, dirs>>

\* Defect: only the bitcode of the state is written.
StateSwitch_NoInfo(n) ==
  /\ tracing
  /\ ExecSwitch(n)
  /\ bc' = SaveLLVMModule(cur, module)
  /\ UNCHANGED <<module, trace, prevPc, exports, json, tracing, dirs>>

\* Both plugins write the file of the state that S2E leaves.
StateSwitch(n) ==
  /\ tracing
  /\ ExecSwitch(n)
  /\ bc' = SaveLLVMModule(cur, module)
  /\ json' = Write(json, cur, trace[cur])
  /\ UNCHANGED <<module, trace, prevPc, exports, tracing, dirs>>

\* The plugins are destroyed, and with them the variables of the session.  last is
\* history: the state that S2E never left.
EndOfTrace ==
  /\ tracing
  /\ dirs' = Append(dirs,
       [ bc   |-> SaveLLVMModule(Final, module),
         json |-> Write(json, Final, FinalTrace(trace[cur])),
         last |-> cur ])
  /\ cur' = FirstState
  /\ status' = [s \in States |-> IF s = FirstState THEN "live" ELSE "new"]
  /\ module' = {}
  /\ trace' = [s \in States |-> InitialTrace]
  /\ prevPc' = [s \in States |-> NoPc]
  /\ exports' = 0
  /\ bc' = NoFiles
  /\ json' = NoFiles
  /\ tracing' = FALSE

Tracing ==
  \/ StartTrace
  \/ \E pc \in Pc, reExported \in BOOLEAN : Execute(pc, reExported)
  \/ EntryReturn
  \/ \E n \in States : StateFork(n)
  \/ StateExit
  \/ \E n \in States : StateSwitch(n)
  \/ EndOfTrace

BlocksOf(ti) == {e[1] : e \in ti.successors} \cup {e[2] : e \in ti.successors}
=============================================================================
