------------------------------- MODULE Export -------------------------------
(***************************************************************************)
(* The Export and ExportELF plugins (binrec_plugins/Export.cpp,            *)
(* ExportELF.cpp): which LLVM functions S2E's module holds for the traced  *)
(* blocks, which of them the plugin vouches for, and the captured*.bc      *)
(* files written from the module.                                          *)
(*                                                                         *)
(* S2E gives every translation of the block at pc a translation block (TB) *)
(* and may translate it again; a TB that no smart pointer holds is         *)
(* garbage-collected with its LLVM function.  A function is abstracted to  *)
(* what areBBsEqual tells apart: is it free of an exception call, and how  *)
(* many instructions does its last basic block have.                       *)
(***************************************************************************)
EXTENDS ExecStates

CONSTANTS
  Pc,             \* addresses of the traced binary's blocks, 0 excluded
  Sizes,          \* instruction counts of a last basic block
  Retranslation,  \* S2E may translate a block again
  Interval,       \* m_exportInterval
  MaxFunctions,   \* bound on LLVM functions ever generated
  MaxTbs          \* bound on translations of one block

ASSUME ExportAssumption ==
  /\ Pc \subseteq Nat \ {0}
  /\ Sizes \subseteq Nat
  /\ Retranslation \in BOOLEAN
  /\ Interval \in Nat
  /\ MaxFunctions \in Nat
  /\ MaxTbs \in Nat \ {0}

NoPc == 0
NoFunction == 0
Final == -1

FunctionId == 1..MaxFunctions
Tb == Pc \X (1..MaxTbs)

VARIABLES
  count,         \* how many functions have been generated
  code,          \* what each of them is
  module,        \* those in the LLVM module; its order is that of generation
  version,       \* the number of S2E's current TB of each block
  translation,   \* the function of each TB: se_tb->translationBlock
  hasLlvm,       \* the TBs whose tb->llvm_function is set (to the same function)
  tbs,           \* m_tbs
  bbCounts,      \* m_bbCounts, 0 for an absent key
  finalized,     \* the blocks m_bbFinalized maps to true
  regenerate,    \* m_regenerateBlocks
  exportCounter, \* m_exportCounter, of which only the remainder by Interval matters
  prevPc,        \* ExportELFState::prevPc of each execution state
  successors,    \* ti->successors of each execution state
  captured,      \* captured_<id>.bc, and captured.bc under Final
  phase          \* "running", "undefined" (an erased function was used), "done"

s2eVars == <<count, code, module, version, translation, hasLlvm>>
cacheVars == <<tbs, bbCounts, finalized, regenerate>>
traceVars == <<prevPc, successors>>
outputVars == <<exportCounter, captured, phase>>
vars == <<execVars, s2eVars, cacheVars, traceVars, outputVars>>

Code == [pc : Pc, valid : BOOLEAN, size : Sizes]

TypeOK ==
  /\ ExecTypeOK
  /\ count \in 0..MaxFunctions
  /\ code \in [1..count -> Code]
  /\ module \subseteq 1..count
  /\ version \in [Pc -> 1..MaxTbs]
  /\ translation \in [Tb -> 0..count]
  /\ hasLlvm \subseteq Tb
  /\ DOMAIN tbs \subseteq Pc
  /\ tbs \in [DOMAIN tbs -> Tb]
  /\ bbCounts \in [Pc -> Nat]
  /\ finalized \subseteq Pc
  /\ regenerate \in BOOLEAN
  /\ exportCounter \in Nat
  /\ prevPc \in [States -> Pc \cup {NoPc}]
  /\ successors \in [States -> SUBSET (Pc \X Pc)]
  /\ DOMAIN captured \subseteq States \cup {Final}
  /\ captured \in [DOMAIN captured -> SUBSET (1..count)]
  /\ phase \in {"running", "undefined", "done"}

Init ==
  /\ ExecInit
  /\ count = 0
  /\ code = [f \in {} |-> NoFunction]
  /\ module = {}
  /\ version = [pc \in Pc |-> 1]
  /\ translation = [tb \in Tb |-> NoFunction]
  /\ hasLlvm = {}
  /\ tbs = [pc \in {} |-> NoPc]
  /\ bbCounts = [pc \in Pc |-> 0]
  /\ finalized = {}
  /\ regenerate = TRUE
  /\ exportCounter = 0
  /\ prevPc = [s \in States |-> NoPc]
  /\ successors = [s \in States |-> {}]
  /\ captured = [k \in {} |-> {}]
  /\ phase = "running"

-----------------------------------------------------------------------------
CurrentTb(pc) == <<pc, version[pc]>>

\* cpu_gen_llvm: S2E's translator appends a new function to the module.
Fresh == count + 1

Generate(tb, valid, size) ==
  /\ count < MaxFunctions
  /\ count' = Fresh
  /\ code' = [f \in 1..Fresh |->
       IF f = Fresh THEN [pc |-> tb[1], valid |-> valid, size |-> size] ELSE code[f]]
  /\ translation' = [translation EXCEPT ![tb] = Fresh]

\* Defect: an existing file is not overwritten.
SaveModule_Once(key, functions) ==
  [k \in DOMAIN captured \cup {key} |->
     IF k \in DOMAIN captured THEN captured[k] ELSE functions]

(* Export::saveLLVMModule.                                                 *)
SaveModule(key, functions) ==
  [k \in DOMAIN captured \cup {key} |-> IF k = key THEN functions ELSE captured[k]]

\* The tail of exportBB, once a TB was exported: emplace keeps the TB m_tbs
\* already has, and every Interval-th export saves an intermediate module.
Vouch(pc) ==
  tbs' = [p \in DOMAIN tbs \cup {pc} |-> IF p \in DOMAIN tbs THEN tbs[p] ELSE CurrentTb(pc)]

CountExport ==
  IF Interval = 0
  THEN UNCHANGED <<exportCounter, captured>>
  ELSE /\ exportCounter' = (exportCounter + 1) % Interval
       /\ captured' = IF exportCounter' = 0 THEN SaveModule(cur, module') ELSE captured

Exported(pc) == Vouch(pc) /\ CountExport

NotExported == UNCHANGED <<tbs, exportCounter, captured>>

\* ExportELF::slotModuleExecute after exportBB: addSuccessor(prevPc, pc), which
\* needs a TB for pc, and the new prevPc.
Follow(pc) ==
  /\ successors' =
       IF prevPc[cur] # NoPc /\ pc \in DOMAIN tbs'
       THEN [successors EXCEPT ![cur] = @ \cup {<<prevPc[cur], pc>>}]
       ELSE successors
  /\ prevPc' = [prevPc EXCEPT ![cur] = pc]

(* Export::exportBB of a block never seen: forceCodeGen.                   *)
FirstExport(pc) ==
  /\ phase = "running"
  /\ Running
  /\ bbCounts[pc] = 0
  /\ IF CurrentTb(pc) \in hasLlvm
     THEN UNCHANGED s2eVars
     ELSE /\ \E valid \in BOOLEAN, size \in Sizes : Generate(CurrentTb(pc), valid, size)
          /\ module' = module \cup {Fresh}
          /\ hasLlvm' = hasLlvm \cup {CurrentTb(pc)}
          /\ UNCHANGED version
  /\ bbCounts' = [bbCounts EXCEPT ![pc] = IF regenerate THEN 1 ELSE 2]
  /\ finalized' = finalized \ {pc}
  /\ Exported(pc)
  /\ Follow(pc)
  /\ UNCHANGED <<execVars, regenerate, phase>>

(* Export::regenCode of the block, which compares a new function with the  *)
(* one of the TB in m_tbs.                                                 *)
Old(pc) == translation[tbs[pc]]

Regenerated(pc) ==
  /\ phase = "running"
  /\ Running
  /\ bbCounts[pc] > 0
  /\ regenerate
  /\ pc \notin finalized

\* Both functions are good and alike: the block is final, and the new function
\* stays in the module too.
Agreed(pc) ==
  /\ finalized' = finalized \cup {pc}
  /\ module' = module \cup {Fresh}
  /\ hasLlvm' = hasLlvm \ {CurrentTb(pc)}
  /\ NotExported

\* The new function has an exception call: it stays, but is not vouched for.
Rejected(pc) ==
  /\ module' = module \cup {Fresh}
  /\ hasLlvm' = hasLlvm \ {CurrentTb(pc)}
  /\ NotExported
  /\ UNCHANGED finalized

\* Otherwise old->eraseFromParent().
Replaced(pc) ==
  /\ module' = (module \cup {Fresh}) \ {Old(pc)}
  /\ hasLlvm' = hasLlvm \cup {CurrentTb(pc)}
  /\ Exported(pc)
  /\ UNCHANGED finalized

\* Defect: the old function gives way to a new one with an exception call.
RegenCode_NewAlwaysWins(pc, valid, size) ==
  LET old == code[Old(pc)] IN
  IF old.valid /\ valid /\ old.size = size THEN Agreed(pc) ELSE Replaced(pc)

\* Defect: two functions with the same exception call count as final.
RegenCode_SizeOnly(pc, valid, size) ==
  LET old == code[Old(pc)] IN
  IF old.size = size THEN Agreed(pc) ELSE Replaced(pc)

\* areBBsEqual is false only of two valid functions that differ in size.
RegenCode(pc, valid, size) ==
  LET old == code[Old(pc)] IN
  CASE old.valid /\ valid /\ old.size = size -> Agreed(pc)
    [] old.valid /\ ~valid                   -> Rejected(pc)
    [] OTHER                                 -> Replaced(pc)

ReExport(pc) ==
  /\ Regenerated(pc)
  /\ Old(pc) \in module
  /\ \E valid \in BOOLEAN, size \in Sizes :
       /\ Generate(CurrentTb(pc), valid, size)
       /\ RegenCode(pc, valid, size)
  /\ bbCounts' = [bbCounts EXCEPT ![pc] = @ + 1]
  /\ Follow(pc)
  /\ UNCHANGED <<execVars, version, regenerate, phase>>

\* areBBsEqual reads a function that is no longer there.
ReExportErased(pc) ==
  /\ Regenerated(pc)
  /\ Old(pc) \notin module
  /\ phase' = "undefined"
  /\ UNCHANGED <<execVars, s2eVars, cacheVars, traceVars, exportCounter, captured>>

(* exportBB of a block that needs no further look.                         *)
SkipExport(pc) ==
  /\ phase = "running"
  /\ Running
  /\ bbCounts[pc] > 0
  /\ regenerate => pc \in finalized
  /\ UNCHANGED <<execVars, s2eVars, cacheVars, outputVars>>
  /\ Follow(pc)

-----------------------------------------------------------------------------
(* ExportELF::slotStateFork, slotStateSwitch and ~Export.                  *)
StateFork(n) ==
  /\ phase = "running"
  /\ ExecFork(n)
  /\ regenerate' = FALSE
  /\ prevPc' = [prevPc EXCEPT ![n] = prevPc[cur]]
  /\ successors' = [successors EXCEPT ![n] = successors[cur]]
  /\ UNCHANGED <<s2eVars, tbs, bbCounts, finalized, outputVars>>

StateExit ==
  /\ phase = "running"
  /\ ExecExit
  /\ UNCHANGED <<s2eVars, cacheVars, traceVars, outputVars>>

\* m_module is set with the first exported block; without it nothing is saved.
Saved(key) == IF DOMAIN tbs = {} THEN captured ELSE SaveModule(key, module)

StateSwitch(n) ==
  /\ phase = "running"
  /\ ExecSwitch(n)
  /\ captured' = Saved(cur)
  /\ UNCHANGED <<s2eVars, cacheVars, traceVars, exportCounter, phase>>

Shutdown ==
  /\ phase = "running"
  /\ captured' = Saved(Final)
  /\ phase' = "done"
  /\ UNCHANGED <<execVars, s2eVars, cacheVars, traceVars, exportCounter>>

-----------------------------------------------------------------------------
(* External: S2E's own translation of blocks.                              *)
S2EGenerate(pc) ==
  /\ phase = "running"
  /\ CurrentTb(pc) \notin hasLlvm
  /\ \E valid \in BOOLEAN, size \in Sizes : Generate(CurrentTb(pc), valid, size)
  /\ module' = module \cup {Fresh}
  /\ hasLlvm' = hasLlvm \cup {CurrentTb(pc)}
  /\ UNCHANGED <<execVars, version, cacheVars, traceVars, outputVars>>

Retranslate(pc) ==
  /\ phase = "running"
  /\ Retranslation
  /\ version[pc] < MaxTbs
  /\ version' = [version EXCEPT ![pc] = @ + 1]
  /\ UNCHANGED <<execVars, count, code, module, translation, hasLlvm,
                 cacheVars, traceVars, outputVars>>

\* Defect: m_tbs holds plain pointers.
HeldByPlugin_Raw == {}

(* The smart pointers of m_tbs.                                            *)
HeldByPlugin == {tbs[pc] : pc \in DOMAIN tbs}

\* S2E itself holds the TB that it runs a block with.
Held == {CurrentTb(pc) : pc \in Pc} \cup HeldByPlugin

\* The TB is destroyed, and with it the function it refers to.
Collect(tb) ==
  /\ phase = "running"
  /\ tb \notin Held
  /\ translation[tb] \in module
  /\ module' = module \ {translation[tb]}
  /\ UNCHANGED <<execVars, count, code, version, translation, hasLlvm,
                 cacheVars, traceVars, outputVars>>

Next ==
  \/ \E pc \in Pc : FirstExport(pc)
  \/ \E pc \in Pc : ReExport(pc)
  \/ \E pc \in Pc : ReExportErased(pc)
  \/ \E pc \in Pc : SkipExport(pc)
  \/ \E n \in States : StateFork(n)
  \/ StateExit
  \/ \E n \in States : StateSwitch(n)
  \/ Shutdown
  \/ \E pc \in Pc : S2EGenerate(pc)
  \/ \E pc \in Pc : Retranslate(pc)
  \/ \E tb \in Tb : Collect(tb)

Spec == Init /\ [][Next]_vars

-----------------------------------------------------------------------------
(* Properties.                                                             *)

FunctionsOf(pc, functions) == {f \in functions : code[f].pc = pc}

\* The function that RenameBlockFuncs keeps: the first of the module.
Kept(pc) == CHOOSE f \in FunctionsOf(pc, module) : \A g \in FunctionsOf(pc, module) : f <= g

\* A traced block keeps a function in the module through regenerations, second
\* translations and S2E's garbage collection, in every order of the three, until
\* S2E has translated it twice more than the TB that m_tbs holds, and for ever
\* once it is final.  "By using a smart pointer here, we assure that S2E won't
\* garbage collect the functions we've traced" (Export.cpp) claims more than the
\* code does: emplace leaves m_tbs with the TB whose function regenCode erases,
\* the function put in its place belongs to the next TB, and that TB goes with
\* the translation after it.
TracedCodeKept ==
  phase # "undefined" =>
    \A pc \in DOMAIN tbs :
      FunctionsOf(pc, module) = {} =>
        /\ pc \notin finalized
        /\ version[pc] >= tbs[pc][2] + 2

\* A traced block is lifted from a function without exception call whenever
\* the translator ever produced one: regenCode compares with the function of
\* the last translation, but whatever it rejects, erases and leaves behind, the
\* first function of the block in the module is a good one.
BestVersionFirst ==
  \A pc \in Pc :
    /\ bbCounts[pc] > 0
    /\ \E f \in FunctionsOf(pc, 1..count) : code[f].valid
    => code[Kept(pc)].valid

\* A block declared final keeps a good function, even when S2E translates it
\* again and collects old translations.
FinalizedKept ==
  phase # "undefined" =>
    \A pc \in finalized : \E f \in FunctionsOf(pc, module) : code[f].valid

Covers(functions, edges) ==
  \A e \in edges :
    FunctionsOf(e[1], functions) # {} /\ FunctionsOf(e[2], functions) # {}

\* The bitcode of a state that S2E left has the code of every block of that
\* state's control-flow edges, and so has captured.bc for the last state.
CapturedCoversTrace ==
  /\ \A s \in States \cap DOMAIN captured :
       s # cur => Covers(captured[s], successors[s])
  /\ Final \in DOMAIN captured => Covers(captured[Final], successors[cur])
=============================================================================
