------------------------------- MODULE Symbols -------------------------------
(***************************************************************************)
(* What becomes of the symbols of a traced program from the captured       *)
(* bitcode to the object file: the traces are prepared and merged          *)
(* (lift.py, merge.py), and the stages of lift_trace run the passes of     *)
(* SymbolPasses in the order of build_pipeline.                            *)
(***************************************************************************)
EXTENDS SymbolPasses

CONSTANTS
  Blocks,     \* addresses of the traced blocks; the first of main is 1
  Helpers,    \* functions of the emulator that the code of a block may call
  Traces,     \* how many traces there are
  Captured    \* what S2E links into every captured module

ASSUME SymbolsAssumption ==
  /\ 1 \in Blocks
  /\ Sig \in [Libs -> SigKinds]
  /\ Traces \in Nat \ {0}
  /\ \A n \in DOMAIN Captured : Captured[n] \in Symbol
  /\ Names(Helpers) \subseteq DOMAIN Captured
  /\ Blocks \subseteq Nat
  /\ DOMAIN SymbolOf \subseteq Nat /\ IsFiniteSet(DOMAIN SymbolOf)

\* The names of recovered functions and of what calls them.
FunctionBases ==
  {"main", "Func", "Func_wrapper"} \cup {SymbolName(b) : b \in DOMAIN SymbolOf}

\* S2E's functions only refer to each other.
ASSUME CapturedAssumption ==
  \A n \in DOMAIN Captured :
    /\ n[1] # "tcg-llvm"
    /\ Captured[n].refs \subseteq DOMAIN Captured
    /\ Captured[n].stubs = {} /\ Captured[n].calls = {} /\ Captured[n].imports = {}

\* Nothing else is named like a function of the program or like one of its data
\* imports, no library function like a stub, and "Func_" is a prefix.
ASSUME NamesAssumption ==
  LET captured == {n[1] : n \in DOMAIN Captured} \cup UNION {Captured[n].fields : n \in DOMAIN Captured}
      stubs    == {StubName(f)[1] : f \in Libs}
  IN  /\ FunctionBases \cap Imports = {}
      /\ {"main", "Func"} \cap {SymbolName(b) : b \in DOMAIN SymbolOf} = {}
      /\ (FunctionBases \cup Imports) \cap (SupportBases \cup captured \cup Libs \cup stubs) = {}
      /\ Libs \cap (stubs \cup {"helper_stub_trampoline"}) = {}

VARIABLES
  use,        \* what each block uses: a helper, a data import, a library function
  traced,     \* the blocks of each trace
  functions,  \* the blocks that are functions of the recovered program
  options,    \* skip_link and trace_calls
  stage,      \* what comes next
  prepared,   \* the prepared traces that are not yet merged
  mod,        \* the module at hand
  sweep,      \* GlobalDCE is running on it
  live        \* what it has found alive

inputs == <<use, traced, functions, options>>
dce == <<sweep, live>>
vars == <<inputs, stage, prepared, mod, dce>>

Stages ==
  {"link_prep_1", "link_prep_2", "GlobalizeEnv", "merge", "clean", "fixups",
   "InternalizeGlobals", "RecoverFunctions", "AddMemArray", "ExternPLT", "InlineLibCallArgs",
   "library", "InlineQemuOpHelpers", "InternalizeFunctions", "UnalignStack",
   "IntrinsicCleaner", "FunctionRenaming", "GlobalizeDataImports", "compile", "done", "failed"}

TypeOK ==
  /\ use \in [Blocks -> Helpers \cup Imports \cup Libs]
  /\ traced \in [1..Traces -> SUBSET Blocks]
  /\ functions \subseteq Blocks
  /\ options \in [skip_link : BOOLEAN, trace_calls : BOOLEAN]
  /\ stage \in Stages
  /\ \A i \in 1..Len(prepared) : WellFormed(prepared[i])
  /\ WellFormed(mod)
  /\ \A n \in DOMAIN mod : mod[n] \in Symbol
  /\ sweep \in BOOLEAN
  /\ live \subseteq DOMAIN mod

Init ==
  /\ use \in [Blocks -> Helpers \cup Imports \cup Libs]
  /\ use[1] \notin Libs
  /\ traced \in [1..Traces -> SUBSET Blocks \ {{}}]
  /\ UNION {traced[t] : t \in 1..Traces} = Blocks
  /\ functions \in SUBSET Blocks
  /\ 1 \in functions
  /\ options \in [skip_link : BOOLEAN, trace_calls : BOOLEAN]
  /\ stage = "link_prep_1"
  /\ prepared = <<>>
  /\ mod = Empty
  /\ sweep = FALSE
  /\ live = {}

\* The code of a block moves the program counter, uses registers, and calls S2E.
BlockCode(b) ==
  [ Func(Names({"helper_s2e_tcg_execution_handler"} \cup ({use[b]} \cap Helpers)))
      EXCEPT !.fields = {"eip", "regs"}, !.stubs = {use[b]} \cap Libs,
             !.imports = {use[b]} \cap Imports ]

\* All blocks were translated in every run, but not all of them executed.
CapturedModule == And(Captured, [n \in {<<"tcg-llvm", b>> : b \in Blocks} |-> BlockCode(n[2])])

-----------------------------------------------------------------------------
\* Passes that end at the next stage, with dead code to be swept or not.
Run(name, next, fails, new, swept) ==
  /\ stage = name
  /\ ~sweep
  /\ IF fails
     THEN stage' = "failed" /\ UNCHANGED <<mod, dce>>
     ELSE /\ stage' = next
          /\ mod' = new
          /\ sweep' = swept
          /\ live' = IF swept THEN Roots(new) ELSE {}
  /\ UNCHANGED <<inputs, prepared>>

\* A round of GlobalDCE; the last finds nothing more, and the rest is dropped.
GlobalDCE ==
  /\ sweep
  /\ IF Marked(mod, live) # live
     THEN live' = Marked(mod, live) /\ UNCHANGED <<mod, sweep>>
     ELSE /\ mod' = [n \in live |-> mod[n]]
          /\ sweep' = FALSE
          /\ live' = {}
  /\ UNCHANGED <<inputs, stage, prepared>>

\* prep_bitcode_for_linkage, for one trace after the other.
RunLinkPrep1 ==
  Run("link_prep_1", "link_prep_2", FALSE,
      LinkPrep1(CapturedModule, traced[Len(prepared) + 1]), TRUE)

RunLinkPrep2 == Run("link_prep_2", "GlobalizeEnv", FALSE, LinkPrep2(mod), TRUE)

RunGlobalizeEnv ==
  /\ stage = "GlobalizeEnv"
  /\ ~sweep
  /\ IF GlobalizeEnvFails(mod)
     THEN stage' = "failed" /\ UNCHANGED <<prepared, mod>>
     ELSE /\ prepared' = Append(prepared, EnvOutOfWay(mod))
          /\ mod' = Empty
          /\ stage' = IF Len(prepared) + 1 < Traces THEN "link_prep_1" ELSE "merge"
  /\ UNCHANGED <<inputs, dce>>

\* _link_bitcode: the traces merged so far override the next.
Merge ==
  /\ stage = "merge"
  /\ prepared # <<>>
  /\ mod' = IF mod = Empty THEN Head(prepared) ELSE Link(Head(prepared), mod)
  /\ prepared' = Tail(prepared)
  /\ stage' = IF prepared' = <<>> THEN "clean" ELSE stage
  /\ UNCHANGED <<inputs, dce>>

Clean ==
  Run("clean", "fixups", TagInstPcFails(mod), AddCustomHelperVars(RemoveS2EHelpers(mod)), FALSE)

ApplyFixups ==
  Run("fixups", "InternalizeGlobals", LinkFails(mod, CustomHelpers), Link(mod, CustomHelpers),
      FALSE)

RunInternalizeGlobals ==
  Run("InternalizeGlobals", "RecoverFunctions", FALSE, InternalizeGlobals(mod), TRUE)

RunRecoverFunctions ==
  Run("RecoverFunctions", "AddMemArray", RecoverFunctionsFails(mod),
      RecoverFunctions(mod, functions), FALSE)

RunAddMemArray == Run("AddMemArray", "ExternPLT", FALSE, AddMemArray(mod), FALSE)

RunExternPLT ==
  Run("ExternPLT", "InlineLibCallArgs", ExternPLTFails(mod), AlwaysInliner(ExternPLT(mod)), FALSE)

RunInlineLibCallArgs ==
  Run("InlineLibCallArgs", "library", InlineLibCallArgsFails(mod),
      AlwaysInliner(InlineLibCallArgs(mod)), FALSE)

LinkLibrary ==
  /\ ~options.skip_link
  /\ Run("library", "InlineQemuOpHelpers", FALSE,
         ImplementLibCallsNewPLT(LibCallNewPLT(ReplaceDynamicSymbols(mod))), FALSE)

SkipLink ==
  /\ options.skip_link
  /\ Run("library", "InlineQemuOpHelpers", FALSE, ImplementLibCallStubs(mod), FALSE)

RunInlineQemuOpHelpers ==
  Run("InlineQemuOpHelpers", "InternalizeFunctions", InlineQemuOpHelpersFails(mod),
      IF options.trace_calls THEN CallTracer(InlineQemuOpHelpers(mod))
      ELSE InlineQemuOpHelpers(mod), FALSE)

RunInternalizeFunctions ==
  Run("InternalizeFunctions", "UnalignStack", FALSE, InternalizeFunctions(mod), TRUE)

RunUnalignStack == Run("UnalignStack", "IntrinsicCleaner", UnalignStackFails(mod), mod, TRUE)

RunIntrinsicCleaner ==
  Run("IntrinsicCleaner", "FunctionRenaming", IntrinsicCleanerFails(mod), IntrinsicCleaner(mod),
      FALSE)

RunFunctionRenaming ==
  Run("FunctionRenaming", "GlobalizeDataImports", FALSE, FunctionRenaming(mod), FALSE)

RunGlobalizeDataImports ==
  Run("GlobalizeDataImports", "compile", FALSE, GlobalizeDataImports(mod), FALSE)

Compile == Run("compile", "done", FALSE, InternalizeDebugHelpers(mod), TRUE)

Next ==
  \/ GlobalDCE
  \/ RunLinkPrep1
  \/ RunLinkPrep2
  \/ RunGlobalizeEnv
  \/ Merge
  \/ Clean
  \/ ApplyFixups
  \/ RunInternalizeGlobals
  \/ RunRecoverFunctions
  \/ RunAddMemArray
  \/ RunExternPLT
  \/ RunInlineLibCallArgs
  \/ LinkLibrary
  \/ SkipLink
  \/ RunInlineQemuOpHelpers
  \/ RunInternalizeFunctions
  \/ RunUnalignStack
  \/ RunIntrinsicCleaner
  \/ RunFunctionRenaming
  \/ RunGlobalizeDataImports
  \/ Compile

Spec == Init /\ [][Next]_vars

-----------------------------------------------------------------------------
\* The object file is complete.
Done == stage = "done" /\ ~sweep

\* The name a function of the recovered program has now.
Recovered(b) ==
  {n \in DOMAIN mod :
     \/ n = FuncName(b)
     \/ b \in DOMAIN SymbolOf /\ n[1] = SymbolName(b) /\ n # N("Func_wrapper")}

\* A stage only fails for a library function whose result has a size for which
\* InlineLibCallArgs has no register: no pass looks in vain for a helper, a
\* register or a function (most of them do not check what they find), and neither
\* linking the run time support nor cleaning up intrinsics meets a second definition
\* or a use it does not expect.
FailsOnlyOnOddResult ==
  stage = "failed" => \E b \in Blocks : use[b] \in Libs /\ Sig[use[b]] = "odd"

\* Code that was traced is never lost: however linkage changes and dead code is
\* dropped, from the merge on every function of the recovered program is defined.
CodeKept ==
  stage \notin {"link_prep_1", "link_prep_2", "GlobalizeEnv", "merge", "failed"} =>
    \A b \in functions : \E n \in Recovered(b) : mod[n].fn /\ mod[n].def

\* What a linker is given besides the module: the libraries of the program and the
\* functions custom-helpers.cpp calls.
Provided == Names(Libs \cup Imports \cup {"printf", "puts", "exit"})

\* What nothing defines: the function that call tracing prints with, and a numbered copy
\* of a load helper, which lost its body and whose calls AddMemArray did not replace.
DefinedNowhere(n) ==
  \/ options.trace_calls /\ n = N("binrecrt_fdprintf")
  \/ n[1] = "helper_ldl_mmu" /\ n[2] # 0 /\ n \in DOMAIN Captured

\* Apart from these two the object file can be linked: nothing of the emulator or of
\* S2E, no half resolved stub and no copy of a library symbol that a pass or llvm-link
\* numbered is left undefined.
Linkable ==
  Done =>
    \A n \in DOMAIN mod :
      Users(mod, n) # {} /\ ~mod[n].def => n \in Provided \/ DefinedNowhere(n)

\* Nothing exported takes the place of a library function for the libraries
\* themselves, such as the __cxa_atexit of the run time support.
NothingShadowed ==
  Done => \A n \in Names(Libs) \cap DOMAIN mod : ~mod[n].def \/ mod[n].link = "internal"

\* A function that was a PLT entry calls its library function still, by name or, if
\* linking is skipped, by the entry of the old PLT; setjmp and longjmp are replaced
\* and memcpy has become an intrinsic.
Resolved(b, n) ==
  LET f == use[b] IN
  IF f \in {"setjmp", "longjmp", "memcpy"} /\ ~options.skip_link
  THEN N(f) \notin mod[n].refs
  ELSE \/ f \in {"setjmp", "longjmp"}
       \/ IF options.skip_link THEN f \in mod[n].calls \/ StubName(f) \in mod[n].refs
          ELSE N(f) \in mod[n].refs

LibraryCallsKept ==
  Done =>
    \A b \in functions : use[b] \in Libs => \E n \in Recovered(b) : Resolved(b, n)

\* Code does not keep the address a data import had in the old binary.
ImportsBound ==
  Done =>
    \A b \in functions : use[b] \in Imports =>
      \E n \in Recovered(b) :
        mod[n].imports = {} /\ N(use[b]) \in mod[n].refs /\ ~mod[N(use[b])].def
=============================================================================
