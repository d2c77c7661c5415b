---------------------------- MODULE SymbolPasses ----------------------------
(***************************************************************************)
(* The passes that decide which functions and variables a module has, who  *)
(* may see them and how library functions and data are bound               *)
(* (binrec_lift/src), and the run time support they link in                *)
(* (runlib/custom-helpers.cpp).  Functions alike are represented by one:   *)
(* helper_ldl_mmu for helper_(ld|st)[bwlq]_mmu, R_EAX and R_ESP for the    *)
(* registers.                                                              *)
(***************************************************************************)
EXTENDS SymbolTable, Sequences

CONSTANTS
  Sig,        \* by library function: what libc-argsizes says of its result
  Imports,    \* the data imports of the binary
  SymbolOf    \* the symbol of the binary at a function's address

\* "unknown": not listed; "wide": an argument of more than 8 bytes; "odd": a
\* result that is neither of the sizes that can be put into registers.
SigKinds == {"unknown", "wide", "odd", "void", "i32", "i64", "float", "double"}
Libs == DOMAIN Sig

FuncName(b) == <<"Func", b>>
StubName(f) == N("__stub_" \o f)
SymbolName(b) == "Func_" \o SymbolOf[b]
is_lifted_function(n) == n[1] = "Func"

Lifted(m) == {n \in Functions(m) : is_lifted_function(n)}

Trampoline == N("helper_stub_trampoline")
R_ESP == N("R_ESP")
PC == N("PC")
Registers == Names({"R_EAX", "R_ESP", "PC"})

-----------------------------------------------------------------------------
(* custom-helpers.bc.                                                      *)
AlwaysInline ==
  Names({"nonlib_setjmp", "nonlib_longjmp", "helper_extern_stub",
         "virtualize_return_float", "virtualize_return_double",
         "virtualize_return_i32", "virtualize_return_i64"})

CustomDefinitions ==
  [ main                     |-> {"debug_verbosity", "printf", "puts", "segs", "helper_fninit",
                                  "R_ESP", "R_EAX", "Func_wrapper"},
    raise_interrupt          |-> {"printf", "exit"},
    helper_raise_exception   |-> {"printf", "exit"},
    nonlib_setjmp            |-> {"helper_ldl_mmu", "R_ESP", "R_EAX", "PC"},
    nonlib_longjmp           |-> {"R_ESP", "R_EAX", "PC"},
    helper_stub_trampoline   |-> {"helper_fldl_ST0"},
    helper_extern_stub       |-> {"helper_ldl_mmu", "R_ESP", "R_EAX", "PC",
                                  "helper_stub_trampoline"},
    virtualize_return_float  |-> {"helper_flds_ST0"},
    virtualize_return_double |-> {"helper_fldl_ST0"},
    virtualize_return_i32    |-> {"R_EAX"},
    virtualize_return_i64    |-> {"R_EAX"},
    __cxa_atexit             |-> {},
    helper_break             |-> {} ]

CustomVariables == Names({"debug_verbosity", "segs"}) \cup Registers

\* The names of the run time support and those the passes look for or make.
SupportBases ==
  { "debug_verbosity", "segs", "printf", "puts", "exit", "raise_interrupt", "__cxa_atexit",
    "R_EAX", "R_ESP", "PC", "eip", "regs", "env", "tcg-llvm", "nonlib_setjmp", "nonlib_longjmp",
    "helper_extern_stub", "helper_stub_trampoline", "helper_raise_exception", "helper_break",
    "helper_fninit", "helper_fldl_ST0", "helper_flds_ST0", "helper_pxor_xmm", "helper_ldl_mmu",
    "cpu_ldl_data", "virtualize_return_float", "virtualize_return_double",
    "virtualize_return_i32", "virtualize_return_i64", "helper_divb_AL", "helper_cc_compute_all",
    "tcg_llvm_fork_and_concretize", "helper_s2e_tcg_execution_handler", "helper_lock",
    "s2e_icount", "binrecrt_fdprintf", "memcpy", "uadd.i32", "countLeadingZeros32" }

CustomHelpers ==
  LET defs == [n \in Names(DOMAIN CustomDefinitions) |-> Func(Names(CustomDefinitions[n[1]]))]
      used == UNION {defs[n].refs : n \in DOMAIN defs}
  IN  Declared(Declared(defs, CustomVariables, VarDecl), used, FuncDecl)

-----------------------------------------------------------------------------
(* Linkage preparation of one trace.                                       *)

\* Captured blocks of traced addresses are named after them, the others go; S2E's
\* private declarations become external.
RenameBlockFuncs(m, traced) ==
  LET blocks == {n \in DOMAIN m : n[1] = "tcg-llvm"}
      others == Linked(m, {n \in Functions(m) \ blocks : ~m[n].def /\ m[n].link = "private"},
                       "external")
      kept   == {n \in blocks : n[2] \in traced}
  IN  And(Without(others, blocks),
          [n \in {FuncName(k[2]) : k \in kept} |-> m[<<"tcg-llvm", n[2]>>]])

ExternalizeFunctions(m) == Linked(m, Functions(m), "external")

Ignore_Functions == Names({"helper_fninit", "helper_fldl_ST0", "helper_flds_ST0"})

\* Defect: the traced blocks are not excepted.
InternalizeImports_Lifted(m) == Linked(m, Definitions(m) \ Ignore_Functions, "internal")

InternalizeImports(m) ==
  Linked(m, Definitions(m) \ (Lifted(m) \cup Ignore_Functions), "internal")

\* helper_(ld|st)[bwlq]_mmu(.n) and cpu_(ld|st)*_data
MmuFunctions(m) ==
  {n \in Functions(m) : n[1] = "helper_ldl_mmu" \/ n = N("cpu_ldl_data")}

\* Defect: the functions that custom-helpers.bc defines keep their bodies.
UnimplementCustomHelpers_MmuOnly(m) ==
  LET declared == {n \in Functions(CustomHelpers) : ~CustomHelpers[n].def}
  IN  Unimplemented(Linked(m, declared, "external"), MmuFunctions(m))

UnimplementCustomHelpers(m) ==
  LET declared == {n \in Functions(CustomHelpers) : ~CustomHelpers[n].def}
  IN  Unimplemented(Linked(m, declared, "external"),
                    Definitions(CustomHelpers) \cup MmuFunctions(m))

GlobalizeEnvFails(m) == N("env") \notin DOMAIN m

\* Each field becomes a variable of its name.
GlobalizeEnv(m) ==
  LET fields == UNION {m[n].fields : n \in DOMAIN m} IN
  Declared([n \in DOMAIN m |-> [m[n] EXCEPT !.refs = @ \cup Names(m[n].fields), !.fields = {}]],
           Names(fields), VarDecl)

\* eip is renamed, and the elements of regs become variables; regs itself is left.
RenameEnv(m) ==
  LET regs     == N("regs")
      inRegs   == [n \in DOMAIN m |-> IF regs \in m[n].refs
                     THEN [m[n] EXCEPT !.refs = (@ \ {regs}) \cup (Registers \ {PC})] ELSE m[n]]
      declared == IF regs \in DOMAIN m /\ Users(m, regs) # {}
                  THEN Declared(inRegs, Registers \ {PC}, VarDecl) ELSE inRegs
      new(n)   == IF n = N("eip") THEN PC ELSE n
  IN  [n \in {new(k) : k \in DOMAIN declared} |->
         LET s == declared[IF n = PC /\ PC \notin DOMAIN declared THEN N("eip") ELSE n]
         IN  [s EXCEPT !.refs = {new(r) : r \in @}]]

LinkPrep1(m, traced) == InternalizeImports(ExternalizeFunctions(RenameBlockFuncs(m, traced)))

LinkPrep2(m) == UnimplementCustomHelpers(InternalizeImports(m))

EnvOutOfWay(m) == RenameEnv(GlobalizeEnv(m))

-----------------------------------------------------------------------------
(* Clean-up of the merged trace.                                           *)
S2EHelpers ==
  Names({"tcg_llvm_fork_and_concretize", "helper_s2e_tcg_execution_handler", "helper_lock",
         "s2e_icount"})

RemoveS2EHelpers(m) == Unreferenced(m, S2EHelpers)

TagInstPcFails(m) == PC \notin DOMAIN m

AddCustomHelperVars(m) == Declared(m, Names({"debug_verbosity"}), Var)

-----------------------------------------------------------------------------
(* Lifting.                                                                *)
InternalizeGlobals(m) ==
  [n \in DOMAIN m |-> IF n \in Variables(m) THEN [m[n] EXCEPT !.def = TRUE, !.link = "internal"]
                      ELSE m[n]]

\* The functions of the trace take the place of their blocks; blocks of no function
\* stay.  Func_wrapper calls main, the function of block 1, and main the others.
RecoverFunctionsFails(m) == {N("Func_wrapper"), N("R_EAX")} \ DOMAIN m # {}

RecoverFunctions(m, inFunction) ==
  LET funcs == {FuncName(b) : b \in inFunction} IN
  [ n \in DOMAIN m |->
      CASE n = N("Func_wrapper") -> Func({FuncName(1)})
        [] n \in funcs ->
             [m[n] EXCEPT !.link = "internal",
                          !.refs = IF n = FuncName(1) THEN @ \cup (funcs \ {n}) ELSE @]
        [] OTHER -> m[n] ]

\* Calls of names that end in _mmu or _data become loads and stores.
AddMemArray(m) == Unreferenced(m, Names({"helper_ldl_mmu", "cpu_ldl_data"}))

ExternPLTFails(m) ==
  Names({"nonlib_setjmp", "nonlib_longjmp", "helper_extern_stub"}) \ DOMAIN m # {}

\* The function called for a PLT block.
PltHelper(f) == CASE f = "setjmp"  -> N("nonlib_setjmp")
                  [] f = "longjmp" -> N("nonlib_longjmp")
                  [] OTHER         -> N("helper_extern_stub")

\* Nothing is left of a PLT block but the code of that function.
ExternPLT(m) ==
  [ n \in DOMAIN m |->
      LET s    == m[n]
          call == [s EXCEPT !.refs = {PltHelper(f) : f \in s.stubs},
                            !.calls = {f \in s.stubs : PltHelper(f) = N("helper_extern_stub")},
                            !.stubs = {}]
      IN  IF s.stubs = {} THEN s ELSE Inlined(m, call, {PltHelper(f) : f \in s.stubs}) ]

Virtualize ==
  [i32 |-> "virtualize_return_i32", i64 |-> "virtualize_return_i64",
   float |-> "virtualize_return_float", double |-> "virtualize_return_double"]

LibraryCalls(m) == UNION {m[n].calls : n \in DOMAIN m}

\* Defect: functions that return 4 bytes are left to the trampoline.
Listed_NotI32(m) == {f \in LibraryCalls(m) : Sig[f] \notin {"unknown", "wide", "i32"}}

\* The library functions called by trampoline that can be called with arguments.
Listed(m) == {f \in LibraryCalls(m) : Sig[f] \notin {"unknown", "wide"}}

\* A result of another size ends the lifting; the others need a function each.
InlineLibCallArgsFails(m) ==
  \E f \in Listed(m) :
    \/ Sig[f] = "odd"
    \/ R_ESP \notin DOMAIN m
    \/ Sig[f] \in DOMAIN Virtualize /\ N(Virtualize[Sig[f]]) \notin DOMAIN m

InlineLibCallArgs(m) ==
  LET inline(s) == s.calls \cap Listed(m)
      used(f)   == {StubName(f), R_ESP} \cup
                   (IF Sig[f] \in DOMAIN Virtualize THEN {N(Virtualize[Sig[f]])} ELSE {})
      left(s)   == IF s.calls # {} /\ inline(s) = s.calls THEN s.refs \ {Trampoline} ELSE s.refs
  IN  IF Trampoline \notin DOMAIN m THEN m
      ELSE Declared([n \in DOMAIN m |->
                       [m[n] EXCEPT !.refs = left(m[n]) \cup UNION {used(f) : f \in inline(m[n])},
                                    !.calls = @ \ Listed(m)]],
                    {StubName(f) : f \in Listed(m)}, FuncDecl)

AlwaysInliner(m) == InlinedAll(m, AlwaysInline \cap Definitions(m))

\* Defect: the variables get an initializer.
ReplaceDynamicSymbols_Defined(m) == Declared(m, Names(Imports), Var)

\* Variables for the data symbols of the binary; the loads it looks for are gone.
ReplaceDynamicSymbols(m) == Declared(m, Names(Imports), VarDecl)

\* What is left to the trampoline gets the function's address as its target.
LibCallNewPLT(m) ==
  Declared([n \in DOMAIN m |-> [m[n] EXCEPT !.refs = @ \cup Names(m[n].calls)]],
           Names(LibraryCalls(m)), FuncDecl)

Stubs(m) == {f \in Libs : StubName(f) \in DOMAIN m}

\* Defect: only stubs that were not declared before are called by name.
ImplementLibCallsNewPLT_NewOnly(m) ==
  LET stubs == {f \in Stubs(m) : N(f) \notin DOMAIN m}
      new(r) == IF \E f \in stubs : r = StubName(f)
                THEN N(CHOOSE f \in stubs : r = StubName(f)) ELSE r
  IN  Declared([n \in DOMAIN m |-> [m[n] EXCEPT !.refs = {new(r) : r \in @}]],
               Names(stubs), FuncDecl)

\* Calls of a stub become calls of the function.
ImplementLibCallsNewPLT(m) ==
  LET new(r) == IF \E f \in Stubs(m) : r = StubName(f)
                THEN N(CHOOSE f \in Stubs(m) : r = StubName(f)) ELSE r
  IN  Declared([n \in DOMAIN m |-> [m[n] EXCEPT !.refs = {new(r) : r \in @}]],
               Names(Stubs(m)), FuncDecl)

\* skip_link: a stub jumps to the entry of the old PLT.
ImplementLibCallStubs(m) ==
  [n \in DOMAIN m |-> IF n \in {StubName(f) : f \in Stubs(m)} THEN Func({}) ELSE m[n]]

OpHelpers(m) == {n \in Functions(m) : n[1] \in {"helper_divb_AL", "helper_cc_compute_all"}}

InlineQemuOpHelpersFails(m) == \E n \in OpHelpers(m) : Users(m, n) # {} /\ ~m[n].def

InlineQemuOpHelpers(m) == Without(InlinedAll(m, OpHelpers(m)), OpHelpers(m))

CallTracer(m) ==
  Declared([n \in DOMAIN m |-> IF n \in Lifted(m)
              THEN [m[n] EXCEPT !.refs = @ \cup Names({"binrecrt_fdprintf"})] ELSE m[n]],
           Names({"binrecrt_fdprintf"}), FuncDecl)

\* Defect: names with two underscores are taken for stubs.
InternalizeFunctions_NotUnderscored(m) ==
  Linked(m, Definitions(m) \ ({N("main"), Trampoline, N("__cxa_atexit")} \cup
                              {StubName(f) : f \in Libs}), "internal")

InternalizeFunctions(m) ==
  Linked(m, Definitions(m) \ ({N("main"), Trampoline} \cup {StubName(f) : f \in Libs}),
         "internal")

UnalignStackFails(m) == R_ESP \notin DOMAIN m

\* Calls become intrinsics; every user of the function must be a call.
Cleaned(m) ==
  {n \in Functions(m) : n \in Names({"memcpy"}) \/ n[1] \in {"uadd.i32", "countLeadingZeros32"}}

IntrinsicCleanerFails(m) ==
  \E n \in Cleaned(m) : \E u \in Users(m, n) : n[1] \in m[u].calls

IntrinsicCleaner(m) == Without(Unreferenced(m, Cleaned(m)), Cleaned(m))

\* A function whose address has a symbol is named after it, with a number if there
\* is another of the name.
FunctionRenaming(m) ==
  LET named  == {b \in DOMAIN SymbolOf : FuncName(b) \in DOMAIN m}
      twins(b) == {c \in named : SymbolName(c) = SymbolName(b) /\ c < b}
      number(b) == Cardinality(twins(b)) + (IF N(SymbolName(b)) \in DOMAIN m THEN 1 ELSE 0)
      new(n) == IF is_lifted_function(n) /\ n[2] \in named
                THEN <<SymbolName(n[2]), number(n[2])>> ELSE n
      old(n) == CHOOSE k \in DOMAIN m : new(k) = n
  IN  [n \in {new(k) : k \in DOMAIN m} |-> [m[old(n)] EXCEPT !.refs = {new(r) : r \in @}]]

\* A new variable for each data import, whatever has its name; code refers to it
\* instead of the address.
GlobalizeDataImports(m) ==
  LET var(i) == IF N(i) \in DOMAIN m THEN <<i, 1>> ELSE N(i)
  IN  Declared([n \in DOMAIN m |-> [m[n] EXCEPT !.refs = @ \cup {var(i) : i \in m[n].imports},
                                                !.imports = @ \ Imports]],
               {var(i) : i \in Imports}, VarDecl)

-----------------------------------------------------------------------------
(* Lowering.                                                               *)
HelperNames ==
  {"helper_stub_trampoline", "helper_extern_stub", "helper_break", "helper_raise_exception",
   "helper_fninit", "helper_fldl_ST0", "helper_flds_ST0", "helper_pxor_xmm"}

InternalizeDebugHelpers(m) ==
  Linked(m, {n \in Definitions(m) : n[1] \in HelperNames}, "internal")
=============================================================================
