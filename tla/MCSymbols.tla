------------------------------ MODULE MCSymbols ------------------------------
(***************************************************************************)
(* Instances of Symbols: a few functions of the emulator that call one     *)
(* another the way op_helper.bc does, and library functions of every kind  *)
(* of signature.                                                           *)
(***************************************************************************)
EXTENDS Symbols, TLC

MCSig ==
  [ printf |-> "unknown", fopencookie |-> "wide", lldiv |-> "odd", exit |-> "void",
    memcpy |-> "i32", lseek64 |-> "i64", strtof |-> "float", atof |-> "double",
    setjmp |-> "wide", longjmp |-> "void", __cxa_atexit |-> "i32" ]

\* A function of the program may have the name of one of the run time support.
MCSymbolOf == 1 :> "main" @@ 2 :> "wrapper"

Helper(fields, refs) == [Func(Names(refs)) EXCEPT !.fields = fields]

HelperFunctions ==
  [ helper_divb_AL         |-> Helper({"regs"}, {"helper_raise_exception"}),
    helper_pxor_xmm        |-> Helper({"xmm_regs"}, {"cpu_ldl_data"}),
    helper_fninit          |-> Helper({"fpregs"}, {"env"}),
    helper_fldl_ST0        |-> Helper({"fpregs"}, {"float64_to_floatx80"}),
    helper_flds_ST0        |-> Helper({"fpregs"}, {"float64_to_floatx80"}),
    float64_to_floatx80    |-> Helper({}, {"countLeadingZeros32", "uadd.i32"}),
    countLeadingZeros32    |-> Helper({}, {}),
    helper_raise_exception |-> Helper({}, {"raise_interrupt"}),
    raise_interrupt        |-> Helper({}, {"cpu_loop_exit"}),
    cpu_ldl_data           |-> Helper({}, {"helper_ldl_mmu"}),
    helper_ldl_mmu         |-> Helper({}, {"tlb_fill"}) ]

DeclaredOnly ==
  Names({"cpu_loop_exit", "tlb_fill", "uadd.i32", "tcg_llvm_fork_and_concretize",
         "helper_s2e_tcg_execution_handler", "helper_lock"})

\* S2E's module may hold a numbered copy of a helper.
CopyOfHelper == <<"helper_ldl_mmu", 5>>

PrivateDecl == [FuncDecl EXCEPT !.link = "private"]

MCCaptured ==
  [n \in Names(DOMAIN HelperFunctions) |-> HelperFunctions[n[1]]]
    @@ (N("helper_fxsave") :> [Func({CopyOfHelper}) EXCEPT !.fields = {"fpregs"}])
    @@ (CopyOfHelper :> Helper({}, {"tlb_fill"}))
    @@ [n \in DeclaredOnly |-> PrivateDecl]
    @@ [n \in Names({"env", "s2e_icount"}) |-> Var]

MCHelpers ==
  {"helper_divb_AL", "helper_fxsave", "helper_pxor_xmm", "helper_fldl_ST0", "helper_ldl_mmu",
   "helper_raise_exception", "helper_lock", "tcg_llvm_fork_and_concretize"}
=============================================================================
