---------------------------- MODULE GuestProgram ----------------------------
(***************************************************************************)
(* A traced program as a map from addresses to instructions, and what one  *)
(* translation block of it does.  External: S2E and the guest, modelled    *)
(* from what the plugins record of them and what the lifting passes assume *)
(* of the recorded code.  Only control flow is followed; a choice that     *)
(* depends on data is free.                                                *)
(***************************************************************************)
EXTENDS Integers, Sequences, FiniteSets

\* Instructions.  The address of the next one is a constant in the code of
\* "jump" and "call"; a "stub" is an entry of the PLT, "quit" one whose library
\* function does not return, "resolve" the common code that binds a symbol.
Op == {"plain", "jump", "cjump", "call", "icall", "ret", "stub", "quit", "resolve"}

Inst(op, to) == [op |-> op, to |-> to]

\* A program: its code, the address of _start, which calls __libc_start_main, and
\* of main, which is called from there; the addresses of the .plt section.
IsProgram(prog) ==
  /\ DOMAIN prog.code \subseteq Nat \ {0}
  /\ prog.code \in [DOMAIN prog.code -> [op : Op, to : SUBSET DOMAIN prog.code]]
  /\ {prog.start, prog.main} \cup prog.plt \subseteq DOMAIN prog.code
  /\ \A pc \in DOMAIN prog.code : prog.code[pc].op = "plain" => pc + 1 \in DOMAIN prog.code

\* A block goes on to the next instruction that is not plain.
LastPc(prog, pc) ==
  CHOOSE last \in DOMAIN prog.code :
    /\ pc <= last
    /\ prog.code[last].op # "plain"
    /\ \A q \in pc..last - 1 : prog.code[q].op = "plain"

Exit(prog, pc) == prog.code[LastPc(prog, pc)]

\* The symbols file lists the PLT entries of library functions.
IsStub(prog, pc) == prog.code[pc].op \in {"stub", "quit"}

-----------------------------------------------------------------------------
(* The state of a running program: the block to come (Lib: a library       *)
(* function is running), its pending calls, the symbols already bound.     *)
Lib == 0

\* The address that calls main, in the C library.
LibCaller(prog) == 1 + CHOOSE a \in DOMAIN prog.code : \A b \in DOMAIN prog.code : b <= a

Call(fn, call, back) == [fn |-> fn, call |-> call, back |-> back]

Started(prog) == [at |-> prog.start, frames |-> <<>>, bound |-> {}, inMain |-> FALSE]

Innermost(g) == g.frames[Len(g.frames)]

Returned(g) == [g EXCEPT !.at = Innermost(g).back, !.frames = SubSeq(@, 1, Len(@) - 1)]

Called(g, fn, call, back) ==
  [g EXCEPT !.at = fn, !.frames = Append(@, Call(fn, call, back))]

MainCalled(prog, g) ==
  [Called(g, prog.main, LibCaller(prog), Lib) EXCEPT !.inMain = TRUE]

\* The states after the block at g.at.
AfterBlock(prog, g) ==
  LET last == LastPc(prog, g.at)
      inst == prog.code[last]
  IN  CASE inst.op \in {"jump", "cjump"} -> {[g EXCEPT !.at = n] : n \in inst.to}
        [] inst.op \in {"call", "icall"} -> {Called(g, n, last, last + 1) : n \in inst.to}
        [] inst.op = "ret" -> {Returned(g)}
        [] inst.op \in {"stub", "quit"} ->
             IF g.at \in g.bound \/ inst.to = {} THEN {[g EXCEPT !.at = Lib]}
             ELSE {[g EXCEPT !.at = n, !.bound = @ \cup {g.at}] : n \in inst.to}
        [] inst.op = "resolve" -> {[g EXCEPT !.at = Lib]}

\* A library is running: __libc_start_main calls main and ends the program when
\* main has returned; the others return, but for those of "quit".
InStartMain(g) == g.at = Lib /\ Len(g.frames) = 1

Quits(prog, g) ==
  \/ InStartMain(g) /\ g.inMain
  \/ g.at = Lib /\ prog.code[Innermost(g).fn].op = "quit"

AfterLibrary(prog, g) == IF InStartMain(g) THEN MainCalled(prog, g) ELSE Returned(g)

\* main as the recovered program starts it, the symbols bound at link time.
MainOnly(prog) ==
  LET startMain == CHOOSE s \in Exit(prog, prog.start).to : TRUE
      called    == Called(Started(prog), startMain, LastPc(prog, prog.start), Lib)
  IN  [MainCalled(prog, called) EXCEPT !.bound = {pc \in DOMAIN prog.code : IsStub(prog, pc)}]
=============================================================================
