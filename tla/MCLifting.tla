----------------------------- MODULE MCLifting -----------------------------
(* Programs for Lifting.  The addresses from 20 are the .plt section, those  *)
(* from 30 the stubs: 30 is __libc_start_main.                               *)
EXTENDS Lifting

MCPc == 1..40

\* Symbols are bound by the first call, or all when the program is loaded.
Linked(code, lookup) ==
  [ code |-> code @@ (1  :> Inst("call", {30})
                   @@ 20 :> Inst("resolve", {})
                   @@ 21 :> Inst("jump", {20})
                   @@ 22 :> Inst("jump", {20})
                   @@ 30 :> Inst("stub", lookup)),
    start |-> 1, main |-> 2, plt |-> 20..22 ]

Lazy(code) == Linked(code, {21})
Eager(code) == Linked(code, {})

\* A loop into the middle of a block that ends with a call, and blocks that
\* overlap up to a return.
Overlaps == Lazy(
     2  :> Inst("plain", {})
  @@ 3  :> Inst("call", {31})
  @@ 4  :> Inst("cjump", {3, 5})
  @@ 5  :> Inst("call", {10})
  @@ 6  :> Inst("ret", {})
  @@ 10 :> Inst("cjump", {11, 12})
  @@ 11 :> Inst("plain", {})
  @@ 12 :> Inst("ret", {})
  @@ 31 :> Inst("stub", {22}))

\* A function pointer, recursion and a tail call of a library function.
Pointers == Eager(
     2  :> Inst("plain", {})
  @@ 3  :> Inst("icall", {10, 13})
  @@ 4  :> Inst("cjump", {3, 5})
  @@ 5  :> Inst("ret", {})
  @@ 10 :> Inst("cjump", {11, 12})
  @@ 11 :> Inst("call", {10})
  @@ 12 :> Inst("jump", {31})
  @@ 13 :> Inst("ret", {})
  @@ 31 :> Inst("stub", {}))

\* A jump to the function's own entry, a tail call of a function that is called
\* elsewhere, and a library function that does not return.
Tails == Lazy(
     2  :> Inst("call", {10})
  @@ 3  :> Inst("call", {15})
  @@ 4  :> Inst("call", {31})
  @@ 10 :> Inst("cjump", {11, 12})
  @@ 11 :> Inst("jump", {10})
  @@ 12 :> Inst("jump", {15})
  @@ 15 :> Inst("call", {17})
  @@ 16 :> Inst("ret", {})
  @@ 17 :> Inst("cjump", {18, 19})
  @@ 18 :> Inst("plain", {})
  @@ 19 :> Inst("ret", {})
  @@ 31 :> Inst("quit", {22}))

\* A function with a branch is called, and reached by a tail call.
Shared == Lazy(
     2  :> Inst("call", {10})
  @@ 3  :> Inst("call", {15})
  @@ 4  :> Inst("ret", {})
  @@ 10 :> Inst("jump", {15})
  @@ 15 :> Inst("cjump", {16, 17})
  @@ 16 :> Inst("plain", {})
  @@ 17 :> Inst("ret", {}))

\* Every function of four instructions that ends with a return, with calls, calls by
\* pointer, recursion, loops and tail calls, called from a loop into the middle of a
\* block.
InstsAt(pc) ==
  {Inst("plain", {}), Inst("icall", {10, 15})}
    \cup {Inst("call", {n}) : n \in {10, 15, 31}}
    \cup {Inst("jump", {n}) : n \in 10..13 \cup {15, 31}}
    \cup {Inst("cjump", {pc + 1, n}) : n \in 10..13}

SmallFunctions ==
  {code \in [10..12 -> UNION {InstsAt(pc) : pc \in 10..12}] :
     \A pc \in 10..12 : code[pc] \in InstsAt(pc)}

Uses(code, op) == Inst(op, {31}) \in Range(code)

\* The library function at 31 returns, or ends the program.
With(library, code) ==
  code @@ ( 2  :> Inst("plain", {})
         @@ 3  :> Inst("call", {10})
         @@ 4  :> Inst("cjump", {3, 5})
         @@ 5  :> Inst("ret", {})
         @@ 13 :> Inst("ret", {})
         @@ 15 :> Inst("ret", {})
         @@ 31 :> library)

Small ==
  {Eager(With(Inst("stub", {}), code)) : code \in SmallFunctions}
  \cup {Lazy(With(Inst("stub", {22}), code)) : code \in {c \in SmallFunctions : Uses(c, "jump")}}
  \cup {Eager(With(Inst("quit", {}), code)) :
          code \in {c \in SmallFunctions : Uses(c, "call") /\ ~Uses(c, "jump")}}

MCPrograms == {Overlaps, Pointers, Tails, Shared} \cup Small
=============================================================================
