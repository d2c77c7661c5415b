---------------------------- MODULE RegisterFlow ----------------------------
(***************************************************************************)
(* The data flow analysis of GlobalEnvToAlloca: which registers a          *)
(* recovered function needs from its caller and which it has to hand back  *)
(* (lifting/global_env_to_alloca.cpp).                                     *)
(*                                                                         *)
(* A module maps functions to sequences of basic blocks, the first being   *)
(* the entry; of the code only loads and stores of registers and calls     *)
(* count.  All sets the analysis computes only grow, and its loops end     *)
(* when nothing changes any more, so the order in which they visit blocks  *)
(* and functions does not matter: here a round visits all of them.         *)
(***************************************************************************)
EXTENDS Integers, Sequences, FiniteSets

CONSTANT Regs  \* the registers of Global_Trivial_Register_Names the module has

ASSUME RegsFinite == IsFiniteSet(Regs)

I(op, of) == [op |-> op, of |-> of]
Unreachable == I("unreachable", "")

\* A block: its code and its successors.  A block without successors returns,
\* unless it ends with "unreachable".
B(code, next) == [code |-> code, next |-> next]

Range(s) == {s[i] : i \in DOMAIN s}
Blocks(m, f) == DOMAIN m[f]
Preds(m, f, b) == {p \in Blocks(m, f) : b \in m[f][p].next}
Returns(m, f, b) == m[f][b].next = {} /\ Unreachable \notin Range(m[f][b].code)

\* The parts of the code that concern register flow.
CodeOf(m, f) == UNION {Range(m[f][b].code) : b \in Blocks(m, f)}
Named(code, op) == {i.of : i \in {j \in code : j.op = op}}
Calls(m, f) == Named(CodeOf(m, f), "call")
Stores(m, f) == Named(CodeOf(m, f), "store")
Loads(m, f) == Named(CodeOf(m, f), "load")

-----------------------------------------------------------------------------
(* get_must_defs: the registers set on every path to a return, given those *)
(* each block sets; all of them when nothing returns.                      *)
ForwardRound(m, f, live) ==
  [b \in Blocks(m, f) |->
     IF Preds(m, f, b) = {} THEN live[b]
     ELSE live[b] \cup {r \in Regs : \A p \in Preds(m, f, b) : r \in live[p]}]

\* Every round before the last gives some register to one more block.
Forward(m, f, defs) ==
  LET round[n \in 0..Len(m[f])] ==
        IF n = 0 THEN defs ELSE ForwardRound(m, f, round[n - 1])
  IN  round[Len(m[f])]

get_must_defs(m, f, defs) ==
  LET live == Forward(m, f, defs)
  IN  {r \in Regs : \A b \in Blocks(m, f) : Returns(m, f, b) => r \in live[b]}

\* What a block sets itself or by calling a function that always does.
BlockDefs(m, must, f, b) ==
  LET code == Range(m[f][b].code)
  IN  Named(code, "store") \cup UNION {must[g] : g \in Named(code, "call")}

\* A round for f_must_def.
MustRound(m, must) ==
  [f \in DOMAIN m |->
     get_must_defs(m, f, [b \in Blocks(m, f) |-> BlockDefs(m, must, f, b)])]

\* A round for f_may_def: a function may set what the functions it calls may set.
MayRound(m, may) == [f \in DOMAIN m |-> may[f] \cup UNION {may[g] : g \in Calls(m, f)}]

-----------------------------------------------------------------------------
(* The liveness of registers across functions: a.live at the start of each *)
(* block, a.in at entry and a.out at return of each function.              *)

\* What an instruction reads, and what it makes dead before it.
Uses(a, i) ==
  CASE i.op = "load" -> {i.of}
    [] i.op = "call" -> a.in[i.of]
    [] OTHER -> {}

Sets(must, i) ==
  CASE i.op = "store" -> {i.of}
    [] i.op = "call"  -> must[i.of]
    [] OTHER -> {}

AtEnd(m, a, f, b) ==
  IF Returns(m, f, b) THEN a.out[f] ELSE UNION {a.live[f][s] : s \in m[f][b].next}

\* What is live before the k-th instruction of a block: what an instruction from
\* there on uses, or is live at the end, and is not set before.
LiveAt(m, a, must, f, b, k) ==
  LET code == m[f][b].code
      Unset(r, j) == \A i \in k..j : r \notin Sets(must, code[i])
  IN  {r \in Regs :
         \/ \E j \in k..Len(code) : r \in Uses(a, code[j]) /\ Unset(r, j - 1)
         \/ r \in AtEnd(m, a, f, b) /\ Unset(r, Len(code))}

\* The places a function is called from.
Sites(m, g) ==
  UNION {UNION {{<<f, b, k>> : k \in {j \in DOMAIN m[f][b].code : m[f][b].code[j] = I("call", g)}} :
                  b \in Blocks(m, f)} : f \in DOMAIN m}

\* Defect: only what is always set is handed back.
Wanted_MustOnly(must, may, live) == live \cap must

\* Of what is live after a call, the registers the callee has to hand back.
Wanted(must, may, live) == live \cap (must \cup may)

Nothing(m) == [ live |-> [f \in DOMAIN m |-> [b \in Blocks(m, f) |-> {}]],
                in |-> [f \in DOMAIN m |-> {}], out |-> [f \in DOMAIN m |-> {}] ]

LivenessRound(m, must, may, a) ==
  LET live == [f \in DOMAIN m |-> [b \in Blocks(m, f) |-> LiveAt(m, a, must, f, b, 1)]]
  IN  [ live |-> live,
        in   |-> [f \in DOMAIN m |-> live[f][1]],
        out  |-> [g \in DOMAIN m |-> a.out[g] \cup
                    UNION {Wanted(must[g], may[g], LiveAt(m, a, must, s[1], s[2], s[3] + 1)) :
                             s \in Sites(m, g)}] ]

\* Defect: a function keeps no register that only passes through it.
Used_OwnOnly(m, a, f) == Loads(m, f) \cup Stores(m, f)

\* The registers a function needs a variable for.
Used(m, a, f) == Loads(m, f) \cup Stores(m, f) \cup a.in[f] \cup a.out[f]

InputOutputRegs(m, a) ==
  [f \in DOMAIN m |-> [used |-> Used(m, a, f), in |-> a.in[f], out |-> a.out[f]]]
=============================================================================
