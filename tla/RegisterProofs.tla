--------------------------- MODULE RegisterProofs ---------------------------
(***************************************************************************)
(* Proofs about GlobalEnvToAlloca, for every set of modules, registers and *)
(* values: the rewritten program reads what the program read, however deep *)
(* calls nest and whichever way branches go.                               *)
(***************************************************************************)
EXTENDS GlobalEnvToAlloca, TLAPS

FrameType ==
  [fn : DOMAIN module, block : Nat, at : Nat, local : Register]

CodeAt(fr) == module[fr.fn][fr.block].code

\* A frame is at a place of its function, past no instruction that ends the program.
Placed(fr) ==
  /\ fr.block \in Blocks(module, fr.fn)
  /\ fr.at \in 1..Len(CodeAt(fr)) + 1
  /\ \A i \in 1..fr.at - 1 : CodeAt(fr)[i] # Unreachable

Live(f, b, k) == LiveAt(module, flow, must, f, b, k)

\* The registers of which a frame's variables agree with the program's: the live
\* ones, in the wrapper also those nothing it calls sets.
Kept(f, b, k) ==
  IF f # Wrapper THEN Live(f, b, k)
  ELSE IF k = 1 THEN Regs
  ELSE flow.out[Wrapper] \cup (Regs \ may[Wrapper])

Types ==
  /\ module \in Modules
  /\ step \in {"defs", "live", "update", "replace", "crashed", "run", "end"}
  /\ must \in [DOMAIN module -> SUBSET Regs]
  /\ may \in [DOMAIN module -> SUBSET Regs]
  /\ flow.in \in [DOMAIN module -> SUBSET Regs]
  /\ flow.out \in [DOMAIN module -> SUBSET Regs]
  /\ env \in [Regs -> Values]
  /\ genv \in Register

\* The analysis ended with nothing left to change.
Stable ==
  /\ \A f \in DOMAIN module : Stores(module, f) \subseteq may[f]
  /\ step # "defs" => may = MayRound(module, may)
  /\ step \notin {"defs", "live"} =>
       flow = LivenessRound(module, must, may, flow) /\ regs = InputOutputRegs(module, flow)
  /\ step \in {"defs", "live"} => regs = Empty

\* Functions have variables at least for what the analysis says they use.
Signatures ==
  /\ step \in {"defs", "live", "update"} => locals = Empty /\ todo = {}
  /\ step \in {"replace", "crashed", "run", "end"} =>
       /\ todo \subseteq Lifted
       /\ DOMAIN locals = DOMAIN module \ {Rt}
       /\ \A f \in DOMAIN locals : locals[f] \subseteq Regs
       /\ locals[Wrapper] = Regs
       /\ \A f \in Lifted : regs[f].used \subseteq locals[f]

\* The pending calls: the run-time library, the wrapper, and recovered functions.
Stack ==
  /\ frames \in Seq(FrameType) /\ Len(frames) > 0
  /\ frames[1].fn = Rt
  /\ Len(frames) > 1 => frames[2].fn = Wrapper
  /\ \A i \in 3..Len(frames) : frames[i].fn \in Lifted
  /\ \A i \in 1..Len(frames) : Placed(frames[i])
  /\ \A i \in 1..Len(frames) - 1 :
       /\ frames[i].at <= Len(CodeAt(frames[i]))
       /\ CodeAt(frames[i])[frames[i].at] = I("call", frames[i + 1].fn)
  /\ \A i, j \in 1..Len(frames) : i <= j => may[frames[j].fn] \subseteq may[frames[i].fn]

Sync ==
  /\ \A i \in 2..Len(frames) - 1 :
       \A r \in Kept(frames[i].fn, frames[i].block, frames[i].at + 1) \ flow.out[frames[i + 1].fn] :
         frames[i].local[r] = env[r]
  /\ Len(frames) > 1 =>
       \A r \in Kept(Top.fn, Top.block, Top.at) : Top.local[r] = env[r]
  /\ Len(frames) = 1 /\ Top.at <= 2 => genv = env
  /\ Len(frames) = 1 /\ Top.at = 3 => genv["R_EAX"] = env["R_EAX"]

Runs == IF step \in {"run", "end"} THEN Stack /\ Sync ELSE frames = <<>> /\ genv = env

IInv == Types /\ Stable /\ Signatures /\ Runs
-----------------------------------------------------------------------------
(* Modules.                                                                *)

LEMMA Wf ==
  ASSUME NEW m \in Modules, NEW f \in DOMAIN m
  PROVE  /\ m[f] \in Seq([code : Seq(Instruction(m)), next : SUBSET Nat])
         /\ Len(m[f]) \in Nat \ {0} /\ 1 \in Blocks(m, f) /\ Blocks(m, f) = 1..Len(m[f])
         /\ \A b \in Blocks(m, f) : m[f][b].next \subseteq Blocks(m, f)
<1>1. /\ m[f] \in Seq([code : Seq(Instruction(m)), next : SUBSET Nat]) /\ m[f] # <<>>
      /\ \A b \in Blocks(m, f) : m[f][b].next \subseteq Blocks(m, f)
  BY ModulesAssumption DEF IsModule, WellFormed
<1> QED BY <1>1 DEF Blocks

\* The code of a block.
LEMMA WfCode ==
  ASSUME NEW m \in Modules, NEW f \in DOMAIN m, NEW b \in Blocks(m, f)
  PROVE  /\ m[f][b].code \in Seq(Instruction(m))
         /\ Len(m[f][b].code) \in Nat
         /\ DOMAIN m[f][b].code = 1..Len(m[f][b].code)
         /\ \A k \in 1..Len(m[f][b].code) :
              /\ m[f][b].code[k] \in Instruction(m)
              /\ m[f][b].code[k] \in CodeOf(m, f)
<1>1. m[f][b] \in [code : Seq(Instruction(m)), next : SUBSET Nat]
  <2> DEFINE S == [code : Seq(Instruction(m)), next : SUBSET Nat]
  <2>1. m[f] \in Seq(S) /\ b \in DOMAIN m[f]
    BY Wf DEF Blocks
  <2> HIDE DEF S
  <2>2. m[f][b] \in S
    BY <2>1
  <2> QED BY <2>2 DEF S
<1> DEFINE c == m[f][b].code
<1>2. c \in Seq(Instruction(m))
  BY <1>1
<1>3. /\ Len(c) \in Nat /\ DOMAIN c = 1..Len(c)
      /\ \A k \in 1..Len(c) : c[k] \in Instruction(m) /\ c[k] \in Range(c)
  <2> HIDE DEF c
  <2> QED BY <1>2 DEF Range
<1>4. Range(c) \subseteq CodeOf(m, f)
  BY DEF CodeOf
<1> QED BY <1>2, <1>3, <1>4

\* What an instruction names.
LEMMA InstructionNames ==
  ASSUME NEW m, NEW i \in Instruction(m)
  PROVE  /\ i.op = "load" => i.of \in Regs
         /\ i.op = "store" => i.of \in Regs
         /\ i.op = "call" => i.of \in DOMAIN m /\ i = I("call", i.of)
         /\ i.op \in {"load", "store", "call"} => i # Unreachable
<1>0. Unreachable.op = "unreachable"
  BY DEF I, Unreachable
<1>1. CASE i \in [op : {"load", "store"}, of : Regs]
  <2>1. i.op \in {"load", "store"} /\ i.of \in Regs
    BY <1>1
  <2>2. i.op # "unreachable" /\ i.op # "call"
    BY <2>1
  <2> QED BY <2>1, <2>2, <1>0
<1>2. CASE i \in [op : {"call"}, of : DOMAIN m]
  <2>1. i.op = "call" /\ i.of \in DOMAIN m /\ i = [op |-> i.op, of |-> i.of]
    BY <1>2
  <2>2. i = I("call", i.of)
    BY <2>1 DEF I
  <2> QED BY <2>1, <2>2, <1>0
<1>3. CASE i = Unreachable
  <2>1. i.op = "unreachable"
    BY <1>3, <1>0
  <2> QED BY <2>1
<1> QED BY <1>1, <1>2, <1>3 DEF Instruction

\* What a function loads, stores and calls is what instructions of it name.
LEMMA NamedIn ==
  ASSUME NEW m \in Modules, NEW f \in DOMAIN m, NEW b \in Blocks(m, f),
         NEW k \in 1..Len(m[f][b].code)
  PROVE  LET i == m[f][b].code[k]
         IN  /\ i.op = "load" => i.of \in Loads(m, f)
             /\ i.op = "store" => i.of \in Stores(m, f)
             /\ i.op = "call" => i.of \in Calls(m, f)
<1>1. m[f][b].code[k] \in CodeOf(m, f)
  BY WfCode
<1> QED BY <1>1 DEF Loads, Stores, Calls, Named

LEMMA NamedRegs ==
  ASSUME NEW m \in Modules, NEW f \in DOMAIN m
  PROVE  Loads(m, f) \subseteq Regs /\ Stores(m, f) \subseteq Regs /\ Calls(m, f) \subseteq DOMAIN m
<1>1. \A i \in CodeOf(m, f) : i \in Instruction(m)
  <2> SUFFICES ASSUME NEW b \in Blocks(m, f), NEW i \in Range(m[f][b].code)
               PROVE  i \in Instruction(m)
    BY DEF CodeOf
  <2>1. PICK k \in DOMAIN m[f][b].code : i = m[f][b].code[k]
    BY DEF Range
  <2> QED BY <2>1, WfCode
<1>2. \A i \in CodeOf(m, f) : /\ i.op = "load" => i.of \in Regs
                              /\ i.op = "store" => i.of \in Regs
                              /\ i.op = "call" => i.of \in DOMAIN m
  BY <1>1, InstructionNames
<1> QED BY <1>2 DEF Loads, Stores, Calls, Named

\* main and the wrapper, which nothing else calls.
LEMMA WfRuntime ==
  ASSUME NEW m \in Modules
  PROVE  /\ Rt \in DOMAIN m /\ Wrapper \in DOMAIN m /\ Rt # Wrapper
         /\ m[Rt] = MainCode
         /\ \E f \in DOMAIN m \ {Rt, Wrapper} : m[Wrapper] = WrapperCode(f)
         /\ \A f \in DOMAIN m \ {Rt} : Calls(m, f) \subseteq DOMAIN m \ {Rt, Wrapper}
<1>1. /\ Rt \in DOMAIN m /\ Wrapper \in DOMAIN m /\ Rt # Wrapper
      /\ m[Rt] = MainCode
      /\ \A f \in DOMAIN m : Calls(m, f) \cap {Rt, Wrapper} # {} => f = Rt
  BY ModulesAssumption DEF IsModule, Rt, Wrapper
<1>2. PICK f \in DOMAIN m : m[Wrapper] = WrapperCode(f)
  BY ModulesAssumption DEF IsModule
<1>3. f \in Calls(m, Wrapper)
  <2>1. m[Wrapper][1].code = <<I("call", f)>> /\ 1 \in Blocks(m, Wrapper)
    BY <1>2 DEF WrapperCode, B, Blocks
  <2>2. m[Wrapper][1].code[1].op = "call" /\ m[Wrapper][1].code[1].of = f
        /\ 1 \in 1..Len(m[Wrapper][1].code)
    BY <2>1 DEF I
  <2> QED BY <2>1, <2>2, <1>1, NamedIn
<1>4. f \notin {Rt, Wrapper}
  BY <1>1, <1>3
<1>5. \A g \in DOMAIN m \ {Rt} : Calls(m, g) \subseteq DOMAIN m \ {Rt, Wrapper}
  BY <1>1, NamedRegs
<1> QED BY <1>1, <1>2, <1>4, <1>5
-----------------------------------------------------------------------------
(* Liveness.                                                               *)

\* Before an instruction is live what it uses, and what is live after it unless set.
LEMMA LiveBefore ==
  ASSUME NEW m, NEW a, NEW mu, NEW f, NEW b, NEW k \in 1..Len(m[f][b].code),
         Len(m[f][b].code) \in Nat
  PROVE  /\ Uses(a, m[f][b].code[k]) \cap Regs \subseteq LiveAt(m, a, mu, f, b, k)
         /\ LiveAt(m, a, mu, f, b, k + 1) \ Sets(mu, m[f][b].code[k])
              \subseteq LiveAt(m, a, mu, f, b, k)
<1> DEFINE c == m[f][b].code
           n == Len(c)
           Unset(r, i, j) == \A l \in i..j : r \notin Sets(mu, c[l])
           Used1(r, i) == \E j \in i..n : r \in Uses(a, c[j]) /\ Unset(r, i, j - 1)
           Ends(r, i) == r \in AtEnd(m, a, f, b) /\ Unset(r, i, n)
<1>1. \A i : LiveAt(m, a, mu, f, b, i) = {r \in Regs : Used1(r, i) \/ Ends(r, i)}
  BY DEF LiveAt
<1>2. k \in 1..n /\ n \in Nat
  OBVIOUS
<1> HIDE DEF n, c
<1>3. ASSUME NEW r \in Regs, r \in Uses(a, c[k]) PROVE Used1(r, k)
  BY <1>2, <1>3
<1>4. ASSUME NEW r \in Regs, Used1(r, k + 1), r \notin Sets(mu, c[k]) PROVE Used1(r, k)
  <2>1. PICK j \in (k + 1)..n : r \in Uses(a, c[j]) /\ Unset(r, k + 1, j - 1)
    BY <1>4
  <2>2. j \in k..n /\ \A l \in k..(j - 1) : l = k \/ l \in (k + 1)..(j - 1)
    BY <1>2
  <2>3. Unset(r, k, j - 1)
    BY <2>1, <2>2, <1>4
  <2> QED BY <2>1, <2>2, <2>3
<1>5. ASSUME NEW r \in Regs, Ends(r, k + 1), r \notin Sets(mu, c[k]) PROVE Ends(r, k)
  <2>1. \A l \in k..n : l = k \/ l \in (k + 1)..n
    BY <1>2
  <2> QED BY <2>1, <1>5
<1> HIDE DEF Used1, Ends
<1>6. Uses(a, c[k]) \cap Regs \subseteq LiveAt(m, a, mu, f, b, k)
  BY <1>1, <1>3
<1>7. LiveAt(m, a, mu, f, b, k + 1) \ Sets(mu, c[k]) \subseteq LiveAt(m, a, mu, f, b, k)
  BY <1>1, <1>4, <1>5
<1> QED BY <1>6, <1>7 DEF c

LEMMA LiveLast ==
  ASSUME NEW m, NEW a, NEW mu, NEW f, NEW b, Len(m[f][b].code) \in Nat
  PROVE  LiveAt(m, a, mu, f, b, Len(m[f][b].code) + 1) = AtEnd(m, a, f, b) \cap Regs
<1> DEFINE n == Len(m[f][b].code)
<1>1. (n + 1)..n = {}
  <2> HIDE DEF n
  <2>1. n \in Nat
    BY DEF n
  <2> QED BY <2>1
<1> QED BY <1>1 DEF LiveAt

LEMMA LiveRegs ==
  ASSUME NEW m, NEW a, NEW mu, NEW f, NEW b, NEW k
  PROVE  LiveAt(m, a, mu, f, b, k) \subseteq Regs
BY DEF LiveAt

\* What the analysis knows when nothing changes any more.
LEMMA FixedPoint ==
  ASSUME NEW m, NEW a, NEW mu, NEW ma, a = LivenessRound(m, mu, ma, a)
  PROVE  /\ \A f \in DOMAIN m : \A b \in Blocks(m, f) : a.live[f][b] = LiveAt(m, a, mu, f, b, 1)
         /\ \A f \in DOMAIN m : 1 \in Blocks(m, f) => a.in[f] = LiveAt(m, a, mu, f, 1, 1)
         /\ \A f, g \in DOMAIN m : \A b \in Blocks(m, f) : \A k \in DOMAIN m[f][b].code :
              m[f][b].code[k] = I("call", g) =>
                LiveAt(m, a, mu, f, b, k + 1) \cap (mu[g] \cup ma[g]) \subseteq a.out[g]
<1> DEFINE L == [f \in DOMAIN m |-> [b \in Blocks(m, f) |-> LiveAt(m, a, mu, f, b, 1)]]
           O == [g \in DOMAIN m |-> a.out[g] \cup
                    UNION {Wanted(mu[g], ma[g], LiveAt(m, a, mu, s[1], s[2], s[3] + 1)) :
                             s \in Sites(m, g)}]
<1>1. a.live = L /\ a.in = [f \in DOMAIN m |-> L[f][1]] /\ a.out = O
  <2>1. a = [live |-> L, in |-> [f \in DOMAIN m |-> L[f][1]], out |-> O]
    BY DEF LivenessRound
  <2> HIDE DEF L, O
  <2> QED BY <2>1
<1>2. \A f \in DOMAIN m : \A b \in Blocks(m, f) : a.live[f][b] = LiveAt(m, a, mu, f, b, 1)
  BY <1>1
<1>3. \A f \in DOMAIN m : 1 \in Blocks(m, f) => a.in[f] = LiveAt(m, a, mu, f, 1, 1)
  BY <1>1
<1>4. ASSUME NEW f \in DOMAIN m, NEW g \in DOMAIN m, NEW b \in Blocks(m, f),
             NEW k \in DOMAIN m[f][b].code, m[f][b].code[k] = I("call", g)
      PROVE  LiveAt(m, a, mu, f, b, k + 1) \cap (mu[g] \cup ma[g]) \subseteq a.out[g]
  <2> DEFINE s == <<f, b, k>>
  <2>1. s \in Sites(m, g)
    BY <1>4 DEF Sites
  <2>2. Wanted(mu[g], ma[g], LiveAt(m, a, mu, f, b, k + 1)) \subseteq O[g]
    BY <2>1
  <2> QED BY <2>2, <1>1 DEF Wanted
<1> QED BY <1>2, <1>3, <1>4
-----------------------------------------------------------------------------
(* The registers that agree, around each instruction, once the analysis is *)
(* stable.                                                                 *)
Ready == Types /\ Stable /\ step \notin {"defs", "live"}

LEMMA RuntimeCode ==
  ASSUME NEW m \in Modules
  PROVE  /\ Blocks(m, Wrapper) = {1} /\ m[Wrapper][1].next = {}
         /\ Len(m[Wrapper][1].code) = 1
         /\ \E f \in DOMAIN m \ {Rt, Wrapper} : m[Wrapper][1].code[1] = I("call", f)
         /\ Blocks(m, Rt) = {1} /\ m[Rt][1].next = {}
         /\ Len(m[Rt][1].code) = 3
         /\ m[Rt][1].code[1] = I("store", "R_ESP")
         /\ m[Rt][1].code[2] = I("call", Wrapper)
         /\ m[Rt][1].code[3] = I("load", "R_EAX")
<1>1. PICK f \in DOMAIN m \ {Rt, Wrapper} : m[Wrapper] = WrapperCode(f)
  BY WfRuntime
<1>2. /\ Blocks(m, Wrapper) = {1} /\ m[Wrapper][1].next = {}
      /\ m[Wrapper][1].code = <<I("call", f)>>
  BY <1>1 DEF WrapperCode, B, Blocks
<1>3. m[Rt] = MainCode
  BY WfRuntime
<1>4. /\ Blocks(m, Rt) = {1} /\ m[Rt][1].next = {}
      /\ m[Rt][1].code = <<I("store", "R_ESP"), I("call", Wrapper), I("load", "R_EAX")>>
  BY <1>3 DEF MainCode, B, Blocks
<1> QED BY <1>1, <1>2, <1>4

LEMMA InterfaceOf ==
  ASSUME Ready, NEW f \in DOMAIN module
  PROVE  /\ regs[f].in = flow.in[f] /\ regs[f].out = flow.out[f]
         /\ regs[f].used = Loads(module, f) \cup Stores(module, f) \cup flow.in[f] \cup flow.out[f]
         /\ DOMAIN regs = DOMAIN module
         /\ regs[f].used \subseteq Regs
<1>1. regs = InputOutputRegs(module, flow) /\ module \in Modules
  BY DEF Ready, Stable, Types
<1>2. /\ regs[f].in = flow.in[f] /\ regs[f].out = flow.out[f]
      /\ regs[f].used = Loads(module, f) \cup Stores(module, f) \cup flow.in[f] \cup flow.out[f]
      /\ DOMAIN regs = DOMAIN module
  BY <1>1 DEF InputOutputRegs, Used
<1>3. flow.in[f] \subseteq Regs /\ flow.out[f] \subseteq Regs
  BY DEF Ready, Types
<1> QED BY <1>1, <1>2, <1>3, NamedRegs

LEMMA MayFacts ==
  ASSUME Ready, NEW f \in DOMAIN module
  PROVE  /\ Stores(module, f) \subseteq may[f]
         /\ \A g \in Calls(module, f) : may[g] \subseteq may[f]
<1>1. Stores(module, f) \subseteq may[f] /\ may = MayRound(module, may)
  BY DEF Ready, Stable
<1>2. may[f] = may[f] \cup UNION {may[g] : g \in Calls(module, f)}
  BY <1>1 DEF MayRound
<1> QED BY <1>1, <1>2

LEMMA KeptLoad ==
  ASSUME Ready, NEW f \in Lifted, NEW b \in Blocks(module, f),
         NEW k \in 1..Len(module[f][b].code), module[f][b].code[k].op = "load"
  PROVE  /\ module[f][b].code[k].of \in Kept(f, b, k)
         /\ module[f][b].code[k].of \in regs[f].used
         /\ Kept(f, b, k + 1) \subseteq Kept(f, b, k)
<1> DEFINE i == module[f][b].code[k]
<1>1. module \in Modules /\ f \in DOMAIN module /\ f # Wrapper /\ f # Rt
  BY DEF Ready, Types, Lifted
<1>2. i \in Instruction(module) /\ Len(module[f][b].code) \in Nat
  BY <1>1, WfCode
<1>3. i.of \in Regs
  BY <1>2, InstructionNames
<1>4. Uses(flow, i) = {i.of} /\ Sets(must, i) = {}
  BY DEF Uses, Sets
<1>5. i.of \in Loads(module, f)
  BY <1>1, NamedIn
<1>6. i.of \in regs[f].used
  BY <1>1, <1>5, InterfaceOf
<1> HIDE DEF i
<1>7. /\ Uses(flow, i) \cap Regs \subseteq Live(f, b, k)
      /\ Live(f, b, k + 1) \ Sets(must, i) \subseteq Live(f, b, k)
  BY <1>2, LiveBefore DEF i, Live
<1> QED BY <1>1, <1>3, <1>4, <1>6, <1>7 DEF Kept, i

LEMMA KeptStore ==
  ASSUME Ready, NEW f \in Lifted, NEW b \in Blocks(module, f),
         NEW k \in 1..Len(module[f][b].code), module[f][b].code[k].op = "store"
  PROVE  LET r == module[f][b].code[k].of
         IN  /\ r \in may[f] /\ r \in regs[f].used /\ r \in Regs
             /\ Kept(f, b, k + 1) \ {r} \subseteq Kept(f, b, k)
<1> DEFINE i == module[f][b].code[k]
<1>1. module \in Modules /\ f \in DOMAIN module /\ f # Wrapper /\ f # Rt
  BY DEF Ready, Types, Lifted
<1>2. i \in Instruction(module) /\ Len(module[f][b].code) \in Nat
  BY <1>1, WfCode
<1>3. i.of \in Regs
  BY <1>2, InstructionNames
<1>4. Sets(must, i) = {i.of}
  BY DEF Uses, Sets
<1>5. i.of \in Stores(module, f)
  BY <1>1, NamedIn
<1>6. i.of \in regs[f].used /\ i.of \in may[f]
  BY <1>1, <1>5, InterfaceOf, MayFacts
<1> HIDE DEF i
<1>7. Live(f, b, k + 1) \ Sets(must, i) \subseteq Live(f, b, k)
  BY <1>2, LiveBefore DEF i, Live
<1> QED BY <1>1, <1>3, <1>4, <1>6, <1>7 DEF Kept, i

LEMMA KeptCall ==
  ASSUME Ready, NEW f \in DOMAIN module \ {Rt}, NEW b \in Blocks(module, f),
         NEW k \in 1..Len(module[f][b].code), module[f][b].code[k].op = "call"
  PROVE  LET g == module[f][b].code[k].of
         IN  /\ g \in Lifted /\ may[g] \subseteq may[f]
             /\ module[f][b].code[k] = I("call", g)
             /\ flow.in[g] \subseteq Kept(f, b, k)
             /\ Kept(f, b, k + 1) \ flow.out[g] \subseteq Kept(f, b, k)
             /\ Kept(f, b, k + 1) \cap may[g] \subseteq flow.out[g]
             /\ Kept(g, 1, 1) = flow.in[g]
<1> DEFINE i == module[f][b].code[k]
           g == i.of
<1>1. module \in Modules /\ flow = LivenessRound(module, must, may, flow)
  BY DEF Ready, Types, Stable
<1>2. i \in Instruction(module) /\ Len(module[f][b].code) \in Nat /\ k \in DOMAIN module[f][b].code
  BY <1>1, WfCode
<1>3. g \in DOMAIN module /\ i = I("call", g)
  BY <1>2, InstructionNames
<1>4. g \in Calls(module, f)
  BY <1>1, NamedIn
<1>5. g \in DOMAIN module \ {Rt, Wrapper} /\ g \in Lifted
  BY <1>1, <1>4, WfRuntime DEF Lifted
<1>6. may[g] \subseteq may[f]
  BY <1>4, MayFacts
<1>7. Uses(flow, i) = flow.in[g] /\ Sets(must, i) = must[g]
  BY DEF Uses, Sets
<1>8. flow.in[g] \subseteq Regs
  BY <1>3 DEF Ready, Types
<1>9. Live(g, 1, 1) = flow.in[g]
  BY <1>1, <1>3, Wf, FixedPoint DEF Live
<1>10. Live(f, b, k + 1) \cap (must[g] \cup may[g]) \subseteq flow.out[g]
  BY <1>1, <1>2, <1>3, FixedPoint DEF Live
<1>11. /\ Uses(flow, i) \cap Regs \subseteq Live(f, b, k)
       /\ Live(f, b, k + 1) \ Sets(must, i) \subseteq Live(f, b, k)
  BY <1>2, LiveBefore DEF Live
<1>12. Live(f, b, k + 1) \subseteq Regs
  BY LiveRegs DEF Live
<1> HIDE DEF i, g
<1>13. Kept(g, 1, 1) = flow.in[g]
  BY <1>5, <1>9 DEF Kept
<1>14. CASE f # Wrapper
  <2>1. Kept(f, b, k) = Live(f, b, k) /\ Kept(f, b, k + 1) = Live(f, b, k + 1)
    BY <1>14 DEF Kept
  <2> QED BY <2>1, <1>3, <1>5, <1>6, <1>7, <1>8, <1>10, <1>11, <1>13 DEF i, g
<1>15. CASE f = Wrapper
  <2>1. b = 1 /\ k = 1 /\ Len(module[f][b].code) = 1 /\ module[f][b].next = {}
    BY <1>15, <1>1, RuntimeCode
  <2>2. Kept(f, b, k) = Regs /\ Kept(f, b, k + 1) = flow.out[Wrapper] \cup (Regs \ may[Wrapper])
    BY <1>15, <2>1 DEF Kept
  <2>3. flow.out[Wrapper] \subseteq Regs
    BY <1>15 DEF Ready, Types
  <2>4. Live(f, b, k + 1) = flow.out[Wrapper]
    <3>1. Live(f, b, k + 1) = AtEnd(module, flow, f, b) \cap Regs
      <4>1. k + 1 = Len(module[f][b].code) + 1
        BY <2>1
      <4> QED BY <4>1, <1>2, LiveLast DEF Live
    <3>2. module[f][b].code[1] = I("call", g)
      BY <1>3, <2>1 DEF i
    <3>3. Returns(module, f, b)
      <4>1. Unreachable.op # I("call", g).op
        BY DEF I, Unreachable
      <4>2. Range(module[f][b].code) = {I("call", g)}
        BY <3>2, <2>1, <1>1, WfCode DEF Range
      <4> QED BY <4>1, <4>2, <2>1 DEF Returns
    <3> QED BY <3>1, <3>3, <2>3, <1>15 DEF AtEnd
  <2> QED BY <2>2, <2>3, <2>4, <1>3, <1>5, <1>6, <1>8, <1>10, <1>13, <1>15 DEF i, g
<1> QED BY <1>14, <1>15
LEMMA KeptBranch ==
  ASSUME Ready, NEW f \in DOMAIN module \ {Rt}, NEW b \in Blocks(module, f),
         NEW s \in module[f][b].next
  PROVE  Kept(f, s, 1) \subseteq Kept(f, b, Len(module[f][b].code) + 1)
<1> DEFINE n == Len(module[f][b].code)
<1>1. module \in Modules /\ flow = LivenessRound(module, must, may, flow)
  BY DEF Ready, Types, Stable
<1>2. n \in Nat /\ s \in Blocks(module, f)
  BY <1>1, Wf, WfCode
<1>3. f # Wrapper
  BY <1>1, RuntimeCode
<1>4. AtEnd(module, flow, f, b) = UNION {flow.live[f][t] : t \in module[f][b].next}
  BY DEF AtEnd, Returns
<1>5. flow.live[f][s] = Live(f, s, 1)
  BY <1>1, <1>2, FixedPoint DEF Live
<1>6. Live(f, b, n + 1) = AtEnd(module, flow, f, b) \cap Regs
  BY <1>2, LiveLast DEF Live
<1>7. Live(f, s, 1) \subseteq Regs
  BY LiveRegs DEF Live
<1> HIDE DEF n
<1>8. Kept(f, s, 1) = Live(f, s, 1) /\ Kept(f, b, n + 1) = Live(f, b, n + 1)
  BY <1>3 DEF Kept
<1> QED BY <1>4, <1>5, <1>6, <1>7, <1>8 DEF n

LEMMA WrapperEnd ==
  ASSUME NEW m \in Modules, NEW b \in Blocks(m, Wrapper)
  PROVE  Len(m[Wrapper][b].code) + 1 # 1
<1>1. b = 1 /\ Len(m[Wrapper][1].code) = 1
  BY RuntimeCode
<1> QED BY <1>1

LEMMA KeptReturn ==
  ASSUME Ready, NEW f \in DOMAIN module \ {Rt}, NEW b \in Blocks(module, f),
         module[f][b].next = {},
         \A i \in 1..Len(module[f][b].code) : module[f][b].code[i] # Unreachable
  PROVE  flow.out[f] \subseteq Kept(f, b, Len(module[f][b].code) + 1)
<1> DEFINE n == Len(module[f][b].code)
<1>1. module \in Modules /\ flow.out[f] \subseteq Regs
  BY DEF Ready, Types
<1>2. n \in Nat /\ DOMAIN module[f][b].code = 1..n
  BY <1>1, WfCode
<1>3. Returns(module, f, b)
  BY <1>2 DEF Returns, Range
<1>4. Live(f, b, n + 1) = AtEnd(module, flow, f, b) \cap Regs
  BY <1>2, LiveLast DEF Live
<1>5. flow.out[f] \subseteq Live(f, b, n + 1)
  BY <1>1, <1>3, <1>4 DEF AtEnd
<1>6. CASE f # Wrapper
  BY <1>5, <1>6 DEF Kept
<1>7. CASE f = Wrapper
  <2>1. n + 1 # 1
    BY <1>7, <1>1, WrapperEnd
  <2> QED BY <1>7, <2>1 DEF Kept
<1> QED BY <1>6, <1>7

\* main reads a register after the wrapper that the wrapper hands back or nothing sets.
LEMMA KeptResult ==
  ASSUME Ready
  PROVE  "R_EAX" \in Kept(Wrapper, 1, 2) /\ "R_EAX" \in Regs /\ "R_ESP" \in Regs
<1>1. module \in Modules /\ flow = LivenessRound(module, must, may, flow)
  BY DEF Ready, Types, Stable
<1>2. Rt \in DOMAIN module /\ Wrapper \in DOMAIN module
  BY <1>1, WfRuntime
<1> DEFINE c == module[Rt][1].code
<1>3. /\ 1 \in Blocks(module, Rt) /\ Len(c) = 3 /\ c[1] = I("store", "R_ESP")
      /\ c[2] = I("call", Wrapper) /\ c[3] = I("load", "R_EAX")
  BY <1>1, RuntimeCode
<1>4. \A k \in 1..3 : c[k] \in Instruction(module) /\ k \in DOMAIN c
  BY <1>1, <1>2, <1>3, WfCode
<1> HIDE DEF c
<1>5. c[1].op = "store" /\ c[1].of = "R_ESP" /\ c[3].op = "load" /\ c[3].of = "R_EAX"
  BY <1>3 DEF I
<1>6. c[1] \in Instruction(module) /\ c[3] \in Instruction(module) /\ 2 \in DOMAIN c
  BY <1>4
<1>7. "R_ESP" \in Regs /\ "R_EAX" \in Regs
  BY <1>5, <1>6, InstructionNames
<1>8. "R_EAX" \in Live(Rt, 1, 3)
  <2>1. Uses(flow, c[3]) = {"R_EAX"}
    BY <1>5 DEF Uses
  <2>2. 3 \in 1..Len(c) /\ Len(c) \in Nat
    BY <1>3
  <2>3. Uses(flow, c[3]) \cap Regs \subseteq Live(Rt, 1, 3)
    BY <2>2, LiveBefore DEF c, Live
  <2> QED BY <2>1, <2>3, <1>7
<1>9. Live(Rt, 1, 2 + 1) \cap (must[Wrapper] \cup may[Wrapper]) \subseteq flow.out[Wrapper]
  BY <1>1, <1>2, <1>3, <1>6, FixedPoint DEF Live, c
<1>10. 2 + 1 = 3
  OBVIOUS
<1> QED BY <1>7, <1>8, <1>9, <1>10 DEF Kept
-----------------------------------------------------------------------------
(* The stack of pending calls.                                             *)
LEMMA LastDropped ==
  ASSUME NEW S, NEW s \in Seq(S), NEW n \in Nat, Len(s) = n + 1
  PROVE  LET q == SubSeq(s, 1, Len(s) - 1)
         IN  /\ q \in Seq(S) /\ Len(q) = n
             /\ \A i \in 1..n : q[i] = s[i]
<1>1. /\ SubSeq(s, 1, n) \in Seq(S) /\ Len(SubSeq(s, 1, n)) = n
      /\ \A i \in 1..n : SubSeq(s, 1, n)[i] = s[i]
  OBVIOUS
<1>2. Len(s) - 1 = n
  OBVIOUS
<1> QED BY <1>1, <1>2

LEMMA LastReplaced ==
  ASSUME NEW S, NEW s \in Seq(S), NEW n \in Nat, Len(s) = n + 1, NEW t \in S
  PROVE  LET q == Append(SubSeq(s, 1, Len(s) - 1), t)
         IN  /\ q \in Seq(S) /\ Len(q) = n + 1 /\ q[n + 1] = t
             /\ \A i \in 1..n : q[i] = s[i]
<1> DEFINE p == SubSeq(s, 1, Len(s) - 1)
<1>1. p \in Seq(S) /\ Len(p) = n /\ \A i \in 1..n : p[i] = s[i]
  BY LastDropped
<1> HIDE DEF p
<1>2. /\ Append(p, t) \in Seq(S) /\ Len(Append(p, t)) = n + 1 /\ Append(p, t)[n + 1] = t
      /\ \A i \in 1..n : Append(p, t)[i] = s[i]
  BY <1>1
<1> QED BY <1>2 DEF p

LEMMA OneAppended ==
  ASSUME NEW S, NEW s \in Seq(S), NEW t \in S
  PROVE  /\ Append(s, t) \in Seq(S) /\ Len(Append(s, t)) = Len(s) + 1
         /\ Append(s, t)[Len(s) + 1] = t
         /\ \A i \in 1..Len(s) : Append(s, t)[i] = s[i]
OBVIOUS

\* What only depends on the module and the analysis does not change.
LEMMA Unmoved ==
  ASSUME UNCHANGED <<module, analysis>>
  PROVE  /\ FrameType' = FrameType /\ Lifted' = Lifted
         /\ \A fr : CodeAt(fr)' = CodeAt(fr)
         /\ \A fr : Placed(fr)' <=> Placed(fr)
         /\ \A f, b, k : Kept(f, b, k)' = Kept(f, b, k)
<1>1. module' = module /\ must' = must /\ may' = may /\ flow' = flow
  BY DEF analysis
<1>2. \A fr : CodeAt(fr)' = CodeAt(fr)
  BY <1>1 DEF CodeAt
<1>3. \A fr : Placed(fr)' <=> Placed(fr)
  BY <1>1, <1>2 DEF Placed
<1>4. \A f, b, k : Kept(f, b, k)' = Kept(f, b, k)
  BY <1>1 DEF Kept, Live
<1> QED BY <1>1, <1>2, <1>3, <1>4 DEF FrameType, Lifted

LEMMA TopFacts ==
  ASSUME IInv, Running
  PROVE  /\ Ready /\ Stack /\ Sync
         /\ Len(frames) \in Nat \ {0} /\ Top = frames[Len(frames)] /\ Top \in FrameType
         /\ Placed(Top) /\ Code = CodeAt(Top) /\ Len(Code) \in Nat
         /\ Len(frames) = 1 => Top.fn = Rt
         /\ Len(frames) = 2 => Top.fn = Wrapper
         /\ Len(frames) > 2 => Top.fn \in Lifted
         /\ Top.fn \in DOMAIN module
<1>1. Ready /\ Stack /\ Sync
  BY DEF IInv, Running, Ready, Runs
<1>2. Len(frames) \in Nat \ {0} /\ Top = frames[Len(frames)]
  BY <1>1 DEF Stack, Top
<1>3. Top \in FrameType /\ Placed(Top)
  BY <1>1, <1>2 DEF Stack
<1>4. Top.fn \in DOMAIN module
  BY <1>3 DEF FrameType
<1>5. Code = CodeAt(Top)
  BY DEF Code, CodeAt
<1>6. Len(Code) \in Nat
  BY <1>1, <1>3, <1>4, <1>5, WfCode DEF Ready, Types, Placed, CodeAt
<1>7. /\ Len(frames) = 1 => Top.fn = Rt
      /\ Len(frames) = 2 => Top.fn = Wrapper
      /\ Len(frames) > 2 => Top.fn \in Lifted
  BY <1>1, <1>2 DEF Stack
<1> QED BY <1>1, <1>2, <1>3, <1>4, <1>5, <1>6, <1>7

\* A step of the function that runs keeps the stack in shape.
LEMMA StackMoves ==
  ASSUME IInv, Running, UNCHANGED <<module, analysis>>,
         NEW t \in FrameType, t.fn = Top.fn, Placed(t), frames' = Append(Below, t)
  PROVE  /\ Stack' /\ Len(frames') = Len(frames) /\ Top' = t
         /\ \A i \in 1..Len(frames) - 1 : frames'[i] = frames[i]
<1>1. Stack /\ Len(frames) \in Nat \ {0} /\ Top = frames[Len(frames)]
  BY TopFacts
<1> DEFINE n == Len(frames)
<1>2. /\ frames' \in Seq(FrameType) /\ Len(frames') = n /\ frames'[n] = t
      /\ \A i \in 1..n - 1 : frames'[i] = frames[i]
  <2>1. n - 1 \in Nat /\ n = (n - 1) + 1 /\ frames \in Seq(FrameType)
    BY <1>1 DEF Stack
  <2> HIDE DEF n
  <2>2. Len(frames) = n
    BY DEF n
  <2>3. LET q == Append(SubSeq(frames, 1, Len(frames) - 1), t)
        IN  /\ q \in Seq(FrameType) /\ Len(q) = (n - 1) + 1 /\ q[(n - 1) + 1] = t
            /\ \A i \in 1..n - 1 : q[i] = frames[i]
    BY <2>1, <2>2, LastReplaced
  <2> QED BY <2>1, <2>3 DEF Below
<1> HIDE DEF n
<1>3. \A i \in 1..n : i = n \/ i \in 1..n - 1
  BY <1>1 DEF n
<1>4. \A i \in 1..n : frames'[i].fn = frames[i].fn
  BY <1>1, <1>2, <1>3 DEF n
<1>5. /\ \A fr : Placed(fr)' <=> Placed(fr)
      /\ \A fr : CodeAt(fr)' = CodeAt(fr)
      /\ Lifted' = Lifted /\ FrameType' = FrameType /\ may' = may
  BY Unmoved DEF analysis
<1>6. \A i \in 1..n : Placed(frames'[i])
  BY <1>1, <1>2, <1>3 DEF Stack, n
<1>7. \A i \in 1..n - 1 : /\ frames'[i].at <= Len(CodeAt(frames'[i]))
                          /\ CodeAt(frames'[i])[frames'[i].at] = I("call", frames'[i + 1].fn)
  <2> SUFFICES ASSUME NEW i \in 1..n - 1
               PROVE  /\ frames'[i].at <= Len(CodeAt(frames'[i]))
                      /\ CodeAt(frames'[i])[frames'[i].at] = I("call", frames'[i + 1].fn)
    OBVIOUS
  <2>1. frames'[i] = frames[i] /\ frames'[i + 1].fn = frames[i + 1].fn
    BY <1>1, <1>2, <1>4 DEF n
  <2> QED BY <2>1, <1>1 DEF Stack, n
<1>8. (\A i, j \in 1..n : i <= j => may[frames'[j].fn] \subseteq may[frames'[i].fn])
  BY <1>1, <1>4 DEF Stack, n
<1>9. /\ frames'[1].fn = Rt /\ (n > 1 => frames'[2].fn = Wrapper)
      /\ \A i \in 3..n : frames'[i].fn \in Lifted
  <2>1. n \in Nat \ {0} /\ 1 \in 1..n /\ (n > 1 => 2 \in 1..n)
    BY <1>1 DEF n
  <2>2. frames'[1].fn = Rt /\ (n > 1 => frames'[2].fn = Wrapper)
    BY <1>1, <1>4, <2>1 DEF Stack, n
  <2>3. \A i \in 3..n : i \in 1..n
    BY <2>1
  <2>4. \A i \in 3..n : frames'[i].fn \in Lifted
    BY <1>1, <1>4, <2>3 DEF Stack, n
  <2> QED BY <2>2, <2>4
<1>10. Stack'
  BY <1>1, <1>2, <1>5, <1>6, <1>7, <1>8, <1>9 DEF Stack, n
<1> QED BY <1>2, <1>10 DEF Top, n
LEMMA RunStep ==
  ASSUME IInv, step = "run", step' \in {"run", "end"},
         UNCHANGED <<module, analysis, regs, locals, todo>>,
         env' \in [Regs -> Values], genv' \in Register, Stack', Sync'
  PROVE  IInv'
<1>1. /\ module' = module /\ must' = must /\ may' = may /\ flow' = flow
      /\ regs' = regs /\ locals' = locals /\ todo' = todo
  BY DEF analysis
<1>2. Types'
  BY <1>1 DEF IInv, Types, Register
<1>3. Stable'
  BY <1>1 DEF IInv, Stable
<1>4. Signatures'
  BY <1>1 DEF IInv, Signatures, Lifted
<1> QED BY <1>2, <1>3, <1>4 DEF IInv, Runs

\* The frames below the one that runs agree as before when the program's registers
\* do, but for those that the function at work may set.
LEMMA PendingKept ==
  ASSUME IInv, Running, UNCHANGED <<module, analysis>>,
         \A i \in 1..Len(frames) - 1 : frames'[i] = frames[i],
         frames'[Len(frames)].fn = Top.fn,
         \A r \in Regs : env'[r] = env[r] \/ r \in may[Top.fn]
  PROVE  \A i \in 2..Len(frames) - 1 :
           \A r \in Kept(frames[i].fn, frames[i].block, frames[i].at + 1)'
                      \ flow.out[frames[i + 1].fn]' :
             frames'[i].local[r] = env'[r]
<1> DEFINE n == Len(frames)
<1>1. Ready /\ Stack /\ Sync /\ n \in Nat /\ Top = frames[n] /\ module \in Modules
  BY TopFacts DEF Ready, Types
<1>2. flow' = flow /\ \A f, b, k : Kept(f, b, k)' = Kept(f, b, k)
  BY Unmoved DEF analysis
<1> SUFFICES ASSUME NEW i \in 2..n - 1,
                    NEW r \in Kept(frames[i].fn, frames[i].block, frames[i].at + 1)
                                \ flow.out[frames[i + 1].fn]
             PROVE  frames[i].local[r] = env'[r]
  <2>1. ASSUME NEW i \in 2..n - 1
        PROVE  frames'[i] = frames[i] /\ frames'[i + 1].fn = frames[i + 1].fn
    <3>1. i \in 1..n - 1 /\ (i + 1 = n \/ i + 1 \in 1..n - 1)
      BY <1>1
    <3> QED BY <3>1, <1>1
  <2> QED BY <2>1, <1>2
<1> HIDE DEF n
<1> DEFINE fr == frames[i]
           g == frames[i + 1].fn
<1>3. i \in 1..n /\ i \in 1..n - 1 /\ i + 1 \in 1..n /\ i + 1 <= n /\ n \in 1..n
  BY <1>1
<1>4. fr \in FrameType /\ Placed(fr) /\ fr.at <= Len(CodeAt(fr)) /\ CodeAt(fr)[fr.at] = I("call", g)
  BY <1>1, <1>3 DEF Stack, n
<1>5. may[Top.fn] \subseteq may[g]
  BY <1>1, <1>3 DEF Stack, n
<1>6. fr.fn # Rt
  <2>1. CASE i = 2
    <3>1. n > 1
      BY <2>1, <1>1
    <3> QED BY <2>1, <3>1, <1>1, WfRuntime DEF Stack, n
  <2>2. CASE i # 2
    <3>1. i \in 3..n
      BY <2>2, <1>1
    <3> QED BY <3>1, <1>1 DEF Stack, n, Lifted
  <2> QED BY <2>1, <2>2
<1>7. /\ fr.fn \in DOMAIN module \ {Rt} /\ fr.block \in Blocks(module, fr.fn)
      /\ fr.at \in 1..Len(module[fr.fn][fr.block].code)
      /\ module[fr.fn][fr.block].code[fr.at].op = "call"
      /\ module[fr.fn][fr.block].code[fr.at].of = g
  <2>1. fr.fn \in DOMAIN module /\ fr.at \in Nat
    BY <1>4 DEF FrameType
  <2>2. fr.block \in Blocks(module, fr.fn)
    BY <1>4 DEF Placed
  <2>3. I("call", g).op = "call" /\ I("call", g).of = g
    BY DEF I
  <2>4. Len(module[fr.fn][fr.block].code) \in Nat
    BY <2>1, <2>2, <1>1, WfCode
  <2> HIDE DEF fr, g
  <2>5. fr.at \in 1..Len(module[fr.fn][fr.block].code) + 1
        /\ fr.at <= Len(module[fr.fn][fr.block].code)
    BY <1>4 DEF Placed, CodeAt
  <2>6. fr.at \in 1..Len(module[fr.fn][fr.block].code)
    BY <2>4, <2>5
  <2> QED BY <2>1, <2>2, <2>3, <2>6, <1>4, <1>6 DEF CodeAt
<1>8. Kept(fr.fn, fr.block, fr.at + 1) \cap may[g] \subseteq flow.out[g]
  <2> HIDE DEF fr, g
  <2> QED BY <1>1, <1>7, KeptCall
<1>9. r \notin may[Top.fn]
  BY <1>5, <1>8
<1>10. r \in Regs
  <2>1. Kept(fr.fn, fr.block, fr.at + 1) \subseteq Regs
    BY <1>1, LiveRegs, WfRuntime DEF Kept, Live, Ready, Types
  <2> QED BY <2>1
<1>11. env'[r] = env[r]
  BY <1>9, <1>10
<1> QED BY <1>1, <1>11 DEF Sync, n
LEMMA MovedFrame ==
  ASSUME NEW fr \in FrameType, module \in Modules, Placed(fr), fr.at <= Len(CodeAt(fr)),
         CodeAt(fr)[fr.at] # Unreachable, NEW l \in Register
  PROVE  LET t == Moved([fr EXCEPT !.local = l])
         IN  /\ t \in FrameType /\ Placed(t) /\ CodeAt(t) = CodeAt(fr)
             /\ t.fn = fr.fn /\ t.block = fr.block /\ t.at = fr.at + 1 /\ t.local = l
<1> DEFINE e == [fr EXCEPT !.local = l]
           t == Moved(e)
           k == fr.at
           n == Len(CodeAt(fr))
<1>1. fr.fn \in DOMAIN module /\ fr.block \in Nat /\ k \in Nat
  BY DEF FrameType
<1>2. /\ e \in FrameType /\ e.fn = fr.fn /\ e.block = fr.block /\ e.at = k /\ e.local = l
  BY DEF FrameType
<1>3. fr.block \in Blocks(module, fr.fn) /\ k \in 1..n + 1
      /\ k <= n /\ CodeAt(fr)[k] # Unreachable
      /\ \A i \in 1..k - 1 : CodeAt(fr)[i] # Unreachable
  BY DEF Placed
<1>4. n \in Nat
  BY <1>1, <1>3, WfCode DEF CodeAt
<1> HIDE DEF e, k, n
<1>5. k + 1 \in Nat
  BY <1>1
<1>6. /\ t \in FrameType /\ t.fn = fr.fn /\ t.block = fr.block /\ t.at = k + 1 /\ t.local = l
  BY <1>5, <1>2 DEF FrameType, Moved
<1> HIDE DEF t
<1>7. CodeAt(t) = CodeAt(fr)
  BY <1>6 DEF CodeAt
<1>8. k + 1 \in 1..n + 1 /\ \A i \in 1..(k + 1) - 1 : i = k \/ i \in 1..k - 1
  BY <1>1, <1>3, <1>4
<1>9. Placed(t)
  <2>1. t.at \in 1..Len(CodeAt(t)) + 1
    BY <1>6, <1>7, <1>8 DEF n
  <2>2. \A i \in 1..t.at - 1 : CodeAt(t)[i] # Unreachable
    BY <1>6, <1>7, <1>3, <1>8
  <2> QED BY <2>1, <2>2, <1>6, <1>3 DEF Placed
<1> QED BY <1>6, <1>7, <1>9 DEF t, e, k

LEMMA MovedTop ==
  ASSUME NEW fr \in FrameType
  PROVE  /\ Moved(fr) = Moved([fr EXCEPT !.local = fr.local])
         /\ \A r, v : [fr EXCEPT !.local[r] = v] = [fr EXCEPT !.local = [fr.local EXCEPT ![r] = v]]
         /\ fr.local \in Register
<1>1. fr = [fn |-> fr.fn, block |-> fr.block, at |-> fr.at, local |-> fr.local]
      /\ fr.local \in Register
  BY DEF FrameType
<1>2. [fr EXCEPT !.local = fr.local] = fr
  BY <1>1
<1> QED BY <1>1, <1>2

\* The instruction that comes next.
LEMMA NextFacts ==
  ASSUME IInv, NEW op \in {"load", "store", "call"}, NextIs(op)
  PROVE  /\ Running /\ module \in Modules
         /\ Top.block \in Blocks(module, Top.fn)
         /\ Top.at \in 1..Len(module[Top.fn][Top.block].code)
         /\ module[Top.fn][Top.block].code[Top.at].op = op
         /\ Code[Top.at] = module[Top.fn][Top.block].code[Top.at]
         /\ CodeAt(Top)[Top.at] # Unreachable
         /\ Code[Top.at] \in Instruction(module)
         /\ Top.fn = Rt => /\ op = "store" => Top.at = 1 /\ Code[Top.at].of = "R_ESP"
                           /\ op = "call" => Top.at = 2 /\ Code[Top.at].of = Wrapper
                           /\ op = "load" => Top.at = 3 /\ Code[Top.at].of = "R_EAX"
         /\ Top.fn = Wrapper => op = "call" /\ Top.at = 1
<1>1. Running /\ Top.at <= Len(Code) /\ Code[Top.at].op = op
  BY DEF NextIs
<1>2. /\ module \in Modules /\ Top \in FrameType /\ Placed(Top) /\ Code = CodeAt(Top)
      /\ Len(Code) \in Nat /\ Top.fn \in DOMAIN module
  BY <1>1, TopFacts DEF Ready, Types
<1>3. Top.block \in Blocks(module, Top.fn) /\ Top.at \in 1..Len(Code)
  <2>1. Top.block \in Blocks(module, Top.fn) /\ Top.at \in 1..Len(Code) + 1
    BY <1>2 DEF Placed
  <2> QED BY <2>1, <1>1, <1>2
<1>4. Code = module[Top.fn][Top.block].code
  BY DEF Code
<1>5. Code[Top.at] \in Instruction(module)
  BY <1>2, <1>3, <1>4, WfCode
<1>6. Code[Top.at] # Unreachable
  BY <1>1, <1>5, InstructionNames
<1>7. ASSUME Top.fn = Rt
      PROVE  /\ op = "store" => Top.at = 1 /\ Code[Top.at].of = "R_ESP"
             /\ op = "call" => Top.at = 2 /\ Code[Top.at].of = Wrapper
             /\ op = "load" => Top.at = 3 /\ Code[Top.at].of = "R_EAX"
  <2>1. Top.block = 1 /\ Code = module[Rt][1].code
    BY <1>2, <1>3, <1>4, <1>7, RuntimeCode
  <2>2. /\ Len(Code) = 3 /\ Code[1] = I("store", "R_ESP")
        /\ Code[2] = I("call", Wrapper) /\ Code[3] = I("load", "R_EAX")
    BY <1>2, <2>1, RuntimeCode
  <2>3. Top.at \in {1, 2, 3}
    BY <2>2, <1>3
  <2>4. /\ Code[1].op = "store" /\ Code[1].of = "R_ESP"
        /\ Code[2].op = "call" /\ Code[2].of = Wrapper
        /\ Code[3].op = "load" /\ Code[3].of = "R_EAX"
    BY <2>2 DEF I
  <2> QED BY <2>3, <2>4, <1>1
<1>8. ASSUME Top.fn = Wrapper PROVE op = "call" /\ Top.at = 1
  <2>1. Top.block = 1 /\ Code = module[Wrapper][1].code
    BY <1>2, <1>3, <1>4, <1>8, RuntimeCode
  <2>2. Len(Code) = 1 /\ \E f : Code[1] = I("call", f)
    BY <1>2, <2>1, RuntimeCode
  <2>3. Code[1].op = "call"
    BY <2>2 DEF I
  <2> QED BY <2>2, <2>3, <1>1, <1>3
<1> QED BY <1>1, <1>2, <1>3, <1>4, <1>5, <1>6, <1>7, <1>8
\* Where a frame is after an instruction, with what it then has in its variables.
LEMMA MoveFacts ==
  ASSUME IInv, NEW op \in {"load", "store", "call"}, NextIs(op), NEW l \in Register
  PROVE  LET t == Moved([Top EXCEPT !.local = l])
         IN  /\ t \in FrameType /\ Placed(t) /\ t.fn = Top.fn /\ t.block = Top.block
             /\ t.at = Top.at + 1 /\ t.local = l
<1>1. /\ module \in Modules /\ Running
      /\ Top.at \in 1..Len(module[Top.fn][Top.block].code)
      /\ CodeAt(Top)[Top.at] # Unreachable
  BY NextFacts
<1>2. Top \in FrameType /\ Placed(Top) /\ Len(CodeAt(Top)) \in Nat
  BY <1>1, TopFacts
<1>3. Top.at <= Len(CodeAt(Top))
  BY <1>1, <1>2 DEF CodeAt
<1> QED BY <1>1, <1>2, <1>3, MovedFrame

-----------------------------------------------------------------------------
(* The steps of the two programs.                                          *)
LEMMA LoadStep ==
  ASSUME IInv, Load
  PROVE  IInv'
<1>1. /\ NextIs("load") /\ frames' = Append(Below, Moved(Top)) /\ step' = step
      /\ UNCHANGED <<module, analysis>> /\ UNCHANGED <<module, analysis, regs, locals, todo>>
      /\ env' = env /\ genv' = genv
  BY DEF Load
<1> DEFINE n == Len(frames)
           t == Moved(Top)
<1>2. /\ Running /\ module \in Modules /\ Top.block \in Blocks(module, Top.fn)
      /\ Top.at \in 1..Len(module[Top.fn][Top.block].code)
      /\ module[Top.fn][Top.block].code[Top.at].op = "load"
      /\ CodeAt(Top)[Top.at] # Unreachable
      /\ (Top.fn = Rt => Top.at = 3) /\ Top.fn # Wrapper
  BY <1>1, NextFacts
<1>3. /\ Ready /\ Sync /\ n \in Nat \ {0} /\ Top \in FrameType /\ Placed(Top)
      /\ Len(CodeAt(Top)) \in Nat
      /\ (n = 1 => Top.fn = Rt) /\ (n = 2 => Top.fn = Wrapper) /\ (n > 2 => Top.fn \in Lifted)
  BY <1>2, TopFacts
<1>4. /\ t \in FrameType /\ Placed(t) /\ t.fn = Top.fn /\ t.block = Top.block
      /\ t.at = Top.at + 1 /\ t.local = Top.local
  <2>1. t = Moved([Top EXCEPT !.local = Top.local]) /\ Top.local \in Register
    BY <1>3, MovedTop
  <2>2. LET e == Moved([Top EXCEPT !.local = Top.local])
        IN  /\ e \in FrameType /\ Placed(e) /\ e.fn = Top.fn /\ e.block = Top.block
            /\ e.at = Top.at + 1 /\ e.local = Top.local
    BY <2>1, <1>1, MoveFacts
  <2> HIDE DEF t
  <2> QED BY <2>1, <2>2
<1> HIDE DEF t
<1>5. /\ Stack' /\ Len(frames') = n /\ Top' = t
      /\ \A i \in 1..n - 1 : frames'[i] = frames[i]
  BY <1>1, <1>2, <1>4, StackMoves DEF t
<1>6. \A f, b, k : Kept(f, b, k)' = Kept(f, b, k)
  BY <1>1, Unmoved
<1>7. \A i \in 2..n - 1 :
        \A r \in Kept(frames[i].fn, frames[i].block, frames[i].at + 1)'
                   \ flow.out[frames[i + 1].fn]' :
          frames'[i].local[r] = env'[r]
  <2>1. frames'[n].fn = Top.fn
    BY <1>4, <1>5 DEF Top
  <2> QED BY <2>1, <1>1, <1>2, <1>5, PendingKept
<1>8. n > 1 => \A r \in Kept(t.fn, t.block, t.at) : t.local[r] = env[r]
  <2> SUFFICES ASSUME n > 1 PROVE \A r \in Kept(t.fn, t.block, t.at) : t.local[r] = env[r]
    OBVIOUS
  <2>1. Top.fn \in Lifted
    <3>1. n \in Nat
      BY <1>3
    <3> HIDE DEF n
    <3>2. n = 2 \/ n > 2
      BY <3>1
    <3> QED BY <3>2, <1>2, <1>3
  <2>2. Kept(Top.fn, Top.block, Top.at + 1) \subseteq Kept(Top.fn, Top.block, Top.at)
    BY <2>1, <1>2, <1>3, KeptLoad
  <2>3. \A r \in Kept(Top.fn, Top.block, Top.at) : Top.local[r] = env[r]
    BY <1>3 DEF Sync
  <2> QED BY <2>2, <2>3, <1>4
<1>9. n = 1 => t.at = 4
  BY <1>2, <1>3, <1>4
<1>10. Sync'
  <2>1. n > 1 => \A r \in Kept(Top.fn, Top.block, Top.at)' : Top'.local[r] = env'[r]
    BY <1>1, <1>5, <1>6, <1>8
  <2>2. ~(n = 1 /\ Top'.at <= 2) /\ ~(n = 1 /\ Top'.at = 3)
    BY <1>5, <1>9
  <2> QED BY <2>1, <2>2, <1>5, <1>7 DEF Sync
<1> QED BY <1>1, <1>2, <1>3, <1>5, <1>10, RunStep DEF Ready, Types, Running
LEMMA StoreInMain ==
  ASSUME IInv, Store, Top.fn = Rt
  PROVE  IInv'
<1> DEFINE r == Code[Top.at].of
           t == Moved(Top)
           n == Len(frames)
<1>1. /\ NextIs("store") /\ step' = step
      /\ UNCHANGED <<module, analysis>> /\ UNCHANGED <<module, analysis, regs, locals, todo>>
  BY DEF Store
<1>2. /\ Running /\ module \in Modules /\ Top.at = 1 /\ r = "R_ESP"
  BY <1>1, NextFacts
<1>3. /\ Ready /\ Sync /\ n \in Nat \ {0} /\ Top \in FrameType
      /\ (n = 2 => Top.fn = Wrapper) /\ (n > 2 => Top.fn \in Lifted)
  BY <1>2, TopFacts
<1>4. Rt \notin Lifted /\ Rt # Wrapper /\ "R_ESP" \in Regs
  BY <1>2, <1>3, WfRuntime, KeptResult DEF Lifted
<1>5. n = 1
  <2>1. n \in Nat \ {0} /\ ~(n = 2) /\ ~(n > 2)
    BY <1>3, <1>4
  <2> HIDE DEF n
  <2> QED BY <2>1
<1>6. PICK v \in Values : /\ env' = [env EXCEPT ![r] = v]
                          /\ genv' = [genv EXCEPT ![r] = v]
                          /\ frames' = Append(Below, t)
  BY <1>4 DEF Store, Local
<1>7. t \in FrameType /\ Placed(t) /\ t.fn = Top.fn /\ t.at = 2
  <2>1. t = Moved([Top EXCEPT !.local = Top.local]) /\ Top.local \in Register
    BY <1>3, MovedTop
  <2>2. LET e == Moved([Top EXCEPT !.local = Top.local])
        IN  e \in FrameType /\ Placed(e) /\ e.fn = Top.fn /\ e.at = Top.at + 1
    BY <2>1, <1>1, MoveFacts
  <2> HIDE DEF t
  <2>3. Top.at + 1 = 2
    BY <1>2
  <2> QED BY <2>1, <2>2, <2>3
<1> HIDE DEF t, r
<1>8. Stack' /\ Len(frames') = n /\ Top' = t
  BY <1>1, <1>2, <1>6, <1>7, StackMoves
<1>9. genv = env /\ env \in [Regs -> Values] /\ genv \in Register
  BY <1>2, <1>3, <1>5 DEF Sync, Ready, Types
<1>10. genv' = env' /\ env' \in [Regs -> Values]
  BY <1>6, <1>9
<1>11. genv' \in Register
  BY <1>10 DEF Register
<1>12. Sync'
  <2>1. Len(frames') = 1 /\ Top'.at = 2
    BY <1>5, <1>7, <1>8
  <2> QED BY <2>1, <1>10 DEF Sync
<1> QED BY <1>1, <1>2, <1>8, <1>10, <1>11, <1>12, RunStep DEF Running

LEMMA StoreInFunction ==
  ASSUME IInv, Store, Top.fn # Rt
  PROVE  IInv'
<1> DEFINE r == Code[Top.at].of
           n == Len(frames)
<1>1. /\ NextIs("store") /\ step' = step
      /\ UNCHANGED <<module, analysis>> /\ UNCHANGED <<module, analysis, regs, locals, todo>>
  BY DEF Store
<1>2. /\ Running /\ module \in Modules /\ Top.block \in Blocks(module, Top.fn)
      /\ Top.at \in 1..Len(module[Top.fn][Top.block].code)
      /\ module[Top.fn][Top.block].code[Top.at].op = "store"
      /\ r = module[Top.fn][Top.block].code[Top.at].of
      /\ Top.fn # Wrapper
  BY <1>1, NextFacts
<1>3. /\ Ready /\ Sync /\ n \in Nat \ {0} /\ Top \in FrameType
      /\ (n = 1 => Top.fn = Rt) /\ Top.fn \in DOMAIN module
  BY <1>2, TopFacts
<1>4. Top.fn \in Lifted /\ n > 1
  <2>1. Top.fn \in Lifted
    BY <1>2, <1>3 DEF Lifted
  <2>2. n \in Nat \ {0} /\ n # 1
    BY <1>3
  <2> HIDE DEF n
  <2> QED BY <2>1, <2>2
<1>5. /\ r \in may[Top.fn] /\ r \in regs[Top.fn].used /\ r \in Regs
      /\ Kept(Top.fn, Top.block, Top.at + 1) \ {r} \subseteq Kept(Top.fn, Top.block, Top.at)
  BY <1>2, <1>3, <1>4, KeptStore
<1>6. Local(r)
  BY <1>2, <1>4, <1>5 DEF Local, IInv, Signatures, Running
<1>7. PICK v \in Values : /\ env' = [env EXCEPT ![r] = v] /\ genv' = genv
                          /\ frames' = Append(Below, Moved([Top EXCEPT !.local[r] = v]))
  BY <1>6 DEF Store
<1> DEFINE l == [Top.local EXCEPT ![r] = v]
           t == Moved([Top EXCEPT !.local = l])
<1>8. Top.local \in Register /\ frames' = Append(Below, t)
  BY <1>3, <1>7, MovedTop
<1> HIDE DEF r
<1>9. l \in Register /\ l[r] = v /\ \A q \in Regs : q # r => l[q] = Top.local[q]
  BY <1>5, <1>8 DEF Register
<1> HIDE DEF l
<1>10. /\ t \in FrameType /\ Placed(t) /\ t.fn = Top.fn /\ t.block = Top.block
       /\ t.at = Top.at + 1 /\ t.local = l
  BY <1>1, <1>9, MoveFacts
<1> HIDE DEF t
<1>11. /\ Stack' /\ Len(frames') = n /\ Top' = t
       /\ \A i \in 1..n - 1 : frames'[i] = frames[i]
  BY <1>1, <1>2, <1>8, <1>10, StackMoves
<1>12. \A f, b, k : Kept(f, b, k)' = Kept(f, b, k)
  BY <1>1, Unmoved
<1>13. env \in [Regs -> Values] /\ genv \in Register
  BY <1>3 DEF Ready, Types
<1>14. env' \in [Regs -> Values] /\ env'[r] = v /\ \A q \in Regs : q # r => env'[q] = env[q]
  BY <1>5, <1>7, <1>13
<1>15. \A i \in 2..n - 1 :
         \A q \in Kept(frames[i].fn, frames[i].block, frames[i].at + 1)'
                   \ flow.out[frames[i + 1].fn]' :
           frames'[i].local[q] = env'[q]
  <2>1. frames'[n].fn = Top.fn
    BY <1>10, <1>11 DEF Top
  <2>2. \A q \in Regs : env'[q] = env[q] \/ q \in may[Top.fn]
    BY <1>5, <1>14
  <2> QED BY <2>1, <2>2, <1>1, <1>2, <1>11, PendingKept
<1>16. \A q \in Kept(t.fn, t.block, t.at) : t.local[q] = env'[q]
  <2>1. Kept(Top.fn, Top.block, Top.at + 1) \subseteq Regs
    BY <1>4, LiveRegs DEF Kept, Live, Lifted
  <2>2. \A q \in Kept(Top.fn, Top.block, Top.at) : Top.local[q] = env[q]
    BY <1>3, <1>4 DEF Sync
  <2> QED BY <2>1, <2>2, <1>5, <1>9, <1>10, <1>14
<1>17. Sync'
  <2>1. \A q \in Kept(Top.fn, Top.block, Top.at)' : Top'.local[q] = env'[q]
    BY <1>11, <1>12, <1>16
  <2> QED BY <2>1, <1>4, <1>11, <1>15 DEF Sync
<1> QED BY <1>1, <1>2, <1>7, <1>11, <1>13, <1>14, <1>17, RunStep DEF Running
LEMMA BranchStep ==
  ASSUME IInv, Branch
  PROVE  IInv'
<1> DEFINE n == Len(frames)
<1>1. /\ AtEndOfBlock /\ Running /\ step' = step /\ env' = env /\ genv' = genv
      /\ UNCHANGED <<module, analysis>> /\ UNCHANGED <<module, analysis, regs, locals, todo>>
  BY DEF Branch, AtEndOfBlock
<1>2. PICK b \in module[Top.fn][Top.block].next :
        frames' = Append(Below, [Top EXCEPT !.block = b, !.at = 1])
  BY DEF Branch
<1> DEFINE t == [Top EXCEPT !.block = b, !.at = 1]
<1>3. /\ Ready /\ Sync /\ n \in Nat \ {0} /\ Top \in FrameType /\ Placed(Top)
      /\ Code = CodeAt(Top) /\ Len(Code) \in Nat
      /\ (n = 1 => Top.fn = Rt) /\ Top.fn \in DOMAIN module
  BY <1>1, TopFacts
<1>4. module \in Modules /\ Top.block \in Blocks(module, Top.fn)
  BY <1>3 DEF Ready, Types, Placed
<1>5. Top.at = Len(module[Top.fn][Top.block].code) + 1
  <2>1. Top.at \in 1..Len(Code) + 1 /\ Top.at > Len(Code)
    BY <1>1, <1>3 DEF Placed, AtEndOfBlock
  <2>2. Top.at = Len(Code) + 1
    BY <2>1, <1>3
  <2> QED BY <2>2 DEF Code
<1>6. Top.fn # Rt /\ b \in Blocks(module, Top.fn) /\ b \in Nat
  <2>1. Top.fn # Rt
    BY <1>2, <1>4, RuntimeCode
  <2>2. b \in Blocks(module, Top.fn)
    BY <1>2, <1>3, <1>4, Wf
  <2>3. Blocks(module, Top.fn) = 1..Len(module[Top.fn]) /\ Len(module[Top.fn]) \in Nat
    BY <1>3, <1>4, Wf
  <2> QED BY <2>1, <2>2, <2>3
<1>7. n > 1
  <2>1. n \in Nat \ {0} /\ n # 1
    BY <1>3, <1>6
  <2> HIDE DEF n
  <2> QED BY <2>1
<1>8. t \in FrameType /\ t.fn = Top.fn /\ t.block = b /\ t.at = 1 /\ t.local = Top.local
  BY <1>3, <1>6 DEF FrameType
<1> HIDE DEF t
<1>9. Placed(t)
  <2>1. Len(CodeAt(t)) \in Nat
    BY <1>3, <1>4, <1>6, <1>8, WfCode DEF CodeAt
  <2>2. t.at \in 1..Len(CodeAt(t)) + 1 /\ 1..t.at - 1 = {}
    BY <2>1, <1>8
  <2> QED BY <2>2, <1>6, <1>8 DEF Placed
<1>10. /\ Stack' /\ Len(frames') = n /\ Top' = t
       /\ \A i \in 1..n - 1 : frames'[i] = frames[i]
  BY <1>1, <1>2, <1>8, <1>9, StackMoves DEF t
<1>11. \A f, q, k : Kept(f, q, k)' = Kept(f, q, k)
  BY <1>1, Unmoved
<1>12. \A i \in 2..n - 1 :
         \A r \in Kept(frames[i].fn, frames[i].block, frames[i].at + 1)'
                    \ flow.out[frames[i + 1].fn]' :
           frames'[i].local[r] = env'[r]
  <2>1. frames'[n].fn = Top.fn
    BY <1>8, <1>10 DEF Top
  <2> QED BY <2>1, <1>1, <1>10, PendingKept
<1>13. \A r \in Kept(t.fn, t.block, t.at) : t.local[r] = env[r]
  <2>1. Kept(Top.fn, b, 1) \subseteq Kept(Top.fn, Top.block, Top.at)
    BY <1>2, <1>3, <1>4, <1>5, <1>6, KeptBranch
  <2>2. \A r \in Kept(Top.fn, Top.block, Top.at) : Top.local[r] = env[r]
    BY <1>3, <1>7 DEF Sync
  <2> QED BY <2>1, <2>2, <1>8
<1>14. Sync'
  <2>1. \A r \in Kept(Top.fn, Top.block, Top.at)' : Top'.local[r] = env'[r]
    BY <1>1, <1>10, <1>11, <1>13
  <2> QED BY <2>1, <1>7, <1>10, <1>12 DEF Sync
<1> QED BY <1>1, <1>3, <1>10, <1>14, RunStep DEF Running, Ready, Types

\* A call keeps the stack in shape.
LEMMA StackGrows ==
  ASSUME IInv, NextIs("call"), UNCHANGED <<module, analysis>>, NEW l \in Register,
         frames' = Append(frames, Frame(Code[Top.at].of, l))
  PROVE  LET t == Frame(Code[Top.at].of, l)
         IN  /\ Stack' /\ Len(frames') = Len(frames) + 1 /\ Top' = t
             /\ frames'[Len(frames) + 1] = t /\ t \in FrameType
             /\ \A i \in 1..Len(frames) : frames'[i] = frames[i]
<1> DEFINE n == Len(frames)
           g == Code[Top.at].of
           t == Frame(g, l)
<1>1. /\ Running /\ module \in Modules /\ Code[Top.at] \in Instruction(module)
      /\ Code[Top.at].op = "call" /\ Top.block \in Blocks(module, Top.fn)
      /\ Code[Top.at] = module[Top.fn][Top.block].code[Top.at]
      /\ Top.at \in 1..Len(module[Top.fn][Top.block].code)
      /\ (Top.fn = Rt => g = Wrapper)
  BY NextFacts
<1>2. /\ Ready /\ Stack /\ n \in Nat \ {0} /\ Top = frames[n] /\ Code = CodeAt(Top)
      /\ Len(Code) \in Nat /\ (n = 1 => Top.fn = Rt) /\ (n = 2 => Top.fn = Wrapper)
      /\ (n > 2 => Top.fn \in Lifted) /\ Top.fn \in DOMAIN module
  BY <1>1, TopFacts
<1>3. g \in DOMAIN module /\ Code[Top.at] = I("call", g) /\ g \in Calls(module, Top.fn)
  BY <1>1, <1>2, InstructionNames, NamedIn
<1>4. may[g] \subseteq may[Top.fn]
  BY <1>2, <1>3, MayFacts
<1>5. Top.fn # Rt => g \in Lifted
  BY <1>1, <1>2, <1>3, WfRuntime DEF Lifted
<1>6. Top.at <= Len(CodeAt(Top))
  BY <1>1, <1>2 DEF CodeAt
<1> HIDE DEF g
<1>7. t \in FrameType /\ t.fn = g /\ t.block = 1 /\ t.at = 1
  BY <1>3 DEF FrameType, Frame
<1> HIDE DEF t
<1>8. Placed(t)
  <2>1. 1 \in Blocks(module, g)
    BY <1>1, <1>3, Wf
  <2>2. Len(CodeAt(t)) \in Nat
    BY <1>1, <1>3, <1>7, <2>1, WfCode DEF CodeAt
  <2>3. t.at \in 1..Len(CodeAt(t)) + 1 /\ 1..t.at - 1 = {}
    BY <2>2, <1>7
  <2> QED BY <2>1, <2>3, <1>7 DEF Placed
<1>9. frames' = Append(frames, t)
  BY DEF t, g
<1>10. /\ frames' \in Seq(FrameType) /\ Len(frames') = n + 1 /\ frames'[n + 1] = t
       /\ \A i \in 1..n : frames'[i] = frames[i]
  BY <1>2, <1>7, <1>9, OneAppended DEF Stack
<1>11. Top' = t
  BY <1>10 DEF Top
<1>12. /\ \A fr : Placed(fr)' <=> Placed(fr)
       /\ \A fr : CodeAt(fr)' = CodeAt(fr)
       /\ Lifted' = Lifted /\ FrameType' = FrameType /\ may' = may
  BY Unmoved DEF analysis
<1>13. n \in Nat \ {0}
  BY <1>2
<1>14. Len(frames) = n
  OBVIOUS
<1> HIDE DEF n
<1>15. n + 1 > 0 /\ (\A i \in 1..n + 1 : i = n + 1 \/ i \in 1..n)
       /\ (\A i \in 3..n + 1 : (i = n + 1 /\ n >= 2) \/ i \in 3..n)
       /\ (\A i \in 1..(n + 1) - 1 : i = n \/ i \in 1..n - 1)
       /\ n \in 1..n /\ 1 \in 1..n
  BY <1>13
<1>16. frames'[1].fn = Rt
  BY <1>2, <1>10, <1>15, <1>14 DEF Stack
<1>17. n + 1 > 1 => frames'[2].fn = Wrapper
  <2>1. CASE n = 1
    <3>1. n + 1 = 2 /\ g = Wrapper
      BY <2>1, <1>1, <1>2
    <3> QED BY <3>1, <1>7, <1>10
  <2>2. CASE n # 1
    <3>1. n > 1 /\ 2 \in 1..n
      BY <2>2, <1>13
    <3> QED BY <3>1, <1>2, <1>10, <1>14 DEF Stack
  <2> QED BY <2>1, <2>2
<1>18. \A i \in 3..n + 1 : frames'[i].fn \in Lifted
  <2>1. n >= 2 => g \in Lifted
    <3>1. n >= 2 => n = 2 \/ n > 2
      BY <1>13
    <3> QED BY <3>1, <1>1, <1>2, <1>5, WfRuntime DEF Lifted
  <2>2. \A i \in 3..n : i \in 1..n
    BY <1>13
  <2> QED BY <2>1, <2>2, <1>2, <1>7, <1>10, <1>14, <1>15 DEF Stack
<1>19. \A i \in 1..n + 1 : Placed(frames'[i])
  BY <1>2, <1>8, <1>10, <1>14, <1>15 DEF Stack
<1>20. \A i \in 1..(n + 1) - 1 :
         /\ frames'[i].at <= Len(CodeAt(frames'[i]))
         /\ CodeAt(frames'[i])[frames'[i].at] = I("call", frames'[i + 1].fn)
  <2> SUFFICES ASSUME NEW i \in 1..(n + 1) - 1
               PROVE  /\ frames'[i].at <= Len(CodeAt(frames'[i]))
                      /\ CodeAt(frames'[i])[frames'[i].at] = I("call", frames'[i + 1].fn)
    OBVIOUS
  <2>1. CASE i = n
    BY <2>1, <1>2, <1>3, <1>6, <1>7, <1>10, <1>15
  <2>2. CASE i \in 1..n - 1
    <3>1. i \in 1..n /\ i + 1 \in 1..n
      BY <2>2, <1>13
    <3> QED BY <2>2, <3>1, <1>2, <1>10, <1>14 DEF Stack
  <2> QED BY <2>1, <2>2, <1>15
<1>21. \A i, j \in 1..n + 1 : i <= j => may[frames'[j].fn] \subseteq may[frames'[i].fn]
  <2> SUFFICES ASSUME NEW i \in 1..n + 1, NEW j \in 1..n + 1, i <= j
               PROVE  may[frames'[j].fn] \subseteq may[frames'[i].fn]
    OBVIOUS
  <2>1. CASE j \in 1..n
    <3>1. i \in 1..n
      BY <2>1, <1>13
    <3> QED BY <2>1, <3>1, <1>2, <1>10, <1>14 DEF Stack
  <2>2. CASE j = n + 1 /\ i = n + 1
    BY <2>2
  <2>3. CASE j = n + 1 /\ i \in 1..n
    <3>1. i <= n
      BY <2>3, <1>13
    <3>2. may[frames[n].fn] \subseteq may[frames[i].fn]
      BY <2>3, <3>1, <1>2, <1>14, <1>15 DEF Stack
    <3> QED BY <2>3, <3>2, <1>2, <1>4, <1>7, <1>10
  <2> QED BY <2>1, <2>2, <2>3, <1>15
<1>22. Stack'
  BY <1>10, <1>12, <1>15, <1>16, <1>17, <1>18, <1>19, <1>20, <1>21 DEF Stack
<1> QED BY <1>7, <1>10, <1>11, <1>14, <1>22 DEF t, g
LEMMA CallMain ==
  ASSUME IInv, CallFunction, Top.fn = Rt
  PROVE  IInv'
<1> DEFINE n == Len(frames)
           g == Code[Top.at].of
<1>1. /\ NextIs("call") /\ step' = step /\ env' = env /\ genv' = genv
      /\ UNCHANGED <<module, analysis>> /\ UNCHANGED <<module, analysis, regs, locals, todo>>
  BY DEF CallFunction
<1>2. Running /\ module \in Modules /\ Top.at = 2 /\ g = Wrapper
  BY <1>1, NextFacts
<1>3. /\ Ready /\ Sync /\ n \in Nat \ {0}
      /\ (n = 2 => Top.fn = Wrapper) /\ (n > 2 => Top.fn \in Lifted)
  BY <1>2, TopFacts
<1>4. n = 1
  <2>1. n \in Nat \ {0} /\ ~(n = 2) /\ ~(n > 2)
    BY <1>2, <1>3, WfRuntime DEF Lifted
  <2> HIDE DEF n
  <2> QED BY <2>1
<1>5. frames' = Append(frames, Frame(g, genv))
  BY <1>2 DEF CallFunction
<1>6. genv = env /\ genv \in Register /\ env \in [Regs -> Values]
  BY <1>2, <1>3, <1>4 DEF Sync, Ready, Types
<1>7. Stack' /\ Len(frames') = n + 1 /\ Top' = Frame(g, genv)
  BY <1>1, <1>5, <1>6, StackGrows
<1>8. Len(frames') = 2 /\ Top'.fn = Wrapper /\ Top'.local = genv
  BY <1>2, <1>4, <1>7 DEF Frame
<1>9. Sync'
  <2>1. Top'.at = 1 /\ Top'.block = 1
    BY <1>7 DEF Frame
  <2>2. Kept(Top.fn, Top.block, Top.at)' = Regs
    BY <2>1, <1>8 DEF Kept
  <2>3. \A r \in Regs : Top'.local[r] = env'[r]
    BY <1>1, <1>6, <1>8
  <2> QED BY <2>2, <2>3, <1>8 DEF Sync
<1> QED BY <1>1, <1>2, <1>6, <1>7, <1>9, RunStep DEF Running

LEMMA CallOther ==
  ASSUME IInv, CallFunction, Top.fn # Rt
  PROVE  IInv'
<1> DEFINE n == Len(frames)
           g == Code[Top.at].of
<1>1. /\ NextIs("call") /\ step' = step /\ env' = env /\ genv' = genv
      /\ UNCHANGED <<module, analysis>> /\ UNCHANGED <<module, analysis, regs, locals, todo>>
  BY DEF CallFunction
<1>2. /\ Running /\ module \in Modules /\ Top.block \in Blocks(module, Top.fn)
      /\ Top.at \in 1..Len(module[Top.fn][Top.block].code)
      /\ module[Top.fn][Top.block].code[Top.at].op = "call"
      /\ g = module[Top.fn][Top.block].code[Top.at].of
  BY <1>1, NextFacts
<1>3. /\ Ready /\ Sync /\ n \in Nat \ {0} /\ Top \in FrameType /\ Top = frames[n]
      /\ (n = 1 => Top.fn = Rt) /\ Top.fn \in DOMAIN module
  BY <1>2, TopFacts
<1>4. /\ g \in Lifted
      /\ flow.in[g] \subseteq Kept(Top.fn, Top.block, Top.at)
      /\ Kept(Top.fn, Top.block, Top.at + 1) \ flow.out[g] \subseteq Kept(Top.fn, Top.block, Top.at)
      /\ Kept(g, 1, 1) = flow.in[g]
  <2>1. Top.fn \in DOMAIN module \ {Rt}
    BY <1>3
  <2> DEFINE h == module[Top.fn][Top.block].code[Top.at].of
  <2>2. /\ Ready /\ Top.block \in Blocks(module, Top.fn)
        /\ Top.at \in 1..Len(module[Top.fn][Top.block].code)
        /\ module[Top.fn][Top.block].code[Top.at].op = "call"
    BY <1>2, <1>3
  <2>3. /\ h \in Lifted
        /\ flow.in[h] \subseteq Kept(Top.fn, Top.block, Top.at)
        /\ Kept(Top.fn, Top.block, Top.at + 1) \ flow.out[h] \subseteq Kept(Top.fn, Top.block, Top.at)
        /\ Kept(h, 1, 1) = flow.in[h]
    BY <2>1, <2>2, KeptCall
  <2> HIDE DEF g, h
  <2> QED BY <2>3, <1>2 DEF h
<1>5. g # Wrapper /\ g \in DOMAIN module /\ regs[g].in = flow.in[g]
  BY <1>3, <1>4, InterfaceOf DEF Lifted
<1> DEFINE l == Arguments(g, Top.local)
<1>6. frames' = Append(frames, Frame(g, l))
  BY <1>5 DEF CallFunction
<1>7. Top.local \in Register
  BY <1>3 DEF FrameType
<1> HIDE DEF g
<1>8. l \in Register /\ \A r \in Regs : r \in flow.in[g] => l[r] = Top.local[r]
  BY <1>5, <1>7 DEF Arguments, Register
<1> HIDE DEF l
<1> DEFINE t == Frame(g, l)
<1>9. /\ Stack' /\ Len(frames') = n + 1 /\ Top' = t /\ frames'[n + 1] = t
      /\ \A i \in 1..n : frames'[i] = frames[i]
  BY <1>1, <1>6, <1>8, StackGrows DEF g
<1>10. t.fn = g /\ t.block = 1 /\ t.at = 1 /\ t.local = l
  BY DEF Frame
<1> HIDE DEF t
<1>11. flow' = flow /\ \A f, b, k : Kept(f, b, k)' = Kept(f, b, k)
  BY <1>1, Unmoved DEF analysis
<1>12. n \in Nat /\ n > 1
  <2>1. n \in Nat \ {0} /\ n # 1
    BY <1>3
  <2> HIDE DEF n
  <2> QED BY <2>1
<1>13. \A r \in Kept(Top.fn, Top.block, Top.at) : Top.local[r] = env[r]
  BY <1>3, <1>12 DEF Sync
<1>14. \A r \in Kept(t.fn, t.block, t.at) : t.local[r] = env[r]
  <2>1. flow.in[g] \subseteq Regs
    BY <1>3, <1>5 DEF Ready, Types
  <2> QED BY <2>1, <1>4, <1>8, <1>10, <1>13
<1>15. \A i \in 2..(n + 1) - 1 :
         \A r \in Kept(frames[i].fn, frames[i].block, frames[i].at + 1)'
                    \ flow.out[frames[i + 1].fn]' :
           frames'[i].local[r] = env'[r]
  <2> SUFFICES ASSUME NEW i \in 2..(n + 1) - 1,
                      NEW r \in Kept(frames'[i].fn, frames'[i].block, frames'[i].at + 1)
                                  \ flow.out[frames'[i + 1].fn]
               PROVE  frames'[i].local[r] = env[r]
    BY <1>1, <1>11
  <2>1. CASE i = n
    <3>1. frames'[i] = Top /\ frames'[i + 1].fn = g
      <4>1. n \in 1..n
        BY <1>12
      <4> QED BY <2>1, <4>1, <1>3, <1>9, <1>10
    <3> QED BY <3>1, <1>4, <1>13
  <2>2. CASE i # n
    <3>1. i \in 2..n - 1 /\ i \in 1..n /\ i + 1 \in 1..n
      <4> HIDE DEF n
      <4> QED BY <2>2, <1>12
    <3>2. frames'[i] = frames[i] /\ frames'[i + 1] = frames[i + 1]
      BY <3>1, <1>9
    <3> QED BY <3>1, <3>2, <1>3 DEF Sync
  <2> QED BY <2>1, <2>2
<1>16. Sync'
  <2>1. \A r \in Kept(Top.fn, Top.block, Top.at)' : Top'.local[r] = env'[r]
    BY <1>1, <1>9, <1>11, <1>14
  <2>2. Len(frames') = n + 1 /\ n + 1 > 1 /\ n + 1 # 1
    <3>1. Len(frames') = n + 1
      BY <1>9
    <3> HIDE DEF n
    <3> QED BY <3>1, <1>12
  <2> QED BY <2>1, <2>2, <1>15 DEF Sync
<1> QED BY <1>1, <1>2, <1>3, <1>9, <1>16, RunStep DEF Running, Ready, Types
\* The caller, when there is one, and the calls below it.
LEMMA CallerFacts ==
  ASSUME IInv, Running, NEW n \in Nat, Len(frames) = n + 2
  PROVE  /\ Len(Below) = n + 1 /\ Below[Len(Below)] = frames[n + 1]
         /\ Below \in Seq(FrameType) /\ \A i \in 1..n + 1 : Below[i] = frames[i]
         /\ frames[n + 1] \in FrameType /\ Placed(frames[n + 1])
         /\ frames[n + 1].at <= Len(CodeAt(frames[n + 1]))
         /\ CodeAt(frames[n + 1])[frames[n + 1].at] = I("call", Top.fn)
<1>1. Stack /\ Top = frames[n + 2]
  BY TopFacts
<1>2. frames \in Seq(FrameType) /\ n + 1 \in Nat /\ n + 2 = (n + 1) + 1
  BY <1>1 DEF Stack
<1>3. /\ Below \in Seq(FrameType) /\ Len(Below) = n + 1
      /\ \A i \in 1..n + 1 : Below[i] = frames[i]
  BY <1>2, LastDropped DEF Below
<1>4. n + 1 \in 1..n + 1 /\ n + 1 \in 1..(n + 2) /\ n + 1 \in 1..(n + 2) - 1 /\ (n + 1) + 1 = n + 2
  OBVIOUS
<1>5. frames[n + 1] \in FrameType
  BY <1>2, <1>4
<1>6. /\ Placed(frames[n + 1])
      /\ frames[n + 1].at <= Len(CodeAt(frames[n + 1]))
      /\ CodeAt(frames[n + 1])[frames[n + 1].at] = I("call", frames[(n + 1) + 1].fn)
  BY <1>1, <1>4 DEF Stack
<1> QED BY <1>1, <1>3, <1>4, <1>5, <1>6

\* A return keeps the stack in shape.
LEMMA StackShrinks ==
  ASSUME IInv, Running, NEW n \in Nat, Len(frames) = n + 2, UNCHANGED <<module, analysis>>,
         NEW l \in Register,
         frames' = Append(SubSeq(Below, 1, Len(Below) - 1),
                          Moved([Below[Len(Below)] EXCEPT !.local = l]))
  PROVE  /\ Stack' /\ Len(frames') = n + 1
         /\ Top'.fn = frames[n + 1].fn /\ Top'.block = frames[n + 1].block
         /\ Top'.at = frames[n + 1].at + 1 /\ Top'.local = l
         /\ frames'[n + 1] = Top'
         /\ \A i \in 1..n : frames'[i] = frames[i]
<1> DEFINE c == frames[n + 1]
           t == Moved([c EXCEPT !.local = l])
<1>1. Stack /\ Ready /\ module \in Modules
  BY TopFacts DEF Ready, Types
<1>2. /\ Len(Below) = n + 1 /\ Below[Len(Below)] = c /\ Below \in Seq(FrameType)
      /\ \A i \in 1..n + 1 : Below[i] = frames[i]
      /\ c \in FrameType /\ Placed(c) /\ c.at <= Len(CodeAt(c)) /\ CodeAt(c)[c.at] = I("call", Top.fn)
  BY CallerFacts
<1>3. CodeAt(c)[c.at] # Unreachable
  <2>1. I("call", Top.fn).op # Unreachable.op
    BY DEF I, Unreachable
  <2> QED BY <2>1, <1>2
<1> HIDE DEF c
<1>4. /\ t \in FrameType /\ Placed(t) /\ CodeAt(t) = CodeAt(c)
      /\ t.fn = c.fn /\ t.block = c.block /\ t.at = c.at + 1 /\ t.local = l
  BY <1>1, <1>2, <1>3, MovedFrame
<1>5. frames' = Append(SubSeq(Below, 1, Len(Below) - 1), t)
  BY <1>2
<1> HIDE DEF t
<1>6. /\ frames' \in Seq(FrameType) /\ Len(frames') = n + 1 /\ frames'[n + 1] = t
      /\ \A i \in 1..n : frames'[i] = Below[i]
  BY <1>2, <1>4, <1>5, LastReplaced
<1>7. \A i \in 1..n : frames'[i] = frames[i]
  BY <1>2, <1>6
<1>8. Top' = t
  BY <1>6 DEF Top
<1>9. /\ (\A i \in 1..n + 1 : (i = n + 1 \/ i \in 1..n) /\ i \in 1..n + 2)
      /\ (\A i \in 1..(n + 1) - 1 : i \in 1..n /\ i + 1 \in 1..n + 1 /\ i \in 1..(n + 2) - 1)
      /\ (\A i \in 3..n + 1 : i \in 1..n + 1 /\ i \in 3..n + 2)
      /\ 1 \in 1..n + 1 /\ (n + 1 > 1 => 2 \in 1..n + 1) /\ n + 2 > 1 /\ n + 1 > 0
  OBVIOUS
<1>10. \A i \in 1..n + 1 : frames'[i].fn = frames[i].fn
  BY <1>4, <1>6, <1>7, <1>9 DEF c
<1>11. /\ \A fr : Placed(fr)' <=> Placed(fr)
       /\ \A fr : CodeAt(fr)' = CodeAt(fr)
       /\ Lifted' = Lifted /\ FrameType' = FrameType /\ may' = may
  BY Unmoved DEF analysis
<1>12. \A i \in 1..n + 1 : Placed(frames'[i])
  BY <1>1, <1>4, <1>6, <1>7, <1>9 DEF Stack
<1>13. \A i \in 1..(n + 1) - 1 :
         /\ frames'[i].at <= Len(CodeAt(frames'[i]))
         /\ CodeAt(frames'[i])[frames'[i].at] = I("call", frames'[i + 1].fn)
  BY <1>1, <1>7, <1>9, <1>10 DEF Stack
<1>14. (\A i, j \in 1..n + 1 : i <= j => may[frames'[j].fn] \subseteq may[frames'[i].fn])
  BY <1>1, <1>9, <1>10 DEF Stack
<1>15. frames'[1].fn = Rt /\ (n + 1 > 1 => frames'[2].fn = Wrapper)
  BY <1>1, <1>9, <1>10 DEF Stack
<1>16. \A i \in 3..n + 1 : frames'[i].fn \in Lifted
  BY <1>1, <1>9, <1>10 DEF Stack
<1>17. Stack'
  BY <1>6, <1>9, <1>11, <1>12, <1>13, <1>14, <1>15, <1>16 DEF Stack
<1> QED BY <1>4, <1>6, <1>7, <1>8, <1>17 DEF c
LEMMA ReturnFromMain ==
  ASSUME IInv, Return, Len(frames) = 1
  PROVE  IInv'
<1>1. /\ Running /\ UNCHANGED <<module, analysis>> /\ env' = env
      /\ UNCHANGED <<module, analysis, regs, locals, todo>>
  BY DEF Return, AtEndOfBlock
<1>2. Ready /\ Stack /\ Sync
  BY <1>1, TopFacts
<1>3. Below = <<>>
  <2>1. frames \in Seq(FrameType) /\ Len(frames) = 0 + 1
    BY <1>2 DEF Stack
  <2>2. Below \in Seq(FrameType) /\ Len(Below) = 0
    BY <2>1, LastDropped DEF Below
  <2> QED BY <2>2
<1>4. step' = "end" /\ frames' = frames /\ genv' = genv
  BY <1>3 DEF Return
<1>5. /\ FrameType' = FrameType /\ Lifted' = Lifted
      /\ \A fr : CodeAt(fr)' = CodeAt(fr)
      /\ \A fr : Placed(fr)' <=> Placed(fr)
      /\ may' = may
  BY <1>1, Unmoved DEF analysis
<1>6. Stack'
  BY <1>2, <1>4, <1>5 DEF Stack
<1>7. Sync'
  <2>1. Top' = Top /\ Len(frames') = 1
    BY <1>4 DEF Top
  <2>2. 2..1 - 1 = {}
    OBVIOUS
  <2> QED BY <2>1, <2>2, <1>1, <1>2, <1>4 DEF Sync
<1> QED BY <1>1, <1>2, <1>4, <1>6, <1>7, RunStep DEF Running, Ready, Types

\* At a return what a function hands back agrees.
LEMMA ResultsAgree ==
  ASSUME IInv, AtEndOfBlock, module[Top.fn][Top.block].next = {}, Len(frames) > 1
  PROVE  /\ \A r \in flow.out[Top.fn] : Top.local[r] = env[r]
         /\ Top.at = Len(module[Top.fn][Top.block].code) + 1
<1>1. /\ Ready /\ Sync /\ Stack /\ Len(frames) \in Nat /\ Top \in FrameType /\ Placed(Top)
      /\ Code = CodeAt(Top) /\ Len(Code) \in Nat /\ Top.fn \in DOMAIN module
      /\ Top = frames[Len(frames)]
  BY TopFacts DEF AtEndOfBlock
<1>2. Top.at = Len(Code) + 1
  <2>1. Top.at \in 1..Len(Code) + 1 /\ Top.at > Len(Code)
    BY <1>1 DEF Placed, AtEndOfBlock
  <2> QED BY <2>1, <1>1
<1>3. Code = module[Top.fn][Top.block].code
  BY DEF Code
<1>4. Top.fn # Rt
  <2>1. CASE Len(frames) = 2
    BY <2>1, <1>1, WfRuntime DEF Stack, Ready, Types
  <2>2. CASE Len(frames) > 2
    <3>1. Len(frames) \in 3..Len(frames)
      BY <2>2, <1>1
    <3> QED BY <3>1, <1>1 DEF Stack, Lifted
  <2>3. ASSUME NEW n \in Nat, n > 1 PROVE n = 2 \/ n > 2
    BY <2>3
  <2> QED BY <2>1, <2>2, <2>3, <1>1
<1>5. \A i \in 1..Len(Code) : Code[i] # Unreachable
  <2>1. \A i \in 1..Top.at - 1 : Code[i] # Unreachable
    BY <1>1 DEF Placed
  <2>2. Top.at - 1 = Len(Code)
    BY <1>1, <1>2
  <2> QED BY <2>1, <2>2
<1>6. Top.block \in Blocks(module, Top.fn) /\ Top.fn \in DOMAIN module \ {Rt}
  BY <1>1, <1>4 DEF Placed
<1>7. flow.out[Top.fn] \subseteq Kept(Top.fn, Top.block, Top.at)
  BY <1>1, <1>2, <1>3, <1>5, <1>6, KeptReturn
<1> QED BY <1>1, <1>2, <1>3, <1>7 DEF Sync

LEMMA ReturnFromWrapper ==
  ASSUME IInv, Return, Len(frames) = 2
  PROVE  IInv'
<1>1. /\ Running /\ AtEndOfBlock /\ UNCHANGED <<module, analysis>> /\ env' = env
      /\ module[Top.fn][Top.block].next = {}
      /\ UNCHANGED <<module, analysis, regs, locals, todo>>
  BY DEF Return, AtEndOfBlock
<1>2. Ready /\ Stack /\ Sync /\ Top.fn = Wrapper /\ Top \in FrameType /\ Placed(Top)
  BY <1>1, TopFacts
<1>3. Len(frames) = 0 + 2 /\ module \in Modules
  BY <1>2 DEF Ready, Types
<1>4. /\ Len(Below) = 0 + 1 /\ Below[Len(Below)] = frames[0 + 1] /\ frames[0 + 1] \in FrameType
      /\ frames[0 + 1].at <= Len(CodeAt(frames[0 + 1])) /\ Placed(frames[0 + 1])
      /\ CodeAt(frames[0 + 1])[frames[0 + 1].at] = I("call", Top.fn)
  BY <1>1, <1>3, CallerFacts
<1> DEFINE c == frames[1]
<1>5. /\ Below # <<>> /\ Below[Len(Below)] = c /\ c \in FrameType /\ c.fn = Rt
      /\ c.at <= Len(CodeAt(c)) /\ CodeAt(c)[c.at] = I("call", Wrapper) /\ Placed(c)
  <2>1. 0 + 1 = 1
    OBVIOUS
  <2>2. Below # <<>>
    BY <2>1, <1>4
  <2>3. c.fn = Rt
    BY <1>2 DEF Stack
  <2> QED BY <2>1, <2>2, <2>3, <1>2, <1>4
<1>6. /\ frames' = Append(SubSeq(Below, 1, Len(Below) - 1),
                          Moved([Below[Len(Below)] EXCEPT !.local = c.local]))
      /\ genv' = Top.local /\ step' = step
  BY <1>2, <1>5 DEF Return
<1>7. c.local \in Register /\ Top.local \in Register
  BY <1>2, <1>5 DEF FrameType
<1>8. c.at = 2
  <2>1. c.block = 1
    BY <1>3, <1>5, RuntimeCode DEF Placed
  <2>2. CodeAt(c) = module[Rt][1].code
    BY <2>1, <1>5 DEF CodeAt
  <2> HIDE DEF c
  <2>3. /\ Len(CodeAt(c)) = 3 /\ CodeAt(c)[1] = I("store", "R_ESP")
        /\ CodeAt(c)[3] = I("load", "R_EAX")
    BY <2>2, <1>3, RuntimeCode
  <2>4. CodeAt(c)[1].op # "call" /\ CodeAt(c)[3].op # "call" /\ CodeAt(c)[c.at].op = "call"
    BY <2>3, <1>5 DEF I
  <2>5. c.at \in 1..3 + 1 /\ c.at <= 3
    BY <2>3, <1>5 DEF Placed
  <2>6. c.at \in {1, 2, 3}
    BY <2>5
  <2> QED BY <2>4, <2>6
<1> HIDE DEF c
<1>9. /\ Stack' /\ Len(frames') = 0 + 1 /\ Top'.at = frames[0 + 1].at + 1
  BY <1>1, <1>3, <1>6, <1>7, StackShrinks
<1>10. Len(frames') = 1 /\ Top'.at = 3
  BY <1>8, <1>9 DEF c
<1>11. "R_EAX" \in Kept(Top.fn, Top.block, Top.at)
  <2>1. Top.block = 1
    BY <1>2, <1>3, RuntimeCode DEF Placed
  <2>2. Top.at = 2
    <3>1. Top.at = Len(module[Wrapper][1].code) + 1
      BY <1>1, <1>2, <1>3, <2>1, ResultsAgree
    <3>2. Len(module[Wrapper][1].code) = 1
      BY <1>3, RuntimeCode
    <3> QED BY <3>1, <3>2
  <2> QED BY <2>1, <2>2, <1>2, KeptResult
<1>12. genv'["R_EAX"] = env'["R_EAX"]
  BY <1>1, <1>2, <1>6, <1>11 DEF Sync
<1>13. Sync'
  BY <1>10, <1>12 DEF Sync
<1>14. genv' \in Register /\ env' \in [Regs -> Values]
  BY <1>1, <1>2, <1>6, <1>7 DEF Ready, Types
<1> QED BY <1>1, <1>6, <1>9, <1>13, <1>14, RunStep DEF Running
LEMMA ReturnFromFunction ==
  ASSUME IInv, Return, NEW n \in Nat, Len(frames) = n + 2, n > 0
  PROVE  IInv'
<1> DEFINE c == frames[n + 1]
           g == Top.fn
           l == Results(g, Top.local, c.local)
<1>1. /\ Running /\ AtEndOfBlock /\ UNCHANGED <<module, analysis>> /\ env' = env
      /\ module[Top.fn][Top.block].next = {}
      /\ UNCHANGED <<module, analysis, regs, locals, todo>>
  BY DEF Return, AtEndOfBlock
<1>2. /\ Ready /\ Stack /\ Sync /\ Top \in FrameType /\ Top = frames[n + 2]
      /\ g \in Lifted /\ g \in DOMAIN module /\ module \in Modules /\ g # Wrapper
  <2>1. n + 2 > 2
    OBVIOUS
  <2> QED BY <2>1, <1>1, TopFacts DEF Ready, Types, Lifted
<1>3. /\ Len(Below) = n + 1 /\ Below[Len(Below)] = c /\ c \in FrameType /\ Placed(c)
      /\ c.at <= Len(CodeAt(c)) /\ CodeAt(c)[c.at] = I("call", g)
  BY <1>1, CallerFacts
<1>4. Below # <<>>
  <2>1. n + 1 # 0
    OBVIOUS
  <2> QED BY <2>1, <1>3
<1>5. /\ frames' = Append(SubSeq(Below, 1, Len(Below) - 1),
                          Moved([Below[Len(Below)] EXCEPT !.local = l]))
      /\ genv' = genv /\ step' = step
  BY <1>2, <1>3, <1>4 DEF Return
<1>6. c.local \in Register /\ Top.local \in Register
  BY <1>2, <1>3 DEF FrameType
<1>7. regs[g].out = flow.out[g]
  BY <1>2, InterfaceOf
<1>8. /\ l \in Register
      /\ \A r \in Regs : l[r] = IF r \in flow.out[g] THEN Top.local[r] ELSE c.local[r]
  <2> HIDE DEF c, g
  <2> QED BY <1>6, <1>7 DEF Results, Register
<1> HIDE DEF l, c, g
<1>9. /\ Stack' /\ Len(frames') = n + 1 /\ Top'.fn = c.fn /\ Top'.block = c.block
      /\ Top'.at = c.at + 1 /\ Top'.local = l /\ frames'[n + 1] = Top'
      /\ \A i \in 1..n : frames'[i] = frames[i]
  BY <1>1, <1>5, <1>8, StackShrinks DEF c
<1>10. flow' = flow /\ \A f, b, k : Kept(f, b, k)' = Kept(f, b, k)
  BY <1>1, Unmoved DEF analysis
<1>11. \A r \in flow.out[g] : Top.local[r] = env[r]
  <2>1. n + 2 > 1
    OBVIOUS
  <2> QED BY <2>1, <1>1, ResultsAgree DEF g
<1>12. \A r \in Kept(c.fn, c.block, c.at + 1) \ flow.out[g] : c.local[r] = env[r]
  <2>1. n + 1 \in 2..(n + 2) - 1 /\ (n + 1) + 1 = n + 2
    OBVIOUS
  <2> QED BY <2>1, <1>2 DEF Sync, c, g
<1>13. Kept(c.fn, c.block, c.at + 1) \subseteq Regs
  BY <1>2, LiveRegs, WfRuntime DEF Kept, Live, Ready, Types
<1>14. \A r \in Kept(c.fn, c.block, c.at + 1) : l[r] = env[r]
  BY <1>8, <1>11, <1>12, <1>13
<1>15. \A i \in 2..(n + 1) - 1 :
         \A r \in Kept(frames[i].fn, frames[i].block, frames[i].at + 1)'
                    \ flow.out[frames[i + 1].fn]' :
           frames'[i].local[r] = env'[r]
  <2> SUFFICES ASSUME NEW i \in 2..(n + 1) - 1,
                      NEW r \in Kept(frames'[i].fn, frames'[i].block, frames'[i].at + 1)
                                  \ flow.out[frames'[i + 1].fn]
               PROVE  frames'[i].local[r] = env[r]
    BY <1>1, <1>10
  <2>1. i \in 1..n /\ (i + 1 \in 1..n \/ i + 1 = n + 1) /\ i \in 2..(n + 2) - 1
    OBVIOUS
  <2>2. frames'[i] = frames[i] /\ frames'[i + 1].fn = frames[i + 1].fn
    BY <2>1, <1>9 DEF c
  <2> QED BY <2>1, <2>2, <1>2 DEF Sync
<1>16. Sync'
  <2>1. \A r \in Kept(Top.fn, Top.block, Top.at)' : Top'.local[r] = env'[r]
    BY <1>1, <1>9, <1>10, <1>14
  <2>2. n + 1 > 1 /\ n + 1 # 1
    OBVIOUS
  <2> QED BY <2>1, <2>2, <1>9, <1>15 DEF Sync
<1> QED BY <1>1, <1>2, <1>5, <1>9, <1>16, RunStep DEF Running, Ready, Types

LEMMA ReturnStep ==
  ASSUME IInv, Return
  PROVE  IInv'
<1>1. Len(frames) \in Nat \ {0}
  BY TopFacts DEF Return, AtEndOfBlock
<1>2. \A k \in Nat \ {0} : k = 1 \/ k = 2 \/ (k - 2 \in Nat /\ k = (k - 2) + 2 /\ k - 2 > 0)
  OBVIOUS
<1>3. CASE Len(frames) = 1
  BY <1>3, ReturnFromMain
<1>4. CASE Len(frames) = 2
  BY <1>4, ReturnFromWrapper
<1>5. CASE Len(frames) - 2 \in Nat /\ Len(frames) = (Len(frames) - 2) + 2 /\ Len(frames) - 2 > 0
  BY <1>5, ReturnFromFunction
<1> QED BY <1>1, <1>2, <1>3, <1>4, <1>5

-----------------------------------------------------------------------------
(* The pass itself.                                                        *)
LEMMA InitIInv == Init => IInv
<1> SUFFICES ASSUME Init PROVE IInv
  OBVIOUS
<1>1. module \in Modules /\ step = "defs" /\ frames = <<>> /\ genv = env
  BY DEF Init
<1>2. \A f \in DOMAIN module : Stores(module, f) \subseteq Regs
  BY <1>1, NamedRegs
<1>3. flow.in = [f \in DOMAIN module |-> {}] /\ flow.out = [f \in DOMAIN module |-> {}]
  BY DEF Init, Nothing
<1>4. env \in [Regs -> Values] /\ genv \in Register
  BY ModulesAssumption DEF Init, Register
<1>5. must \in [DOMAIN module -> SUBSET Regs] /\ may \in [DOMAIN module -> SUBSET Regs]
  BY <1>2 DEF Init
<1>6. Types
  BY <1>1, <1>3, <1>4, <1>5 DEF Types
<1>7. Stable
  BY DEF Init, Stable
<1>8. Signatures
  BY DEF Init, Signatures
<1> QED BY <1>1, <1>6, <1>7, <1>8 DEF IInv, Runs

LEMMA DefineStep ==
  ASSUME IInv, DefineRound
  PROVE  IInv'
<1>1. /\ step = "defs" /\ must' = MustRound(module, must) /\ may' = MayRound(module, may)
      /\ step' = (IF must' = must /\ may' = may THEN "live" ELSE step)
      /\ UNCHANGED <<module, flow, regs, locals, todo, env, genv, frames>>
  BY DEF DefineRound
<1>2. Types /\ Stable /\ module \in Modules /\ may \in [DOMAIN module -> SUBSET Regs]
  BY DEF IInv, Types
<1>3. must' \in [DOMAIN module -> SUBSET Regs]
  BY <1>1 DEF MustRound, get_must_defs
<1>4. /\ may' \in [DOMAIN module -> SUBSET Regs]
      /\ \A f \in DOMAIN module : Stores(module, f) \subseteq may'[f]
  <2>1. \A f \in DOMAIN module : Calls(module, f) \subseteq DOMAIN module
    BY <1>2, NamedRegs
  <2>2. \A f \in DOMAIN module : Stores(module, f) \subseteq may[f]
    BY <1>2 DEF Stable
  <2> QED BY <1>1, <1>2, <2>1, <2>2 DEF MayRound
<1>5. Types'
  BY <1>1, <1>2, <1>3, <1>4 DEF Types, Register
<1>6. Stable'
  <2>1. step' # "defs" => step' = "live" /\ may' = may
    BY <1>1
  <2>2. step' # "defs" => may' = MayRound(module', may')
    BY <1>1, <2>1
  <2>3. step' \in {"defs", "live"} /\ regs' = Empty
    BY <1>1, <1>2 DEF Stable
  <2> QED BY <1>1, <1>4, <2>2, <2>3 DEF Stable
<1>7. Signatures' /\ Runs'
  <2>1. step' \in {"defs", "live"}
    BY <1>1
  <2>2. locals' = Empty /\ todo' = {} /\ frames' = <<>> /\ genv' = env'
    BY <1>1 DEF IInv, Signatures, Runs
  <2> QED BY <2>1, <2>2 DEF Signatures, Runs
<1> QED BY <1>5, <1>6, <1>7 DEF IInv
LEMMA LivenessStep ==
  ASSUME IInv, LiveRound
  PROVE  IInv'
<1>1. /\ step = "live" /\ flow' = LivenessRound(module, must, may, flow)
      /\ UNCHANGED <<module, must, may, locals, todo, env, genv, frames>>
      /\ IF flow' = flow THEN step' = "update" /\ regs' = InputOutputRegs(module, flow)
         ELSE UNCHANGED <<step, regs>>
  BY DEF LiveRound
<1>2. /\ Types /\ Stable /\ module \in Modules
      /\ flow.out \in [DOMAIN module -> SUBSET Regs]
  BY DEF IInv, Types
<1> DEFINE L == [f \in DOMAIN module |->
                   [b \in Blocks(module, f) |-> LiveAt(module, flow, must, f, b, 1)]]
           O == [g \in DOMAIN module |-> flow.out[g] \cup
                   UNION {Wanted(must[g], may[g], LiveAt(module, flow, must, s[1], s[2], s[3] + 1)) :
                            s \in Sites(module, g)}]
<1>3. flow'.in = [f \in DOMAIN module |-> L[f][1]] /\ flow'.out = O
  <2>1. flow' = [live |-> L, in |-> [f \in DOMAIN module |-> L[f][1]], out |-> O]
    BY <1>1 DEF LivenessRound
  <2> HIDE DEF L, O
  <2> QED BY <2>1
<1>4. \A f \in DOMAIN module : L[f][1] \in SUBSET Regs
  <2> SUFFICES ASSUME NEW f \in DOMAIN module PROVE L[f][1] \subseteq Regs
    OBVIOUS
  <2>1. L[f][1] = LiveAt(module, flow, must, f, 1, 1)
    BY <1>2, Wf
  <2> QED BY <2>1, LiveRegs
<1>5. \A g \in DOMAIN module : O[g] \in SUBSET Regs
  <2> SUFFICES ASSUME NEW g \in DOMAIN module PROVE O[g] \subseteq Regs
    OBVIOUS
  <2>1. \A s : Wanted(must[g], may[g], LiveAt(module, flow, must, s[1], s[2], s[3] + 1)) \subseteq Regs
    BY LiveRegs DEF Wanted
  <2>2. UNION {Wanted(must[g], may[g], LiveAt(module, flow, must, s[1], s[2], s[3] + 1)) :
                 s \in Sites(module, g)} \subseteq Regs
    BY <2>1
  <2>3. flow.out[g] \subseteq Regs
    BY <1>2
  <2> QED BY <2>2, <2>3
<1> HIDE DEF L
<1>6. /\ flow'.in \in [DOMAIN module -> SUBSET Regs]
      /\ flow'.out \in [DOMAIN module -> SUBSET Regs]
  <2>1. flow'.in \in [DOMAIN module -> SUBSET Regs]
    BY <1>3, <1>4
  <2>2. O \in [DOMAIN module -> SUBSET Regs]
    BY <1>5
  <2> HIDE DEF O
  <2> QED BY <2>1, <2>2, <1>3
<1> HIDE DEF O
<1>7. step' \in {"live", "update"}
  BY <1>1
<1>8. Types'
  BY <1>1, <1>2, <1>6, <1>7 DEF Types, Register
<1>9. Stable'
  <2>1. /\ \A f \in DOMAIN module : Stores(module, f) \subseteq may[f]
        /\ may = MayRound(module, may) /\ regs = Empty
    BY <1>1, <1>2 DEF Stable
  <2>2. CASE flow' = flow
    <3>1. step' = "update" /\ regs' = InputOutputRegs(module, flow)
      BY <2>2, <1>1
    <3> QED BY <2>1, <2>2, <3>1, <1>1 DEF Stable
  <2>3. CASE flow' # flow
    <3>1. step' = "live" /\ regs' = regs
      BY <2>3, <1>1
    <3> QED BY <2>1, <3>1, <1>1 DEF Stable
  <2> QED BY <2>2, <2>3
<1>10. Signatures' /\ Runs'
  <2>1. locals' = Empty /\ todo' = {} /\ frames' = <<>> /\ genv' = env'
    BY <1>1 DEF IInv, Signatures, Runs
  <2> QED BY <1>7, <2>1 DEF Signatures, Runs
<1> QED BY <1>8, <1>9, <1>10 DEF IInv

LEMMA UpdateStep ==
  ASSUME IInv, UpdateSignatures
  PROVE  IInv'
<1>1. /\ step = "update" /\ step' = "replace" /\ todo' = Lifted
      /\ locals' = [f \in DOMAIN module \ {Rt} |->
                      IF f = Wrapper THEN Regs ELSE update_signature(f)]
      /\ module' = module /\ must' = must /\ may' = may /\ flow' = flow /\ regs' = regs
      /\ env' = env /\ genv' = genv /\ frames' = frames
  BY DEF UpdateSignatures, analysis
<1>2. Ready /\ module \in Modules
  BY <1>1 DEF IInv, Ready, Types
<1>3. Types'
  BY <1>1 DEF IInv, Types, Register
<1>4. Stable'
  BY <1>1 DEF IInv, Stable
<1>5. Signatures'
  <2>1. \A f \in DOMAIN module : regs[f].used \subseteq Regs
    BY <1>2, InterfaceOf
  <2>2. DOMAIN locals' = DOMAIN module \ {Rt} /\ locals'[Wrapper] = Regs
    BY <1>1, <1>2, WfRuntime
  <2>3. \A f \in DOMAIN locals' : locals'[f] \subseteq Regs
    BY <1>1, <2>1, <2>2 DEF update_signature
  <2>4. \A f \in Lifted : regs[f].used \subseteq locals'[f]
    BY <1>1 DEF update_signature, Lifted
  <2>5. Lifted' = Lifted
    BY <1>1 DEF Lifted
  <2> QED BY <1>1, <2>2, <2>3, <2>4, <2>5 DEF Signatures
<1>6. Runs'
  BY <1>1 DEF IInv, Runs
<1> QED BY <1>3, <1>4, <1>5, <1>6 DEF IInv

LEMMA ReplaceStep ==
  ASSUME IInv, ReplaceCalls
  PROVE  IInv'
<1>1. /\ step = "replace"
      /\ module' = module /\ must' = must /\ may' = may /\ flow' = flow /\ regs' = regs
      /\ env' = env /\ genv' = genv /\ frames' = frames
  BY DEF ReplaceCalls, analysis
<1>2. PICK g \in todo :
        /\ todo' = todo \ {g}
        /\ \/ step' = "crashed" /\ locals' = locals
           \/ /\ step' = step
              /\ locals' = [f \in DOMAIN locals |->
                              IF f \in Callers(g) THEN WithArgs(f, g) ELSE locals[f]]
  BY DEF ReplaceCalls
<1>3. step' \in {"replace", "crashed"}
  BY <1>1, <1>2
<1>4. Ready /\ Signatures /\ module \in Modules
  BY <1>1 DEF IInv, Ready, Types
<1>5. Types'
  BY <1>1, <1>3 DEF IInv, Types, Register
<1>6. Stable'
  BY <1>1, <1>3 DEF IInv, Stable
<1>7. Signatures'
  <2>1. /\ todo \subseteq Lifted /\ DOMAIN locals = DOMAIN module \ {Rt}
        /\ \A f \in DOMAIN locals : locals[f] \subseteq Regs
        /\ locals[Wrapper] = Regs
        /\ \A f \in Lifted : regs[f].used \subseteq locals[f]
    BY <1>1, <1>4 DEF Signatures
  <2>2. regs[g].in \subseteq Regs
    <3>1. g \in DOMAIN module
      BY <1>2, <2>1 DEF Lifted
    <3>2. regs[g].in = flow.in[g] /\ flow.in[g] \subseteq Regs
      BY <3>1, <1>4, InterfaceOf DEF Ready, Types
    <3> QED BY <3>2
  <2>3. DOMAIN locals' = DOMAIN locals
    BY <1>2
  <2>4. \A f \in DOMAIN locals : locals[f] \subseteq locals'[f] /\ locals'[f] \subseteq Regs
    BY <1>2, <2>1, <2>2 DEF WithArgs
  <2>5. Wrapper \in DOMAIN locals /\ Lifted \subseteq DOMAIN locals
    BY <2>1, <1>4, WfRuntime DEF Lifted
  <2>6. locals'[Wrapper] = Regs /\ \A f \in Lifted : regs[f].used \subseteq locals'[f]
    BY <2>1, <2>4, <2>5
  <2>7. Lifted' = Lifted /\ todo' \subseteq Lifted
    BY <1>1, <1>2, <2>1 DEF Lifted
  <2> QED BY <1>1, <1>3, <2>1, <2>3, <2>4, <2>6, <2>7 DEF Signatures
<1>8. Runs'
  BY <1>1, <1>3 DEF IInv, Runs
<1> QED BY <1>5, <1>6, <1>7, <1>8 DEF IInv

LEMMA StartStep ==
  ASSUME IInv, Start
  PROVE  IInv'
<1>1. /\ step = "replace" /\ step' = "run" /\ frames' = <<Frame(Rt, NoLocals)>>
      /\ module' = module /\ must' = must /\ may' = may /\ flow' = flow /\ regs' = regs
      /\ locals' = locals /\ todo' = todo /\ env' = env /\ genv' = genv
  BY DEF Start, analysis
<1>2. Types /\ module \in Modules
  BY DEF IInv, Types
<1>3. Types'
  BY <1>1, <1>2 DEF Types, Register
<1>4. Stable'
  BY <1>1 DEF IInv, Stable
<1>5. Signatures'
  BY <1>1 DEF IInv, Signatures, Lifted
<1> DEFINE t == Frame(Rt, NoLocals)
<1>6. t \in FrameType /\ t.fn = Rt /\ t.block = 1 /\ t.at = 1
  BY <1>2, WfRuntime DEF Frame, FrameType, NoLocals, Register
<1> HIDE DEF t
<1>7. Placed(t)
  <2>1. CodeAt(t) = module[Rt][1].code /\ 1 \in Blocks(module, Rt)
    BY <1>2, <1>6, RuntimeCode DEF CodeAt
  <2>2. Len(CodeAt(t)) = 3
    BY <2>1, <1>2, RuntimeCode
  <2>3. t.at \in 1..Len(CodeAt(t)) + 1 /\ 1..t.at - 1 = {}
    BY <2>2, <1>6
  <2> QED BY <2>1, <2>3, <1>6 DEF Placed
<1>8. frames' = <<t>> /\ Len(frames') = 1 /\ frames'[1] = t /\ frames' \in Seq(FrameType)
  BY <1>1, <1>6 DEF t
<1>9. Stack'
  <2>1. /\ \A fr : Placed(fr)' <=> Placed(fr)
        /\ FrameType' = FrameType
    BY <1>1, Unmoved DEF analysis
  <2>2. (\A i \in 1..1 : i = 1) /\ 1..1 - 1 = {} /\ 3..1 = {} /\ 1 > 0 /\ ~(1 > 1)
    OBVIOUS
  <2> QED BY <1>6, <1>7, <1>8, <2>1, <2>2 DEF Stack
<1>10. Sync'
  <2>1. Top' = t /\ genv' = env'
    BY <1>1, <1>8 DEF Top, IInv, Runs
  <2>2. 2..1 - 1 = {} /\ ~(1 > 1)
    OBVIOUS
  <2> QED BY <2>1, <2>2, <1>6, <1>8 DEF Sync
<1> QED BY <1>1, <1>3, <1>4, <1>5, <1>9, <1>10 DEF IInv, Runs

LEMMA NextIInv ==
  ASSUME IInv, [Next]_vars
  PROVE  IInv'
<1>1. CASE Store
  BY <1>1, StoreInMain, StoreInFunction
<1>2. CASE CallFunction
  BY <1>2, CallMain, CallOther
<1>3. CASE UNCHANGED vars
  <2>1. /\ UNCHANGED <<module, analysis>> /\ step' = step /\ regs' = regs /\ locals' = locals
        /\ todo' = todo /\ env' = env /\ genv' = genv /\ frames' = frames
        /\ module' = module /\ must' = must /\ may' = may /\ flow' = flow
    BY <1>3 DEF vars, analysis
  <2>2. Types' /\ Stable'
    BY <2>1 DEF IInv, Types, Stable, Register
  <2>3. Signatures'
    BY <2>1 DEF IInv, Signatures, Lifted
  <2>4. FrameType' = FrameType /\ Lifted' = Lifted /\ Top' = Top
        /\ (\A fr : CodeAt(fr)' = CodeAt(fr)) /\ (\A fr : Placed(fr)' <=> Placed(fr))
        /\ \A f, b, k : Kept(f, b, k)' = Kept(f, b, k)
    BY <2>1, Unmoved DEF Top
  <2>5. Stack => Stack'
    BY <2>1, <2>4 DEF Stack
  <2>6. Sync => Sync'
    BY <2>1, <2>4 DEF Sync
  <2>7. Runs'
    BY <2>1, <2>5, <2>6 DEF IInv, Runs
  <2> QED BY <2>2, <2>3, <2>7 DEF IInv
<1> QED BY <1>1, <1>2, <1>3, DefineStep, LivenessStep, UpdateStep, ReplaceStep, StartStep,
           LoadStep, BranchStep, ReturnStep DEF Next

-----------------------------------------------------------------------------
(* The results.                                                            *)
THEOREM RegistersAgree == Spec => []IInv
<1>1. IInv /\ [Next]_vars => IInv'
  BY NextIInv
<1> QED BY InitIInv, <1>1, PTL DEF Spec

\* The rewritten program reads what the program read, in every module, whatever its
\* calls, branches and loops, and however deep its recursion.
THEOREM LoadsLastStore == Spec => []ReadsLastWrite
<1>1. IInv => ReadsLastWrite
  <2> SUFFICES ASSUME IInv, NextIs("load")
               PROVE  Read(Code[Top.at].of) = env[Code[Top.at].of]
    BY DEF ReadsLastWrite
  <2> DEFINE r == Code[Top.at].of
  <2>1. /\ Running /\ module \in Modules /\ Top.block \in Blocks(module, Top.fn)
        /\ Top.at \in 1..Len(module[Top.fn][Top.block].code)
        /\ module[Top.fn][Top.block].code[Top.at].op = "load"
        /\ r = module[Top.fn][Top.block].code[Top.at].of
        /\ (Top.fn = Rt => Top.at = 3 /\ r = "R_EAX") /\ Top.fn # Wrapper
    BY NextFacts
  <2>2. /\ Ready /\ Sync /\ Len(frames) \in Nat \ {0} /\ Top.fn \in DOMAIN module
        /\ (Len(frames) = 1 => Top.fn = Rt) /\ (Len(frames) = 2 => Top.fn = Wrapper)
        /\ (Len(frames) > 2 => Top.fn \in Lifted)
    BY <2>1, TopFacts
  <2>3. CASE Top.fn = Rt
    <3>1. Rt \notin Lifted
      BY DEF Lifted
    <3>2. Len(frames) = 1
      <4>1. ASSUME NEW n \in Nat \ {0}, n # 2, ~(n > 2) PROVE n = 1
        BY <4>1
      <4> QED BY <4>1, <3>1, <2>1, <2>2, <2>3
    <3>3. genv[r] = env[r]
      BY <3>2, <2>1, <2>2, <2>3 DEF Sync
    <3> QED BY <3>1, <3>3, <2>3 DEF Read, Local
  <2>4. CASE Top.fn # Rt
    <3>1. Top.fn \in Lifted
      BY <2>1, <2>2, <2>4 DEF Lifted
    <3>2. r \in Kept(Top.fn, Top.block, Top.at) /\ r \in regs[Top.fn].used
      BY <3>1, <2>1, <2>2, KeptLoad
    <3>3. r \in locals[Top.fn]
      BY <3>1, <3>2, <2>1 DEF IInv, Signatures, Running
    <3>4. Len(frames) > 1
      <4>1. ASSUME NEW n \in Nat \ {0}, n # 1 PROVE n > 1
        BY <4>1
      <4> QED BY <4>1, <2>2, <2>4
    <3>5. Top.local[r] = env[r]
      BY <3>2, <3>4, <2>2 DEF Sync
    <3> QED BY <3>1, <3>3, <3>5 DEF Read, Local
  <2> QED BY <2>3, <2>4
<1> QED BY RegistersAgree, <1>1, PTL
\* The pass crashes only for a register that some function is to hand back and that a
\* caller of it neither mentions nor passes on.
THEOREM CrashNeedsForeign == Spec => []CrashesOnlyOnForeign
<1>1. Init => CrashesOnlyOnForeign
  BY DEF Init, CrashesOnlyOnForeign
<1>2. IInv /\ CrashesOnlyOnForeign /\ [Next]_vars => CrashesOnlyOnForeign'
  <2> SUFFICES ASSUME IInv, CrashesOnlyOnForeign, [Next]_vars, step' = "crashed"
               PROVE  CrashesOnlyOnForeign'
    BY DEF CrashesOnlyOnForeign
  <2>1. CASE ReplaceCalls
    <3>1. PICK g \in todo : \E f \in Callers(g) : ~(regs[g].out \subseteq WithArgs(f, g))
      BY <2>1 DEF ReplaceCalls
    <3>2. PICK f \in Callers(g) : ~(regs[g].out \subseteq WithArgs(f, g))
      BY <3>1
    <3>3. PICK r \in regs[g].out : r \notin locals[f]
      BY <3>2 DEF WithArgs
    <3>4. step = "replace" /\ module' = module /\ regs' = regs /\ locals' = locals
      BY <2>1 DEF ReplaceCalls
    <3>5. Ready /\ Signatures
      BY <3>4 DEF IInv, Ready
    <3>6. /\ g \in Lifted /\ f \in DOMAIN module \ {Rt} /\ locals[Wrapper] = Regs
          /\ \A h \in Lifted : regs[h].used \subseteq locals[h]
      BY <3>2, <3>4, <3>5 DEF Signatures, Callers
    <3>7. r \in Regs
      <4>1. g \in DOMAIN module
        BY <3>6 DEF Lifted
      <4>2. regs[g].out = flow.out[g] /\ flow.out[g] \subseteq Regs
        BY <4>1, <3>5, InterfaceOf DEF Ready, Types
      <4> QED BY <4>2
    <3>8. f \in Lifted /\ r \notin regs[f].used
      BY <3>3, <3>6, <3>7 DEF Lifted
    <3>9. r \notin regs[f].in \cup regs[f].out \cup Loads(module, f) \cup Stores(module, f)
      BY <3>5, <3>6, <3>8, InterfaceOf
    <3>10. Lifted' = Lifted /\ Callers(g)' = Callers(g)
      BY <3>4 DEF Lifted, Callers
    <3> QED BY <3>2, <3>4, <3>6, <3>9, <3>10 DEF CrashesOnlyOnForeign
  <2>2. CASE step = "crashed"
    <3>1. module' = module /\ regs' = regs /\ locals' = locals
      BY <2>2 DEF Next, vars, DefineRound, LiveRound, UpdateSignatures, ReplaceCalls, Start,
                  Load, Store, CallFunction, Branch, Return, NextIs, AtEndOfBlock, Running
    <3>2. Lifted' = Lifted /\ \A g : Callers(g)' = Callers(g)
      BY <3>1 DEF Lifted, Callers
    <3> QED BY <2>2, <3>1, <3>2 DEF CrashesOnlyOnForeign
  <2>3. CASE ~ReplaceCalls /\ step # "crashed"
    BY <2>3 DEF Next, vars, DefineRound, LiveRound, UpdateSignatures, Start,
                Load, Store, CallFunction, Branch, Return, NextIs, AtEndOfBlock, Running
  <2> QED BY <2>1, <2>2, <2>3
<1> QED BY <1>1, <1>2, RegistersAgree, PTL DEF Spec

\* The state of the pass and of the programs has its type: signatures hand over only
\* registers that functions have variables for.
THEOREM RegisterTypes == Spec => []TypeOK
<1>1. IInv => TypeOK
  <2> SUFFICES ASSUME IInv PROVE TypeOK
    OBVIOUS
  <2>1. \A f \in DOMAIN regs : regs[f].in \cup regs[f].out \subseteq regs[f].used
    <3>1. CASE step \in {"defs", "live"}
      BY <3>1 DEF IInv, Stable, Empty
    <3>2. CASE step \notin {"defs", "live"}
      <4>1. Ready /\ regs = InputOutputRegs(module, flow)
        BY <3>2 DEF IInv, Ready, Stable
      <4>2. DOMAIN regs = DOMAIN module
        BY <4>1 DEF InputOutputRegs
      <4> QED BY <4>1, <4>2, InterfaceOf
    <3> QED BY <3>1, <3>2
  <2>2. (\A f \in DOMAIN locals : locals[f] \subseteq Regs) /\ todo \subseteq DOMAIN module
    <3>1. CASE step \in {"defs", "live", "update"}
      BY <3>1 DEF IInv, Signatures, Empty
    <3>2. CASE step \notin {"defs", "live", "update"}
      BY <3>2 DEF IInv, Types, Signatures, Lifted
    <3> QED BY <3>1, <3>2
  <2>3. \A i \in DOMAIN frames : /\ frames[i].block \in Blocks(module, frames[i].fn)
                                 /\ frames[i].local \in Register
    <3>1. CASE step \in {"run", "end"}
      <4>1. Stack
        BY <3>1 DEF IInv, Runs
      <4>2. DOMAIN frames = 1..Len(frames) /\ \A i \in DOMAIN frames : frames[i] \in FrameType
        BY <4>1 DEF Stack
      <4> QED BY <4>1, <4>2 DEF Stack, Placed, FrameType
    <3>2. CASE step \notin {"run", "end"}
      BY <3>2 DEF IInv, Runs
    <3> QED BY <3>1, <3>2
  <2> QED BY <2>1, <2>2, <2>3 DEF IInv, Types, TypeOK
<1> QED BY RegistersAgree, <1>1, PTL
=============================================================================
