-------------------------- MODULE GlobalEnvToAlloca --------------------------
(***************************************************************************)
(* GlobalEnvToAlloca turns the global registers of the recovered program   *)
(* into local variables, arguments and results of its functions.  Here a   *)
(* module is analysed and rewritten, and then the old and the new program  *)
(* run side by side, the old one on global registers.                      *)
(***************************************************************************)
EXTENDS RegisterFlow

CONSTANTS
  Modules,   \* the modules to choose from
  Values,    \* what registers may hold
  Undef,     \* what an uninitialised variable holds
  MaxFrames  \* bound on pending calls

\* The main of the run-time library, which is not rewritten, and what it calls.
Rt == "main"
Wrapper == "Func_wrapper"

\* main sets the stack pointer, runs the recovered program and returns its EAX.
MainCode == <<B(<<I("store", "R_ESP"), I("call", Wrapper), I("load", "R_EAX")>>, {})>>

\* The wrapper RecoverFunctions makes.
WrapperCode(f) == <<B(<<I("call", f)>>, {})>>

\* Library calls leave the registers alone and are left out.
Instruction(m) ==
  [op : {"load", "store"}, of : Regs] \cup [op : {"call"}, of : DOMAIN m]
    \cup {Unreachable}

WellFormed(m) ==
  \A f \in DOMAIN m :
    /\ m[f] \in Seq([code : Seq(Instruction(m)), next : SUBSET Nat]) /\ m[f] # <<>>
    /\ \A b \in Blocks(m, f) : m[f][b].next \subseteq Blocks(m, f)

\* Only the run-time library runs the program, and every block can be reached.
IsModule(m) ==
  /\ WellFormed(m)
  /\ {Rt, Wrapper} \subseteq DOMAIN m
  /\ m[Rt] = MainCode /\ \E f \in DOMAIN m : m[Wrapper] = WrapperCode(f)
  /\ \A f \in DOMAIN m : Calls(m, f) \cap {Rt, Wrapper} # {} => f = Rt
  /\ \A f \in DOMAIN m : \A b \in Blocks(m, f) : b = 1 \/ \E p \in 1..b - 1 : b \in m[f][p].next

ASSUME ModulesAssumption ==
  /\ \A m \in Modules : IsModule(m)
  /\ MaxFrames \in Nat
  /\ 0 \in Values /\ Undef \notin Values

VARIABLES
  module,  \* the module before the pass
  step,    \* what comes next
  must,    \* f_must_def of the analysis
  may,     \* f_may_def
  flow,    \* f_bb_live, f_in and f_out
  regs,    \* the result of the analysis
  locals,  \* FunctionRegisterMap::local_regs of each function
  todo,    \* functions whose calls are not yet replaced
  env,     \* the old program's registers
  genv,    \* the new program's global registers
  frames   \* pending calls: place in the code and the new program's local registers

analysis == <<must, may, flow>>
vars == <<module, step, must, may, flow, regs, locals, todo, env, genv, frames>>

\* Functions that get a new signature.
Lifted == DOMAIN module \ {Rt, Wrapper}

Empty == [x \in {} |-> x]

Register == [Regs -> Values \cup {Undef}]

TypeOK ==
  /\ module \in Modules
  /\ step \in {"defs", "live", "update", "replace", "crashed", "run", "end"}
  /\ must \in [DOMAIN module -> SUBSET Regs]
  /\ may \in [DOMAIN module -> SUBSET Regs]
  /\ \A f \in DOMAIN regs : regs[f].in \cup regs[f].out \subseteq regs[f].used
  /\ \A f \in DOMAIN locals : locals[f] \subseteq Regs
  /\ todo \subseteq DOMAIN module
  /\ env \in [Regs -> Values]
  /\ genv \in Register
  /\ \A i \in DOMAIN frames : /\ frames[i].block \in Blocks(module, frames[i].fn)
                              /\ frames[i].local \in Register

Init ==
  /\ module \in Modules
  /\ step = "defs"
  /\ must = [f \in DOMAIN module |-> {}]
  /\ may = [f \in DOMAIN module |-> Stores(module, f)]
  /\ flow = Nothing(module)
  /\ regs = Empty
  /\ locals = Empty
  /\ todo = {}
  /\ env = [r \in Regs |-> 0]
  /\ genv = env
  /\ frames = <<>>

\* get_input_output_regs: first what functions set, then which registers are live,
\* each until nothing changes.
DefineRound ==
  /\ step = "defs"
  /\ must' = MustRound(module, must)
  /\ may' = MayRound(module, may)
  /\ step' = IF must' = must /\ may' = may THEN "live" ELSE step
  /\ UNCHANGED <<module, flow, regs, locals, todo, env, genv, frames>>

LiveRound ==
  /\ step = "live"
  /\ flow' = LivenessRound(module, must, may, flow)
  /\ IF flow' = flow THEN step' = "update" /\ regs' = InputOutputRegs(module, flow)
     ELSE UNCHANGED <<step, regs>>
  /\ UNCHANGED <<module, must, may, locals, todo, env, genv, frames>>

\* A new function has variables for the registers it uses.
update_signature(f) == regs[f].used

\* The wrapper has variables for all.
UpdateSignatures ==
  /\ step = "update"
  /\ step' = "replace"
  /\ locals' = [f \in DOMAIN module \ {Rt} |->
                  IF f = Wrapper THEN Regs ELSE update_signature(f)]
  /\ todo' = Lifted
  /\ UNCHANGED <<module, analysis, regs, env, genv, frames>>

Callers(g) == {f \in DOMAIN locals : g \in Calls(module, f)}

\* The caller gets an uninitialised variable for an argument it has no register for.
WithArgs(f, g) == locals[f] \cup regs[g].in

\* The calls of a function, the functions in any order.  A register to be handed
\* back for which the caller has no variable makes the pass crash.
ReplaceCalls ==
  /\ step = "replace"
  /\ \E g \in todo :
       /\ todo' = todo \ {g}
       /\ IF \E f \in Callers(g) : ~(regs[g].out \subseteq WithArgs(f, g))
          THEN step' = "crashed" /\ UNCHANGED locals
          ELSE /\ locals' = [f \in DOMAIN locals |->
                               IF f \in Callers(g) THEN WithArgs(f, g) ELSE locals[f]]
               /\ UNCHANGED step
  /\ UNCHANGED <<module, analysis, regs, env, genv, frames>>

-----------------------------------------------------------------------------
(* Both programs run.                                                      *)
NoLocals == [r \in Regs |-> Undef]

Frame(f, local) == [fn |-> f, block |-> 1, at |-> 1, local |-> local]

Start ==
  /\ step = "replace"
  /\ todo = {}
  /\ step' = "run"
  /\ frames' = <<Frame(Rt, NoLocals)>>
  /\ UNCHANGED <<module, analysis, regs, locals, todo, env, genv>>

Top == frames[Len(frames)]
Code == module[Top.fn][Top.block].code
Below == SubSeq(frames, 1, Len(frames) - 1)
Moved(frame) == [frame EXCEPT !.at = @ + 1]
Running == step = "run" /\ frames # <<>>
NextIs(op) == Running /\ Top.at <= Len(Code) /\ Code[Top.at].op = op

\* Where the new program has a register of the running function.
Local(r) == Top.fn \in Lifted /\ r \in locals[Top.fn]
Read(r) == IF Local(r) THEN Top.local[r] ELSE genv[r]

Load ==
  /\ NextIs("load")
  /\ frames' = Append(Below, Moved(Top))
  /\ UNCHANGED <<module, step, analysis, regs, locals, todo, env, genv>>

Store ==
  /\ NextIs("store")
  /\ LET r == Code[Top.at].of IN
       \E v \in Values :
         /\ env' = [env EXCEPT ![r] = v]
         /\ IF Local(r)
            THEN /\ frames' = Append(Below, Moved([Top EXCEPT !.local[r] = v]))
                 /\ UNCHANGED genv
            ELSE /\ genv' = [genv EXCEPT ![r] = v]
                 /\ frames' = Append(Below, Moved(Top))
  /\ UNCHANGED <<module, step, analysis, regs, locals, todo>>

\* The registers a recovered function starts with, and those its caller has after it.
Arguments(g, caller) == [r \in Regs |-> IF r \in regs[g].in THEN caller[r] ELSE Undef]
Results(g, callee, caller) ==
  [r \in Regs |-> IF r \in regs[g].out THEN callee[r] ELSE caller[r]]

\* The wrapper copies the global registers, a recovered function gets its arguments.
CallFunction ==
  /\ NextIs("call")
  /\ Len(frames) < MaxFrames
  /\ LET g == Code[Top.at].of IN
       frames' = Append(frames,
         Frame(g, IF g = Wrapper THEN genv ELSE Arguments(g, Top.local)))
  /\ UNCHANGED <<module, step, analysis, regs, locals, todo, env, genv>>

AtEndOfBlock == Running /\ Top.at > Len(Code)

Branch ==
  /\ AtEndOfBlock
  /\ \E b \in module[Top.fn][Top.block].next :
       frames' = Append(Below, [Top EXCEPT !.block = b, !.at = 1])
  /\ UNCHANGED <<module, step, analysis, regs, locals, todo, env, genv>>

\* A recovered function hands its results back, the wrapper copies all registers.
Return ==
  /\ AtEndOfBlock
  /\ module[Top.fn][Top.block].next = {}
  /\ IF Below = <<>> THEN step' = "end" /\ UNCHANGED <<frames, genv>>
     ELSE LET caller == Below[Len(Below)]
              back   == IF Top.fn = Wrapper THEN caller.local
                        ELSE Results(Top.fn, Top.local, caller.local)
          IN  /\ frames' = Append(SubSeq(Below, 1, Len(Below) - 1),
                                  Moved([caller EXCEPT !.local = back]))
              /\ genv' = IF Top.fn = Wrapper THEN Top.local ELSE genv
              /\ UNCHANGED step
  /\ UNCHANGED <<module, analysis, regs, locals, todo, env>>

Next ==
  \/ DefineRound
  \/ LiveRound
  \/ UpdateSignatures
  \/ ReplaceCalls
  \/ Start
  \/ Load
  \/ Store
  \/ CallFunction
  \/ Branch
  \/ Return

Spec == Init /\ [][Next]_vars

-----------------------------------------------------------------------------
\* The rewritten program reads what the program read: whatever path it takes through
\* branches, loops, recursion and functions that set a register only sometimes, the
\* register a load (or the run-time library, for the exit status) takes is the one
\* that was written last.
ReadsLastWrite == NextIs("load") => Read(Code[Top.at].of) = env[Code[Top.at].of]

\* A register that is handed back has a variable in every caller, but for callers
\* that neither mention it nor have it pass through them.
CrashesOnlyOnForeign ==
  step = "crashed" =>
    \E g \in Lifted : \E f \in Callers(g) : \E r \in regs[g].out :
      r \notin regs[f].in \cup regs[f].out \cup Loads(module, f) \cup Stores(module, f)
=============================================================================
