---------------------------- MODULE LinkingProofs ----------------------------
(***************************************************************************)
(* The invariants of LiftCalls and Linking for any number of processes,    *)
(* directories and binaries, with calls that fail anywhere and directories *)
(* that are removed.  The inductive invariant says of every process what   *)
(* its work directory holds at each step of a call, and that no two        *)
(* processes share one.                                                    *)
(***************************************************************************)
EXTENDS Linking, TLAPS

\* Steps of a call that has a work directory.
Working == LinkSteps \ {"ended"}

\* What the steps of a call make of the binary b, and that no step refused it.
Object(b) == Assembled(get_ranges(b), copy_ranges(get_ranges(b)))
Assembling(b) == Assembles(get_ranges(b), copy_ranges(get_ranges(b)))
Output(b) == Placed(get_ranges(b), Object(b))

\* What is in the context and in the work directory of a call at each step.
Holds(q) ==
  /\ at[q] \in {"open", "copy_sections"} => Files(q) = << >>
  /\ at[q] \in {"make_object", "load_dependencies", "link_recovered_binary"} =>
       ctx[q].sections = get_ranges(binary[job[q]])
  /\ at[q] = "make_object" => Files(q) = copy_ranges(get_ranges(binary[job[q]]))
  /\ at[q] \in {"load_dependencies", "link_recovered_binary"} =>
       /\ Assembling(binary[job[q]])
       /\ Files(q)[<<"original.o">>] = Object(binary[job[q]])
  /\ at[q] \in {"stitch", "copy_file"} =>
       /\ Assembling(binary[job[q]])
       /\ Files(q)[<<"output">>] = Output(binary[job[q]])
       /\ Links(Output(binary[job[q]]))

\* A process has a work directory just while it is in a call.
Own(q) ==
  /\ at[q] \notin {"idle", "ended"} => job[q] \in TraceDirs
  /\ at[q] \in Working <=> ctx[q].dir # None
  /\ ctx[q].dir # None => ctx[q].dir \in DOMAIN work
  /\ Holds(q)

Owned == \A q \in Processes : Own(q)

NotShared ==
  \A p, q \in Processes : ctx[p].dir = ctx[q].dir /\ ctx[p].dir # None => p = q

\* A recovered binary is what a whole call made of the original one.
WholeCall ==
  \A t \in TraceDirs : recovered[t] # None =>
    Assembling(binary[t]) /\ recovered[t] = Output(binary[t]) /\ Links(Output(binary[t]))

\* What a step of a call has to preserve besides the types of _binrec_lift.
CallsInv ==
  /\ at \in [Processes -> LiftSteps \cup LinkSteps]
  /\ job \in [Processes -> TraceDirs \cup {None}]
  /\ binary \in [TraceDirs -> Binaries]
  /\ DOMAIN work \subseteq WorkDirs
  /\ ctx = [q \in Processes |-> [dir |-> ctx[q].dir, sections |-> ctx[q].sections]]
  /\ \A q \in Processes : ctx[q].dir \in WorkDirs \cup {None}
  /\ unread \subseteq WorkDirs
  /\ Owned
  /\ NotShared
  /\ WorkRemoved

LinkInv ==
  /\ TypeOK
  /\ Owned
  /\ NotShared
  /\ WorkRemoved
  /\ WholeCall
-----------------------------------------------------------------------------
(* Types of what the functions of _binrec_lift change.                     *)

\* The parts of the type invariant.
LEMMA LiftTypes ==
  ASSUME TypeOK
  PROVE  /\ LiftTypeOK
         /\ at \in [Processes -> LiftSteps \cup LinkSteps]
         /\ job \in [Processes -> TraceDirs \cup {None}]
         /\ binary \in [TraceDirs -> Binaries]
         /\ DOMAIN work \subseteq WorkDirs
         /\ ctx = [p \in Processes |-> [dir |-> ctx[p].dir, sections |-> ctx[p].sections]]
         /\ \A p \in Processes : ctx[p].dir \in WorkDirs \cup {None}
         /\ DOMAIN recovered = TraceDirs
         /\ unread \subseteq WorkDirs
BY Zenon DEF TypeOK

\* A context stays one when its limit is another.
LEMMA OtherLimit ==
  ASSUME NEW op \in Operations, NEW l \in Nat, NEW c \in BOOLEAN, NEW s \in BOOLEAN,
         NEW t \in BOOLEAN, NEW x, op # "lift" => ~c /\ ~s /\ ~t,
         x = [op |-> op, limit |-> l, clean_names |-> c, skip_link |-> s, trace_calls |-> t]
  PROVE  /\ x \in Context /\ x.op = op /\ x.limit = l
         /\ \A n \in Nat : [x EXCEPT !.limit = n] \in Context
<1>1. \A n \in Nat : [x EXCEPT !.limit = n] =
         [op |-> op, limit |-> n, clean_names |-> c, skip_link |-> s, trace_calls |-> t]
  OBVIOUS
<1>2. \A n \in Nat :
         [op |-> op, limit |-> n, clean_names |-> c, skip_link |-> s, trace_calls |-> t]
           \in Context
  BY DEF Context
<1> QED
  BY <1>1, <1>2

\* What the arguments are, and what the function makes of them.
LEMMA ArgumentsAreContexts ==
  ASSUME NEW a \in Arguments
  PROVE  /\ a \in Context
         /\ a.limit \in Limits
         /\ Parsed(a).limit \in {1} \cup Limits
         /\ \A n \in Nat : [Parsed(a) EXCEPT !.limit = n] \in Context
         /\ a.op # "lift" => Parsed(a) = a
         /\ Parsed(a).op = a.op
<1>1. PICK l \in Limits : \/ \E op \in Operations \ {"lift"} : a = Plain(op, l)
                          \/ \E f \in LiftFlags : a = lift(l, f)
  BY DEF Arguments, link_prep_1, link_prep_2, clean, optimize, optimize_better, compile_prep,
         Operations
<1>2. l \in Nat /\ 0 \in Limits
  BY LiftCallsAssumption
<1>3. CASE \E op \in Operations \ {"lift"} : a = Plain(op, l)
  <2>1. PICK op \in Operations : op # "lift" /\ a = Plain(op, l)
    BY <1>3
  <2>2. PICK no \in BOOLEAN : ~no
    OBVIOUS
  <2>3. a = [op |-> op, limit |-> l, clean_names |-> no, skip_link |-> no, trace_calls |-> no]
    BY <2>1, <2>2 DEF Plain
  <2>4. /\ a \in Context /\ a.op = op /\ a.limit = l
        /\ \A n \in Nat : [a EXCEPT !.limit = n] \in Context
    BY <1>2, <2>1, <2>2, <2>3, OtherLimit
  <2>5. Parsed(a) = a
    BY <2>1, <2>4 DEF Parsed
  <2> QED
    BY <2>1, <2>4, <2>5
<1>4. CASE \E f \in LiftFlags : a = lift(l, f)
  <2>1. PICK f \in BOOLEAN \X BOOLEAN \X BOOLEAN : a = lift(l, f)
    BY <1>4, LiftCallsAssumption
  <2>2. /\ f[1] \in BOOLEAN /\ f[2] \in BOOLEAN /\ f[3] \in BOOLEAN
        /\ "lift" \in Operations
    BY DEF Operations
  <2>3. PICK n \in {0, 1}, t \in BOOLEAN : n = (IF f[1] THEN 1 ELSE 0) /\ t = (l # 0)
    OBVIOUS
  <2>4. /\ a = [op |-> "lift", limit |-> l, clean_names |-> f[1], skip_link |-> f[2],
                trace_calls |-> f[3]]
        /\ Parsed(a) = [op |-> "lift", limit |-> n, clean_names |-> f[2],
                        skip_link |-> f[3], trace_calls |-> t]
    BY <2>1, <2>3 DEF lift, Parsed
  <2>5. a \in Context /\ a.op = "lift" /\ a.limit = l
    BY <1>2, <2>2, <2>4, OtherLimit
  <2>6. /\ Parsed(a).op = "lift" /\ Parsed(a).limit = n
        /\ \A m \in Nat : [Parsed(a) EXCEPT !.limit = m] \in Context
    <3>1. PICK x : x = Parsed(a)
      OBVIOUS
    <3>2. n \in Nat
      BY <2>3
    <3>3. x = [op |-> "lift", limit |-> n, clean_names |-> f[2], skip_link |-> f[3],
               trace_calls |-> t]
      BY <2>4, <3>1
    <3>4. /\ x.op = "lift" /\ x.limit = n
          /\ \A m \in Nat : [x EXCEPT !.limit = m] \in Context
      BY <2>2, <3>2, <3>3, OtherLimit
    <3> QED  BY <3>1, <3>4
  <2> QED
    BY <1>2, <2>5, <2>6
<1> QED
  BY <1>1, <1>3, <1>4

\* What a call of an extension function leaves in the process.
LEMMA CallTypes ==
  ASSUME NEW p \in Pythons, NEW a \in Arguments, NEW wd \in TraceDirs \cup {None},
         NEW result, LiftTypeOK, Call(p, a, wd, result)
  PROVE  /\ cwd' \in [Pythons -> Dirs]
         /\ limit' \in [Pythons -> ({DefaultLimit, 1} \cup Limits) \ {0}]
         /\ asked' \in [Pythons -> Context \cup {None}]
         /\ ran' \in [Pythons -> Context \cup {None}]
<1>1. /\ CallLimit(p, Parsed(a).limit) \in ({DefaultLimit, 1} \cup Limits) \ {0}
      /\ limit'[p] = CallLimit(p, Parsed(a).limit)
      /\ limit'[p] \in Nat
      /\ limit' \in [Pythons -> ({DefaultLimit, 1} \cup Limits) \ {0}]
  BY ArgumentsAreContexts, LiftCallsAssumption DEF CallLimit, Call, LiftTypeOK
<1>2. CASE wd \in dirs \cup {None}
  <2>1. [Parsed(a) EXCEPT !.limit = limit'[p]] \in Context /\ a \in Context
    BY <1>1, ArgumentsAreContexts
  <2>2. Restored(p, wd, result) \subseteq Dirs
    BY DEF Restored, LiftTypeOK, TraceDirs
  <2> QED
    BY <1>1, <1>2, <2>1, <2>2 DEF Call, LiftTypeOK
<1>3. CASE wd \notin dirs \cup {None}
  BY <1>1, <1>3 DEF Call, Forget, LiftTypeOK
<1> QED
  BY <1>2, <1>3

\* The preparation calls have legal arguments.
LEMMA PrepArguments == link_prep_1(0) \in Arguments /\ link_prep_2(0) \in Arguments
BY LiftCallsAssumption DEF Arguments
\* A step of the extension module changes the place of its own process only.
LEMMA LiftAt ==
  ASSUME TypeOK, NEW p \in Pythons, LiftNext(p), at[p] # "idle" => job[p] \in TraceDirs
  PROVE  \E s \in LiftSteps, j \in TraceDirs \cup {None} :
           /\ at[p] \in LiftSteps
           /\ at' = [at EXCEPT ![p] = s]
           /\ job' = [job EXCEPT ![p] = j]
           /\ s # "idle" => j \in TraceDirs
           /\ dirs' = dirs
<1> USE LiftTypes
<1>1. /\ p \in Processes
      /\ at \in [Processes -> LiftSteps \cup LinkSteps]
      /\ job \in [Processes -> TraceDirs \cup {None}]
  BY DEF Processes
<1> DEFINE Goes(s, j) ==
      /\ at[p] \in LiftSteps
      /\ at' = [at EXCEPT ![p] = s]
      /\ job' = [job EXCEPT ![p] = j]
      /\ s # "idle" => j \in TraceDirs
      /\ dirs' = dirs
<1>a. at = [at EXCEPT ![p] = at[p]] /\ job = [job EXCEPT ![p] = job[p]]
  BY <1>1
<1>b. job[p] \in TraceDirs \cup {None} /\ LiftSteps =
        {"idle", "first", "move first", "second", "move second"}
  BY <1>1 DEF LiftSteps
<1> SUFFICES \E s \in LiftSteps, j \in TraceDirs \cup {None} : Goes(s, j)
  OBVIOUS
<1>2. CASE LiftCall(p)
  <2>1. Goes("idle", job[p])
    BY <1>a, <1>b, <1>2 DEF LiftCall
  <2> QED  BY <1>b, <2>1
<1>3. CASE MakeTemp(p)
  <2>1. \E j \in TraceDirs : Goes("first", j)
    BY <1>b, <1>3 DEF MakeTemp
  <2> QED  BY <1>b, <2>1
<1>4. ASSUME NEW step \in {"first", "second"}, NEW a, NEW next \in {"move first", "move second"},
             Stage(p, step, a, next)
      PROVE  /\ at[p] \in LiftSteps /\ dirs' = dirs
             /\ \/ at' = [at EXCEPT ![p] = next] /\ job' = job
                \/ at' = [at EXCEPT ![p] = "idle"] /\ job' = [job EXCEPT ![p] = None]
  BY <1>4 DEF Stage, End, LiftSteps
<1>5. CASE FirstStage(p)
  <2>1. Stage(p, "first", link_prep_1(0), "move first") /\ at[p] = "first"
    BY <1>5 DEF FirstStage, Stage
  <2>2. Goes("move first", job[p]) \/ Goes("idle", None)
    BY <1>4, <1>a, <2>1
  <2> QED  BY <1>b, <2>2
<1>6. CASE SecondStage(p)
  <2>1. Stage(p, "second", link_prep_2(0), "move second") /\ at[p] = "second"
    BY <1>6 DEF SecondStage, Stage
  <2>2. Goes("move second", job[p]) \/ Goes("idle", None)
    BY <1>4, <1>a, <2>1
  <2> QED  BY <1>b, <2>2
<1>7. ASSUME NEW step \in {"move first", "move second"}, Move(p, step)
      PROVE  /\ at[p] \in LiftSteps /\ at[p] # "idle" /\ dirs' = dirs
             /\ \/ at' = [at EXCEPT ![p] = "second"] /\ job' = job
                \/ at' = [at EXCEPT ![p] = "idle"] /\ job' = [job EXCEPT ![p] = None]
  BY <1>7 DEF Move, Moves, MoveFails, End, LiftSteps
<1>8. CASE MoveFirst(p) \/ MoveSecond(p)
  <2>1. Goes("second", job[p]) \/ Goes("idle", None)
    BY <1>7, <1>8, <1>a DEF MoveFirst, MoveSecond
  <2> QED  BY <1>b, <2>1
<1> QED
  BY <1>2, <1>3, <1>5, <1>6, <1>8 DEF LiftNext

\* And the types of what it works on stay.
LEMMA LiftStepTypes ==
  ASSUME TypeOK, NEW p \in Pythons, LiftNext(p)
  PROVE  LiftTypeOK'
<1>1. LiftTypeOK /\ job[p] \in TraceDirs \cup {None}
  BY LiftTypes DEF Processes
<1>2. \A result : \A new \in Opened(result) : new \subseteq TempFiles
  BY DEF Opened, TempFiles
<1>3. ASSUME Forget(p)
      PROVE  /\ asked' \in [Pythons -> Context \cup {None}]
             /\ ran' \in [Pythons -> Context \cup {None}]
  BY <1>1, <1>3 DEF Forget, LiftTypeOK
<1>4. ASSUME End(p)
      PROVE  temps' \in [Pythons -> SUBSET TempFiles]
  BY <1>1, <1>4 DEF End, LiftTypeOK
<1>5. CASE LiftCall(p)
  <2>1. PICK a \in Arguments, wd \in TraceDirs \cup {None}, result \in Results :
          Call(p, a, wd, result)
    BY <1>5 DEF LiftCall
  <2> QED
    BY <1>1, <1>5, <2>1, CallTypes DEF LiftCall, LiftTypeOK
<1>6. CASE MakeTemp(p)
  BY <1>1, <1>3, <1>6 DEF MakeTemp, LiftTypeOK, TempFiles
<1>7. ASSUME NEW step, NEW a \in Arguments, NEW next, Stage(p, step, a, next)
      PROVE  LiftTypeOK'
  <2>1. PICK result \in Results : \E new \in Opened(result) :
       /\ Call(p, a, job[p], result)
       /\ IF result = "ok"
          THEN /\ at' = [at EXCEPT ![p] = next]
               /\ temps' = [temps EXCEPT ![p] = @ \cup new]
               /\ UNCHANGED <<job, leftover>>
          ELSE End(p) /\ leftover' = leftover \cup Kept(temps[p] \cup new)
    BY <1>7 DEF Stage
  <2>2. PICK new \in Opened(result) :
       /\ Call(p, a, job[p], result)
       /\ IF result = "ok"
          THEN /\ at' = [at EXCEPT ![p] = next]
               /\ temps' = [temps EXCEPT ![p] = @ \cup new]
               /\ UNCHANGED <<job, leftover>>
          ELSE End(p) /\ leftover' = leftover \cup Kept(temps[p] \cup new)
    BY <2>1
  <2>3. new \subseteq TempFiles /\ temps[p] \subseteq TempFiles
    BY <1>1, <1>2 DEF LiftTypeOK
  <2>4. Kept(temps[p] \cup new) \in SUBSET TempFiles
    BY <2>3 DEF Kept
  <2>5. temps' \in [Pythons -> SUBSET TempFiles] /\ leftover' \subseteq TempFiles
    <3>1. CASE result = "ok"
      BY <1>1, <2>2, <2>3, <3>1 DEF LiftTypeOK
    <3>2. CASE result # "ok"
      BY <1>1, <1>4, <2>2, <2>4, <3>2 DEF LiftTypeOK
    <3> QED  BY <3>1, <3>2
  <2>6. dirs' \subseteq Dirs /\ stranded' \subseteq TempFiles
    BY <1>1, <1>7 DEF Stage, LiftTypeOK
  <2> QED
    BY <1>1, <2>2, <2>5, <2>6, CallTypes DEF LiftTypeOK
<1>8. CASE FirstStage(p) \/ SecondStage(p)
  BY <1>7, <1>8, PrepArguments DEF FirstStage, SecondStage
<1>9. ASSUME NEW step, Move(p, step)
      PROVE  LiftTypeOK'
  <2>1. temps[p] \subseteq TempFiles
    BY <1>1 DEF LiftTypeOK
  <2>2. /\ temps' \in [Pythons -> SUBSET TempFiles]
        /\ leftover' \cup stranded' \subseteq TempFiles
    <3>1. leftover \cup stranded \subseteq TempFiles
      BY <1>1 DEF LiftTypeOK
    <3>2. CASE Moves(p, step) /\ step = "move second"
      BY <1>4, <2>1, <3>1, <3>2 DEF Moves
    <3>3. CASE Moves(p, step) /\ step # "move second"
      BY <1>1, <2>1, <3>1, <3>3 DEF Moves, LiftTypeOK
    <3>4. CASE MoveFails(p)
      BY <1>4, <2>1, <3>1, <3>4 DEF MoveFails
    <3> QED  BY <1>9, <3>2, <3>3, <3>4 DEF Move
  <2> QED
    BY <1>1, <1>3, <1>9, <2>2 DEF Move, LiftTypeOK
<1>10. CASE MoveFirst(p) \/ MoveSecond(p)
  BY <1>9, <1>10 DEF MoveFirst, MoveSecond
<1> QED
  BY <1>5, <1>6, <1>8, <1>10 DEF LiftNext
-----------------------------------------------------------------------------
(* A step of one process, as the others see it.                            *)

\* What a process owns does not change when neither it nor its directory does.
LEMMA OwnKept ==
  ASSUME NEW q \in Processes, Own(q), at'[q] = at[q], job'[q] = job[q], ctx'[q] = ctx[q],
         binary' = binary,
         ctx[q].dir # None =>
           ctx[q].dir \in DOMAIN work' /\ work'[ctx[q].dir] = work[ctx[q].dir]
  PROVE  Own(q)'
<1>1. CASE ctx[q].dir = None
  <2>1. at[q] \notin Working
    BY <1>1 DEF Own
  <2>2. /\ at[q] \notin {"open", "copy_sections"}
        /\ at[q] \notin {"make_object", "load_dependencies", "link_recovered_binary"}
        /\ at[q] \notin {"stitch", "copy_file"}
    BY <2>1 DEF Working, LinkSteps
  <2> QED
    BY <1>1, <2>1, <2>2 DEF Own, Holds
<1>2. CASE ctx[q].dir # None
  BY <1>2 DEF Own, Holds, Files
<1> QED
  BY <1>1, <1>2

\* The process p goes to the step s of the call for j, and has the directory e and the
\* sections x in its context.  Only its own directory changes.
LEMMA OneProcess ==
  ASSUME TypeOK, Owned, NotShared, WorkRemoved,
         NEW p \in Processes, NEW s \in LiftSteps \cup LinkSteps,
         NEW j \in TraceDirs \cup {None}, NEW e \in WorkDirs \cup {None}, NEW x,
         at' = [at EXCEPT ![p] = s], job' = [job EXCEPT ![p] = j],
         ctx' = [ctx EXCEPT ![p] = [dir |-> e, sections |-> x]], binary' = binary,
         DOMAIN work' \subseteq WorkDirs,
         unread \subseteq unread', unread' \subseteq WorkDirs,
         \A d \in DOMAIN work \ {ctx[p].dir} :
           d \in DOMAIN work' /\ work'[d] = work[d] /\ d # e,
         \A d \in DOMAIN work' :
           \/ d \in DOMAIN work \ {ctx[p].dir}
           \/ d \in unread' /\ work'[d] = << >>
           \/ d = e /\ s # "idle",
         Own(p)'
  PROVE  CallsInv'
<1>1. /\ at \in [Processes -> LiftSteps \cup LinkSteps]
      /\ job \in [Processes -> TraceDirs \cup {None}]
      /\ binary \in [TraceDirs -> Binaries]
      /\ ctx = [q \in Processes |-> [dir |-> ctx[q].dir, sections |-> ctx[q].sections]]
      /\ \A q \in Processes : ctx[q].dir \in WorkDirs \cup {None}
  BY LiftTypes
<1>2. /\ ctx'[p].dir = e /\ ctx'[p].sections = x
      /\ at'[p] = s
      /\ \A q \in Processes \ {p} : ctx'[q] = ctx[q] /\ at'[q] = at[q] /\ job'[q] = job[q]
  BY <1>1
<1>3. \A q \in Processes : ctx'[q].dir \in WorkDirs \cup {None}
  BY <1>1, <1>2
<1>4. ctx' = [q \in Processes |-> [dir |-> ctx'[q].dir, sections |-> ctx'[q].sections]]
  <2>1. \A q \in Processes : ctx'[q] = [dir |-> ctx'[q].dir, sections |-> ctx'[q].sections]
    <3>1. ctx'[p] = [dir |-> e, sections |-> x]
      BY <1>1
    <3>2. \A q \in Processes : ctx[q] = [dir |-> ctx[q].dir, sections |-> ctx[q].sections]
      BY <1>1
    <3> QED  BY <1>2, <3>1, <3>2
  <2>2. ctx' = [q \in Processes |-> ctx'[q]]
    BY <1>1
  <2> QED  BY <2>1, <2>2
<1>5. ASSUME NEW q \in Processes \ {p}, ctx[q].dir # None
      PROVE  ctx[q].dir \in DOMAIN work \ {ctx[p].dir}
  BY <1>5 DEF Owned, Own, NotShared
<1>6. Owned'
  <2>1. ASSUME NEW q \in Processes \ {p} PROVE Own(q)'
    <3>1. Own(q) /\ at'[q] = at[q] /\ job'[q] = job[q] /\ ctx'[q] = ctx[q]
      BY <1>2 DEF Owned
    <3>2. ctx[q].dir # None =>
            ctx[q].dir \in DOMAIN work' /\ work'[ctx[q].dir] = work[ctx[q].dir]
      BY <1>5
    <3> QED  BY <3>1, <3>2, OwnKept
  <2> QED  BY <2>1 DEF Owned, Processes
<1>7. NotShared'
  <2>1. ASSUME NEW q \in Processes \ {p} PROVE ctx'[q].dir = None \/ ctx'[q].dir # e
    BY <1>2, <1>5
  <2> QED  BY <1>2, <2>1 DEF NotShared, Processes
<1>8. WorkRemoved'
  <2>1. SUFFICES ASSUME NEW d \in DOMAIN work', ~(d \in unread' /\ work'[d] = << >>)
                 PROVE  \E q \in Processes : ctx'[q].dir = d /\ at'[q] # "idle"
    BY DEF WorkRemoved, Processes
  <2>2. CASE d \in DOMAIN work \ {ctx[p].dir}
    <3>1. PICK q \in Processes : ctx[q].dir = d /\ at[q] # "idle"
      BY <2>1, <2>2 DEF WorkRemoved
    <3> QED  BY <1>2, <2>2, <3>1
  <2>3. CASE d = e /\ s # "idle"
    BY <1>2, <2>3
  <2> QED  BY <2>1, <2>2, <2>3
<1> QED
  BY <1>1, <1>3, <1>4, <1>6, <1>7, <1>8 DEF CallsInv, Processes
\* A process returns; what it leaves of its directory is empty, and it could not read
\* its binary.
LEMMA ReturnStep ==
  ASSUME LinkInv, NEW p \in Processes, Return(p), binary' = binary,
         DOMAIN work' \subseteq DOMAIN work,
         \A d \in DOMAIN work \ {ctx[p].dir} : d \in DOMAIN work' /\ work'[d] = work[d],
         unread \subseteq unread', unread' \subseteq WorkDirs,
         ctx[p].dir \in DOMAIN work' => ctx[p].dir \in unread' /\ work'[ctx[p].dir] = << >>
  PROVE  CallsInv'
<1>1. TypeOK /\ Owned /\ NotShared /\ WorkRemoved
  BY Zenon DEF LinkInv
<1> DEFINE s == IF p \in Tools THEN "ended" ELSE "idle"
<1>2. s \in {"ended", "idle"} /\ s \in LiftSteps \cup LinkSteps /\ s \notin Working
  BY DEF LiftSteps, LinkSteps, Working
<1>3. /\ at' = [at EXCEPT ![p] = s] /\ job' = [job EXCEPT ![p] = None]
      /\ ctx' = [ctx EXCEPT ![p] = [dir |-> None, sections |-> << >>]]
  BY DEF Return, Continue, NoContext
<1> HIDE DEF s
<1>4. DOMAIN work \subseteq WorkDirs /\ None \notin WorkDirs
  BY <1>1, LiftTypes, LinkingAssumption
<1>5. at'[p] = s /\ job'[p] = None /\ ctx'[p].dir = None
  BY <1>1, <1>3, LiftTypes
<1>6. Own(p)'
  <2>1. /\ s \notin {"open", "copy_sections"} /\ s \notin {"stitch", "copy_file"}
        /\ s \notin {"make_object", "load_dependencies", "link_recovered_binary"}
        /\ s # "make_object" /\ s \notin {"load_dependencies", "link_recovered_binary"}
    BY <1>2
  <2> QED  BY <1>2, <1>5, <2>1 DEF Own, Holds
<1>7. /\ \A d \in DOMAIN work \ {ctx[p].dir} :
           d \in DOMAIN work' /\ work'[d] = work[d] /\ d # None
      /\ \A d \in DOMAIN work' :
           \/ d \in DOMAIN work \ {ctx[p].dir}
           \/ d \in unread' /\ work'[d] = << >>
           \/ d = None /\ s # "idle"
      /\ DOMAIN work' \subseteq WorkDirs
  BY <1>4
<1> QED
  BY <1>1, <1>2, <1>3, <1>6, <1>7, OneProcess

\* A step inside a call writes only into the work directory of the call.
LEMMA InCallStep ==
  ASSUME LinkInv, NEW p \in Processes, at[p] \in Working, NEW s \in Working, NEW x,
         at' = [at EXCEPT ![p] = s], job' = [job EXCEPT ![p] = job[p]], binary' = binary,
         ctx' = [ctx EXCEPT ![p] = [dir |-> ctx[p].dir, sections |-> x]],
         DOMAIN work' = DOMAIN work, unread' = unread,
         \A d \in DOMAIN work \ {ctx[p].dir} : work'[d] = work[d],
         Holds(p)'
  PROVE  CallsInv'
<1>1. TypeOK /\ Owned /\ NotShared /\ WorkRemoved
  BY Zenon DEF LinkInv
<1>2. /\ Own(p) /\ ctx[p] = [dir |-> ctx[p].dir, sections |-> ctx[p].sections]
      /\ ctx[p].dir \in WorkDirs \cup {None} /\ DOMAIN work \subseteq WorkDirs
      /\ unread \subseteq WorkDirs
      /\ job \in [Processes -> TraceDirs \cup {None}]
      /\ s \in LiftSteps \cup LinkSteps /\ s \notin {"idle", "ended"}
  BY <1>1, LiftTypes DEF Owned, Working, LinkSteps
<1>3. /\ ctx[p].dir # None /\ ctx[p].dir \in DOMAIN work
      /\ job[p] \in TraceDirs
  BY <1>2 DEF Own, Working, LinkSteps
<1>4. /\ at'[p] = s /\ ctx'[p].dir = ctx[p].dir /\ job'[p] = job[p]
      /\ job[p] \in TraceDirs \cup {None} /\ ctx[p].dir \in WorkDirs \cup {None}
  BY <1>1, <1>2, LiftTypes
<1>5. Own(p)'
  BY <1>2, <1>3, <1>4 DEF Own
<1>6. /\ \A d \in DOMAIN work \ {ctx[p].dir} :
           d \in DOMAIN work' /\ work'[d] = work[d] /\ d # ctx[p].dir
      /\ \A d \in DOMAIN work' :
           \/ d \in DOMAIN work \ {ctx[p].dir}
           \/ d \in unread' /\ work'[d] = << >>
           \/ d = ctx[p].dir /\ s # "idle"
      /\ DOMAIN work' \subseteq WorkDirs
  BY <1>2
<1>7. /\ s \in LiftSteps \cup LinkSteps
      /\ unread \subseteq unread' /\ unread' \subseteq WorkDirs
  BY <1>2
<1> QED
  BY <1>1, <1>4, <1>5, <1>6, <1>7, OneProcess
-----------------------------------------------------------------------------
(* The steps of a call.                                                    *)

\* Every step of LinkNext, with what it finds in its own work directory.
LEMMA LinkCalls ==
  ASSUME LinkInv, NEW p \in Processes, LinkNext(p)
  PROVE  CallsInv'
<1>1. TypeOK /\ Owned /\ NotShared /\ WorkRemoved
  BY Zenon DEF LinkInv
<1>2. /\ at \in [Processes -> LiftSteps \cup LinkSteps]
      /\ job \in [Processes -> TraceDirs \cup {None}]
      /\ DOMAIN work \subseteq WorkDirs /\ None \notin WorkDirs /\ unread \subseteq WorkDirs
      /\ ctx = [q \in Processes |-> [dir |-> ctx[q].dir, sections |-> ctx[q].sections]]
      /\ ctx[p].dir \in WorkDirs \cup {None}
  BY <1>1, LiftTypes, LinkingAssumption
<1>3. Own(p) /\ Holds(p)
  BY <1>1 DEF Owned, Own
<1>4. /\ ctx = [ctx EXCEPT ![p] = [dir |-> ctx[p].dir, sections |-> ctx[p].sections]]
      /\ job = [job EXCEPT ![p] = job[p]]
  BY <1>2
<1>5. ASSUME NEW s \in {"cleanup", "aborted"}, at[p] \in Working, at' = [at EXCEPT ![p] = s],
             UNCHANGED <<job, binary, ctx, work, unread>>
      PROVE  CallsInv'
  <2>1. at'[p] = s /\ s \in Working
    BY <1>2, <1>5 DEF Working, LinkSteps
  <2>2. Holds(p)'
    BY <2>1 DEF Holds
  <2>3. /\ job' = [job EXCEPT ![p] = job[p]]
        /\ ctx' = [ctx EXCEPT ![p] = [dir |-> ctx[p].dir, sections |-> ctx[p].sections]]
        /\ DOMAIN work' = DOMAIN work /\ unread' = unread
        /\ \A d \in DOMAIN work \ {ctx[p].dir} : work'[d] = work[d]
        /\ binary' = binary
    BY <1>4, <1>5
  <2> QED
    BY <1>5, <2>1, <2>2, <2>3, InCallStep
<1>6. CASE StartLink(p)
  <2>1. at[p] = "idle" /\ ctx[p].dir = None
    BY <1>3, <1>6 DEF StartLink, Own, Working, LinkSteps
  <2>4. unread' = unread
    BY <1>6 DEF StartLink
  <2>2. CASE Return(p) /\ UNCHANGED work
    BY <1>2, <1>6, <2>1, <2>2, <2>4, ReturnStep DEF StartLink
  <2>3. CASE \E d \in NewDirs, t \in TraceDirs :
          /\ work' = With([w \in {d} |-> << >>], work)
          /\ ctx' = [ctx EXCEPT ![p].dir = d]
          /\ job' = [job EXCEPT ![p] = t]
          /\ Continue(p, "open")
    <3>1. PICK d \in NewDirs, t \in TraceDirs :
            /\ work' = With([w \in {d} |-> << >>], work)
            /\ ctx' = [ctx EXCEPT ![p].dir = d]
            /\ job' = [job EXCEPT ![p] = t]
            /\ at' = [at EXCEPT ![p] = "open"]
      BY <2>3 DEF Continue
    <3>2. d \in WorkDirs /\ d \notin DOMAIN work /\ d # None
      BY <1>2 DEF NewDirs
    <3>3. /\ DOMAIN work' = {d} \cup DOMAIN work
          /\ work'[d] = << >>
          /\ \A f \in DOMAIN work : work'[f] = work[f]
      BY <3>1, <3>2 DEF With
    <3>4. [ctx[p] EXCEPT !.dir = d] = [dir |-> d, sections |-> ctx[p].sections]
      BY <1>2
    <3>5. ctx' = [ctx EXCEPT ![p] = [dir |-> d, sections |-> ctx[p].sections]]
      BY <3>1, <3>4
    <3>6. at'[p] = "open" /\ job'[p] = t /\ ctx'[p].dir = d
      BY <1>2, <3>1, <3>5
    <3>7. Own(p)'
      <4>1. "open" \in Working
        BY DEF Working, LinkSteps
      <4>2. Holds(p)'
        BY <3>3, <3>6 DEF Holds, Files
      <4> QED  BY <3>2, <3>3, <3>6, <4>1, <4>2 DEF Own
    <3>8. /\ \A f \in DOMAIN work \ {ctx[p].dir} :
               f \in DOMAIN work' /\ work'[f] = work[f] /\ f # d
          /\ \A f \in DOMAIN work' :
               \/ f \in DOMAIN work \ {ctx[p].dir}
               \/ f \in unread' /\ work'[f] = << >>
               \/ f = d /\ "open" # "idle"
          /\ DOMAIN work' \subseteq WorkDirs
      BY <1>2, <2>1, <3>2, <3>3
    <3>9. "open" \in LiftSteps \cup LinkSteps /\ binary' = binary
      BY <1>6 DEF LinkSteps, StartLink
    <3>10. /\ at' = [at EXCEPT ![p] = "open"] /\ job' = [job EXCEPT ![p] = t]
           /\ d \in WorkDirs \cup {None} /\ t \in TraceDirs \cup {None}
      BY <3>1, <3>2
    <3> QED
      BY <1>1, <1>2, <2>4, <3>5, <3>7, <3>8, <3>9, <3>10, OneProcess
  <2> QED
    BY <1>6, <2>2, <2>3 DEF StartLink
<1>7. CASE OpenBinary(p)
  <2>1. at[p] = "open" /\ Files(p) = << >> /\ UNCHANGED <<binary, work>>
    BY <1>3, <1>7 DEF OpenBinary, Holds
  <2>2. CASE Return(p) /\ unread' = unread \cup {ctx[p].dir}
    <3>1. ctx[p].dir # None
      BY <1>3, <2>1 DEF Own, Working, LinkSteps
    <3> QED  BY <1>2, <2>1, <2>2, <3>1, ReturnStep DEF Files
  <2>3. CASE Continue(p, "copy_sections") /\ UNCHANGED <<job, ctx, unread>>
    <3>1. at' = [at EXCEPT ![p] = "copy_sections"] /\ at'[p] = "copy_sections"
      BY <1>2, <2>3 DEF Continue
    <3>2. Holds(p)'
      BY <2>1, <2>3, <3>1 DEF Holds, Files
    <3>3. at[p] \in Working /\ "copy_sections" \in Working
      BY <2>1 DEF Working, LinkSteps
    <3>4. /\ job' = [job EXCEPT ![p] = job[p]]
          /\ ctx' = [ctx EXCEPT ![p] = [dir |-> ctx[p].dir, sections |-> ctx[p].sections]]
          /\ DOMAIN work' = DOMAIN work /\ unread' = unread
          /\ \A d \in DOMAIN work \ {ctx[p].dir} : work'[d] = work[d]
          /\ binary' = binary
      BY <1>4, <2>1, <2>3
    <3> QED
      BY <3>1, <3>2, <3>3, <3>4, InCallStep
  <2> QED
    BY <1>7, <2>2, <2>3 DEF OpenBinary
<1>8. ASSUME NEW new, Put(p, new), DirThere(p)
      PROVE  /\ DOMAIN work' = DOMAIN work
             /\ \A d \in DOMAIN work \ {ctx[p].dir} : work'[d] = work[d]
             /\ work'[ctx[p].dir] = With(Files(p), new)
  BY <1>8 DEF Put, DirThere, Files
<1>9. CASE CopySections(p)
  <2> DEFINE b == binary[job[p]]
  <2>1. /\ at[p] = "copy_sections" /\ DirThere(p)
        /\ Put(p, copy_ranges(get_ranges(b)))
        /\ ctx' = [ctx EXCEPT ![p].sections = get_ranges(b)]
        /\ at' = [at EXCEPT ![p] = "make_object"]
        /\ UNCHANGED <<job, binary, unread>>
    BY <1>9 DEF CopySections, Continue
  <2>2. PICK x : x = get_ranges(b)
    OBVIOUS
  <2>3. With(<< >>, copy_ranges(x)) = copy_ranges(x)
    BY DEF With, copy_ranges
  <2>4. /\ DOMAIN work' = DOMAIN work
        /\ \A d \in DOMAIN work \ {ctx[p].dir} : work'[d] = work[d]
        /\ work'[ctx[p].dir] = copy_ranges(x)
    <3>1. Files(p) = << >>
      BY <1>3, <2>1 DEF Holds
    <3> QED  BY <1>8, <2>1, <2>2, <2>3, <3>1
  <2>5. ctx' = [ctx EXCEPT ![p] = [dir |-> ctx[p].dir, sections |-> x]]
    <3>1. [ctx[p] EXCEPT !.sections = x] = [dir |-> ctx[p].dir, sections |-> x]
      BY <1>2
    <3> QED  BY <2>1, <2>2, <3>1
  <2>6. /\ at'[p] = "make_object" /\ ctx'[p].dir = ctx[p].dir /\ ctx'[p].sections = x
        /\ binary'[job'[p]] = b
    BY <1>2, <2>1, <2>5
  <2>7. Holds(p)'
    BY <2>2, <2>4, <2>6 DEF Holds, Files
  <2>8. at[p] \in Working /\ "make_object" \in Working
    BY <2>1 DEF Working, LinkSteps
  <2>9. job' = [job EXCEPT ![p] = job[p]] /\ binary' = binary /\ unread' = unread
    BY <1>4, <2>1
  <2> QED
    BY <2>1, <2>4, <2>5, <2>7, <2>8, <2>9, InCallStep
<1>10. ASSUME NEW s \in Working, at[p] \in Working, at' = [at EXCEPT ![p] = s],
              UNCHANGED <<job, binary, ctx, unread>>, DOMAIN work' = DOMAIN work,
              \A d \in DOMAIN work \ {ctx[p].dir} : work'[d] = work[d], Holds(p)'
       PROVE  CallsInv'
  <2>1. /\ job' = [job EXCEPT ![p] = job[p]] /\ binary' = binary
        /\ ctx' = [ctx EXCEPT ![p] = [dir |-> ctx[p].dir, sections |-> ctx[p].sections]]
    BY <1>4, <1>10
  <2> QED
    BY <1>10, <2>1, InCallStep
<1>11. CASE MakeObject(p)
  <2> DEFINE b == binary[job[p]]
             s == IF p \in Tools THEN "link_recovered_binary" ELSE "load_dependencies"
  <2>1. /\ at[p] = "make_object" /\ DirThere(p)
        /\ Assembles(ctx[p].sections, Files(p))
        /\ Put(p, [f \in {<<"original.o">>} |-> Assembled(ctx[p].sections, Files(p))])
        /\ at' = [at EXCEPT ![p] = s]
        /\ UNCHANGED <<job, binary, ctx, unread>>
    BY <1>11 DEF MakeObject, Continue
  <2>2. ctx[p].sections = get_ranges(b) /\ Files(p) = copy_ranges(get_ranges(b))
    BY <1>3, <2>1 DEF Holds
  <2>3. Assembling(b) /\ Assembled(ctx[p].sections, Files(p)) = Object(b)
    BY <2>1, <2>2 DEF Assembling, Object
  <2>4. /\ DOMAIN work' = DOMAIN work
        /\ \A d \in DOMAIN work \ {ctx[p].dir} : work'[d] = work[d]
        /\ work'[ctx[p].dir][<<"original.o">>] = Object(b)
    <3> HIDE DEF b, s
    <3>1. PICK v, new : v = Object(b) /\ new = [f \in {<<"original.o">>} |-> v]
      OBVIOUS
    <3>2. Put(p, new) /\ DirThere(p)
      BY <2>1, <2>3, <3>1
    <3>3. With(Files(p), new)[<<"original.o">>] = v
      <4>1. new = [f \in {<<"original.o">>} |-> v]
        BY <3>1
      <4>2. <<"original.o">> \in DOMAIN new /\ new[<<"original.o">>] = v
        BY <4>1
      <4> QED  BY <4>2 DEF With
    <3> QED  BY <1>8, <3>1, <3>2, <3>3
  <2>5. /\ s \in {"link_recovered_binary", "load_dependencies"} /\ s \in Working
        /\ at[p] \in Working
    BY <2>1 DEF Working, LinkSteps
  <2>6. at'[p] = s /\ ctx'[p] = ctx[p] /\ binary'[job'[p]] = b
    BY <1>2, <2>1
  <2>7. Holds(p)'
    <3> HIDE DEF b, s
    <3> QED  BY <2>2, <2>3, <2>4, <2>5, <2>6 DEF Holds, Files
  <2> HIDE DEF s
  <2> QED
    BY <1>10, <2>1, <2>4, <2>5, <2>7
<1>12. CASE LoadDependencies(p)
  <2>1. /\ at[p] = "load_dependencies" /\ at' = [at EXCEPT ![p] = "link_recovered_binary"]
        /\ UNCHANGED <<job, binary, ctx, work, unread>>
    BY <1>12 DEF LoadDependencies, Continue, linkVars
  <2>2. Holds(p)'
    BY <1>2, <1>3, <2>1 DEF Holds, Files
  <2>3. at[p] \in Working /\ "link_recovered_binary" \in Working
    BY <2>1 DEF Working, LinkSteps
  <2> QED
    BY <1>10, <2>1, <2>2, <2>3
<1>13. CASE LinkRecoveredBinary(p)
  <2> DEFINE b == binary[job[p]]
  <2>1. /\ at[p] = "link_recovered_binary" /\ DirThere(p)
        /\ Links(Placed(ctx[p].sections, Files(p)[<<"original.o">>]))
        /\ Put(p, [f \in {<<"output">>} |-> Placed(ctx[p].sections, Files(p)[<<"original.o">>])])
        /\ at' = [at EXCEPT ![p] = "stitch"]
        /\ UNCHANGED <<job, binary, ctx, unread>>
    BY <1>13 DEF LinkRecoveredBinary, Continue
  <2>2. /\ ctx[p].sections = get_ranges(b) /\ Files(p)[<<"original.o">>] = Object(b)
        /\ Assembling(b)
    BY <1>3, <2>1 DEF Holds
  <2>3. Placed(ctx[p].sections, Files(p)[<<"original.o">>]) = Output(b)
    BY <2>2 DEF Output
  <2>4. /\ DOMAIN work' = DOMAIN work
        /\ \A d \in DOMAIN work \ {ctx[p].dir} : work'[d] = work[d]
        /\ work'[ctx[p].dir][<<"output">>] = Output(b)
    <3> HIDE DEF b
    <3>1. PICK v, new : v = Output(b) /\ new = [f \in {<<"output">>} |-> v]
      OBVIOUS
    <3>2. Put(p, new) /\ DirThere(p)
      BY <2>1, <2>3, <3>1
    <3>3. With(Files(p), new)[<<"output">>] = v
      <4>1. new = [f \in {<<"output">>} |-> v]
        BY <3>1
      <4>2. <<"output">> \in DOMAIN new /\ new[<<"output">>] = v
        BY <4>1
      <4> QED  BY <4>2 DEF With
    <3> QED  BY <1>8, <3>1, <3>2, <3>3
  <2>5. at'[p] = "stitch" /\ ctx'[p] = ctx[p] /\ binary'[job'[p]] = b
    BY <1>2, <2>1
  <2>6. Holds(p)'
    <3> HIDE DEF b
    <3> QED  BY <2>1, <2>2, <2>3, <2>4, <2>5 DEF Holds, Files
  <2>7. at[p] \in Working /\ "stitch" \in Working
    BY <2>1 DEF Working, LinkSteps
  <2> QED
    BY <1>10, <2>1, <2>4, <2>6, <2>7
<1>14. CASE LinkAssertFails(p)
  <2>1. PICK s \in {"cleanup", "aborted"} : at' = [at EXCEPT ![p] = s]
    BY <1>14 DEF LinkAssertFails, Continue
  <2>2. at[p] \in Working /\ UNCHANGED <<job, binary, ctx, work, unread>>
    BY <1>14 DEF LinkAssertFails, linkVars, Working, LinkSteps
  <2> QED
    BY <1>5, <2>1, <2>2
<1>15. CASE Stitch(p)
  <2>1. /\ at[p] = "stitch" /\ at' = [at EXCEPT ![p] = "copy_file"]
        /\ UNCHANGED <<job, binary, ctx, work, unread>>
    BY <1>15 DEF Stitch, Continue, linkVars
  <2>2. Holds(p)'
    BY <1>2, <1>3, <2>1 DEF Holds, Files
  <2>3. at[p] \in Working /\ "copy_file" \in Working
    BY <2>1 DEF Working, LinkSteps
  <2> QED
    BY <1>10, <2>1, <2>2, <2>3
<1>16. CASE CopyFile(p) \/ CopyFileFails(p) \/
            \E step \in LinkSteps \ {"open", "cleanup", "ended", "aborted"} : Fails(p, step)
  <2>1. at[p] \in Working /\ UNCHANGED <<job, binary, ctx, work, unread>>
    BY <1>16 DEF CopyFile, CopyFileFails, Fails, linkVars, Working, LinkSteps
  <2>2. at' = [at EXCEPT ![p] = "cleanup"]
    BY <1>16 DEF CopyFile, CopyFileFails, Fails, Continue
  <2> QED
    BY <1>5, <2>1, <2>2
<1>17. CASE CleanupLink(p)
  <2>1. /\ work' = [d \in DOMAIN work \ {ctx[p].dir} |-> work[d]]
        /\ Return(p) /\ binary' = binary /\ unread' = unread
    BY <1>17 DEF CleanupLink, Cleaned
  <2>2. /\ DOMAIN work' = DOMAIN work \ {ctx[p].dir}
        /\ \A d \in DOMAIN work \ {ctx[p].dir} : work'[d] = work[d]
    BY <2>1
  <2> QED
    BY <1>2, <2>1, <2>2, ReturnStep
<1> QED
  BY <1>6, <1>7, <1>9, <1>11, <1>12, <1>13, <1>14, <1>15, <1>16, <1>17 DEF LinkNext
\* A binary is written by the last step of a call, from the output of that call.
LEMMA LinkWholeCall ==
  ASSUME LinkInv, NEW p \in Processes, LinkNext(p)
  PROVE  WholeCall' /\ DOMAIN recovered' = TraceDirs
<1>1. /\ TypeOK /\ Owned /\ WholeCall
      /\ DOMAIN recovered = TraceDirs
  BY Zenon DEF LinkInv, TypeOK
<1>2. binary' = binary
  BY DEF LinkNext, StartLink, OpenBinary, CopySections, MakeObject, LoadDependencies,
         LinkRecoveredBinary, LinkAssertFails, Stitch, CopyFile, CopyFileFails, Fails,
         CleanupLink, linkVars
<1>3. CASE CopyFile(p)
  <2>1. /\ at[p] = "copy_file"
        /\ recovered' = [recovered EXCEPT ![job[p]] = Files(p)[<<"output">>]]
    BY <1>3 DEF CopyFile
  <2>2. Own(p) /\ Holds(p)
    BY <1>1 DEF Owned, Own
  <2>3. /\ Assembling(binary[job[p]])
        /\ Files(p)[<<"output">>] = Output(binary[job[p]])
        /\ Links(Output(binary[job[p]]))
    BY <2>1, <2>2 DEF Holds
  <2> QED
    BY <1>1, <1>2, <2>1, <2>3 DEF WholeCall, TraceDirs
<1>4. CASE CopyFileFails(p)
  BY <1>1, <1>2, <1>4 DEF CopyFileFails, WholeCall, TraceDirs
<1>5. CASE ~CopyFile(p) /\ ~CopyFileFails(p)
  <2>1. recovered' = recovered
    BY <1>5 DEF LinkNext, StartLink, OpenBinary, CopySections, MakeObject, LoadDependencies,
         LinkRecoveredBinary, LinkAssertFails, Stitch, Fails, CleanupLink, linkVars
  <2> QED
    BY <1>1, <1>2, <2>1 DEF WholeCall, TraceDirs
<1> QED
  BY <1>3, <1>4, <1>5

\* A call of _binrec_link leaves the options and the directory of a process alone.
LEMMA LinkLiftTypes ==
  ASSUME TypeOK, NEW p \in Processes, LinkNext(p)
  PROVE  /\ LiftTypeOK'
         /\ UNCHANGED restOfLift
         /\ (asked' = asked /\ ran' = ran) \/ (p \in Pythons /\ Forget(p))
<1>1. UNCHANGED restOfLift
  BY DEF LinkNext, StartLink, OpenBinary, CopySections, MakeObject, LoadDependencies,
         LinkRecoveredBinary, LinkAssertFails, Stitch, CopyFile, CopyFileFails, Fails,
         CleanupLink
<1>2. (asked' = asked /\ ran' = ran) \/ (p \in Pythons /\ Forget(p))
  <2>1. CASE StartLink(p)
    BY <2>1 DEF StartLink
  <2>2. CASE ~StartLink(p)
    BY <2>2 DEF LinkNext, OpenBinary, CopySections, MakeObject, LoadDependencies,
         LinkRecoveredBinary, LinkAssertFails, Stitch, CopyFile, CopyFileFails, Fails,
         CleanupLink
  <2> QED  BY <2>1, <2>2
<1>3. LiftTypeOK
  BY LiftTypes
<1>4. /\ asked' \in [Pythons -> Context \cup {None}]
      /\ ran' \in [Pythons -> Context \cup {None}]
  BY <1>2, <1>3 DEF Forget, LiftTypeOK
<1> QED
  BY <1>1, <1>2, <1>3, <1>4 DEF LiftTypeOK, restOfLift

\* The steps of _binrec_lift, and the removal of a directory by another process.
LEMMA OtherSteps ==
  ASSUME LinkInv,
         \/ \E p \in Pythons : LiftNext(p) /\ UNCHANGED linkVars
         \/ \E d \in Dirs : DirRemoved(d)
  PROVE  LinkInv'
<1>1. TypeOK /\ Owned /\ NotShared /\ WorkRemoved /\ WholeCall
  BY Zenon DEF LinkInv
<1>2. ASSUME NEW p \in Pythons, LiftNext(p), UNCHANGED linkVars
      PROVE  LinkInv'
  <2>1. /\ p \in Processes /\ Own(p)
        /\ at \in [Processes -> LiftSteps \cup LinkSteps]
        /\ ctx = [q \in Processes |-> [dir |-> ctx[q].dir, sections |-> ctx[q].sections]]
        /\ DOMAIN work \subseteq WorkDirs /\ None \notin WorkDirs /\ unread \subseteq WorkDirs
        /\ DOMAIN recovered = TraceDirs
    BY <1>1, LiftTypes, LinkingAssumption DEF Owned, Processes
  <2>2. at[p] \in LiftSteps
    BY <1>2 DEF LiftNext, LiftCall, MakeTemp, FirstStage, SecondStage, Stage, MoveFirst,
           MoveSecond, Move, LiftSteps
  <2>3. /\ ctx[p].dir = None
        /\ at[p] # "idle" => job[p] \in TraceDirs
    BY <2>1, <2>2 DEF Own, LiftSteps, Working, LinkSteps
  <2>4. PICK s \in LiftSteps, j \in TraceDirs \cup {None} :
          /\ at' = [at EXCEPT ![p] = s]
          /\ job' = [job EXCEPT ![p] = j]
          /\ s # "idle" => j \in TraceDirs
    BY <1>1, <1>2, <2>3, LiftAt
  <2>5. /\ binary' = binary /\ work' = work /\ ctx' = ctx /\ recovered' = recovered
        /\ unread' = unread
    BY <1>2 DEF linkVars
  <2>6. ctx' = [ctx EXCEPT ![p] = [dir |-> None, sections |-> ctx[p].sections]]
    BY <2>1, <2>3, <2>5
  <2>7. Own(p)'
    <3>1. /\ at'[p] = s /\ job'[p] = j /\ ctx'[p].dir = None
      BY <1>1, <2>1, <2>3, <2>4, <2>5, LiftTypes
    <3>2. /\ s \notin Working
          /\ s \notin {"open", "copy_sections"} /\ s \notin {"stitch", "copy_file"}
          /\ s \notin {"make_object", "load_dependencies", "link_recovered_binary"}
          /\ s # "make_object" /\ s \notin {"load_dependencies", "link_recovered_binary"}
      BY DEF LiftSteps, Working, LinkSteps
    <3> QED  BY <2>4, <3>1, <3>2 DEF Own, Holds
  <2>8. /\ \A d \in DOMAIN work \ {ctx[p].dir} :
             d \in DOMAIN work' /\ work'[d] = work[d] /\ d # None
        /\ \A d \in DOMAIN work' :
             \/ d \in DOMAIN work \ {ctx[p].dir}
             \/ d \in unread' /\ work'[d] = << >>
             \/ d = None /\ s # "idle"
        /\ DOMAIN work' \subseteq WorkDirs
    BY <2>1, <2>3, <2>5
  <2>9. /\ s \in LiftSteps \cup LinkSteps /\ binary' = binary
        /\ unread \subseteq unread' /\ unread' \subseteq WorkDirs
    BY <2>1, <2>5
  <2>10. CallsInv'
    BY <1>1, <2>1, <2>4, <2>6, <2>7, <2>8, <2>9, OneProcess
  <2>11. LiftTypeOK'
    BY <1>1, <1>2, LiftStepTypes
  <2>12. WholeCall' /\ DOMAIN recovered' = TraceDirs
    BY <1>1, <2>1, <2>5 DEF WholeCall, TraceDirs
  <2> QED
    BY <2>10, <2>11, <2>12 DEF CallsInv, LinkInv, TypeOK, TraceDirs, Processes
<1>3. ASSUME NEW d \in Dirs, DirRemoved(d)
      PROVE  LinkInv'
  <2>1. /\ UNCHANGED <<at, job, cwd, limit, asked, ran, temps, leftover, stranded, binary, work, ctx,
                     unread>>
        /\ dirs' = dirs \ {d}
        /\ recovered' = [t \in TraceDirs |-> IF t = d THEN None ELSE recovered[t]]
    BY <1>3 DEF DirRemoved, RemoveDir
  <2>2. LiftTypeOK'
    BY <1>1, <2>1, LiftTypes DEF LiftTypeOK
  <2>3. TypeOK'
    BY <1>1, <2>1, <2>2 DEF TypeOK, TraceDirs
  <2>4. Owned' /\ NotShared' /\ WorkRemoved'
    <3>1. ASSUME NEW q \in Processes PROVE Own(q)'
      BY <1>1, <2>1, OwnKept DEF Owned, Own
    <3> QED  BY <1>1, <2>1, <3>1 DEF Owned, NotShared, WorkRemoved, Processes
  <2>5. WholeCall'
    BY <1>1, <2>1 DEF WholeCall, TraceDirs
  <2> QED
    BY <2>3, <2>4, <2>5 DEF LinkInv
<1> QED
  BY <1>2, <1>3
-----------------------------------------------------------------------------
(* The invariant and what follows from it.                                 *)

\* Every step of any process preserves it.
LEMMA LinkInductive ==
  ASSUME LinkInv, [Next]_vars
  PROVE  LinkInv'
<1>1. CASE \E p \in Processes : LinkNext(p)
  <2>1. PICK p \in Processes : LinkNext(p)
    BY <1>1
  <2>2. TypeOK
    BY Zenon DEF LinkInv
  <2>3. CallsInv' /\ LiftTypeOK' /\ WholeCall' /\ DOMAIN recovered' = TraceDirs
    BY <2>1, <2>2, LinkCalls, LinkLiftTypes, LinkWholeCall
  <2> QED
    BY <2>3 DEF CallsInv, LinkInv, TypeOK, TraceDirs, Processes
<1>2. CASE UNCHANGED vars
  <2>1. /\ UNCHANGED <<at, job, cwd, limit, asked, ran, temps, leftover, stranded, dirs>>
        /\ UNCHANGED <<binary, work, ctx, recovered, unread>>
    BY <1>2 DEF vars, liftVars, linkVars
  <2>2. TypeOK /\ Owned /\ NotShared /\ WorkRemoved /\ WholeCall
    BY Zenon DEF LinkInv
  <2>3. TypeOK'
    BY <2>1, <2>2 DEF TypeOK, LiftTypeOK, TraceDirs
  <2>4. Owned' /\ NotShared' /\ WorkRemoved' /\ WholeCall'
    <3>1. ASSUME NEW q \in Processes PROVE Own(q)'
      BY <2>1, <2>2, OwnKept DEF Owned, Own
    <3> QED
      BY <2>1, <2>2, <3>1 DEF Owned, NotShared, WorkRemoved, WholeCall, TraceDirs, Processes
  <2> QED
    BY <2>3, <2>4 DEF LinkInv
<1> QED
  BY <1>1, <1>2, OtherSteps DEF Next

\* Whatever calls run at the same time and fail, each process works in a directory of
\* its own that holds what the steps of its call have made so far.
THEOREM LinkInvariant == Spec => []LinkInv
<1>1. Init => LinkInv
  <2>1. SUFFICES ASSUME Init PROVE LinkInv
    OBVIOUS
  <2>2. /\ LiftInit /\ at = [p \in Processes |-> "idle"] /\ job = [p \in Processes |-> None]
        /\ binary \in [TraceDirs -> Binaries] /\ work = << >>
        /\ ctx = [p \in Processes |-> NoContext] /\ recovered = [d \in TraceDirs |-> None]
        /\ unread = {}
    BY <2>1 DEF Init
  <2>3. DOMAIN work = {}
    BY <2>2
  <2>4. LiftTypeOK
    BY <2>2, LiftCallsAssumption DEF LiftInit, LiftTypeOK
  <2>5. \A p \in Processes : at[p] = "idle" /\ ctx[p].dir = None /\ ctx[p].sections = << >>
    BY <2>2 DEF NoContext
  <2>6. TypeOK
    BY <2>2, <2>3, <2>4, <2>5 DEF TypeOK, LiftSteps, NoContext
  <2>7. Owned
    BY <2>5 DEF Owned, Own, Holds, Working, LinkSteps
  <2>8. NotShared /\ WorkRemoved /\ WholeCall
    BY <2>2, <2>3, <2>5 DEF NotShared, WorkRemoved, WholeCall
  <2> QED
    BY <2>6, <2>7, <2>8 DEF LinkInv
<1>2. LinkInv /\ [Next]_vars => LinkInv'
  BY LinkInductive
<1> QED
  BY <1>1, <1>2, PTL DEF Spec

\* The types of the state of all processes.
THEOREM LinkingTypes == Spec => []TypeOK
<1>1. LinkInv => TypeOK
  BY Zenon DEF LinkInv
<1> QED
  BY <1>1, LinkInvariant, PTL

\* However a call ends, its work directory is gone, but for an empty one of a call that
\* could not read its binary, and that of an executable that was aborted.
THEOREM NoWorkLeft == Spec => []WorkRemoved
<1>1. LinkInv => WorkRemoved
  BY Zenon DEF LinkInv
<1> QED
  BY <1>1, LinkInvariant, PTL

\* Two sections of an object that was assembled have different files.
LEMMA OneWriter ==
  ASSUME NEW b \in Binaries, Assembling(b), NEW i \in DOMAIN get_ranges(b),
         ~b.sections[i].nobits
  PROVE  copy_ranges(get_ranges(b))[SectionFile(b.sections[i].name)] = b.sections[i].data
<1> DEFINE S == get_ranges(b)
           written == {k \in DOMAIN S : ~S[k].nobits}
           f == SectionFile(b.sections[i].name)
           writers == {k \in written : SectionFile(S[k].name) = f}
<1>1. \A k \in DOMAIN S : S[k] = b.sections[k] /\ k \in Int
  BY LinkingAssumption DEF get_ranges
<1>2. \A k \in DOMAIN S : Normalized(S[k].name) = Normalized(S[i].name) => k = i
  BY DEF Assembling, Assembles
<1> HIDE DEF S
<1>3. writers = {i}
  BY <1>1, <1>2 DEF SectionFile, S
<1>4. Max(writers) = i
  BY <1>1, <1>3 DEF Max, S
<1>5. f \in {SectionFile(S[k].name) : k \in written}
  BY <1>1 DEF S
<1>6. copy_ranges(S)[f] = S[Max(writers)].data
  BY <1>5 DEF copy_ranges
<1> QED
  BY <1>1, <1>4, <1>6 DEF S
\* A recovered binary has every section of the original one at its address and with its
\* contents, for any binaries, section names and calls at the same time.
THEOREM SectionsStay == Spec => []SectionsInPlace
<1>1. ASSUME LinkInv PROVE SectionsInPlace
  <2>1. WholeCall /\ binary \in [TraceDirs -> Binaries]
    BY <1>1, Zenon DEF LinkInv, TypeOK
  <2>2. SUFFICES ASSUME NEW t \in TraceDirs, recovered[t] # None,
                        NEW i \in 1..Len(binary[t].sections),
                        binary[t].sections[i].addr # 0,
                        "alloc" \in binary[t].sections[i].flags,
                        "proc" \notin binary[t].sections[i].flags
                 PROVE  LET s == binary[t].sections[i] IN
                        /\ [addr |-> s.addr, size |-> s.size,
                            data |-> IF s.nobits THEN "zero" ELSE s.data] \in recovered[t]
                        /\ \A q \in recovered[t] : q.addr = s.addr \/ Disjoint(q, s)
    BY DEF SectionsInPlace
  <2>3. PICK b \in Binaries : b = binary[t]
    BY <2>1
  <2>4. Assembling(b) /\ recovered[t] = Output(b) /\ Links(Output(b))
    BY <2>1, <2>2, <2>3 DEF WholeCall
  <2> DEFINE s == b.sections[i]
             S == get_ranges(b)
             F == copy_ranges(S)
             data == IF s.nobits THEN "zero" ELSE s.data
             flags == section_flags_to_str(s.flags)
             o == [name |-> s.name, size |-> s.size, flags |-> flags, data |-> data]
             a == [addr |-> s.addr, size |-> s.size, data |-> data]
  <2>5. i \in DOMAIN S /\ S[i] = s
    BY <2>2, <2>3 DEF get_ranges
  <2>6. ~s.nobits => F[SectionFile(s.name)] = s.data
    BY <2>4, <2>5, OneWriter
  <2>7. "alloc" \in flags
    BY <2>2, <2>3 DEF section_flags_to_str
  <2>8. o \in Object(b)
    <3>1. o = [name |-> S[i].name, size |-> S[i].size,
               flags |-> section_flags_to_str(S[i].flags),
               data |-> IF S[i].nobits THEN "zero" ELSE F[SectionFile(S[i].name)]]
      BY <2>5, <2>6
    <3> HIDE DEF S, F, o
    <3> QED  BY <2>5, <3>1 DEF Object, Assembled, S, F
  <2>9. a \in Output(b)
    <3> HIDE DEF S, data, flags
    <3>1. o.name = S[i].name /\ o.size = s.size /\ o.data = data /\ "alloc" \in o.flags
      BY <2>5, <2>7
    <3> HIDE DEF o
    <3>2. a \in { [addr |-> S[i].addr, size |-> r.size, data |-> r.data] :
                    r \in {q \in Object(b) : q.name = S[i].name /\ "alloc" \in q.flags} }
      BY <2>5, <2>8, <3>1
    <3> HIDE DEF a
    <3> QED  BY <2>5, <3>2 DEF Output, Placed, S
  <2>10. ASSUME NEW q \in Output(b) PROVE q.addr = s.addr \/ Disjoint(q, s)
    <3>1. q = a \/ Disjoint(q, a)
      <4> HIDE DEF a
      <4> QED  BY <2>4, <2>9 DEF Links
    <3>2. a.addr = s.addr /\ a.size = s.size
      OBVIOUS
    <3> HIDE DEF a
    <3> QED  BY <3>1, <3>2 DEF Disjoint
  <2> QED
    BY <2>3, <2>4, <2>9, <2>10
<1> QED
  BY <1>1, LinkInvariant, PTL

\* Directories are removed and never made.
LEMMA DirsShrink ==
  ASSUME TypeOK, Next
  PROVE  dirs' \subseteq dirs
<1>1. ASSUME NEW p \in Pythons, LiftNext(p) PROVE dirs' = dirs
  BY <1>1 DEF LiftNext, LiftCall, MakeTemp, FirstStage, SecondStage, Stage, MoveFirst,
       MoveSecond, Move
<1>2. ASSUME NEW p \in Processes, LinkNext(p) PROVE dirs' = dirs
  BY <1>2, LinkLiftTypes DEF restOfLift
<1>3. ASSUME NEW d \in Dirs, DirRemoved(d) PROVE dirs' \subseteq dirs
  BY <1>3 DEF DirRemoved, RemoveDir
<1> QED
  BY <1>1, <1>2, <1>3 DEF Next

\* What a step of _binrec_lift is: a call or no call.
LEMMA CallOrForget ==
  ASSUME NEW p \in Pythons, TypeOK, LiftNext(p)
  PROVE  \/ \E a \in Arguments, wd \in TraceDirs \cup {None}, result \in Results :
              Call(p, a, wd, result)
         \/ Forget(p) /\ cwd' = cwd
<1>1. job[p] \in TraceDirs \cup {None}
  BY LiftTypes DEF Processes
<1>2. CASE LiftCall(p)
  BY <1>2 DEF LiftCall
<1>3. ASSUME NEW step, NEW a \in Arguments, NEW next, Stage(p, step, a, next)
      PROVE  \E result \in Results : Call(p, a, job[p], result)
  BY <1>3 DEF Stage
<1>4. CASE FirstStage(p) \/ SecondStage(p)
  BY <1>1, <1>3, <1>4, PrepArguments DEF FirstStage, SecondStage
<1>5. CASE MakeTemp(p) \/ MoveFirst(p) \/ MoveSecond(p)
  BY <1>5 DEF MakeTemp, MoveFirst, MoveSecond, Move
<1> QED
  BY <1>2, <1>4, <1>5 DEF LiftNext

\* A process is in the directory it started in after each of its calls, whatever calls
\* fail, as long as that directory exists.
THEOREM CwdStays == Spec => []CwdKept
<1>1. Init => CwdKept
  BY DEF Init, LiftInit, CwdKept
<1>2. LinkInv /\ CwdKept /\ [Next]_vars => CwdKept'
  <2>1. SUFFICES ASSUME LinkInv, CwdKept, [Next]_vars, Home \in dirs'
                 PROVE  \A p \in Pythons : cwd'[p] = Home
    BY DEF CwdKept
  <2>2. TypeOK
    BY <2>1, Zenon DEF LinkInv
  <2>3. Home \in dirs
    BY <2>1, <2>2, DirsShrink DEF vars, liftVars
  <2>4. \A p \in Pythons : cwd[p] = Home
    BY <2>1, <2>3 DEF CwdKept
  <2>5. cwd \in [Pythons -> Dirs]
    BY <2>2, LiftTypes DEF LiftTypeOK
  <2>6. ASSUME NEW p \in Pythons, LiftNext(p) PROVE cwd' = cwd
    <3>1. ASSUME NEW a, NEW wd, NEW result, Call(p, a, wd, result)
          PROVE  cwd' = cwd
      <4>1. Restored(p, wd, result) = {cwd[p]}
        BY <2>3, <2>4 DEF Restored
      <4>2. cwd = [cwd EXCEPT ![p] = cwd[p]]
        BY <2>5
      <4> QED  BY <3>1, <4>1, <4>2 DEF Call
    <3> QED  BY <2>2, <2>6, <3>1, CallOrForget
  <2>7. ASSUME NEW p \in Processes, LinkNext(p) PROVE cwd' = cwd
    BY <2>2, <2>7, LinkLiftTypes DEF restOfLift
  <2>8. ASSUME NEW d \in Dirs, DirRemoved(d) PROVE cwd' = cwd
    BY <2>8 DEF DirRemoved, RemoveDir
  <2> QED
    BY <2>1, <2>4, <2>6, <2>7, <2>8 DEF Next, vars, liftVars
<1> QED
  BY <1>1, <1>2, LinkInvariant, PTL DEF Spec
\* The passes of every function but lift run with the limit of their own call, or with
\* LLVM's default, whatever calls the process made before.
THEOREM OptionsOfOwnCall == Spec => []RunsAsAsked
<1>1. Init => RunsAsAsked
  BY DEF Init, LiftInit, RunsAsAsked
<1>2. LinkInv /\ RunsAsAsked /\ [Next]_vars => RunsAsAsked'
  <2>1. SUFFICES ASSUME LinkInv, RunsAsAsked, [Next]_vars PROVE RunsAsAsked'
    OBVIOUS
  <2>2. TypeOK
    BY <2>1, Zenon DEF LinkInv
  <2>3. /\ asked \in [Pythons -> Context \cup {None}] /\ ran \in [Pythons -> Context \cup {None}]
        /\ limit \in [Pythons -> ({DefaultLimit, 1} \cup Limits) \ {0}]
    BY <2>2, LiftTypes DEF LiftTypeOK
  <2>4. ASSUME NEW p \in Pythons, Forget(p) PROVE RunsAsAsked'
    BY <2>1, <2>3, <2>4 DEF Forget, RunsAsAsked, Documented
  <2>5. ASSUME asked' = asked, ran' = ran PROVE RunsAsAsked'
    BY <2>1, <2>5 DEF RunsAsAsked, Documented
  <2>6. ASSUME NEW p \in Pythons, NEW a \in Arguments, NEW wd, NEW result,
               Call(p, a, wd, result)
        PROVE  RunsAsAsked'
    <3>1. CASE wd \in dirs \cup {None}
      <4>1. PICK l : l = CallLimit(p, Parsed(a).limit)
        OBVIOUS
      <4>2. limit' = [limit EXCEPT ![p] = l]
        BY <2>6, <4>1 DEF Call
      <4>3. limit'[p] = l
        BY <2>3, <4>2
      <4>4. /\ asked' = [asked EXCEPT ![p] = a]
            /\ ran' = [ran EXCEPT ![p] = [Parsed(a) EXCEPT !.limit = l]]
        BY <2>6, <3>1, <4>3 DEF Call
      <4>5. ASSUME a.op # "lift" PROVE [Parsed(a) EXCEPT !.limit = l] = Documented(a)
        <5>1. Parsed(a) = a
          BY <4>5, ArgumentsAreContexts
        <5> QED  BY <4>1, <5>1 DEF Documented, CallLimit
      <4>6. [Parsed(a) EXCEPT !.limit = l].op = a.op
        <5>1. Parsed(a).op = a.op
          BY ArgumentsAreContexts
        <5> QED  BY <5>1 DEF Parsed
      <4>7. ran'[p] = [Parsed(a) EXCEPT !.limit = l] /\ asked'[p] = a
        BY <2>3, <4>4
      <4>8. ran'[p].op # "lift" => ran'[p] = Documented(asked'[p])
        BY <4>5, <4>6, <4>7
      <4>9. \A q \in Pythons \ {p} : ran'[q] = ran[q] /\ asked'[q] = asked[q]
        BY <2>3, <4>4
      <4> QED
        BY <2>1, <4>8, <4>9 DEF RunsAsAsked, Documented
    <3>2. CASE wd \notin dirs \cup {None}
      BY <2>4, <2>6, <3>2 DEF Call
    <3> QED  BY <3>1, <3>2
  <2>7. ASSUME NEW p \in Pythons, LiftNext(p) PROVE RunsAsAsked'
    BY <2>2, <2>4, <2>6, <2>7, CallOrForget
  <2>8. ASSUME NEW p \in Processes, LinkNext(p) PROVE RunsAsAsked'
    BY <2>2, <2>4, <2>5, <2>8, LinkLiftTypes
  <2>9. ASSUME NEW d \in Dirs, DirRemoved(d) PROVE RunsAsAsked'
    BY <2>5, <2>9 DEF DirRemoved, RemoveDir
  <2> QED
    BY <2>1, <2>5, <2>7, <2>8, <2>9 DEF Next, vars, liftVars
<1> QED
  BY <1>1, <1>2, LinkInvariant, PTL DEF Spec

\* However the preparation of a trace ends, it leaves no bitcode unless shutil.move
\* failed, for any processes, directories, calls that fail and directories removed.
THEOREM NoBitcodeLeft == Spec => []TempRemoved
<1>1. Init => TempRemoved
  BY DEF Init, LiftInit, TempRemoved
<1>2. LinkInv /\ TempRemoved /\ [Next]_vars => TempRemoved'
  <2>1. SUFFICES ASSUME LinkInv, TempRemoved, [Next]_vars PROVE TempRemoved'
    OBVIOUS
  <2>2. TypeOK
    BY <2>1, Zenon DEF LinkInv
  <2>3. TempFiles = {"tmp", ".bc", ".ll", "-memssa.ll"}
    BY DEF TempFiles, Outputs
  <2>4. ASSUME NEW files \in SUBSET TempFiles, leftover' = leftover \cup (files \ {"tmp", ".bc"})
        PROVE  TempRemoved'
    BY <2>1, <2>3, <2>4 DEF TempRemoved
  <2>5. ASSUME leftover' = leftover PROVE TempRemoved'
    BY <2>1, <2>5 DEF TempRemoved
  <2>6. ASSUME NEW p \in Pythons, LiftNext(p)
        PROVE  TempRemoved'
    <3>1. temps[p] \subseteq TempFiles
      BY <2>2, LiftTypes DEF LiftTypeOK
    <3>2. \A result : \A new \in Opened(result) : new \subseteq TempFiles
      BY DEF Opened, TempFiles
    <3>3. CASE LiftCall(p) \/ MakeTemp(p)
      BY <2>5, <3>3 DEF LiftCall, MakeTemp
    <3>4. ASSUME NEW step, NEW a, NEW next, Stage(p, step, a, next)
          PROVE  TempRemoved'
      <4>1. PICK new \in SUBSET TempFiles :
              \/ leftover' = leftover \cup Kept(temps[p] \cup new)
              \/ leftover' = leftover
        BY <3>2, <3>4 DEF Stage
      <4>2. (temps[p] \cup new) \in SUBSET TempFiles
        BY <3>1
      <4> QED  BY <2>4, <2>5, <4>1, <4>2 DEF Kept
    <3>5. CASE FirstStage(p) \/ SecondStage(p)
      BY <3>4, <3>5 DEF FirstStage, SecondStage
    <3>6. ASSUME NEW step, Move(p, step)
          PROVE  TempRemoved'
      <4>1. \/ leftover' = leftover \cup (temps[p] \ {".bc", "tmp"})
            \/ leftover' = leftover
        BY <3>6 DEF Move, Moves, MoveFails
      <4>2. temps[p] \ {".bc", "tmp"} = temps[p] \ {"tmp", ".bc"}
        OBVIOUS
      <4> QED  BY <2>4, <2>5, <3>1, <4>1, <4>2
    <3>7. CASE MoveFirst(p) \/ MoveSecond(p)
      BY <3>6, <3>7 DEF MoveFirst, MoveSecond
    <3> QED
      BY <2>6, <3>3, <3>5, <3>7 DEF LiftNext
  <2>7. ASSUME NEW p \in Processes, LinkNext(p) PROVE leftover' = leftover
    BY <2>2, <2>7, LinkLiftTypes DEF restOfLift
  <2>8. ASSUME NEW d \in Dirs, DirRemoved(d) PROVE leftover' = leftover
    BY <2>8 DEF DirRemoved, RemoveDir
  <2> QED
    BY <2>1, <2>5, <2>6, <2>7, <2>8 DEF Next, vars, liftVars
<1> QED
  BY <1>1, <1>2, LinkInvariant, PTL DEF Spec
=============================================================================
