------------------------------- MODULE Lifting -------------------------------
(***************************************************************************)
(* A program is traced, its blocks are lifted to functions and the         *)
(* recovered functions are run side by side with the program.  The trace   *)
(* is what FunctionLog (LogHandlers) and ExportELF record; the passes run  *)
(* in the order of build_pipeline (binrec_lift.cpp).                       *)
(***************************************************************************)
EXTENDS LogHandlers, LiftPasses

CONSTANTS
  Programs,  \* the programs to choose from
  MaxCalls,  \* bound on pending calls of the program
  MaxRuns,   \* bound on traces
  MaxFrames  \* bound on pending calls of the recovered program

\* Code does not run into the first block of a function from above.
NoFallThrough(prog) ==
  \A pc \in DOMAIN prog.code :
    prog.code[pc].op \in {"call", "icall"} =>
      \A f \in prog.code[pc].to : ~(f - 1 \in DOMAIN prog.code /\ prog.code[f - 1].op = "plain")

ASSUME LiftingAssumption ==
  /\ \A prog \in Programs :
       /\ IsProgram(prog)
       /\ NoFallThrough(prog)
       /\ DOMAIN prog.code \cup {LibCaller(prog)} \subseteq Pc
  /\ {MaxCalls, MaxRuns, MaxFrames} \subseteq Nat

VARIABLES
  prog,     \* the program
  guest,    \* its state while traced, and again beside the recovered one
  log,      \* the tracing variables
  prevPc,   \* ExportELFState::prevPc
  traces,   \* the merged trace
  runs,     \* how many traces were merged
  pass,     \* what comes next
  tbs,      \* the module before RecoverFunctions
  bbs,      \* the module from then on
  from,     \* replay: the block of the program that is running
  calls,    \* replay: the basic block of each recovered function that is active
  returns   \* replay: the innermost function has just returned

traceVars == <<log, prevPc, traces, runs>>
moduleVars == <<tbs, bbs>>
replayVars == <<from, calls, returns>>
vars == <<prog, guest, traceVars, pass, moduleVars, replayVars>>

Passes ==
  << "trace", "SuccessorLists", "ELFSymbols", "PruneNullSuccs", "RecoverFunctions",
     "FixOverlaps", "PruneTriviallyDeadSuccs", "InsertCalls", "ExternPLT", "PcJumps",
     "FixCFG", "replay" >>

NoModule == [x \in {} |-> <<>>]

TypeOK ==
  /\ IsProgram(prog)
  /\ guest.at \in DOMAIN prog.code \cup {Lib}
  /\ log \in Logger
  /\ prevPc \in Pc \cup {NoPc}
  /\ traces \in TraceInfoRecord
  /\ runs \in 0..MaxRuns
  /\ pass \in Range(Passes) \cup {"failed", "end", "lost"}
  /\ \A pc \in DOMAIN tbs : tbs[pc] \in Seq(IF pass = "RecoverFunctions" THEN DOMAIN tbs ELSE Pc)
  /\ \A b \in DOMAIN bbs :
       /\ bbs[b].succs \in Seq(DOMAIN bbs)
       /\ bbs[b].callees \subseteq DOMAIN bbs
       /\ bbs[b].exit \in {"ret", "branch", "switch"}
  /\ from \in Pc \cup {NoPc}
  /\ calls \in Seq(DOMAIN bbs)
  /\ returns \in BOOLEAN

Init ==
  /\ prog \in Programs
  /\ guest = Started(prog)
  /\ log = InitialLogger(NoPc)
  /\ prevPc = NoPc
  /\ traces = EmptyTrace
  /\ runs = 0
  /\ pass = "trace"
  /\ tbs = NoModule
  /\ bbs = NoModule
  /\ from = NoPc
  /\ calls = <<>>
  /\ returns = FALSE

-----------------------------------------------------------------------------
(* Tracing.                                                                *)

\* The signals after a block: a call, a return, or nothing of interest.
Signalled(l, g, next) ==
  CASE Len(next.frames) > Len(g.frames) -> OnCall(l, next.at)
    [] Len(next.frames) < Len(g.frames) -> OnReturn(l, Innermost(g).call, Innermost(g).fn)
    [] OTHER                            -> l

Executed(pc) ==
  LET ti == IF prevPc # NoPc THEN [log.ti EXCEPT !.successors = @ \cup {<<prevPc, pc>>}]
            ELSE log.ti
  IN  OnExecute([log EXCEPT !.ti = ti], pc)

TraceBlock ==
  /\ pass = "trace"
  /\ guest.at # Lib
  /\ \E next \in AfterBlock(prog, guest) :
       /\ Len(next.frames) <= MaxCalls
       /\ guest' = next
       /\ log' = Signalled(Executed(guest.at), guest, next)
  /\ prevPc' = guest.at
  /\ UNCHANGED <<prog, traces, runs, pass, moduleVars, replayVars>>

TraceLibrary ==
  /\ pass = "trace"
  /\ guest.at = Lib
  /\ ~Quits(prog, guest)
  /\ guest' = AfterLibrary(prog, guest)
  /\ log' = Signalled(log, guest, guest')
  /\ UNCHANGED <<prog, prevPc, traces, runs, pass, moduleVars, replayVars>>

\* The trace of a run is merged; another run is traced or the lifting starts.
EndTrace ==
  /\ pass = "trace"
  /\ Quits(prog, guest)
  /\ traces' = Add(traces, FinalTrace(log.ti))
  /\ runs' = runs + 1
  /\ \/ runs' < MaxRuns /\ pass' = pass
     \/ pass' = "SuccessorLists"
  /\ guest' = Started(prog)
  /\ log' = InitialLogger(NoPc)
  /\ prevPc' = NoPc
  /\ UNCHANGED <<prog, moduleVars, replayVars>>

-----------------------------------------------------------------------------
(* The passes.  One that finds what it does not expect ends the lifting.   *)
Runs(name, fails, newTbs, newBbs) ==
  /\ pass = name
  /\ IF fails
     THEN pass' = "failed" /\ UNCHANGED moduleVars
     ELSE /\ pass' = Passes[1 + CHOOSE i \in 1..Len(Passes) : Passes[i] = name]
          /\ tbs' = newTbs
          /\ bbs' = newBbs
  /\ UNCHANGED <<prog, guest, traceVars, replayVars>>

RunSuccessorLists == Runs("SuccessorLists", FALSE, SuccessorLists(traces), bbs)

RunELFSymbols ==
  Runs("ELFSymbols", ELFSymbolsFails(prog, tbs), ELFSymbols(prog, tbs), bbs)

RunPruneNullSuccs == Runs("PruneNullSuccs", FALSE, PruneNullSuccs(tbs), bbs)

RunRecoverFunctions ==
  \E any \in FirstFound(RecoveredBlocks(traces, tbs)) :
    Runs("RecoverFunctions", RecoverFunctionsFails(prog, traces, tbs),
         NoModule, RecoverFunctions(traces, tbs, any))

RunFixOverlaps == Runs("FixOverlaps", FALSE, tbs, FixOverlaps(prog, bbs))

RunPruneTriviallyDeadSuccs ==
  Runs("PruneTriviallyDeadSuccs", PruneFails(prog, bbs),
       tbs, PruneTriviallyDeadSuccs(prog, bbs))

RunInsertCalls ==
  Runs("InsertCalls", InsertCallsFails(prog, traces, bbs),
       tbs, InsertCalls(prog, traces, bbs))

RunExternPLT == Runs("ExternPLT", FALSE, tbs, ExternPLT(prog, bbs))

RunPcJumps == Runs("PcJumps", FALSE, tbs, PcJumps(traces, bbs))

RunFixCFG == Runs("FixCFG", FixCFGFails(prog, traces, bbs), tbs, FixCFG(prog, traces, bbs))

-----------------------------------------------------------------------------
(* The recovered program beside the original one.  Of the original only    *)
(* the executions count whose branches and returns all were traced; the    *)
(* blocks of both begin at the same time.                                  *)
Block == bbs[Last(calls)]

StartReplay ==
  /\ pass = "replay"
  /\ from = NoPc
  /\ guest' = MainOnly(prog)
  /\ from' = prog.main
  /\ calls' = << <<prog.main, prog.main>> >>
  /\ UNCHANGED <<prog, traceVars, pass, moduleVars, returns>>

Replaying == pass = "replay" /\ from # NoPc /\ ~returns

\* A block that was cut off runs into the next.
RunOver ==
  /\ Replaying
  /\ Block.exit = "branch"
  /\ calls' = Front(calls) \o <<Block.succs[1]>>
  /\ guest' = [guest EXCEPT !.at = Block.succs[1][2]]
  /\ UNCHANGED <<prog, traceVars, pass, moduleVars, from, returns>>

\* Where the program may go; a library function is called and has returned.
Traced(next) ==
  IF Len(next.frames) < Len(guest.frames)
  THEN next.at = Lib \/ <<Innermost(guest).call, next.at>> \in traces.callerToFollowUp
  ELSE <<from, next.at>> \in traces.successors

NextBlocks ==
  LET after == AfterBlock(prog, guest) IN
  {next \in IF IsStub(prog, guest.at) THEN {AfterLibrary(prog, g) : g \in after} ELSE after :
     Traced(next)}

\* The function called: the only one, or the one entered at PC.
Callees(pc) == IF Cardinality(Block.callees) = 1 THEN Block.callees
               ELSE {c \in Block.callees : c[2] = pc}

Targets(pc) == {c \in Range(Block.succs) : c[2] = pc}

\* The program takes a step, and the block does what its end says.
RunBlock ==
  /\ Replaying
  /\ Block.exit # "branch"
  /\ ~(IsStub(prog, guest.at) /\ prog.code[guest.at].op = "quit")
  /\ \E next \in NextBlocks :
       /\ Len(next.frames) <= MaxCalls
       /\ Len(calls) < MaxFrames
       /\ guest' = next
       /\ from' = IF next.at = Lib THEN from ELSE next.at
       /\ \/ /\ Block.callees # {}
             /\ \E c \in Callees(next.at) : calls' = Append(calls, <<c[1], c[1]>>)
             /\ UNCHANGED <<pass, returns>>
          \/ /\ Block.callees = {} /\ Block.exit = "switch"
             /\ \E c \in Targets(next.at) : calls' = Front(calls) \o <<c>>
             /\ UNCHANGED <<pass, returns>>
          \/ /\ Block.callees = {} /\ Block.exit = "ret"
             /\ returns' = TRUE
             /\ UNCHANGED <<pass, calls>>
          \/ /\ \/ Block.callees # {} /\ Callees(next.at) = {}
                \/ Block.callees = {} /\ Block.exit = "switch" /\ Targets(next.at) = {}
             /\ pass' = "lost"
             /\ UNCHANGED <<calls, returns>>
  /\ UNCHANGED <<prog, traceVars, moduleVars>>

\* The program ends in a library function that both call.
RunQuit ==
  /\ Replaying
  /\ prog.code[guest.at].op = "quit"
  /\ guest' = [guest EXCEPT !.at = Lib]
  /\ pass' = "end"
  /\ UNCHANGED <<prog, traceVars, moduleVars, replayVars>>

\* A function has returned, to the follow-up block of the call if there is one;
\* a caller without one returns as well.
Return ==
  /\ pass = "replay"
  /\ returns
  /\ LET callers == Front(calls) IN
       \/ /\ callers = <<>>
          /\ pass' = "end"
          /\ calls' = callers
          /\ UNCHANGED returns
       \/ /\ callers # <<>>
          /\ LET b == bbs[Last(callers)] IN
               \/ /\ b.exit = "switch"
                  /\ calls' = Front(callers) \o <<b.succs[1]>>
                  /\ returns' = FALSE
               \/ /\ b.exit = "ret"
                  /\ calls' = callers
                  /\ UNCHANGED returns
          /\ UNCHANGED pass
  /\ UNCHANGED <<prog, guest, traceVars, moduleVars, from>>

Next ==
  \/ TraceBlock
  \/ TraceLibrary
  \/ EndTrace
  \/ RunSuccessorLists
  \/ RunELFSymbols
  \/ RunPruneNullSuccs
  \/ RunRecoverFunctions
  \/ RunFixOverlaps
  \/ RunPruneTriviallyDeadSuccs
  \/ RunInsertCalls
  \/ RunExternPLT
  \/ RunPcJumps
  \/ RunFixCFG
  \/ StartReplay
  \/ RunOver
  \/ RunBlock
  \/ RunQuit
  \/ Return

Spec == Init /\ [][Next]_vars

-----------------------------------------------------------------------------
(* What the passes mistake, as seen in the merged trace.                    *)
FromBlock(pc) == {e[2] : e \in {d \in traces.successors : d[1] = pc}}

\* A conditional branch to the entry of its function: if that is its first successor,
\* the block is taken for a call, of several functions when it also went on.
BranchesToEntry ==
  \E e \in traces.entryToTbs :
    Exit(prog, e[2]).op = "cjump" /\ e[1] \in FromBlock(e[2])

\* A call of a function whose code the caller also ran as its own, by a tail call.
CallsOwnTail ==
  \E e \in traces.entryToTbs :
    /\ Exit(prog, e[2]).op \in {"call", "icall"}
    /\ \E f \in FromBlock(e[2]) \ {e[1]} : <<e[1], f>> \in traces.entryToTbs

\* A branch in code that functions share by a tail call, of which one of them did
\* not take a direction that another took.
BranchesApart ==
  \E e \in traces.entryToTbs :
    /\ Exit(prog, e[2]).op = "cjump"
    /\ \E pc \in FromBlock(e[2]) : <<e[1], pc>> \notin traces.entryToTbs

\* A function that returned while a symbol was bound for its tail call.
ReturnsFromPlt == \E e \in traces.entryToReturn : e[2] \in prog.plt

\* A stub was the last block of every run it was in.
StopsInStub == \E pc \in TracedBlocks(traces) : IsStub(prog, pc) /\ FromBlock(pc) = {}

\* Lifting fails for no other reason than these five: overlapping blocks, merged
\* traces, recursion, tail calls and lazily bound symbols alone leave no pass with a
\* block that lacks the successor its code names, a call whose follow-up block is in
\* another function, or a stub or a function it cannot resolve.
LiftSucceeds ==
  pass = "failed" =>
    BranchesToEntry \/ CallsOwnTail \/ BranchesApart \/ ReturnsFromPlt \/ StopsInStub

\* Unless one of two of them makes calls and jumps look alike, the recovered program
\* goes where the program goes: on traced paths its basic block is always the one at
\* the program's address, however blocks overlap, functions share code by tail calls
\* and traces are merged, it never falls out of a switch, and it ends when the program
\* does.
Faithful ==
  CallsOwnTail \/ BranchesApart \/
    /\ pass # "lost"
    /\ Replaying => Last(calls)[2] = guest.at
    /\ pass = "end" => Quits(prog, guest)
=============================================================================
