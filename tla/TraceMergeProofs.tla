-------------------------- MODULE TraceMergeProofs --------------------------
(***************************************************************************)
(* Merging for any number of traces, states and merges.  While a merge     *)
(* runs, each block of a trace info it has found is in the output, in a    *)
(* file still to be linked, or in one still to be prepared; prepared files *)
(* of earlier merges are like new ones, since what a trace directory holds *)
(* never changes.  Only the state in which a session ended may have left   *)
(* bitcode without a trace info.                                           *)
(***************************************************************************)
EXTENDS TraceMerge, SequenceTheorems, TLAPS

\* A prefix of a sequence.
LEMMA Prefix ==
  ASSUME NEW S, NEW s \in Seq(S), NEW n \in 0..Len(s)
  PROVE  /\ SubSeq(s, 1, n) \in Seq(S)
         /\ Len(SubSeq(s, 1, n)) = n
         /\ \A i \in 1..n : SubSeq(s, 1, n)[i] = s[i]
  OBVIOUS

\* The top and the rest of a nonempty std::stack.
LEMMA TopPop ==
  ASSUME NEW S, NEW stack \in Seq(S), stack # <<>>
  PROVE  /\ Len(stack) \in Nat \ {0}
         /\ Top(stack) \in S
         /\ Pop(stack) \in Seq(S)
         /\ Len(Pop(stack)) = Len(stack) - 1
         /\ \A i \in 1..Len(stack) - 1 : Pop(stack)[i] = stack[i]
<1>1. Len(stack) \in Nat \ {0}
  BY EmptySeq
<1>2. Top(stack) \in S
  BY <1>1, ElementOfSeq DEF Top
<1>3. Len(stack) - 1 \in 0..Len(stack)
  BY <1>1
<1> QED BY <1>1, <1>2, <1>3, Prefix DEF Pop

\* slotModuleExecute replaces at most the last entry point.
LEMMA EntriesExecute ==
  ASSUME NEW ti \in TraceInfoRecord, PlaceholderLast(ti), NEW pc \in Pc
  PROVE  /\ EntriesAfterExecute(ti, pc) \in Seq(Pc \cup {NoPc})
         /\ EntriesAfterExecute(ti, pc) # <<>>
         /\ \A i \in 1..Len(EntriesAfterExecute(ti, pc)) - 1 :
              EntriesAfterExecute(ti, pc)[i] # NoPc
<1>1. ti.entries \in Seq(Pc \cup {NoPc}) /\ ti.entries # <<>>
  BY DEF TraceInfoRecord, PlaceholderLast
<1>2. Len(ti.entries) \in Nat \ {0}
  BY <1>1, EmptySeq
<1>3. CASE AwaitsEntry(ti)
  <2> DEFINE new == [ti.entries EXCEPT ![Len(ti.entries)] = pc]
  <2>1. new \in Seq(Pc \cup {NoPc}) /\ Len(new) = Len(ti.entries)
    BY <1>1, <1>2, SMT
  <2>2. \A i \in 1..Len(ti.entries) - 1 : new[i] = ti.entries[i]
    BY <1>1, <1>2, SMT
  <2>3. new # <<>>
    BY <1>2, <2>1, SMT
  <2> QED BY <1>3, <2>1, <2>2, <2>3 DEF EntriesAfterExecute, PlaceholderLast
<1>4. CASE ~AwaitsEntry(ti)
  BY <1>1, <1>4 DEF EntriesAfterExecute, PlaceholderLast
<1> QED BY <1>3, <1>4

\* ~FunctionLog leaves no placeholder.
LEMMA FinalTraceType ==
  ASSUME NEW ti \in TraceInfoRecord, PlaceholderLast(ti)
  PROVE  /\ FinalTrace(ti) \in TraceInfoRecord
         /\ \A i \in 1..Len(FinalTrace(ti).entries) : FinalTrace(ti).entries[i] # NoPc
<1>1. ti.entries \in Seq(Pc \cup {NoPc}) /\ ti.entries # <<>>
  BY DEF TraceInfoRecord, PlaceholderLast
<1>2. /\ Len(ti.entries) \in Nat \ {0}
      /\ Pop(ti.entries) \in Seq(Pc \cup {NoPc})
      /\ Len(Pop(ti.entries)) = Len(ti.entries) - 1
      /\ \A i \in 1..Len(ti.entries) - 1 : Pop(ti.entries)[i] = ti.entries[i]
  BY <1>1, TopPop
<1>3. CASE AwaitsEntry(ti)
  <2>1. FinalTrace(ti) = [ti EXCEPT !.entries = Pop(ti.entries)]
    BY <1>3 DEF FinalTrace
  <2>2. FinalTrace(ti) \in TraceInfoRecord /\ FinalTrace(ti).entries = Pop(ti.entries)
    BY <1>2, <2>1 DEF TraceInfoRecord
  <2> QED BY <1>2, <2>2 DEF PlaceholderLast
<1>4. CASE ~AwaitsEntry(ti)
  BY <1>2, <1>4 DEF FinalTrace, AwaitsEntry, Top, PlaceholderLast
<1> QED BY <1>3, <1>4

-----------------------------------------------------------------------------
(* The state.                                                              *)

\* The blocks of a bitcode file, none if it was not written.
Content(files, key) == IF key \in DOMAIN files THEN files[key] ELSE {}

\* Every block of a trace info is in the bitcode file of the same name.
CoversInfos(d) == \A k \in DOMAIN d.json : BlocksOf(d.json[k]) \subseteq Content(d.bc, k)

\* The running session: the traces of the states, and the files written so far.
SessionOK ==
  /\ \A s \in States :
       /\ PlaceholderLast(trace[s])
       /\ BlocksOf(trace[s]) \subseteq module
       /\ prevPc[s] \in module \cup {NoPc}
  /\ \A k \in DOMAIN json : BlocksOf(json[k]) \subseteq module
  /\ CoversInfos([bc |-> bc, json |-> json])

DirsOK ==
  /\ Len(dirs) <= MaxDirs
  /\ \A i \in 1..Len(dirs) : CoversInfos(dirs[i])

\* What preparing a captured file gives, for good.
IsCaptured(f) == f[1] \in 1..Len(dirs) /\ f[2] \in DOMAIN dirs[f[1]].bc
IsInfo(f) == f[1] \in 1..Len(dirs) /\ f[2] \in DOMAIN dirs[f[1]].json
Content0(f) == dirs[f[1]].bc[f[2]] \cap BlocksOf(InfoOf(f))

ReadyOK ==
  \A f \in DOMAIN ready :
    IsCaptured(f) /\ HasInfo(f) /\ f[3] \in 1..merges /\ ready[f] = Content0(f)

TodoOK ==
  /\ \A f \in todo \cap BcFile :
       /\ IsCaptured(f)
       /\ f[3] < merges
       /\ f[3] # 0 => f \in DOMAIN ready
  /\ \A f \in todo \cap InfoFile : IsInfo(f)
  /\ \A i \in 1..Len(infos) : IsInfo(infos[i])

StagesOK ==
  /\ step \in {"link", "infos", "merged"} => todo = {}
  /\ step \in {"infos", "merged"} => linked = {}
  /\ step = "merged" => infos = <<>>

\* A trace info that the merge has found and not added yet.
Found(f) == f \in todo \/ \E i \in 1..Len(infos) : infos[i] = f

\* Its blocks are in the output, or on their way to it.
BlocksOnTheWay ==
  step \in {"prepare", "link", "infos"} =>
    \A f \in InfoFile : Found(f) =>
      \A b \in BlocksOf(dirs[f[1]].json[f[2]]) :
        b \in outBc \/ <<f[1], f[2], 0>> \in todo \/ \E g \in linked : b \in ready[g]

CoverInv == BlocksOnTheWay /\ BlocksOf(outInfo) \subseteq outBc

\* Every trace info of every directory is found or added.
InfosOnTheWay ==
  step \in {"prepare", "link", "infos", "merged"} =>
    \A d \in 1..Len(dirs) : \A key \in DOMAIN dirs[d].json :
      Found(<<d, key>>) \/ dirs[d].json[key].successors \subseteq outInfo.successors

\* Only the state in which the session ended may have bitcode without a trace info,
\* and captured.bc has all of it.
OnlyLastLacks(d) ==
  \A k \in DOMAIN d.bc \ DOMAIN d.json :
    k = d.last /\ Final \in DOMAIN d.bc /\ d.bc[k] \subseteq d.bc[Final]

\* While it runs, only the running state, whose intermediate file may be written.
InfosWritten ==
  /\ DOMAIN bc \ DOMAIN json \subseteq {cur}
  /\ \A k \in DOMAIN bc : bc[k] \subseteq module /\ module # {}
  /\ \A i \in 1..Len(dirs) : OnlyLastLacks(dirs[i])

\* The same types in a form for sequences of directories.
FilesOf(S) == UNION { [keys -> S] : keys \in SUBSET FileKey }
Directory == [bc : FilesOf(SUBSET Pc), json : FilesOf(TraceInfoRecord), last : States]
DirsTyped == dirs \in Seq(Directory)

-----------------------------------------------------------------------------
(* Files and traces.                                                       *)

\* Writing a file gives a directory of files again.
LEMMA WriteFiles ==
  ASSUME NEW S, NEW files \in FilesOf(S), NEW key \in FileKey, NEW content \in S
  PROVE  Write(files, key, content) \in FilesOf(S)
<1>1. PICK keys \in SUBSET FileKey : files \in [keys -> S]
  BY DEF FilesOf
<1>2. Write(files, key, content) \in [keys \cup {key} -> S]
  BY <1>1 DEF Write
<1>3. keys \cup {key} \in SUBSET FileKey
  OBVIOUS
<1> QED
  BY <1>2, <1>3 DEF FilesOf

\* What the typed files are, key by key.
LEMMA FilesTyped ==
  ASSUME NEW S, NEW files \in FilesOf(S)
  PROVE  /\ DOMAIN files \subseteq FileKey
         /\ files \in [DOMAIN files -> S]
         /\ \A k \in DOMAIN files : files[k] \in S
BY DEF FilesOf

\* The directories of completed sessions are directories of files.
LEMMA DirectoryTyped ==
  ASSUME NEW d \in Directory
  PROVE  /\ IsDirectory(d) /\ d.last \in States
         /\ d.bc \in FilesOf(SUBSET Pc) /\ d.json \in FilesOf(TraceInfoRecord)
<1>1. d.last \in States /\ d.bc \in FilesOf(SUBSET Pc) /\ d.json \in FilesOf(TraceInfoRecord)
  BY DEF Directory
<1> QED
  BY <1>1, FilesTyped DEF IsDirectory

\* Only the successors tell which blocks a trace has.
LEMMA BlocksOfUnion ==
  ASSUME NEW a, NEW b, NEW c, c.successors = a.successors \cup b.successors
  PROVE  BlocksOf(c) = BlocksOf(a) \cup BlocksOf(b)
BY DEF BlocksOf

\* onModuleExecute of both plugins: the trace with one edge more.
LEMMA ExecutedTrace ==
  ASSUME NEW ti \in TraceInfoRecord, PlaceholderLast(ti), NEW pc \in Pc,
         NEW edge, edge \subseteq Pc \X Pc
  PROVE  /\ Executed(ti, edge, pc) \in TraceInfoRecord
         /\ PlaceholderLast(Executed(ti, edge, pc))
         /\ Executed(ti, edge, pc).successors = ti.successors \cup edge
<1> DEFINE new == Executed(ti, edge, pc)
<1>1. /\ EntriesAfterExecute(ti, pc) \in Seq(Pc \cup {NoPc})
      /\ EntriesAfterExecute(ti, pc) # <<>>
      /\ \A i \in 1..Len(EntriesAfterExecute(ti, pc)) - 1 :
           EntriesAfterExecute(ti, pc)[i] # NoPc
  BY EntriesExecute
<1>2. ti.successors \cup edge \in SUBSET (Pc \X Pc)
  BY DEF TraceInfoRecord
<1>3. /\ new \in TraceInfoRecord /\ new.entries = EntriesAfterExecute(ti, pc)
      /\ new.successors = ti.successors \cup edge
  BY <1>1, <1>2 DEF TraceInfoRecord, Executed
<1> HIDE DEF new
<1> QED
  BY <1>1, <1>3 DEF PlaceholderLast, new

\* The entry point returns: a placeholder for the next one.
LEMMA ReturnedTrace ==
  ASSUME NEW ti \in TraceInfoRecord, PlaceholderLast(ti), ~AwaitsEntry(ti), NEW new,
         new = [ti EXCEPT !.entries = Append(ti.entries, NoPc)]
  PROVE  /\ new \in TraceInfoRecord
         /\ PlaceholderLast(new)
         /\ new.successors = ti.successors
<1>1. ti.entries \in Seq(Pc \cup {NoPc}) /\ ti.entries # <<>>
  BY DEF TraceInfoRecord, PlaceholderLast
<1>2. Len(ti.entries) \in Nat \ {0}
  BY <1>1, EmptySeq
<1> DEFINE e == Append(ti.entries, NoPc)
<1>3. /\ e \in Seq(Pc \cup {NoPc}) /\ e # <<>>
      /\ Len(e) = Len(ti.entries) + 1
      /\ \A i \in 1..Len(ti.entries) : e[i] = ti.entries[i]
  BY <1>1, <1>2, AppendProperties
<1>4. \A i \in 1..Len(ti.entries) : ti.entries[i] # NoPc
  BY <1>2 DEF PlaceholderLast, AwaitsEntry, Top
<1>5. /\ new \in TraceInfoRecord /\ new.entries = e
      /\ new.successors = ti.successors
  BY <1>3 DEF TraceInfoRecord
<1> HIDE DEF e
<1> QED
  BY <1>2, <1>3, <1>4, <1>5 DEF PlaceholderLast

\* The trace before the first block, and the empty sum of trace infos.
LEMMA InitialTraceOK ==
  /\ EmptyTrace \in TraceInfoRecord /\ BlocksOf(EmptyTrace) = {}
  /\ InitialTrace \in TraceInfoRecord /\ BlocksOf(InitialTrace) = {}
  /\ PlaceholderLast(InitialTrace)
<1>1. NoSizes \in SizeMap
  BY DEF NoSizes, SizeMap
<1>2. <<>> \in Seq(Access) /\ <<>> \in Seq(Pc \cup {NoPc})
  OBVIOUS
<1>3. EmptyTrace \in TraceInfoRecord /\ EmptyTrace.successors = {}
  BY <1>1, <1>2 DEF EmptyTrace, TraceInfoRecord
<1>4. <<NoPc>> \in Seq(Pc \cup {NoPc}) /\ Len(<<NoPc>>) = 1 /\ <<NoPc>> # <<>>
  OBVIOUS
<1>5. /\ InitialTrace \in TraceInfoRecord
      /\ InitialTrace.entries = <<NoPc>> /\ InitialTrace.successors = {}
  BY <1>3, <1>4 DEF InitialTrace, TraceInfoRecord
<1> QED
  BY <1>3, <1>4, <1>5 DEF PlaceholderLast, BlocksOf

\* The trace that ~FunctionLog writes has the blocks of the running state.
LEMMA FinalTraceBlocks ==
  ASSUME NEW ti \in TraceInfoRecord, PlaceholderLast(ti)
  PROVE  FinalTrace(ti) \in TraceInfoRecord /\ BlocksOf(FinalTrace(ti)) = BlocksOf(ti)
<1>1. FinalTrace(ti).successors = ti.successors
  BY DEF FinalTrace, TraceInfoRecord
<1> QED
  BY <1>1, FinalTraceType DEF BlocksOf
-----------------------------------------------------------------------------
(* The session of a trace.                                                 *)

\* What the steps of a session preserve.
SessionInv ==
  /\ ExecTypeOK
  /\ module \subseteq Pc
  /\ trace \in [States -> TraceInfoRecord]
  /\ prevPc \in [States -> Pc \cup {NoPc}]
  /\ exports \in Nat
  /\ bc \in FilesOf(SUBSET Pc)
  /\ json \in FilesOf(TraceInfoRecord)
  /\ tracing \in BOOLEAN
  /\ SessionOK
  /\ DirsTyped
  /\ \A i \in 1..Len(dirs) : CoversInfos(dirs[i])

\* Writing the module under a name covers the trace infos as before, and the new one.
LEMMA ModuleSaved ==
  ASSUME bc \in FilesOf(SUBSET Pc), json \in FilesOf(TraceInfoRecord),
         CoversInfos([bc |-> bc, json |-> json]),
         NEW key \in FileKey, NEW functions, functions \subseteq Pc,
         \A k \in DOMAIN json : BlocksOf(json[k]) \subseteq functions
  PROVE  /\ SaveLLVMModule(key, functions) \in FilesOf(SUBSET Pc)
         /\ CoversInfos([bc |-> SaveLLVMModule(key, functions), json |-> json])
         /\ DOMAIN SaveLLVMModule(key, functions) \subseteq DOMAIN bc \cup {key}
         /\ \A ti : BlocksOf(ti) \subseteq functions =>
              CoversInfos([bc |-> SaveLLVMModule(key, functions), json |-> Write(json, key, ti)])
<1> DEFINE b == bc
           j == json
           saved == SaveLLVMModule(key, functions)
<1>1. \A k \in DOMAIN j : BlocksOf(j[k]) \subseteq Content(b, k)
  BY DEF CoversInfos
<1>2. CASE functions = {}
  <2>1. saved = b
    BY <1>2 DEF SaveLLVMModule
  <2>2. ASSUME NEW ti, BlocksOf(ti) \subseteq functions
        PROVE  CoversInfos([bc |-> b, json |-> Write(j, key, ti)])
    <3>1. \A k \in DOMAIN Write(j, key, ti) :
            BlocksOf(Write(j, key, ti)[k]) \subseteq Content(b, k)
      BY <1>1, <1>2, <2>2 DEF Write
    <3> QED  BY <3>1 DEF CoversInfos
  <2> QED  BY <2>1, <2>2
<1>3. CASE functions # {}
  <2>1. saved = Write(b, key, functions)
    BY <1>3 DEF SaveLLVMModule
  <2> HIDE DEF saved
  <2>a. saved \in FilesOf(SUBSET Pc)
    <3>1. PICK S : S = SUBSET Pc
      OBVIOUS
    <3>2. b \in FilesOf(S) /\ functions \in S
      BY <3>1
    <3>3. Write(b, key, functions) \in FilesOf(S)
      BY <3>2, WriteFiles, Zenon
    <3> QED  BY <2>1, <3>1, <3>3
  <2>2. /\ DOMAIN saved = DOMAIN b \cup {key}
        /\ saved[key] = functions
        /\ \A k \in DOMAIN b \ {key} : saved[k] = b[k]
    BY <2>1 DEF Write
  <2>3. \A k \in DOMAIN j : BlocksOf(j[k]) \subseteq Content(saved, k)
    BY <1>1, <2>2 DEF Content
  <2>4. ASSUME NEW ti, BlocksOf(ti) \subseteq functions
        PROVE  CoversInfos([bc |-> saved, json |-> Write(j, key, ti)])
    <3>1. \A k \in DOMAIN Write(j, key, ti) :
            BlocksOf(Write(j, key, ti)[k]) \subseteq Content(saved, k)
      BY <2>2, <2>3, <2>4 DEF Content, Write
    <3> QED  BY <3>1 DEF CoversInfos
  <2> QED
    BY <2>a, <2>2, <2>3, <2>4 DEF CoversInfos, saved
<1> QED
  BY <1>2, <1>3

\* A block executed, with its edge and perhaps an intermediate file.
LEMMA ExecuteSession ==
  ASSUME SessionInv, NEW pc \in Pc, NEW reExported \in BOOLEAN, Execute(pc, reExported)
  PROVE  SessionInv'
<1> DEFINE edge == IF prevPc[cur] # NoPc THEN {<<prevPc[cur], pc>>} ELSE {}
           exported == pc \notin module \/ reExported
           counted == IF exported /\ Interval > 0 THEN (exports + 1) % Interval ELSE exports
           new == Executed(trace[cur], edge, pc)
<1>1. /\ module' = module \cup {pc}
      /\ exports' = counted
      /\ bc' = IF exported /\ Interval > 0 /\ counted = 0
               THEN SaveLLVMModule(cur, module') ELSE bc
      /\ prevPc' = [prevPc EXCEPT ![cur] = pc]
      /\ UNCHANGED <<execVars, json, tracing, dirs>>
  BY DEF Execute
<1>a. trace' = [trace EXCEPT ![cur] = new]
  BY DEF Execute
<1>2. /\ cur \in States /\ module \subseteq Pc
      /\ trace \in [States -> TraceInfoRecord]
      /\ prevPc \in [States -> Pc \cup {NoPc}]
      /\ exports \in Nat
      /\ bc \in FilesOf(SUBSET Pc) /\ json \in FilesOf(TraceInfoRecord)
      /\ SessionOK
  BY DEF SessionInv, ExecTypeOK
<1>3. /\ PlaceholderLast(trace[cur]) /\ BlocksOf(trace[cur]) \subseteq module
      /\ prevPc[cur] \in module \cup {NoPc} /\ trace[cur] \in TraceInfoRecord
  BY <1>2 DEF SessionOK
<1>4. edge \subseteq Pc \X Pc /\ \A e \in edge : e[1] \in module \cup {pc} /\ e[2] = pc
  BY <1>2, <1>3
<1> HIDE DEF edge
<1>5. /\ new \in TraceInfoRecord /\ PlaceholderLast(new)
      /\ new.successors = trace[cur].successors \cup edge
  BY <1>3, <1>4, ExecutedTrace
<1> HIDE DEF new
<1>6. BlocksOf(new) \subseteq module'
  BY <1>1, <1>3, <1>4, <1>5 DEF BlocksOf
<1>7. /\ trace' \in [States -> TraceInfoRecord] /\ module' \subseteq Pc
      /\ prevPc' \in [States -> Pc \cup {NoPc}]
  BY <1>1, <1>a, <1>2, <1>5
<1>8. exports' \in Nat
  BY <1>1, <1>2, TraceFilesAssumption
<1>9. /\ bc' \in FilesOf(SUBSET Pc)
      /\ CoversInfos([bc |-> bc', json |-> json])
  <2>1. CASE bc' = bc
    BY <1>2, <2>1 DEF SessionOK
  <2>2. CASE bc' = SaveLLVMModule(cur, module')
    <3>1. /\ CoversInfos([bc |-> bc, json |-> json]) /\ cur \in FileKey
          /\ \A k \in DOMAIN json : BlocksOf(json[k]) \subseteq module'
      BY <1>1, <1>2 DEF SessionOK, FileKey
    <3> QED
      BY <1>2, <1>7, <2>2, <3>1, ModuleSaved
  <2> QED
    BY <1>1, <2>1, <2>2
<1>10. SessionOK'
  <2>1. ASSUME NEW s \in States
        PROVE  /\ PlaceholderLast(trace'[s]) /\ BlocksOf(trace'[s]) \subseteq module'
               /\ prevPc'[s] \in module' \cup {NoPc}
    BY <1>1, <1>a, <1>2, <1>5, <1>6 DEF SessionOK
  <2>2. \A k \in DOMAIN json' : BlocksOf(json'[k]) \subseteq module'
    BY <1>1, <1>2 DEF SessionOK
  <2>3. CoversInfos([bc |-> bc', json |-> json'])
    BY <1>1, <1>9
  <2> QED
    BY <2>1, <2>2, <2>3 DEF SessionOK
<1> QED
  BY <1>1, <1>2, <1>7, <1>8, <1>9, <1>10 DEF SessionInv, ExecTypeOK, execVars, DirsTyped
\* A directory is added with what the session wrote; those before stay as they are.
Grown ==
  /\ Len(dirs) \in Nat
  /\ Len(dirs') \in {Len(dirs), Len(dirs) + 1}
  /\ \A i \in 1..Len(dirs) : dirs'[i] = dirs[i]

\* The other steps of a session leave the completed directories alone.
LEMMA OtherSession ==
  ASSUME SessionInv,
         \/ StartTrace \/ EntryReturn \/ StateExit
         \/ \E n \in States : StateFork(n) \/ StateSwitch(n)
  PROVE  SessionInv' /\ dirs' = dirs
<1>1. /\ cur \in States /\ status \in [States -> {"new", "live", "dead"}] /\ module \subseteq Pc
      /\ trace \in [States -> TraceInfoRecord]
      /\ prevPc \in [States -> Pc \cup {NoPc}]
      /\ bc \in FilesOf(SUBSET Pc) /\ json \in FilesOf(TraceInfoRecord)
      /\ SessionOK
  BY DEF SessionInv, ExecTypeOK
<1>2. /\ PlaceholderLast(trace[cur]) /\ BlocksOf(trace[cur]) \subseteq module
      /\ prevPc[cur] \in module \cup {NoPc} /\ trace[cur] \in TraceInfoRecord
      /\ CoversInfos([bc |-> bc, json |-> json]) /\ cur \in FileKey
      /\ \A k \in DOMAIN json : BlocksOf(json[k]) \subseteq module
  BY <1>1 DEF SessionOK, FileKey
<1>3. CASE StartTrace
  BY <1>3 DEF StartTrace, SessionInv, SessionOK, ExecTypeOK, execVars, DirsTyped
<1>4. CASE EntryReturn
  <2>1. /\ trace' = [trace EXCEPT ![cur].entries = Append(trace[cur].entries, NoPc)]
        /\ ~AwaitsEntry(trace[cur])
        /\ UNCHANGED <<execVars, module, prevPc, exports, bc, json, tracing, dirs>>
    BY <1>4 DEF EntryReturn
  <2>2. PICK new : new = [trace[cur] EXCEPT !.entries = Append(trace[cur].entries, NoPc)]
    OBVIOUS
  <2>3. trace' = [trace EXCEPT ![cur] = new]
    BY <2>1, <2>2
  <2>4. /\ new \in TraceInfoRecord /\ PlaceholderLast(new)
        /\ new.successors = trace[cur].successors
    BY <1>2, <2>1, <2>2, ReturnedTrace
  <2>5. BlocksOf(new) \subseteq module
    BY <1>2, <2>4 DEF BlocksOf
  <2>6. trace' \in [States -> TraceInfoRecord]
    BY <1>1, <2>3, <2>4
  <2>7. \A s \in States : PlaceholderLast(trace'[s]) /\ BlocksOf(trace'[s]) \subseteq module
    BY <1>1, <2>3, <2>4, <2>5 DEF SessionOK
  <2>8. /\ UNCHANGED <<cur, status, module, prevPc, exports, bc, json, tracing, dirs>>
    BY <2>1 DEF execVars
  <2>9. SessionOK'
    BY <1>1, <2>7, <2>8 DEF SessionOK
  <2> QED
    BY <2>6, <2>8, <2>9 DEF SessionInv, ExecTypeOK, DirsTyped
<1>5. CASE StateExit
  <2>1. /\ status' = [status EXCEPT ![cur] = "dead"]
        /\ UNCHANGED <<cur, module, trace, prevPc, exports, bc, json, tracing, dirs>>
    BY <1>5 DEF StateExit, ExecExit
  <2>2. ExecTypeOK'
    BY <1>1, <2>1 DEF ExecTypeOK
  <2>3. SessionOK'
    BY <1>1, <2>1 DEF SessionOK
  <2> QED
    BY <2>1, <2>2, <2>3 DEF SessionInv, DirsTyped
<1>6. ASSUME NEW n \in States, StateFork(n)
      PROVE  SessionInv' /\ dirs' = dirs
  <2>1. /\ status' = [status EXCEPT ![n] = "live"]
        /\ trace' = [trace EXCEPT ![n] = trace[cur]]
        /\ prevPc' = [prevPc EXCEPT ![n] = prevPc[cur]]
        /\ UNCHANGED <<cur, module, exports, bc, json, tracing, dirs>>
    BY <1>6 DEF StateFork, ExecFork
  <2>2. /\ ExecTypeOK' /\ trace' \in [States -> TraceInfoRecord]
        /\ prevPc' \in [States -> Pc \cup {NoPc}]
    BY <1>1, <2>1 DEF ExecTypeOK
  <2>3. SessionOK'
    BY <1>1, <2>1 DEF SessionOK
  <2> QED
    BY <2>1, <2>2, <2>3 DEF SessionInv, DirsTyped
<1>7. ASSUME NEW n \in States, StateSwitch(n)
      PROVE  SessionInv' /\ dirs' = dirs
  <2>1. /\ cur' = n
        /\ bc' = SaveLLVMModule(cur, module)
        /\ json' = Write(json, cur, trace[cur])
        /\ UNCHANGED <<status, module, trace, prevPc, exports, tracing, dirs>>
    BY <1>7 DEF StateSwitch, ExecSwitch
  <2>2. json' \in FilesOf(TraceInfoRecord)
    BY <1>1, <1>2, <2>1, WriteFiles
  <2>3. bc' \in FilesOf(SUBSET Pc) /\ CoversInfos([bc |-> bc', json |-> json'])
    BY <1>1, <1>2, <2>1, ModuleSaved
  <2>4. \A k \in DOMAIN json' : BlocksOf(json'[k]) \subseteq module
    BY <1>2, <2>1 DEF Write
  <2>5. SessionOK'
    BY <1>1, <2>1, <2>3, <2>4 DEF SessionOK
  <2>6. ExecTypeOK'
    BY <1>1, <2>1 DEF ExecTypeOK
  <2> QED
    BY <2>1, <2>2, <2>3, <2>5, <2>6 DEF SessionInv, DirsTyped
<1> QED
  BY <1>3, <1>4, <1>5, <1>6, <1>7

\* The end of a session adds its directory behind the others.
LEMMA EndSession ==
  ASSUME SessionInv, EndOfTrace
  PROVE  SessionInv' /\ Grown
<1>1. /\ cur \in States /\ module \subseteq Pc
      /\ trace \in [States -> TraceInfoRecord]
      /\ bc \in FilesOf(SUBSET Pc) /\ json \in FilesOf(TraceInfoRecord)
      /\ SessionOK /\ dirs \in Seq(Directory)
  BY DEF SessionInv, ExecTypeOK, DirsTyped
<1>2. /\ PlaceholderLast(trace[cur]) /\ BlocksOf(trace[cur]) \subseteq module
      /\ trace[cur] \in TraceInfoRecord
      /\ CoversInfos([bc |-> bc, json |-> json]) /\ Final \in FileKey
      /\ \A k \in DOMAIN json : BlocksOf(json[k]) \subseteq module
  BY <1>1 DEF SessionOK, FileKey
<1> DEFINE ti == FinalTrace(trace[cur])
           d == [bc |-> SaveLLVMModule(Final, module), json |-> Write(json, Final, ti), last |-> cur]
<1>3. ti \in TraceInfoRecord /\ BlocksOf(ti) \subseteq module
  BY <1>2, FinalTraceBlocks
<1> HIDE DEF ti
<1>4. /\ SaveLLVMModule(Final, module) \in FilesOf(SUBSET Pc)
      /\ CoversInfos(d)
  <2>1. /\ SaveLLVMModule(Final, module) \in FilesOf(SUBSET Pc)
        /\ CoversInfos([bc |-> SaveLLVMModule(Final, module), json |-> Write(json, Final, ti)])
    BY <1>1, <1>2, <1>3, ModuleSaved
  <2> QED  BY <2>1 DEF CoversInfos
<1>5. Write(json, Final, ti) \in FilesOf(TraceInfoRecord)
  BY <1>1, <1>2, <1>3, WriteFiles
<1>6. d \in Directory
  BY <1>1, <1>4, <1>5 DEF Directory
<1>7. dirs' = Append(dirs, d)
  BY DEF EndOfTrace, ti
<1> HIDE DEF d
<1>8. /\ dirs' \in Seq(Directory) /\ Len(dirs) \in Nat /\ Len(dirs') = Len(dirs) + 1
      /\ dirs'[Len(dirs) + 1] = d
      /\ \A i \in 1..Len(dirs) : dirs'[i] = dirs[i]
  BY <1>1, <1>6, <1>7, AppendProperties
<1>9. \A i \in 1..Len(dirs') : CoversInfos(dirs'[i])
  BY <1>4, <1>8 DEF SessionInv
<1>10. /\ cur' = FirstState
       /\ status' = [s \in States |-> IF s = FirstState THEN "live" ELSE "new"]
       /\ module' = {}
       /\ trace' = [s \in States |-> InitialTrace]
       /\ prevPc' = [s \in States |-> NoPc]
       /\ exports' = 0
       /\ bc' = NoFiles
       /\ json' = NoFiles
       /\ tracing' = FALSE
  BY DEF EndOfTrace
<1>11. \A S : NoFiles \in FilesOf(S)
  BY DEF NoFiles, FilesOf
<1>12. SessionOK'
  <2>1. DOMAIN NoFiles = {}
    BY DEF NoFiles
  <2> QED
    BY <1>10, <2>1, InitialTraceOK DEF SessionOK, CoversInfos
<1>13. ExecTypeOK' /\ trace' \in [States -> TraceInfoRecord]
  BY <1>10, StatesAssumption, InitialTraceOK DEF ExecTypeOK
<1> QED
  BY <1>8, <1>9, <1>10, <1>11, <1>12, <1>13 DEF SessionInv, DirsTyped, Grown

\* Every step of a session, together.
LEMMA TracingSession ==
  ASSUME SessionInv, Tracing
  PROVE  SessionInv' /\ Grown
<1>1. ASSUME dirs' = dirs PROVE Grown
  <2>1. Len(dirs) \in Nat
    BY LenProperties DEF SessionInv, DirsTyped
  <2> QED  BY <1>1, <2>1 DEF Grown
<1>2. ASSUME NEW pc \in Pc, NEW reExported \in BOOLEAN, Execute(pc, reExported)
      PROVE  SessionInv' /\ dirs' = dirs
  BY <1>2, ExecuteSession DEF Execute
<1> QED
  BY <1>1, <1>2, OtherSession, EndSession DEF Tracing
-----------------------------------------------------------------------------
(* The types of the merge.                                                 *)

MergeTypes ==
  /\ step \in {"idle", "prepare", "link", "infos", "merged", "failed"}
  /\ merges \in 0..MaxMerges
  /\ todo \subseteq BcFile \cup InfoFile
  /\ DOMAIN ready \subseteq BcFile
  /\ ready \in [DOMAIN ready -> SUBSET Pc]
  /\ linked \subseteq DOMAIN ready
  /\ infos \in Seq(InfoFile)
  /\ outBc \subseteq Pc
  /\ outInfo \in TraceInfoRecord

\* The inductive invariant, which needs nothing of the constants.
IInv ==
  /\ SessionInv
  /\ MergeTypes
  /\ DirsOK
  /\ ReadyOK
  /\ TodoOK
  /\ StagesOK

\* The type invariant of the model is part of the inductive one.
LEMMA IInvTypes == IInv => TypeOK
<1>1. SUFFICES ASSUME IInv PROVE TypeOK
  OBVIOUS
<1>2. /\ SessionInv /\ MergeTypes
      /\ bc \in FilesOf(SUBSET Pc) /\ json \in FilesOf(TraceInfoRecord) /\ dirs \in Seq(Directory)
  BY <1>1 DEF IInv, SessionInv, DirsTyped
<1>3. \A i \in 1..Len(dirs) : IsDirectory(dirs[i]) /\ dirs[i].last \in States
  <2>1. \A i \in 1..Len(dirs) : dirs[i] \in Directory
    BY <1>2
  <2> QED  BY <2>1, DirectoryTyped
<1>4. IsDirectory([bc |-> bc, json |-> json])
  BY <1>2, FilesTyped DEF IsDirectory
<1> QED
  BY <1>2, <1>3, <1>4 DEF TypeOK, TraceFilesTypeOK, SessionInv, MergeTypes

\* TraceInfo::add keeps the types and unites the successors.
LEMMA AddType ==
  ASSUME NEW mine \in TraceInfoRecord, NEW theirs \in TraceInfoRecord
  PROVE  /\ Add(mine, theirs) \in TraceInfoRecord
         /\ Add(mine, theirs).successors = mine.successors \cup theirs.successors
<1>1. ASSUME NEW a \in SizeMap, NEW b \in SizeMap
      PROVE  AddFrameSizes(a, b) \in SizeMap /\ AddDifferences(a, b) \in SizeMap
  <2>1. PICK A \in SUBSET FnNames, B \in SUBSET FnNames : a \in [A -> Nat] /\ b \in [B -> Nat]
    BY DEF SizeMap
  <2>2. /\ AddFrameSizes(a, b) \in [A \cup B -> Nat]
        /\ AddDifferences(a, b) \in [A \cup B -> Nat]
    BY <2>1 DEF AddFrameSizes, AddDifferences
  <2>3. A \cup B \in SUBSET FnNames
    OBVIOUS
  <2> QED  BY <2>2, <2>3 DEF SizeMap
<1>2. /\ mine.stackFrameSizes \in SizeMap /\ theirs.stackFrameSizes \in SizeMap
      /\ mine.stackDifference \in SizeMap /\ theirs.stackDifference \in SizeMap
      /\ mine.memoryAccesses \in Seq(Access) /\ theirs.memoryAccesses \in Seq(Access)
      /\ mine.entries \in Seq(Pc \cup {NoPc}) /\ theirs.entries \in Seq(Pc \cup {NoPc})
  BY DEF TraceInfoRecord
<1>3. /\ mine.memoryAccesses \o theirs.memoryAccesses \in Seq(Access)
      /\ AddEntries(mine.entries, theirs.entries) \in Seq(Pc \cup {NoPc})
  BY <1>2, ConcatProperties DEF AddEntries
<1>4. /\ mine.successors \cup theirs.successors \in SUBSET (Pc \X Pc)
      /\ mine.entryToCaller \cup theirs.entryToCaller \in SUBSET (Pc \X Pc)
      /\ mine.entryToReturn \cup theirs.entryToReturn \in SUBSET (Pc \X (Pc \cup {NoPc}))
      /\ mine.callerToFollowUp \cup theirs.callerToFollowUp \in SUBSET (Pc \X Pc)
      /\ mine.entryToTbs \cup theirs.entryToTbs \in SUBSET (Pc \X Pc)
  BY DEF TraceInfoRecord
<1>5. /\ AddFrameSizes(mine.stackFrameSizes, theirs.stackFrameSizes) \in SizeMap
      /\ AddDifferences(mine.stackDifference, theirs.stackDifference) \in SizeMap
  BY <1>1, <1>2
<1> QED
  BY <1>3, <1>4, <1>5 DEF Add, TraceInfoRecord

\* The parts of the name of a file, and the name of what is prepared from it.
LEMMA BcFileParts ==
  ASSUME NEW f \in BcFile
  PROVE  /\ f[1] \in 1..MaxDirs /\ f[2] \in FileKey /\ f[3] \in 0..MaxMerges + 1
         /\ f = <<f[1], f[2], f[3]>>
         /\ Again(f)[1] = f[1] /\ Again(f)[2] = f[2] /\ Again(f)[3] = f[3] + 1
         /\ f \notin InfoFile
BY DEF BcFile, InfoFile, Again

\* The directory and the key of a trace info file.
LEMMA InfoFileParts ==
  ASSUME NEW f \in InfoFile
  PROVE  f[1] \in 1..MaxDirs /\ f[2] \in FileKey /\ f = <<f[1], f[2]>>
BY DEF InfoFile

\* What a trace directory says of a file does not change when others are added.
LEMMA SameFile ==
  ASSUME Grown, NEW f, f[1] \in 1..Len(dirs)
  PROVE  /\ (IsCaptured(f) => IsCaptured(f)') /\ (IsInfo(f) => IsInfo(f)')
         /\ (HasInfo(f) => HasInfo(f)') /\ Content0(f)' = Content0(f)
<1>1. dirs'[f[1]] = dirs[f[1]] /\ f[1] \in 1..Len(dirs')
  BY DEF Grown
<1> QED
  BY <1>1 DEF IsCaptured, IsInfo, HasInfo, Content0, InfoOf, InfoKey, FirstDigit
-----------------------------------------------------------------------------
(* The steps of a merge.                                                   *)

\* Nothing traced and nothing merged.
LEMMA InitInv == Init => IInv
<1>1. SUFFICES ASSUME Init PROVE IInv
  OBVIOUS
<1>2. /\ TraceFilesInit /\ step = "idle" /\ merges = 0 /\ todo = {} /\ ready = NoFiles
      /\ linked = {} /\ infos = <<>> /\ outBc = {} /\ outInfo = EmptyTrace
  BY <1>1 DEF Init
<1>3. DOMAIN NoFiles = {} /\ NoFiles \in [{} -> SUBSET Pc] /\ \A S : NoFiles \in FilesOf(S)
  BY DEF NoFiles, FilesOf
<1>4. dirs = <<>> /\ dirs \in Seq(Directory) /\ Len(dirs) = 0
  BY <1>2 DEF TraceFilesInit
<1>5. SessionOK
  BY <1>2, <1>3, InitialTraceOK DEF TraceFilesInit, SessionOK, CoversInfos
<1>6. ExecTypeOK
  BY <1>2, StatesAssumption DEF TraceFilesInit, ExecInit, ExecTypeOK
<1>7. SessionInv
  <2>1. /\ trace \in [States -> TraceInfoRecord] /\ prevPc \in [States -> Pc \cup {NoPc}]
        /\ module \subseteq Pc /\ exports \in Nat
        /\ \A i \in 1..Len(dirs) : CoversInfos(dirs[i])
    BY <1>2, <1>4, InitialTraceOK DEF TraceFilesInit
  <2>2. bc \in FilesOf(SUBSET Pc) /\ json \in FilesOf(TraceInfoRecord) /\ tracing \in BOOLEAN
    BY <1>2, <1>3 DEF TraceFilesInit
  <2> QED
    BY <1>4, <1>5, <1>6, <2>1, <2>2 DEF SessionInv, DirsTyped
<1>8. <<>> \in Seq(InfoFile) /\ Len(<<>>) = 0
  OBVIOUS
<1>9. MergeTypes
  BY <1>2, <1>3, <1>8, InitialTraceOK, TraceMergeAssumption DEF MergeTypes
<1>10. DirsOK /\ ReadyOK /\ TodoOK /\ StagesOK
  BY <1>2, <1>3, <1>4, <1>8, TraceMergeAssumption DEF DirsOK, ReadyOK, TodoOK, StagesOK
<1> QED
  BY <1>7, <1>9, <1>10 DEF IInv

\* Tracing goes on beside a merge and only adds directories.
LEMMA TraceStep ==
  ASSUME IInv, Trace
  PROVE  IInv' /\ Grown
<1>1. SessionInv /\ MergeTypes /\ DirsOK /\ ReadyOK /\ TodoOK /\ StagesOK
  BY DEF IInv
<1>2. SessionInv' /\ Grown
  BY <1>1, TracingSession DEF Trace
<1>3. /\ step' = "idle" /\ Len(dirs) < MaxDirs
      /\ UNCHANGED <<merges, todo, ready, linked, infos, outBc, outInfo>>
  BY DEF Trace
<1>4. MergeTypes'
  BY <1>1, <1>3 DEF MergeTypes
<1>5. DirsOK'
  BY <1>1, <1>2, <1>3, TraceMergeAssumption DEF DirsOK, SessionInv, Grown
<1>6. ReadyOK'
  <2>1. ASSUME NEW f \in DOMAIN ready
        PROVE  (IsCaptured(f) /\ HasInfo(f))' /\ f[3] \in 1..merges /\ ready[f] = Content0(f)'
    <3>1. f[1] \in 1..Len(dirs) /\ IsCaptured(f) /\ HasInfo(f)
          /\ f[3] \in 1..merges /\ ready[f] = Content0(f)
      BY <1>1 DEF ReadyOK, IsCaptured
    <3> QED  BY <1>2, <3>1, SameFile
  <2> QED
    BY <1>3, <2>1 DEF ReadyOK
<1>7. TodoOK'
  <2>1. ASSUME NEW f, IsCaptured(f) PROVE IsCaptured(f)'
    BY <1>2, <2>1, SameFile DEF IsCaptured
  <2>2. ASSUME NEW f, IsInfo(f) PROVE IsInfo(f)'
    BY <1>2, <2>2, SameFile DEF IsInfo
  <2> QED
    BY <1>1, <1>3, <2>1, <2>2 DEF TodoOK, BcFile, InfoFile, FileKey, Final
<1>8. StagesOK'
  BY <1>3 DEF StagesOK
<1> QED
  BY <1>2, <1>4, <1>5, <1>6, <1>7, <1>8 DEF IInv

\* While a merge runs nothing of the session changes.
LEMMA SameSession ==
  ASSUME SessionInv, DirsOK, UNCHANGED <<sessionVars, dirs>>
  PROVE  /\ SessionInv' /\ DirsOK' /\ Grown
         /\ \A f : /\ IsCaptured(f)' = IsCaptured(f) /\ IsInfo(f)' = IsInfo(f)
                   /\ HasInfo(f)' = HasInfo(f) /\ Content0(f)' = Content0(f)
<1>1. UNCHANGED <<cur, status, module, trace, prevPc, exports, bc, json, tracing, dirs>>
  BY DEF sessionVars, execVars
<1>2. SessionOK'
  BY <1>1 DEF SessionInv, SessionOK
<1>3. SessionInv' /\ DirsOK'
  BY <1>1, <1>2 DEF SessionInv, ExecTypeOK, DirsTyped, DirsOK
<1>4. Grown
  <2>1. Len(dirs) \in Nat
    BY LenProperties DEF SessionInv, DirsTyped
  <2> QED  BY <1>1, <2>1 DEF Grown
<1> QED
  BY <1>1, <1>3, <1>4 DEF IsCaptured, IsInfo, HasInfo, Content0, InfoOf, InfoKey, FirstDigit

\* A merge lists the files of the directories there are.
LEMMA BeginStep ==
  ASSUME IInv, BeginMerge
  PROVE  IInv'
<1>1. SessionInv /\ MergeTypes /\ DirsOK /\ ReadyOK /\ TodoOK /\ StagesOK
  BY DEF IInv
<1>2. /\ merges < MaxMerges /\ step' = "prepare" /\ merges' = merges + 1
      /\ todo' = UNION {Files(d) : d \in TraceDirs}
      /\ linked' = {} /\ infos' = <<>> /\ outBc' = {} /\ outInfo' = EmptyTrace
      /\ UNCHANGED <<sessionVars, dirs>> /\ ready' = ready
  BY DEF BeginMerge
<1>3. /\ SessionInv' /\ DirsOK'
      /\ \A f : /\ IsCaptured(f)' = IsCaptured(f) /\ IsInfo(f)' = IsInfo(f)
                /\ HasInfo(f)' = HasInfo(f) /\ Content0(f)' = Content0(f)
  BY <1>1, <1>2, SameSession
<1>4. /\ \A d \in 1..Len(dirs) : /\ d \in 1..MaxDirs
                                 /\ DOMAIN dirs[d].bc \subseteq FileKey
                                 /\ DOMAIN dirs[d].json \subseteq FileKey
      /\ merges \in 0..MaxMerges /\ merges \in Nat /\ merges + 1 \in 0..MaxMerges
  <2>1. \A d \in 1..Len(dirs) : IsDirectory(dirs[d])
    BY IInvTypes DEF TypeOK, TraceFilesTypeOK
  <2>2. Len(dirs) \in Nat /\ Len(dirs) <= MaxDirs
    BY <1>1, LenProperties DEF DirsOK, SessionInv, DirsTyped
  <2> QED
    BY <1>1, <1>2, <2>1, <2>2, TraceMergeAssumption DEF MergeTypes, IsDirectory
<1>5. ASSUME NEW f \in todo'
      PROVE  \/ /\ f \in BcFile /\ IsCaptured(f) /\ f[3] < merges + 1
                /\ f[3] # 0 => f \in DOMAIN ready
             \/ f \in InfoFile /\ IsInfo(f)
  <2>1. PICK d \in TraceDirs : f \in Files(d)
    BY <1>2
  <2>2. d \in 1..Len(dirs)
    BY DEF TraceDirs
  <2>3. CASE \E key \in DOMAIN dirs[d].bc : f = <<d, key, 0>>
    BY <1>4, <2>2, <2>3, TraceMergeAssumption DEF BcFile, IsCaptured
  <2>4. CASE f \in DOMAIN ready
    <3>1. f \in BcFile /\ IsCaptured(f) /\ f[3] \in 1..merges
      BY <1>1, <2>4 DEF ReadyOK, MergeTypes
    <3> QED  BY <1>4, <2>4, <3>1
  <2>5. CASE \E key \in DOMAIN dirs[d].json : f = <<d, key>>
    BY <1>4, <2>2, <2>5 DEF InfoFile, IsInfo
  <2> QED
    BY <2>1, <2>3, <2>4, <2>5 DEF Files
<1>6. <<>> \in Seq(InfoFile) /\ Len(<<>>) = 0
  OBVIOUS
<1>7. MergeTypes'
  BY <1>1, <1>2, <1>4, <1>5, <1>6, InitialTraceOK DEF MergeTypes
<1>8. ReadyOK'
  BY <1>1, <1>2, <1>3, <1>4 DEF ReadyOK
<1>9. TodoOK'
  <2>1. ASSUME NEW f \in todo', f \in BcFile
        PROVE  IsCaptured(f)' /\ f[3] < merges' /\ (f[3] # 0 => f \in DOMAIN ready')
    BY <1>2, <1>3, <1>5, <2>1, BcFileParts
  <2>2. ASSUME NEW f \in todo', f \in InfoFile PROVE IsInfo(f)'
    BY <1>3, <1>5, <2>2, BcFileParts
  <2> QED
    BY <1>2, <1>6, <2>1, <2>2 DEF TodoOK, BcFile, InfoFile, FileKey, Final
<1>10. StagesOK'
  BY <1>2 DEF StagesOK
<1> QED
  BY <1>3, <1>7, <1>8, <1>9, <1>10 DEF IInv
\* A file is prepared with the content it always gets, also when it was there before.
LEMMA PreparedSame ==
  ASSUME IInv, NEW f \in todo, f \in BcFile, HasInfo(f),
         ready' = Write(ready, Again(f), Prepared(f)),
         UNCHANGED <<sessionVars, dirs>>, merges' = merges
  PROVE  /\ Again(f) \in BcFile /\ ReadyOK'
         /\ DOMAIN ready' = DOMAIN ready \cup {Again(f)}
         /\ ready' \in [DOMAIN ready' -> SUBSET Pc]
         /\ ready'[Again(f)] = Content0(f)
         /\ \A g \in DOMAIN ready : ready'[g] = ready[g]
<1>1. SessionInv /\ MergeTypes /\ DirsOK /\ ReadyOK /\ TodoOK
  BY DEF IInv
<1>2. /\ IsCaptured(f) /\ f[3] < merges /\ (f[3] # 0 => f \in DOMAIN ready)
      /\ merges \in 0..MaxMerges
  BY <1>1 DEF TodoOK, MergeTypes
<1>3. /\ f[1] \in 1..MaxDirs /\ f[2] \in FileKey /\ f[3] \in 0..MaxMerges + 1
      /\ Again(f)[1] = f[1] /\ Again(f)[2] = f[2] /\ Again(f)[3] = f[3] + 1
  BY BcFileParts
<1>4. Again(f) \in BcFile /\ Again(f)[3] \in 1..merges
  BY <1>2, <1>3, TraceMergeAssumption DEF BcFile, Again
<1>5. Content0(Again(f)) = Content0(f) /\ IsCaptured(Again(f)) /\ HasInfo(Again(f))
  BY <1>2, <1>3 DEF Content0, InfoOf, InfoKey, IsCaptured, HasInfo
<1>6. Prepared(f) = Content0(f)
  BY <1>1, <1>2 DEF Prepared, Content0, ReadyOK
<1>7. Content0(f) \in SUBSET Pc
  <2>1. IsDirectory(dirs[f[1]])
    BY <1>2, IInvTypes DEF TypeOK, TraceFilesTypeOK, IsCaptured
  <2>2. dirs[f[1]].bc[f[2]] \in SUBSET Pc
    BY <1>2, <2>1 DEF IsDirectory, IsCaptured
  <2> QED  BY <2>2 DEF Content0
<1>8. /\ DOMAIN ready' = DOMAIN ready \cup {Again(f)}
      /\ ready'[Again(f)] = Content0(f)
      /\ \A g \in DOMAIN ready \ {Again(f)} : ready'[g] = ready[g]
      /\ ready' = [g \in DOMAIN ready' |-> ready'[g]]
  BY <1>6 DEF Write
<1>9. \A g \in DOMAIN ready : ready'[g] = ready[g]
  BY <1>1, <1>5, <1>8 DEF ReadyOK
<1>10. \A g \in DOMAIN ready' : ready'[g] \in SUBSET Pc
  BY <1>1, <1>7, <1>8, <1>9 DEF MergeTypes
<1>11. ReadyOK'
  <2>1. \A g : /\ IsCaptured(g)' = IsCaptured(g) /\ HasInfo(g)' = HasInfo(g)
               /\ Content0(g)' = Content0(g)
    BY <1>1, SameSession
  <2>2. ASSUME NEW g \in DOMAIN ready'
        PROVE  IsCaptured(g)' /\ HasInfo(g)' /\ g[3] \in 1..merges' /\ ready'[g] = Content0(g)'
    <3>1. CASE g \in DOMAIN ready
      BY <1>1, <1>9, <2>1, <3>1 DEF ReadyOK
    <3>2. CASE g = Again(f)
      BY <1>4, <1>5, <1>8, <2>1, <3>2
    <3> QED  BY <1>8, <3>1, <3>2
  <2> QED  BY <2>2 DEF ReadyOK
<1> QED
  BY <1>4, <1>8, <1>9, <1>10, <1>11

\* Preparing one file adds its prepared form to its trace directory.
LEMMA PrepareStep ==
  ASSUME IInv, NEW f \in todo, Prepare(f)
  PROVE  IInv'
<1>1. SessionInv /\ MergeTypes /\ DirsOK /\ ReadyOK /\ TodoOK /\ StagesOK
  BY DEF IInv
<1>2. /\ step = "prepare" /\ f \in BcFile /\ HasInfo(f)
      /\ todo' = todo \ {f}
      /\ ready' = Write(ready, Again(f), Prepared(f))
      /\ linked' = linked \cup {Again(f)}
      /\ UNCHANGED <<sessionVars, dirs>>
      /\ UNCHANGED <<step, merges, infos, outBc, outInfo>>
  BY DEF Prepare
<1>3. /\ SessionInv' /\ DirsOK'
      /\ \A g : IsCaptured(g)' = IsCaptured(g) /\ IsInfo(g)' = IsInfo(g)
  BY <1>1, <1>2, SameSession
<1>4. /\ Again(f) \in BcFile /\ ReadyOK'
      /\ DOMAIN ready' = DOMAIN ready \cup {Again(f)}
      /\ ready' \in [DOMAIN ready' -> SUBSET Pc]
  BY <1>2, PreparedSame
<1>5. MergeTypes'
  BY <1>1, <1>2, <1>4 DEF MergeTypes
<1>6. TodoOK'
  BY <1>1, <1>2, <1>3, <1>4 DEF TodoOK, BcFile, InfoFile, FileKey, Final
<1>7. StagesOK'
  BY <1>2 DEF StagesOK
<1> QED
  BY <1>3, <1>4, <1>5, <1>6, <1>7 DEF IInv

\* A preparation that fails half way leaves the same file behind.
LEMMA FailedStep ==
  ASSUME IInv, NEW f \in todo, SecondStageFails(f)
  PROVE  IInv'
<1>1. SessionInv /\ MergeTypes /\ DirsOK /\ ReadyOK /\ TodoOK /\ StagesOK
  BY DEF IInv
<1>2. /\ f \in BcFile /\ HasInfo(f) /\ step' = "failed"
      /\ ready' = Write(ready, Again(f), Prepared(f))
      /\ UNCHANGED <<sessionVars, dirs>>
      /\ UNCHANGED <<merges, todo, linked, infos, outBc, outInfo>>
  BY DEF SecondStageFails
<1>3. /\ SessionInv' /\ DirsOK'
      /\ \A g : IsCaptured(g)' = IsCaptured(g) /\ IsInfo(g)' = IsInfo(g)
  BY <1>1, <1>2, SameSession
<1>4. /\ Again(f) \in BcFile /\ ReadyOK'
      /\ DOMAIN ready' = DOMAIN ready \cup {Again(f)}
      /\ ready' \in [DOMAIN ready' -> SUBSET Pc]
  BY <1>2, PreparedSame
<1>5. MergeTypes'
  BY <1>1, <1>2, <1>4 DEF MergeTypes
<1>6. TodoOK'
  BY <1>1, <1>2, <1>3, <1>4 DEF TodoOK, BcFile, InfoFile, FileKey, Final
<1>7. StagesOK'
  BY <1>2 DEF StagesOK
<1> QED
  BY <1>3, <1>4, <1>5, <1>6, <1>7 DEF IInv

\* The steps that prepare nothing.
LEMMA OtherMergeSteps ==
  ASSUME IInv,
         \/ \E f \in todo : PrepareFails(f) \/ FindInfo(f)
         \/ AllPrepared
         \/ \E f \in linked : Link(f)
         \/ MergeInfo
         \/ EndMerge
         \/ step' = "failed" /\ UNCHANGED <<sessionVars, dirs, merges, todo, ready, linked, infos,
                                           outBc, outInfo>>
  PROVE  IInv'
<1>1. SessionInv /\ MergeTypes /\ DirsOK /\ ReadyOK /\ TodoOK /\ StagesOK
  BY DEF IInv
<1>2. UNCHANGED <<sessionVars, dirs>> /\ UNCHANGED <<merges, ready>>
  BY DEF PrepareFails, FindInfo, AllPrepared, Link, MergeInfo, EndMerge
<1>3. /\ SessionInv' /\ DirsOK'
      /\ \A g : /\ IsCaptured(g)' = IsCaptured(g) /\ IsInfo(g)' = IsInfo(g)
                /\ HasInfo(g)' = HasInfo(g) /\ Content0(g)' = Content0(g)
  BY <1>1, <1>2, SameSession
<1>4. ReadyOK'
  BY <1>1, <1>2, <1>3 DEF ReadyOK
<1>5. ASSUME UNCHANGED <<todo, linked, infos, outBc, outInfo>>,
             step' \in {"link", "merged", "failed"},
             step' = "link" => todo = {},
             step' = "merged" => todo = {} /\ linked = {} /\ infos = <<>>
      PROVE  IInv'
  <2>1. MergeTypes'
    BY <1>1, <1>2, <1>5 DEF MergeTypes
  <2>2. TodoOK'
    BY <1>1, <1>2, <1>3, <1>5 DEF TodoOK, BcFile, InfoFile, FileKey, Final
  <2>3. StagesOK'
    BY <1>5 DEF StagesOK
  <2> QED  BY <1>3, <1>4, <2>1, <2>2, <2>3 DEF IInv
<1>6. ASSUME NEW f \in todo, FindInfo(f) PROVE IInv'
  <2>1. /\ step = "prepare" /\ f \in InfoFile /\ todo' = todo \ {f} /\ infos' = Append(infos, f)
        /\ UNCHANGED <<step, linked, outBc, outInfo>>
    BY <1>6 DEF FindInfo
  <2>2. infos \in Seq(InfoFile)
    BY <1>1 DEF MergeTypes
  <2>3. /\ infos' \in Seq(InfoFile) /\ Len(infos) \in Nat /\ Len(infos') = Len(infos) + 1
        /\ infos'[Len(infos) + 1] = f
        /\ \A i \in 1..Len(infos) : infos'[i] = infos[i]
    BY <2>1, <2>2, AppendProperties
  <2>4. MergeTypes'
    BY <1>1, <1>2, <2>1, <2>3 DEF MergeTypes
  <2>5. \A i \in 1..Len(infos') : IsInfo(infos'[i])
    BY <1>1, <2>1, <2>3 DEF TodoOK
  <2>6. TodoOK'
    BY <1>1, <1>2, <1>3, <2>1, <2>5 DEF TodoOK, BcFile, InfoFile, FileKey, Final
  <2>7. StagesOK'
    BY <2>1 DEF StagesOK
  <2> QED  BY <1>3, <1>4, <2>4, <2>6, <2>7 DEF IInv
<1>7. ASSUME NEW f \in linked, Link(f) PROVE IInv'
  <2>1. /\ step = "link" /\ outBc' = outBc \cup ready[f] /\ linked' = linked \ {f}
        /\ step' = IF linked' = {} THEN "infos" ELSE "link"
        /\ UNCHANGED <<todo, infos, outInfo>>
    BY <1>7 DEF Link
  <2>2. MergeTypes'
    BY <1>1, <1>2, <2>1 DEF MergeTypes
  <2>3. TodoOK'
    BY <1>1, <1>2, <1>3, <2>1 DEF TodoOK, BcFile, InfoFile, FileKey, Final
  <2>4. StagesOK'
    BY <1>1, <2>1 DEF StagesOK
  <2> QED  BY <1>3, <1>4, <2>2, <2>3, <2>4 DEF IInv
<1>8. CASE MergeInfo
  <2>1. /\ step = "infos" /\ infos # <<>> /\ infos' = Tail(infos)
        /\ outInfo' = AddInfo(dirs[Head(infos)[1]].json[Head(infos)[2]])
        /\ UNCHANGED <<step, todo, linked, outBc>>
    BY <1>8 DEF MergeInfo
  <2>2. infos \in Seq(InfoFile)
    BY <1>1 DEF MergeTypes
  <2>3. /\ infos' \in Seq(InfoFile) /\ Len(infos) \in Nat \ {0} /\ Len(infos') = Len(infos) - 1
        /\ \A i \in 1..Len(infos') : infos'[i] = infos[i + 1]
        /\ Head(infos) = infos[1]
    BY <2>1, <2>2, EmptySeq, HeadTailProperties
  <2>4. dirs[Head(infos)[1]].json[Head(infos)[2]] \in TraceInfoRecord
    <3>1. IsInfo(infos[1])
      BY <1>1, <2>3 DEF TodoOK
    <3>2. IsDirectory(dirs[infos[1][1]])
      BY <3>1, IInvTypes DEF TypeOK, TraceFilesTypeOK, IsInfo
    <3> QED  BY <2>3, <3>1, <3>2 DEF IsDirectory, IsInfo
  <2>5. outInfo' \in TraceInfoRecord
    BY <1>1, <2>1, <2>4, AddType DEF AddInfo, MergeTypes
  <2>6. MergeTypes'
    BY <1>1, <1>2, <2>1, <2>3, <2>5 DEF MergeTypes
  <2>7. \A i \in 1..Len(infos') : IsInfo(infos'[i])
    BY <1>1, <2>3 DEF TodoOK
  <2>8. TodoOK'
    BY <1>1, <1>2, <1>3, <2>1, <2>7 DEF TodoOK, BcFile, InfoFile, FileKey, Final
  <2>9. StagesOK'
    BY <1>1, <2>1 DEF StagesOK
  <2> QED  BY <1>3, <1>4, <2>6, <2>8, <2>9 DEF IInv
<1> QED
  BY <1>1, <1>5, <1>6, <1>7, <1>8 DEF PrepareFails, AllPrepared, EndMerge, StagesOK

\* Every step keeps the inductive invariant.
LEMMA NextIInv == IInv /\ [Next]_vars => IInv'
<1>1. SUFFICES ASSUME IInv, [Next]_vars PROVE IInv'
  OBVIOUS
<1>2. CASE UNCHANGED vars
  <2>1. SessionInv /\ MergeTypes /\ DirsOK /\ ReadyOK /\ TodoOK /\ StagesOK
    BY <1>1 DEF IInv
  <2>2. /\ UNCHANGED <<sessionVars, dirs>>
        /\ UNCHANGED <<step, merges, todo, ready, linked, infos, outBc, outInfo>>
    BY <1>2 DEF vars, mergeVars
  <2>3. /\ SessionInv' /\ DirsOK'
        /\ \A f : /\ IsCaptured(f)' = IsCaptured(f) /\ IsInfo(f)' = IsInfo(f)
                  /\ HasInfo(f)' = HasInfo(f) /\ Content0(f)' = Content0(f)
    BY <2>1, <2>2, SameSession
  <2>4. MergeTypes' /\ StagesOK'
    BY <2>1, <2>2 DEF MergeTypes, StagesOK
  <2>5. ReadyOK'
    BY <2>1, <2>2, <2>3 DEF ReadyOK
  <2>6. TodoOK'
    BY <2>1, <2>2, <2>3 DEF TodoOK, BcFile, InfoFile, FileKey, Final
  <2> QED  BY <2>3, <2>4, <2>5, <2>6 DEF IInv
<1>3. CASE Next
  BY <1>1, <1>3, TraceStep, BeginStep, PrepareStep, FailedStep, OtherMergeSteps
     DEF Next, Merge, ToolFails
<1> QED
  BY <1>1, <1>2, <1>3

\* Holds for any number of directories, states and merges, with intermediate files
\* or without.
THEOREM MergeInvariant == Spec => []IInv
<1>1. Init => IInv
  BY InitInv
<1>2. IInv /\ [Next]_vars => IInv'
  BY NextIInv
<1> QED
  BY <1>1, <1>2, PTL DEF Spec

\* Every file, trace and list of the merge has its type.
THEOREM MergeTypesOK == Spec => []TypeOK
BY MergeInvariant, IInvTypes, PTL

-----------------------------------------------------------------------------
(* No trace info is lost.                                                  *)

\* A step of a merge that is neither begun nor given up by it: what was found stays
\* found until it is added, and what was added stays.
LEMMA InfosKept ==
  ASSUME IInv, Merge, NEW d \in 1..Len(dirs), NEW key \in DOMAIN dirs[d].json,
         \/ Found(<<d, key>>)
         \/ dirs[d].json[key].successors \subseteq outInfo.successors,
         step' # "failed"
  PROVE  \/ Found(<<d, key>>)'
         \/ dirs[d].json[key].successors \subseteq outInfo'.successors
<1>1. /\ MergeTypes /\ TodoOK
      /\ infos \in Seq(InfoFile) /\ outInfo \in TraceInfoRecord
  BY DEF IInv, MergeTypes
<1>2. PICK g : g = <<d, key>>
  OBVIOUS
<1>3. Found(g) \/ dirs[d].json[key].successors \subseteq outInfo.successors
  BY <1>2
<1>4. ASSUME NEW f \in todo, Prepare(f) PROVE (Found(g) => Found(g)') /\ outInfo' = outInfo
  <2>1. f \in BcFile /\ todo' = todo \ {f} /\ infos' = infos /\ outInfo' = outInfo
    BY <1>4 DEF Prepare
  <2>2. f # g
    BY <1>2, <2>1 DEF BcFile
  <2> QED  BY <2>1, <2>2 DEF Found
<1>5. ASSUME NEW f \in todo, FindInfo(f) PROVE (Found(g) => Found(g)') /\ outInfo' = outInfo
  <2>1. todo' = todo \ {f} /\ infos' = Append(infos, f) /\ outInfo' = outInfo /\ f \in InfoFile
    BY <1>5 DEF FindInfo
  <2>2. /\ Len(infos) \in Nat /\ Len(infos') = Len(infos) + 1
        /\ infos'[Len(infos) + 1] = f
        /\ \A i \in 1..Len(infos) : infos'[i] = infos[i]
    BY <1>1, <2>1, AppendProperties
  <2>3. CASE g = f
    BY <2>1, <2>2, <2>3 DEF Found
  <2>4. CASE g # f
    BY <2>1, <2>2, <2>4 DEF Found
  <2> QED  BY <2>3, <2>4
<1>6. CASE MergeInfo
  <2>1. /\ infos # <<>> /\ infos' = Tail(infos) /\ todo' = todo
        /\ outInfo' = AddInfo(dirs[Head(infos)[1]].json[Head(infos)[2]])
    BY <1>6 DEF MergeInfo
  <2>2. /\ Len(infos) \in Nat \ {0} /\ Len(infos') = Len(infos) - 1
        /\ \A i \in 1..Len(infos') : infos'[i] = infos[i + 1]
        /\ Head(infos) = infos[1]
    BY <1>1, <2>1, EmptySeq, HeadTailProperties
  <2>3. IsInfo(infos[1])
    BY <1>1, <2>2 DEF TodoOK
  <2>4. PICK ti : ti = dirs[infos[1][1]].json[infos[1][2]]
    OBVIOUS
  <2>5. ti \in TraceInfoRecord
    <3>1. IsDirectory(dirs[infos[1][1]])
      BY <2>3, IInvTypes DEF TypeOK, TraceFilesTypeOK, IsInfo
    <3> QED  BY <2>3, <2>4, <3>1 DEF IsDirectory, IsInfo
  <2>6. outInfo'.successors = outInfo.successors \cup ti.successors
    <3>1. outInfo' = Add(outInfo, ti)
      BY <2>1, <2>2, <2>4 DEF AddInfo
    <3>2. outInfo \in TraceInfoRecord
      BY <1>1
    <3> QED  BY <2>5, <3>1, <3>2, AddType
  <2>7. CASE g = infos[1]
    BY <1>2, <2>4, <2>6, <2>7
  <2>8. CASE g # infos[1] /\ Found(g)
    <3>1. CASE g \in todo
      BY <1>2, <2>1, <3>1 DEF Found
    <3>2. ASSUME NEW i \in 1..Len(infos), infos[i] = g PROVE Found(g)'
      <4>1. i - 1 \in 1..Len(infos') /\ infos'[i - 1] = g
        BY <2>2, <2>8, <3>2
      <4> QED  BY <4>1 DEF Found
    <3> QED  BY <1>2, <2>8, <3>1, <3>2 DEF Found
  <2> QED
    BY <1>2, <1>3, <2>6, <2>7, <2>8
<1>7. CASE UNCHANGED <<todo, infos, outInfo>>
  BY <1>2, <1>3, <1>7 DEF Found
<1> QED
  BY <1>2, <1>3, <1>4, <1>5, <1>6, <1>7 DEF Merge, PrepareFails, AllPrepared, Link, EndMerge

\* A trace info is among the files to do, in the list of infos or merged.
LEMMA OnTheWayStep ==
  ASSUME MaxDirs <= Base, IInv, InfosOnTheWay, [Next]_vars
  PROVE  InfosOnTheWay'
<1>1. CASE UNCHANGED vars
  BY <1>1 DEF InfosOnTheWay, Found, vars, mergeVars
<1>2. CASE Trace \/ ToolFails
  BY <1>2 DEF Trace, ToolFails, SecondStageFails, InfosOnTheWay
<1>3. CASE BeginMerge
  <2>1. /\ todo' = UNION {Files(d) : d \in TraceDirs} /\ dirs' = dirs
    BY <1>3 DEF BeginMerge
  <2>2. Len(dirs) \in Nat /\ Len(dirs) <= MaxDirs
    BY LenProperties DEF IInv, DirsOK, SessionInv, DirsTyped
  <2>3. TraceDirs = 1..Len(dirs)
    BY <2>2, TraceMergeAssumption DEF TraceDirs
  <2>4. \A d \in 1..Len(dirs) : \A key \in DOMAIN dirs[d].json : <<d, key>> \in todo'
    BY <2>1, <2>3 DEF Files
  <2> QED
    BY <2>1, <2>4 DEF InfosOnTheWay, Found
<1>4. CASE Merge
  <2>1. /\ dirs' = dirs /\ step \in {"prepare", "link", "infos", "merged"}
    BY <1>4 DEF Merge, Prepare, PrepareFails, FindInfo, AllPrepared, Link, MergeInfo, EndMerge
  <2>2. CASE step' = "failed"
    BY <2>2 DEF InfosOnTheWay
  <2>3. CASE step' # "failed"
    BY <1>4, <2>1, <2>3, InfosKept DEF InfosOnTheWay
  <2> QED  BY <2>2, <2>3
<1> QED
  BY <1>1, <1>2, <1>3, <1>4 DEF Next

\* With no more trace directories than get_trace_dirs can tell apart by the last
\* digit of their name, a finished merge has the successors of every trace info file
\* of every completed trace.
THEOREM NothingIsLost ==
  ASSUME MaxDirs <= Base
  PROVE  Spec => []NothingLost
<1>1. Init => InfosOnTheWay
  BY DEF Init, InfosOnTheWay
<1>2. IInv /\ InfosOnTheWay /\ [Next]_vars => InfosOnTheWay'
  BY OnTheWayStep
<1>3. IInv /\ InfosOnTheWay => NothingLost
  <2>1. ASSUME IInv, InfosOnTheWay, step = "merged" PROVE NothingLost
    <3>1. todo = {} /\ Len(infos) = 0
      BY <2>1 DEF IInv, StagesOK
    <3> QED  BY <2>1, <3>1 DEF InfosOnTheWay, Found, NothingLost
  <2> QED  BY <2>1 DEF NothingLost
<1> QED
  BY <1>1, <1>2, <1>3, MergeInvariant, PTL DEF Spec
-----------------------------------------------------------------------------
(* The merged bitcode has the code of the merged trace info.               *)

\* Numbers of one digit are their own first digit.
LEMMA OwnInfo ==
  ASSUME States \subseteq 0..Base - 1, NEW f, f[2] \in FileKey
  PROVE  InfoKey(f) = f[2]
<1>1. CASE f[2] = Final
  BY <1>1 DEF InfoKey
<1>2. CASE f[2] # Final
  <2>1. f[2] \in States
    BY <1>2 DEF FileKey
  <2>2. f[2] \in 0..Base - 1
    BY <2>1
  <2>3. f[2] < Base
    BY <2>2, TraceMergeAssumption
  <2>4. FirstDigit(f[2]) = f[2]
    BY <2>3, Zenon DEF FirstDigit
  <2> QED  BY <1>2, <2>4 DEF InfoKey
<1> QED
  BY <1>1, <1>2

\* What is found later was found before, but for the files that a merge begins with.
LEMMA FoundBefore ==
  ASSUME IInv, Merge, NEW f, Found(f)'
  PROVE  Found(f)
<1>1. infos \in Seq(InfoFile)
  BY DEF IInv, MergeTypes
<1>2. ASSUME NEW g \in todo, FindInfo(g) PROVE Found(f)
  <2>1. todo' = todo \ {g} /\ infos' = Append(infos, g) /\ g \in InfoFile
    BY <1>2 DEF FindInfo
  <2>2. /\ Len(infos) \in Nat /\ Len(infos') = Len(infos) + 1
        /\ infos'[Len(infos) + 1] = g
        /\ \A i \in 1..Len(infos) : infos'[i] = infos[i]
    BY <1>1, <2>1, AppendProperties
  <2> QED  BY <2>1, <2>2 DEF Found
<1>3. CASE MergeInfo
  <2>1. infos # <<>> /\ infos' = Tail(infos) /\ todo' = todo
    BY <1>3 DEF MergeInfo
  <2>2. /\ Len(infos) \in Nat \ {0} /\ Len(infos') = Len(infos) - 1
        /\ \A i \in 1..Len(infos') : infos'[i] = infos[i + 1]
    BY <1>1, <2>1, EmptySeq, HeadTailProperties
  <2> QED  BY <2>1, <2>2 DEF Found
<1>4. CASE todo' \subseteq todo /\ infos' = infos
  BY <1>4 DEF Found
<1> QED
  BY <1>2, <1>3, <1>4 DEF Merge, Prepare, PrepareFails, AllPrepared, Link, EndMerge

\* The merge finds only trace infos that exist.
LEMMA FoundIsInfo ==
  ASSUME IInv, NEW f \in InfoFile, Found(f)
  PROVE  IsInfo(f)
BY DEF IInv, TodoOK, Found

\* At the start of a merge the file of every block is still to do.
LEMMA CoverBegin ==
  ASSUME IInv, BeginMerge
  PROVE  CoverInv'
<1>1. /\ todo' = UNION {Files(d) : d \in TraceDirs}
      /\ infos' = <<>> /\ outBc' = {} /\ outInfo' = EmptyTrace /\ dirs' = dirs
  BY DEF BeginMerge
<1>2. ASSUME NEW f \in InfoFile, Found(f)', NEW b \in BlocksOf(dirs[f[1]].json[f[2]])
      PROVE  <<f[1], f[2], 0>> \in todo'
  <2>1. PICK d \in TraceDirs : f \in Files(d)
    BY <1>1, <1>2 DEF Found
  <2>2. d \in 1..Len(dirs) /\ DOMAIN ready \subseteq BcFile
    BY DEF TraceDirs, IInv, MergeTypes
  <2>3. PICK key \in DOMAIN dirs[d].json : f = <<d, key>>
    <3>1. \A key : <<d, key, 0>> \notin InfoFile
      BY DEF InfoFile
    <3> QED  BY <1>2, <2>1, <2>2, <3>1, BcFileParts DEF Files
  <2>4. CoversInfos(dirs[d])
    BY <2>2 DEF IInv, DirsOK
  <2>5. b \in Content(dirs[d].bc, key)
    BY <1>2, <2>3, <2>4 DEF CoversInfos
  <2>6. key \in DOMAIN dirs[d].bc
    BY <2>5 DEF Content
  <2>7. <<d, key, 0>> \in Files(d)
    BY <2>6 DEF Files
  <2> QED  BY <1>1, <2>3, <2>7
<1> QED
  BY <1>1, <1>2, InitialTraceOK DEF CoverInv, BlocksOnTheWay

\* The function of a block that its trace info knows survives RenameBlockFuncs.
LEMMA CoverPrepare ==
  ASSUME States \subseteq 0..Base - 1, IInv, CoverInv, NEW f \in todo, Prepare(f)
  PROVE  CoverInv'
<1>1. /\ step = "prepare" /\ f \in BcFile /\ HasInfo(f) /\ todo' = todo \ {f}
      /\ ready' = Write(ready, Again(f), Prepared(f))
      /\ linked' = linked \cup {Again(f)}
      /\ UNCHANGED <<sessionVars, dirs>> /\ UNCHANGED <<step, merges, infos, outBc, outInfo>>
  BY DEF Prepare
<1>2. /\ ready'[Again(f)] = Content0(f)
      /\ \A g \in linked : ready'[g] = ready[g]
  BY <1>1, PreparedSame DEF IInv, MergeTypes
<1>3. ASSUME NEW g \in InfoFile, Found(g)', NEW b \in BlocksOf(dirs[g[1]].json[g[2]])
      PROVE  \/ b \in outBc
             \/ <<g[1], g[2], 0>> \in todo'
             \/ \E h \in linked' : b \in ready'[h]
  <2>1. Found(g) /\ IsInfo(g)
    BY <1>3, FoundBefore, FoundIsInfo DEF Merge
  <2>2. b \in outBc \/ <<g[1], g[2], 0>> \in todo \/ \E h \in linked : b \in ready[h]
    BY <1>1, <1>3, <2>1 DEF CoverInv, BlocksOnTheWay
  <2>3. CASE <<g[1], g[2], 0>> = f
    <3>1. f[1] = g[1] /\ f[2] = g[2] /\ f[2] \in FileKey
      BY <1>1, <2>3, BcFileParts
    <3>2. IsCaptured(f) /\ CoversInfos(dirs[g[1]])
      BY <1>1, <2>1 DEF IInv, TodoOK, DirsOK, IsInfo
    <3>3. b \in dirs[g[1]].bc[g[2]]
      BY <1>3, <2>1, <3>1, <3>2 DEF CoversInfos, Content, IsInfo, IsCaptured
    <3>4. b \in Content0(f)
      BY <1>3, <3>1, <3>3, OwnInfo DEF Content0, InfoOf
    <3> QED  BY <1>1, <1>2, <3>4
  <2> QED
    BY <1>1, <1>2, <2>2, <2>3
<1> QED
  BY <1>1, <1>3 DEF CoverInv, BlocksOnTheWay

\* A block stays in a file to do, a prepared file or the merged file.
LEMMA CoverStep ==
  ASSUME States \subseteq 0..Base - 1, IInv, CoverInv, [Next]_vars
  PROVE  CoverInv'
<1>1. CASE UNCHANGED vars
  BY <1>1 DEF CoverInv, BlocksOnTheWay, Found, vars, mergeVars
<1>2. CASE Trace \/ ToolFails
  BY <1>2 DEF Trace, ToolFails, SecondStageFails, CoverInv, BlocksOnTheWay
<1>3. ASSUME NEW f \in todo, FindInfo(f) PROVE CoverInv'
  <2>1. /\ step = "prepare" /\ f \in InfoFile /\ todo' = todo \ {f}
        /\ UNCHANGED <<dirs, step, ready, linked, outBc, outInfo>> /\ Merge
    BY <1>3 DEF FindInfo, Merge
  <2>2. \A g : <<g[1], g[2], 0>> # f
    BY <2>1 DEF InfoFile
  <2>3. \A g : Found(g)' => Found(g)
    BY <2>1, FoundBefore
  <2> QED
    BY <2>1, <2>2, <2>3 DEF CoverInv, BlocksOnTheWay
<1>4. ASSUME NEW f \in linked, Link(f) PROVE CoverInv'
  <2>1. /\ step = "link" /\ outBc' = outBc \cup ready[f] /\ linked' = linked \ {f}
        /\ UNCHANGED <<dirs, todo, ready, outInfo>> /\ Merge
    BY <1>4 DEF Link, Merge
  <2>2. \A g : Found(g)' => Found(g)
    BY <2>1, FoundBefore
  <2>3. \A b : b \in outBc \/ (\E g \in linked : b \in ready[g])
          => b \in outBc' \/ \E g \in linked' : b \in ready'[g]
    BY <2>1
  <2> QED
    BY <2>1, <2>2, <2>3 DEF CoverInv, BlocksOnTheWay
<1>5. CASE MergeInfo
  <2>1. /\ step = "infos" /\ infos # <<>> /\ Merge
        /\ outInfo' = AddInfo(dirs[Head(infos)[1]].json[Head(infos)[2]])
        /\ UNCHANGED <<dirs, step, todo, ready, linked, outBc>>
    BY <1>5 DEF MergeInfo, Merge
  <2>2. /\ todo = {} /\ linked = {} /\ infos \in Seq(InfoFile) /\ outInfo \in TraceInfoRecord
    BY <2>1 DEF IInv, StagesOK, MergeTypes
  <2>3. Len(infos) \in Nat \ {0} /\ Head(infos) = infos[1] /\ infos[1] \in InfoFile
    BY <2>1, <2>2, EmptySeq, HeadTailProperties
  <2>4. PICK ti : ti = dirs[infos[1][1]].json[infos[1][2]]
    OBVIOUS
  <2>5. Found(infos[1]) /\ IsInfo(infos[1])
    BY <2>3, FoundIsInfo DEF Found
  <2>6. BlocksOf(ti) \subseteq outBc
    BY <2>1, <2>2, <2>3, <2>4, <2>5 DEF CoverInv, BlocksOnTheWay
  <2>7. ti \in TraceInfoRecord
    <3>1. IsDirectory(dirs[infos[1][1]])
      BY <2>5, IInvTypes DEF TypeOK, TraceFilesTypeOK, IsInfo
    <3> QED  BY <2>4, <2>5, <3>1 DEF IsDirectory, IsInfo
  <2>8. outInfo'.successors = outInfo.successors \cup ti.successors
    BY <2>1, <2>2, <2>3, <2>4, <2>7, AddType DEF AddInfo
  <2>9. BlocksOf(outInfo') \subseteq outBc'
    BY <2>1, <2>6, <2>8, BlocksOfUnion DEF CoverInv
  <2>10. \A g : Found(g)' => Found(g)
    BY <2>1, FoundBefore
  <2> QED
    BY <2>1, <2>9, <2>10 DEF CoverInv, BlocksOnTheWay
<1>6. CASE AllPrepared
  BY <1>6 DEF AllPrepared, CoverInv, BlocksOnTheWay, Found
<1>7. CASE EndMerge \/ \E f \in todo : PrepareFails(f)
  BY <1>7 DEF EndMerge, PrepareFails, CoverInv, BlocksOnTheWay
<1> QED
  BY <1>1, <1>2, <1>3, <1>4, <1>5, <1>6, <1>7, CoverBegin, CoverPrepare DEF Next, Merge

\* With states whose number has one digit, of which RenameBlockFuncs finds the trace
\* info, the merged captured.bc has a function for every block that the merged
\* traceInfo.json mentions; any number of directories and repeated merges.
THEOREM MergedHasCode ==
  ASSUME States \subseteq 0..Base - 1
  PROVE  Spec => []MergedCovers
<1>1. Init => CoverInv
  BY InitialTraceOK DEF Init, CoverInv, BlocksOnTheWay
<1>2. IInv /\ CoverInv /\ [Next]_vars => CoverInv'
  BY CoverStep
<1>3. CoverInv => MergedCovers
  BY DEF CoverInv, MergedCovers
<1> QED
  BY <1>1, <1>2, <1>3, MergeInvariant, PTL DEF Spec
-----------------------------------------------------------------------------
(* No bitcode without its trace info, but the running state's.             *)

\* Saving the module under a name adds at most that name, with the module as it is.
LEMMA SavedNames ==
  ASSUME NEW key, NEW functions
  PROVE  /\ DOMAIN SaveLLVMModule(key, functions) \subseteq DOMAIN bc \cup {key}
         /\ DOMAIN bc \subseteq DOMAIN SaveLLVMModule(key, functions)
         /\ \A k \in DOMAIN bc : k # key => SaveLLVMModule(key, functions)[k] = bc[k]
         /\ functions # {} => /\ key \in DOMAIN SaveLLVMModule(key, functions)
                              /\ SaveLLVMModule(key, functions)[key] = functions
         /\ functions = {} => SaveLLVMModule(key, functions) = bc
BY DEF SaveLLVMModule, Write

\* Saving the module of the running state in its file leaves bitcode within the module.
LEMMA SavedInModule ==
  ASSUME NEW key, NEW functions, module \subseteq functions,
         \A k \in DOMAIN bc : bc[k] \subseteq module /\ module # {}
  PROVE  \A k \in DOMAIN SaveLLVMModule(key, functions) :
           SaveLLVMModule(key, functions)[k] \subseteq functions /\ functions # {}
<1>1. CASE functions = {}
  <2>1. SaveLLVMModule(key, functions) = bc /\ DOMAIN bc = {}
    BY <1>1, SavedNames
  <2> QED  BY <2>1
<1>2. CASE functions # {}
  <2>1. ASSUME NEW k \in DOMAIN SaveLLVMModule(key, functions)
        PROVE  SaveLLVMModule(key, functions)[k] \subseteq functions
    <3>1. CASE k = key
      BY <1>2, <3>1, SavedNames
    <3>2. CASE k # key
      <4>1. k \in DOMAIN bc /\ SaveLLVMModule(key, functions)[k] = bc[k]
        BY <2>1, <3>2, SavedNames
      <4> QED  BY <4>1
    <3> QED  BY <3>1, <3>2
  <2> QED  BY <1>2, <2>1
<1> QED
  BY <1>1, <1>2

\* The directory of a session that ends.
LEMMA EndWritten ==
  ASSUME InfosWritten, NEW d,
         d = [ bc   |-> SaveLLVMModule(Final, module),
               json |-> Write(json, Final, FinalTrace(trace[cur])),
               last |-> cur ]
  PROVE  OnlyLastLacks(d)
<1>1. SUFFICES ASSUME NEW k \in DOMAIN d.bc, k \notin DOMAIN d.json
               PROVE  k = d.last /\ Final \in DOMAIN d.bc /\ d.bc[k] \subseteq d.bc[Final]
  BY DEF OnlyLastLacks
<1>2. DOMAIN d.json = DOMAIN json \cup {Final} /\ d.bc = SaveLLVMModule(Final, module)
  BY DEF Write
<1>3. k # Final /\ k \in DOMAIN bc /\ k \notin DOMAIN json
  BY <1>1, <1>2, SavedNames
<1>4. k = cur /\ bc[k] \subseteq module /\ module # {}
  BY <1>3 DEF InfosWritten
<1>5. d.bc[k] = bc[k] /\ Final \in DOMAIN d.bc /\ d.bc[Final] = module
  BY <1>2, <1>3, <1>4, SavedNames
<1> QED
  BY <1>4, <1>5

\* A state's trace info is written when S2E leaves it, and no other state's bitcode.
LEMMA WrittenStep ==
  ASSUME IInv, InfosWritten, [Next]_vars
  PROVE  InfosWritten'
<1>1. CASE UNCHANGED <<cur, module, bc, json, dirs>>
  BY <1>1 DEF InfosWritten
<1>2. ASSUME NEW n \in States, StateSwitch(n) PROVE InfosWritten'
  <2>1. /\ bc' = SaveLLVMModule(cur, module) /\ json' = Write(json, cur, trace[cur])
        /\ dirs' = dirs /\ module' = module
    BY <1>2 DEF StateSwitch
  <2>2. DOMAIN bc' \subseteq DOMAIN bc \cup {cur} /\ DOMAIN json' = DOMAIN json \cup {cur}
    BY <2>1, SavedNames DEF Write
  <2>3. \A k \in DOMAIN bc' : bc'[k] \subseteq module' /\ module' # {}
    BY <2>1, SavedInModule DEF InfosWritten
  <2> QED
    BY <2>1, <2>2, <2>3 DEF InfosWritten
<1>3. CASE EndOfTrace
  <2>1. dirs \in Seq(Directory)
    BY DEF IInv, SessionInv, DirsTyped
  <2>2. PICK d : d = [ bc   |-> SaveLLVMModule(Final, module),
                       json |-> Write(json, Final, FinalTrace(trace[cur])),
                       last |-> cur ]
    OBVIOUS
  <2>3. OnlyLastLacks(d)
    BY <2>2, EndWritten
  <2>4. dirs' = Append(dirs, d) /\ DOMAIN bc' = {} /\ DOMAIN json' = {}
    BY <1>3, <2>2 DEF EndOfTrace, NoFiles
  <2>5. /\ Len(dirs) \in Nat /\ Len(dirs') = Len(dirs) + 1
        /\ dirs'[Len(dirs) + 1] = d
        /\ \A i \in 1..Len(dirs) : dirs'[i] = dirs[i]
    BY <2>1, <2>4
  <2>6. \A i \in 1..Len(dirs') : OnlyLastLacks(dirs'[i])
    BY <2>3, <2>5 DEF InfosWritten
  <2>7. (\A i \in 1..Len(dirs) : OnlyLastLacks(dirs[i]))'
    BY <2>6
  <2> QED
    BY <2>4, <2>7 DEF InfosWritten
<1>4. ASSUME NEW pc \in Pc, NEW reExported \in BOOLEAN, Execute(pc, reExported)
      PROVE  InfosWritten'
  <2>1. /\ module' = module \cup {pc}
        /\ bc' = bc \/ bc' = SaveLLVMModule(cur, module')
        /\ UNCHANGED <<cur, json, dirs>>
    BY <1>4, Zenon DEF Execute, execVars
  <2>2. DOMAIN bc' \subseteq DOMAIN bc \cup {cur}
    BY <2>1, SavedNames
  <2>3. \A k \in DOMAIN bc' : bc'[k] \subseteq module' /\ module' # {}
    <3>1. CASE bc' = bc
      BY <2>1, <3>1 DEF InfosWritten
    <3>2. CASE bc' = SaveLLVMModule(cur, module')
      <4>1. PICK functions : functions = module'
        OBVIOUS
      <4>2. module \subseteq functions
        BY <2>1, <4>1
      <4> QED  BY <3>2, <4>1, <4>2, SavedInModule DEF InfosWritten
    <3> QED  BY <2>1, <3>1, <3>2
  <2> QED
    BY <2>1, <2>2, <2>3 DEF InfosWritten
<1>5. CASE Tracing
  <2>1. ASSUME StartTrace \/ EntryReturn \/ StateExit \/ \E n \in States : StateFork(n)
        PROVE  UNCHANGED <<cur, module, bc, json, dirs>>
    BY <2>1 DEF StartTrace, EntryReturn, StateFork, StateExit, ExecFork, ExecExit, execVars
  <2> QED
    BY <1>1, <1>2, <1>3, <1>4, <1>5, <2>1 DEF Tracing
<1>6. CASE UNCHANGED <<sessionVars, dirs>>
  BY <1>1, <1>6 DEF sessionVars, execVars
<1> QED
  BY <1>5, <1>6 DEF Next, Trace, BeginMerge, Merge, ToolFails, SecondStageFails, Prepare,
     PrepareFails, FindInfo, AllPrepared, Link, MergeInfo, EndMerge, vars

\* For every interval of intermediate files, with state numbers of one digit: a file
\* that a merge comes to without the trace info RenameBlockFuncs opens for it is the
\* unprepared intermediate file of the state in which its session ended, and all its
\* blocks are in captured.bc.
THEOREM InfosArePresent ==
  ASSUME States \subseteq 0..Base - 1
  PROVE  Spec => []InfoPresent
<1>1. Init => InfosWritten
  BY DEF Init, TraceFilesInit, InfosWritten, NoFiles
<1>2. IInv /\ InfosWritten /\ [Next]_vars => InfosWritten'
  BY WrittenStep
<1>3. IInv /\ InfosWritten => InfoPresent
  <2>1. SUFFICES ASSUME IInv, InfosWritten, NEW f \in todo, f \in BcFile, ~HasInfo(f)
                 PROVE  /\ f[3] = 0
                        /\ f[2] = dirs[f[1]].last
                        /\ Final \in DOMAIN dirs[f[1]].bc
                        /\ dirs[f[1]].bc[f[2]] \subseteq dirs[f[1]].bc[Final]
    BY DEF InfoPresent
  <2>2. /\ f[1] \in 1..Len(dirs) /\ f[2] \in DOMAIN dirs[f[1]].bc
        /\ f[3] # 0 => f \in DOMAIN ready
    BY <2>1 DEF IInv, TodoOK, IsCaptured
  <2>3. f[3] = 0
    BY <2>1, <2>2 DEF IInv, ReadyOK
  <2>4. InfoKey(f) = f[2]
    BY <2>1, OwnInfo, BcFileParts
  <2>5. f[2] \notin DOMAIN dirs[f[1]].json /\ OnlyLastLacks(dirs[f[1]])
    BY <2>1, <2>2, <2>4 DEF InfosWritten, HasInfo
  <2> QED
    BY <2>2, <2>3, <2>5 DEF OnlyLastLacks
<1> QED
  BY <1>1, <1>2, <1>3, MergeInvariant, PTL DEF Spec
=============================================================================
