---------------------------- MODULE ExportProofs ----------------------------
(***************************************************************************)
(* The code of traced blocks, for any number of blocks, execution states,  *)
(* translations and functions.  Whatever S2E translates again or collects, *)
(* a block declared final has a good function that nothing will remove,    *)
(* and any traced block keeps a function until S2E has translated it twice *)
(* more than the TB in m_tbs.  While S2E does not translate blocks again,  *)
(* the first function of a traced block is the good one, and the files     *)
(* written have the code of the edges recorded.                            *)
(***************************************************************************)
EXTENDS Export, TLAPS

\* A function belongs to one TB, of the same block; m_tbs has the blocks exported.
TbsOK ==
  /\ \A tb \in Tb : translation[tb] # NoFunction => code[translation[tb]].pc = tb[1]
  /\ \A a, b \in Tb : translation[a] = translation[b] /\ translation[a] # NoFunction => a = b
  /\ \A pc \in DOMAIN tbs : tbs[pc][1] = pc
  /\ \A pc \in Pc : bbCounts[pc] > 0 <=> pc \in DOMAIN tbs
  /\ finalized \subseteq DOMAIN tbs

\* The function f stays: no TB refers to it but the one that m_tbs holds for the block.
Stays(pc, f) ==
  /\ f \in FunctionsOf(pc, module)
  /\ code[f].valid
  /\ \A tb \in Tb : translation[tb] = f => tb = tbs[pc]

FinalOK == \A pc \in finalized : \E f \in module : Stays(pc, f)

IInv == TypeOK /\ TbsOK /\ FinalOK

\* Without retranslation a block has one TB, which is never collected.
OneTb ==
  /\ \A pc \in Pc : version[pc] = 1
  /\ \A tb \in Tb : tb[2] # 1 => translation[tb] = NoFunction
  /\ \A pc \in DOMAIN tbs : tbs[pc] = <<pc, 1>> /\ translation[<<pc, 1>>] # NoFunction
  /\ \A pc \in Pc : <<pc, 1>> \in hasLlvm => translation[<<pc, 1>>] # NoFunction

EverGood(pc) == \E f \in FunctionsOf(pc, 1..count) : code[f].valid

\* The function of the TB is the latest; the first of the module is good, or there
\* is no other and none ever was good.
FirstIsGood(pc) ==
  \E f \in FunctionsOf(pc, module) : code[f].valid /\ \A g \in FunctionsOf(pc, module) : f <= g

OnlyLatest(pc) ==
  /\ FunctionsOf(pc, module) \subseteq {translation[<<pc, 1>>]}
  /\ ~EverGood(pc)

Versions(pc) ==
  /\ \A f \in FunctionsOf(pc, 1..count) : f <= translation[<<pc, 1>>]
  /\ translation[<<pc, 1>>] # NoFunction => translation[<<pc, 1>>] \in module
  /\ translation[<<pc, 1>>] # NoFunction /\ <<pc, 1>> \notin hasLlvm => EverGood(pc)
  /\ FirstIsGood(pc) \/ OnlyLatest(pc)

CodeInv == OneTb /\ \A pc \in Pc : Versions(pc)

\* Edges are between blocks exported; files of states never run do not exist.
EdgesOK ==
  /\ \A s \in States : prevPc[s] \in (DOMAIN tbs) \cup {NoPc}
  /\ \A s \in States : successors[s] \subseteq (DOMAIN tbs) \X (DOMAIN tbs)
  /\ status[cur] # "new"
  /\ \A s \in States : status[s] = "new" => s \notin DOMAIN captured
  /\ Final \in DOMAIN captured => phase = "done"

CoverInv == EdgesOK /\ CapturedCoversTrace
-----------------------------------------------------------------------------
(* What the parts of the actions do.                                       *)

\* cpu_gen_llvm for the block pc: a new function, the latest, for its current TB.
Made(pc) ==
  /\ count' = count + 1 /\ count' \in 1..MaxFunctions
  /\ code' \in [1..count' -> Code]
  /\ code'[count'].pc = pc
  /\ \A f \in 1..count : code'[f] = code[f]
  /\ translation' \in [Tb -> 0..count']
  /\ translation'[CurrentTb(pc)] = count'
  /\ \A tb \in Tb : tb # CurrentTb(pc) => translation'[tb] = translation[tb]

\* The translation block of a pc that S2E runs now.
LEMMA CurrentTbType ==
  ASSUME TypeOK, NEW pc \in Pc
  PROVE  CurrentTb(pc) \in Tb /\ CurrentTb(pc)[1] = pc /\ CurrentTb(pc)[2] = version[pc]
BY DEF TypeOK, CurrentTb, Tb

\* Generating code adds one function, of the block asked for, at the end of the module.
LEMMA GenerateMakes ==
  ASSUME TypeOK, NEW pc \in Pc, NEW valid \in BOOLEAN, NEW size \in Sizes,
         Generate(CurrentTb(pc), valid, size)
  PROVE  /\ Made(pc)
         /\ code'[count'] = [pc |-> pc, valid |-> valid, size |-> size]
<1>1. PICK tb : tb = CurrentTb(pc)
  OBVIOUS
<1>2. tb \in Tb /\ tb[1] = pc
  BY <1>1, CurrentTbType
<1>3. PICK new : new = [pc |-> pc, valid |-> valid, size |-> size]
  OBVIOUS
<1>4. new \in Code /\ new.pc = pc
  BY <1>3 DEF Code
<1>5. /\ count < MaxFunctions /\ count' = count + 1
      /\ code' = [f \in 1..count + 1 |-> IF f = count + 1 THEN new ELSE code[f]]
      /\ translation' = [translation EXCEPT ![tb] = count + 1]
  BY <1>1, <1>2, <1>3 DEF Generate, Fresh
<1>6. /\ count \in Nat /\ MaxFunctions \in Nat /\ code \in [1..count -> Code]
      /\ translation \in [Tb -> 0..count]
  BY ExportAssumption DEF TypeOK
<1>7. /\ count' \in 1..MaxFunctions /\ code' \in [1..count' -> Code]
      /\ code'[count'] = new /\ \A f \in 1..count : code'[f] = code[f]
  BY <1>4, <1>5, <1>6
<1>8. /\ translation' \in [Tb -> 0..count'] /\ translation'[tb] = count'
      /\ \A t \in Tb : t # tb => translation'[t] = translation[t]
  BY <1>2, <1>5, <1>6
<1> QED
  BY <1>1, <1>3, <1>4, <1>5, <1>7, <1>8 DEF Made

\* The file of the running state may be written, from the module as it is then.
SavedCur ==
  /\ DOMAIN captured' \subseteq DOMAIN captured \cup {cur}
  /\ \A k \in DOMAIN captured' : k # cur => captured'[k] = captured[k]
  /\ captured' = [k \in DOMAIN captured' |-> captured'[k]]
  /\ cur \in DOMAIN captured' =>
       captured'[cur] = module' \/ (cur \in DOMAIN captured /\ captured'[cur] = captured[cur])

\* A step that writes no file leaves the captured files as they are.
LEMMA NotSaved ==
  ASSUME TypeOK, captured' = captured
  PROVE  SavedCur
BY DEF SavedCur, TypeOK

\* Counting exports writes no file but the one of the current state.
LEMMA CountFacts ==
  ASSUME TypeOK, CountExport
  PROVE  exportCounter' \in Nat /\ SavedCur
<1>1. CASE Interval = 0
  <2>1. UNCHANGED <<exportCounter, captured>>
    BY <1>1 DEF CountExport
  <2> QED  BY <2>1, NotSaved DEF TypeOK
<1>2. CASE Interval # 0
  <2>1. /\ exportCounter' = (exportCounter + 1) % Interval
        /\ captured' = IF exportCounter' = 0 THEN SaveModule(cur, module') ELSE captured
    BY <1>2 DEF CountExport
  <2>2. exportCounter' \in Nat
    BY <1>2, <2>1, ExportAssumption DEF TypeOK
  <2>3. CASE captured' = captured
    BY <2>2, <2>3, NotSaved
  <2>4. CASE captured' = SaveModule(cur, module')
    <3>1. PICK functions : functions = module'
      OBVIOUS
    <3>2. captured' = SaveModule(cur, functions)
      BY <2>4, <3>1
    <3>3. /\ DOMAIN captured' = DOMAIN captured \cup {cur}
          /\ captured'[cur] = functions
          /\ \A k \in DOMAIN captured : k # cur => captured'[k] = captured[k]
          /\ captured' = [k \in DOMAIN captured' |-> captured'[k]]
      BY <3>2 DEF SaveModule
    <3> QED  BY <2>2, <3>1, <3>3 DEF SavedCur
  <2> QED  BY <2>1, <2>3, <2>4
<1> QED  BY <1>1, <1>2

\* exportBB's tail keeps the TB that m_tbs has.
LEMMA VouchFacts ==
  ASSUME TypeOK, TbsOK, NEW pc \in Pc, Vouch(pc)
  PROVE  /\ DOMAIN tbs' = DOMAIN tbs \cup {pc} /\ DOMAIN tbs' \subseteq Pc
         /\ tbs' \in [DOMAIN tbs' -> Tb]
         /\ \A p \in DOMAIN tbs : tbs'[p] = tbs[p]
         /\ \A p \in DOMAIN tbs' : tbs'[p][1] = p
         /\ pc \notin DOMAIN tbs => tbs'[pc] = CurrentTb(pc)
<1>1. CurrentTb(pc) \in Tb /\ CurrentTb(pc)[1] = pc
  BY CurrentTbType
<1>2. /\ DOMAIN tbs' = DOMAIN tbs \cup {pc}
      /\ \A p \in DOMAIN tbs : tbs'[p] = tbs[p]
      /\ pc \notin DOMAIN tbs => tbs'[pc] = CurrentTb(pc)
      /\ tbs' = [p \in DOMAIN tbs' |-> tbs'[p]]
  BY DEF Vouch
<1>3. DOMAIN tbs \subseteq Pc /\ \A p \in DOMAIN tbs : tbs[p] \in Tb /\ tbs[p][1] = p
  BY DEF TypeOK, TbsOK
<1> QED
  BY <1>1, <1>2, <1>3

\* addSuccessor adds one edge, between blocks exported.
LEMMA FollowFacts ==
  ASSUME TypeOK, NEW pc \in Pc, Follow(pc)
  PROVE  /\ prevPc' \in [States -> Pc \cup {NoPc}]
         /\ prevPc' = [prevPc EXCEPT ![cur] = pc]
         /\ successors' \in [States -> SUBSET (Pc \X Pc)]
         /\ \A s \in States : s # cur => successors'[s] = successors[s]
         /\ \A e \in successors'[cur] :
              e \in successors[cur] \/ (e = <<prevPc[cur], pc>> /\ prevPc[cur] # NoPc)
<1>1. /\ cur \in States /\ prevPc \in [States -> Pc \cup {NoPc}]
      /\ successors \in [States -> SUBSET (Pc \X Pc)]
  BY DEF TypeOK, ExecTypeOK
<1>2. prevPc' = [prevPc EXCEPT ![cur] = pc]
  BY DEF Follow
<1>0. prevPc' \in [States -> Pc \cup {NoPc}]
  BY <1>1, <1>2
<1>3. CASE successors' = successors
  <2>1. \A s \in States : successors'[s] = successors[s]
    BY <1>3
  <2>2. successors' \in [States -> SUBSET (Pc \X Pc)]
    BY <1>1, <1>3
  <2> QED  BY <1>1, <1>2, <1>0, <2>1, <2>2
<1>4. CASE /\ prevPc[cur] # NoPc
           /\ successors' = [successors EXCEPT ![cur] = successors[cur] \cup {<<prevPc[cur], pc>>}]
  <2>1. successors[cur] \cup {<<prevPc[cur], pc>>} \in SUBSET (Pc \X Pc)
    BY <1>1, <1>4
  <2> QED  BY <1>1, <1>2, <1>0, <1>4, <2>1
<1> QED
  BY <1>3, <1>4 DEF Follow

\* What a step saves are functions generated so far.
LEMMA CapturedType ==
  ASSUME TypeOK, SavedCur, module' \subseteq 1..count', count' \in {count, count + 1}
  PROVE  /\ DOMAIN captured' \subseteq States \cup {Final}
         /\ captured' \in [DOMAIN captured' -> SUBSET (1..count')]
<1>1. /\ cur \in States /\ DOMAIN captured \subseteq States \cup {Final} /\ count \in Nat
      /\ captured \in [DOMAIN captured -> SUBSET (1..count)]
  BY DEF TypeOK, ExecTypeOK
<1>2. \A k \in DOMAIN captured' : captured'[k] \in SUBSET (1..count')
  <2>1. ASSUME NEW k \in DOMAIN captured' PROVE captured'[k] \subseteq 1..count'
    <3>1. CASE captured'[k] = module'
      BY <3>1
    <3>2. CASE k \in DOMAIN captured /\ captured'[k] = captured[k]
      <4>1. captured[k] \subseteq 1..count
        BY <1>1, <3>2
      <4> QED  BY <1>1, <3>2, <4>1
    <3> QED  BY <3>1, <3>2 DEF SavedCur
  <2> QED  BY <2>1
<1> QED
  BY <1>1, <1>2 DEF SavedCur

\* S2E's functions after a step: as before, or one more, for the current TB of a block.
SameCode == count' = count /\ code' = code /\ translation' = translation

\* The functions there were keep their numbers and their code.
LEMMA OldCode ==
  ASSUME TypeOK, SameCode \/ \E pc \in Pc : Made(pc)
  PROVE  /\ count \in Nat /\ count' \in {count, count + 1}
         /\ count' \in 0..MaxFunctions
         /\ code' \in [1..count' -> Code]
         /\ translation' \in [Tb -> 0..count']
         /\ \A f \in 1..count : code'[f] = code[f]
         /\ \A tb \in Tb : translation'[tb] = translation[tb] \/ translation'[tb] = count + 1
BY ExportAssumption DEF TypeOK, SameCode, Made

\* TbsOK after a step that adds at most one function and exports at most one block.
LEMMA TbsStep ==
  ASSUME TypeOK, TbsOK, SameCode \/ \E pc \in Pc : Made(pc),
         \A p \in DOMAIN tbs' : tbs'[p][1] = p,
         \A p \in Pc : bbCounts'[p] > 0 <=> p \in DOMAIN tbs',
         finalized' \subseteq DOMAIN tbs'
  PROVE  TbsOK'
<1>1. CASE SameCode
  BY <1>1 DEF SameCode, TbsOK
<1>2. ASSUME NEW pc \in Pc, Made(pc) PROVE TbsOK'
  <2>1. CurrentTb(pc) \in Tb /\ CurrentTb(pc)[1] = pc
    BY CurrentTbType
  <2>2. /\ count \in Nat /\ count' = count + 1
        /\ \A f \in 1..count : code'[f] = code[f]
        /\ code'[count'].pc = pc
        /\ translation'[CurrentTb(pc)] = count'
        /\ \A tb \in Tb : tb # CurrentTb(pc) => translation'[tb] = translation[tb]
        /\ \A tb \in Tb : translation[tb] \in 0..count
    BY <1>2 DEF Made, TypeOK
  <2>3. \A tb \in Tb : translation'[tb] # NoFunction => code'[translation'[tb]].pc = tb[1]
    BY <2>1, <2>2 DEF TbsOK, NoFunction
  <2>4. \A a, b \in Tb :
          translation'[a] = translation'[b] /\ translation'[a] # NoFunction => a = b
    BY <2>1, <2>2 DEF TbsOK, NoFunction
  <2> QED
    BY <2>3, <2>4 DEF TbsOK
<1> QED
  BY <1>1, <1>2

\* A function that stays is still such a function after any step that leaves it in
\* the module.
LEMMA StaysStep ==
  ASSUME TypeOK, SameCode \/ \E pc \in Pc : Made(pc),
         NEW p \in Pc, NEW f \in module, Stays(p, f), f \in module', tbs'[p] = tbs[p]
  PROVE  Stays(p, f)'
<1>1. /\ count \in Nat /\ f \in 1..count
      /\ code'[f] = code[f]
      /\ \A tb \in Tb : translation'[tb] = translation[tb] \/ translation'[tb] = count + 1
  BY OldCode DEF TypeOK
<1>2. code'[f].pc = p /\ code'[f].valid
  BY <1>1 DEF Stays, FunctionsOf
<1>3. \A tb \in Tb : translation'[tb] = f => tb = tbs'[p]
  BY <1>1 DEF Stays
<1> QED
  BY <1>2, <1>3 DEF Stays, FunctionsOf
-----------------------------------------------------------------------------
(* The invariant is kept.                                                  *)

\* forceCodeGen: the function is S2E's or a new one.
LEMMA ForceCodeGen ==
  ASSUME TypeOK, NEW pc \in Pc, FirstExport(pc)
  PROVE  /\ \/ SameCode /\ module' = module /\ hasLlvm' = hasLlvm /\ CurrentTb(pc) \in hasLlvm
            \/ /\ Made(pc) /\ module' = module \cup {count'}
               /\ CurrentTb(pc) \notin hasLlvm
               /\ hasLlvm' = hasLlvm \cup {CurrentTb(pc)}
         /\ version' = version
<1>1. CASE CurrentTb(pc) \in hasLlvm
  BY <1>1 DEF FirstExport, s2eVars, SameCode
<1>2. CASE CurrentTb(pc) \notin hasLlvm
  <2>1. PICK valid \in BOOLEAN, size \in Sizes : Generate(CurrentTb(pc), valid, size)
    BY <1>2 DEF FirstExport
  <2>2. Made(pc)
    BY <2>1, GenerateMakes
  <2>3. /\ module' = module \cup {Fresh} /\ version' = version
        /\ hasLlvm' = hasLlvm \cup {CurrentTb(pc)}
    BY <1>2 DEF FirstExport
  <2>4. Fresh = count'
    BY <2>2 DEF Made, Fresh
  <2> QED  BY <1>2, <2>2, <2>3, <2>4
<1> QED
  BY <1>1, <1>2

\* exportBB of a block exported for the first time.
LEMMA FirstExportStep ==
  ASSUME IInv, NEW pc \in Pc, FirstExport(pc)
  PROVE  IInv'
<1>1. TypeOK /\ TbsOK /\ FinalOK
  BY DEF IInv
<1>2. /\ SameCode \/ Made(pc)
      /\ module' = module \/ (Made(pc) /\ module' = module \cup {count'})
      /\ hasLlvm' \subseteq hasLlvm \cup {CurrentTb(pc)}
      /\ version' = version
  BY <1>1, ForceCodeGen
<1>3. /\ bbCounts[pc] = 0
      /\ bbCounts' = [bbCounts EXCEPT ![pc] = IF regenerate THEN 1 ELSE 2]
      /\ finalized' = finalized \ {pc}
      /\ UNCHANGED <<cur, status, regenerate, phase>>
      /\ Vouch(pc) /\ CountExport /\ Follow(pc)
  BY DEF FirstExport, execVars, Exported
<1>4. /\ count \in Nat /\ count' \in {count, count + 1}
      /\ count' \in 0..MaxFunctions
      /\ code' \in [1..count' -> Code]
      /\ translation' \in [Tb -> 0..count']
  BY <1>1, <1>2, OldCode
<1>5. module' \subseteq 1..count' /\ module \subseteq module'
  <2>1. module \subseteq 1..count
    BY <1>1 DEF TypeOK
  <2>2. CASE module' = module
    BY <1>4, <2>1, <2>2
  <2>3. CASE Made(pc) /\ module' = module \cup {count'}
    BY <1>4, <2>1, <2>3 DEF Made
  <2> QED  BY <1>2, <2>2, <2>3
<1>6. hasLlvm' \subseteq Tb
  BY <1>1, <1>2, CurrentTbType DEF TypeOK
<1>7. /\ DOMAIN tbs' = DOMAIN tbs \cup {pc} /\ DOMAIN tbs' \subseteq Pc
      /\ tbs' \in [DOMAIN tbs' -> Tb]
      /\ \A p \in DOMAIN tbs : tbs'[p] = tbs[p]
      /\ \A p \in DOMAIN tbs' : tbs'[p][1] = p
  BY <1>1, <1>3, VouchFacts
<1>8. exportCounter' \in Nat /\ SavedCur
  BY <1>1, <1>3, CountFacts
<1>9. /\ prevPc' \in [States -> Pc \cup {NoPc}]
      /\ successors' \in [States -> SUBSET (Pc \X Pc)]
  BY <1>1, <1>3, FollowFacts
<1>10. bbCounts' \in [Pc -> Nat] /\ bbCounts'[pc] > 0 /\ \A p \in Pc : p # pc => bbCounts'[p] = bbCounts[p]
  BY <1>1, <1>3 DEF TypeOK
<1>11. TypeOK'
  <2>1. /\ DOMAIN captured' \subseteq States \cup {Final}
        /\ captured' \in [DOMAIN captured' -> SUBSET (1..count')]
    BY <1>1, <1>4, <1>5, <1>8, CapturedType
  <2> QED
    BY <1>1, <1>2, <1>3, <1>4, <1>5, <1>6, <1>7, <1>8, <1>9, <1>10, <2>1
       DEF TypeOK, ExecTypeOK
<1>12. TbsOK'
  <2>1. /\ \A p \in Pc : bbCounts'[p] > 0 <=> p \in DOMAIN tbs'
        /\ finalized' \subseteq DOMAIN tbs'
    BY <1>1, <1>3, <1>7, <1>10 DEF TbsOK
  <2> QED
    BY <1>1, <1>2, <1>7, <2>1, TbsStep
<1>13. FinalOK'
  <2>1. ASSUME NEW p \in finalized' PROVE \E f \in module' : Stays(p, f)'
    <3>1. p \in finalized /\ p \in Pc /\ p \in DOMAIN tbs
      BY <1>1, <1>3 DEF TbsOK, TypeOK
    <3>2. PICK f \in module : Stays(p, f)
      BY <1>1, <3>1 DEF FinalOK
    <3>3. f \in module' /\ tbs'[p] = tbs[p]
      BY <1>5, <1>7, <3>1
    <3> QED
      BY <1>1, <1>2, <3>1, <3>2, <3>3, StaysStep
  <2> QED  BY <2>1 DEF FinalOK
<1> QED
  BY <1>11, <1>12, <1>13 DEF IInv

\* S2E generates code by itself, which is not in the plugin's books.
LEMMA S2EGenerateStep ==
  ASSUME IInv, NEW pc \in Pc, S2EGenerate(pc)
  PROVE  IInv'
<1>1. TypeOK /\ TbsOK /\ FinalOK
  BY DEF IInv
<1>2. PICK valid \in BOOLEAN, size \in Sizes : Generate(CurrentTb(pc), valid, size)
  BY DEF S2EGenerate
<1>3. Made(pc)
  BY <1>1, <1>2, GenerateMakes
<1>4. /\ module' = module \cup {count'} /\ hasLlvm' = hasLlvm \cup {CurrentTb(pc)}
      /\ UNCHANGED <<cur, status, version, tbs, bbCounts, finalized, regenerate>>
      /\ UNCHANGED <<prevPc, successors, exportCounter, captured, phase>>
  BY <1>3 DEF S2EGenerate, Made, Fresh, execVars, cacheVars, traceVars, outputVars
<1>5. /\ count \in Nat /\ count' = count + 1 /\ count' \in 1..MaxFunctions
      /\ code' \in [1..count' -> Code] /\ translation' \in [Tb -> 0..count']
  BY <1>1, <1>3 DEF Made, TypeOK
<1>6. module' \subseteq 1..count' /\ module \subseteq module' /\ hasLlvm' \subseteq Tb
  BY <1>1, <1>4, <1>5, CurrentTbType DEF TypeOK
<1>7. TypeOK'
  <2>1. SavedCur
    BY <1>1, <1>4, NotSaved
  <2>2. /\ DOMAIN captured' \subseteq States \cup {Final}
        /\ captured' \in [DOMAIN captured' -> SUBSET (1..count')]
    BY <1>1, <1>5, <1>6, <2>1, CapturedType
  <2> QED
    BY <1>1, <1>4, <1>5, <1>6, <2>2 DEF TypeOK, ExecTypeOK
<1>8. TbsOK'
  BY <1>1, <1>3, <1>4, TbsStep DEF TbsOK
<1>9. FinalOK'
  <2>1. ASSUME NEW p \in finalized' PROVE \E f \in module' : Stays(p, f)'
    <3>1. p \in finalized /\ p \in Pc
      BY <1>1, <1>4 DEF TypeOK
    <3>2. PICK f \in module : Stays(p, f)
      BY <1>1, <3>1 DEF FinalOK
    <3> QED
      BY <1>1, <1>3, <1>4, <1>6, <3>1, <3>2, StaysStep
  <2> QED  BY <2>1 DEF FinalOK
<1> QED
  BY <1>7, <1>8, <1>9 DEF IInv
\* regenCode: a new function, and what becomes of the old one.
Regen(pc) ==
  /\ Made(pc)
  /\ \/ /\ module' = module \cup {count'} /\ hasLlvm' = hasLlvm \ {CurrentTb(pc)}
        /\ code[Old(pc)].valid
        /\ finalized' = finalized \/ (code'[count'].valid /\ finalized' = finalized \cup {pc})
        /\ NotExported
     \/ /\ module' = (module \cup {count'}) \ {Old(pc)}
        /\ hasLlvm' = hasLlvm \cup {CurrentTb(pc)}
        /\ code[Old(pc)].valid => code'[count'].valid
        /\ finalized' = finalized
        /\ Vouch(pc) /\ CountExport

\* What regenCode erases and what it marks final, case by case.
LEMMA RegenFacts ==
  ASSUME TypeOK, NEW pc \in Pc, ReExport(pc)
  PROVE  Regen(pc)
<1>1. PICK valid \in BOOLEAN, size \in Sizes :
        Generate(CurrentTb(pc), valid, size) /\ RegenCode(pc, valid, size)
  BY DEF ReExport
<1>2. Made(pc) /\ code'[count'] = [pc |-> pc, valid |-> valid, size |-> size]
  BY <1>1, GenerateMakes
<1>3. Fresh = count' /\ code'[count'].valid = valid
  BY <1>2 DEF Made, Fresh
<1>4. CASE code[Old(pc)].valid /\ valid /\ Agreed(pc)
  BY <1>2, <1>3, <1>4 DEF Agreed, Regen
<1>5. CASE code[Old(pc)].valid /\ ~valid /\ Rejected(pc)
  BY <1>2, <1>3, <1>5 DEF Rejected, Regen
<1>6. CASE (code[Old(pc)].valid => valid) /\ Replaced(pc)
  BY <1>2, <1>3, <1>6 DEF Replaced, Exported, Regen
<1> QED
  BY <1>1, <1>4, <1>5, <1>6 DEF RegenCode
\* The good function that m_tbs refers to stays, as long as nothing erases it.
LEMMA OldStays ==
  ASSUME TypeOK, TbsOK, NEW pc \in DOMAIN tbs, Old(pc) \in module
  PROVE  /\ code[Old(pc)].pc = pc
         /\ \A tb \in Tb : translation[tb] = Old(pc) => tb = tbs[pc]
         /\ code[Old(pc)].valid => Stays(pc, Old(pc))
<1>1. tbs[pc] \in Tb /\ tbs[pc][1] = pc /\ Old(pc) # NoFunction
  BY DEF TypeOK, TbsOK, NoFunction
<1> QED
  BY <1>1 DEF TbsOK, Stays, FunctionsOf, Old

\* exportBB of a block that regenCode may still replace.
LEMMA ReExportStep ==
  ASSUME IInv, NEW pc \in Pc, ReExport(pc)
  PROVE  IInv'
<1>1. TypeOK /\ TbsOK /\ FinalOK
  BY DEF IInv
<1>2. Regen(pc) /\ Made(pc)
  BY <1>1, RegenFacts DEF Regen
<1>3. /\ bbCounts[pc] > 0 /\ pc \notin finalized /\ Old(pc) \in module
      /\ bbCounts' = [bbCounts EXCEPT ![pc] = bbCounts[pc] + 1]
      /\ UNCHANGED <<cur, status, version, regenerate, phase>> /\ Follow(pc)
  BY DEF ReExport, Regenerated, execVars
<1>4. pc \in DOMAIN tbs
  BY <1>1, <1>3 DEF TbsOK
<1>5. /\ count \in Nat /\ count' = count + 1 /\ count' \in 1..MaxFunctions
      /\ code' \in [1..count' -> Code] /\ translation' \in [Tb -> 0..count']
  BY <1>1, <1>2 DEF Made, TypeOK
<1>6. module' \subseteq 1..count' /\ module \ {Old(pc)} \subseteq module'
  BY <1>1, <1>2, <1>5 DEF Regen, TypeOK
<1>7. hasLlvm' \subseteq Tb
  BY <1>1, <1>2, CurrentTbType DEF Regen, TypeOK
<1>8. /\ DOMAIN tbs' = DOMAIN tbs
      /\ tbs' \in [DOMAIN tbs' -> Tb]
      /\ \A p \in DOMAIN tbs : tbs'[p] = tbs[p] /\ tbs'[p][1] = p
  <2>1. CASE tbs' = tbs
    BY <1>1, <2>1 DEF TypeOK, TbsOK
  <2>2. CASE Vouch(pc)
    BY <1>1, <1>4, <2>2, VouchFacts
  <2> QED  BY <1>2, <2>1, <2>2 DEF Regen, NotExported
<1>9. exportCounter' \in Nat /\ SavedCur
  <2>1. CASE NotExported
    BY <1>1, <2>1, NotSaved DEF NotExported, TypeOK
  <2>2. CASE CountExport
    BY <1>1, <2>2, CountFacts
  <2> QED  BY <1>2, <2>1, <2>2 DEF Regen
<1>10. /\ prevPc' \in [States -> Pc \cup {NoPc}]
       /\ successors' \in [States -> SUBSET (Pc \X Pc)]
  BY <1>1, <1>3, FollowFacts
<1>11. /\ bbCounts' \in [Pc -> Nat] /\ bbCounts'[pc] > 0
       /\ \A p \in Pc : p # pc => bbCounts'[p] = bbCounts[p]
  BY <1>1, <1>3 DEF TypeOK
<1>12. finalized' \subseteq finalized \cup {pc}
  BY <1>2 DEF Regen
<1>13. TypeOK'
  <2>1. /\ DOMAIN captured' \subseteq States \cup {Final}
        /\ captured' \in [DOMAIN captured' -> SUBSET (1..count')]
    BY <1>1, <1>5, <1>6, <1>9, CapturedType
  <2> QED
    BY <1>1, <1>3, <1>5, <1>6, <1>7, <1>8, <1>9, <1>10, <1>11, <1>12, <2>1
       DEF TypeOK, ExecTypeOK
<1>14. TbsOK'
  <2>1. /\ \A p \in Pc : bbCounts'[p] > 0 <=> p \in DOMAIN tbs'
        /\ finalized' \subseteq DOMAIN tbs'
        /\ \A p \in DOMAIN tbs' : tbs'[p][1] = p
    BY <1>1, <1>4, <1>8, <1>11, <1>12 DEF TbsOK
  <2> QED
    BY <1>1, <1>2, <2>1, TbsStep
<1>15. FinalOK'
  <2>1. ASSUME NEW p \in finalized' PROVE \E f \in module' : Stays(p, f)'
    <3>1. CASE p \in finalized
      <4>1. p \in Pc /\ p \in DOMAIN tbs /\ p # pc
        BY <1>1, <1>3, <3>1 DEF TbsOK, TypeOK
      <4>2. PICK f \in module : Stays(p, f)
        BY <1>1, <3>1 DEF FinalOK
      <4>3. f # Old(pc)
        <5>1. code[f].pc = p /\ code[Old(pc)].pc = pc
          BY <1>1, <1>3, <1>4, <4>2, OldStays DEF Stays, FunctionsOf
        <5> QED  BY <4>1, <5>1
      <4>4. f \in module' /\ tbs'[p] = tbs[p]
        BY <1>6, <1>8, <4>1, <4>3
      <4> QED
        BY <1>1, <1>2, <4>1, <4>2, <4>4, StaysStep
    <3>2. CASE p \notin finalized
      <4>1. /\ p = pc /\ code[Old(pc)].valid /\ module' = module \cup {count'}
        BY <1>2, <2>1, <3>2 DEF Regen
      <4>2. Stays(pc, Old(pc)) /\ Old(pc) \in module' /\ tbs'[pc] = tbs[pc]
        BY <1>1, <1>3, <1>4, <1>8, <4>1, OldStays
      <4>3. PICK f \in module : f = Old(pc)
        BY <1>3
      <4>4. Stays(p, f)'
        BY <1>1, <1>2, <4>1, <4>2, <4>3, StaysStep
      <4> QED  BY <4>1, <4>3, <4>4
    <3> QED  BY <3>1, <3>2
  <2> QED  BY <2>1 DEF FinalOK
<1> QED
  BY <1>13, <1>14, <1>15 DEF IInv

\* Collecting TBs spares what m_tbs holds.
LEMMA CollectStep ==
  ASSUME IInv, NEW tb \in Tb, Collect(tb)
  PROVE  IInv'
<1>1. TypeOK /\ TbsOK /\ FinalOK
  BY DEF IInv
<1>2. /\ tb \notin Held /\ module' = module \ {translation[tb]} /\ SameCode
      /\ UNCHANGED <<cur, status, version, hasLlvm, tbs, bbCounts, finalized, regenerate>>
      /\ UNCHANGED <<prevPc, successors, exportCounter, captured, phase>>
  BY DEF Collect, SameCode, execVars, cacheVars, traceVars, outputVars
<1>3. TypeOK'
  BY <1>1, <1>2 DEF TypeOK, ExecTypeOK, SameCode
<1>4. TbsOK'
  BY <1>1, <1>2, TbsStep DEF TbsOK
<1>5. FinalOK'
  <2>1. ASSUME NEW p \in finalized' PROVE \E f \in module' : Stays(p, f)'
    <3>1. p \in finalized /\ p \in Pc /\ p \in DOMAIN tbs
      BY <1>1, <1>2 DEF TypeOK, TbsOK
    <3>2. PICK f \in module : Stays(p, f)
      BY <1>1, <3>1 DEF FinalOK
    <3>3. tb # tbs[p]
      BY <1>2, <3>1 DEF Held, HeldByPlugin
    <3>4. f \in module'
      BY <1>2, <3>2, <3>3 DEF Stays
    <3> QED
      BY <1>1, <1>2, <3>1, <3>2, <3>4, StaysStep
  <2> QED  BY <2>1 DEF FinalOK
<1> QED
  BY <1>3, <1>4, <1>5 DEF IInv
\* The file key may be written, from the module.
LEMMA SavedType ==
  ASSUME TypeOK, NEW key \in States \cup {Final}, captured' = Saved(key)
  PROVE  /\ DOMAIN captured' \subseteq States \cup {Final}
         /\ captured' \in [DOMAIN captured' -> SUBSET (1..count)]
<1>1. /\ module \subseteq 1..count /\ DOMAIN captured \subseteq States \cup {Final}
      /\ captured \in [DOMAIN captured -> SUBSET (1..count)]
  BY DEF TypeOK
<1>2. CASE captured' = captured
  BY <1>1, <1>2
<1>3. CASE captured' = SaveModule(key, module)
  BY <1>1, <1>3 DEF SaveModule
<1> QED
  BY <1>2, <1>3 DEF Saved

\* The steps that leave all functions and TBs alone.
Other ==
  \/ \E pc \in Pc : ReExportErased(pc) \/ SkipExport(pc) \/ Retranslate(pc)
  \/ \E n \in States : StateFork(n) \/ StateSwitch(n)
  \/ StateExit
  \/ Shutdown
  \/ UNCHANGED vars

\* Skipped exports, retranslations, forks, switches and exits.
LEMMA OtherSteps ==
  ASSUME IInv, Other
  PROVE  IInv'
<1>1. TypeOK /\ TbsOK /\ FinalOK
  BY DEF IInv
<1>2. UNCHANGED <<count, code, module, translation, hasLlvm, tbs, bbCounts, finalized>>
  BY DEF Other, ReExportErased, SkipExport, Retranslate, StateFork, StateSwitch, StateExit,
         Shutdown, vars, s2eVars, cacheVars
<1>3. TbsOK' /\ FinalOK'
  BY <1>1, <1>2 DEF TbsOK, FinalOK, Stays, FunctionsOf
<1>4. /\ cur \in States /\ status \in [States -> {"new", "live", "dead"}]
      /\ prevPc \in [States -> Pc \cup {NoPc}] /\ successors \in [States -> SUBSET (Pc \X Pc)]
  BY <1>1 DEF TypeOK, ExecTypeOK
<1>5. ASSUME NEW pc \in Pc, SkipExport(pc) PROVE TypeOK'
  <2>1. UNCHANGED <<cur, status, version, regenerate, exportCounter, captured, phase>> /\ Follow(pc)
    BY <1>5 DEF SkipExport, execVars, s2eVars, cacheVars, outputVars
  <2>2. /\ prevPc' \in [States -> Pc \cup {NoPc}]
        /\ successors' \in [States -> SUBSET (Pc \X Pc)]
    BY <1>1, <2>1, FollowFacts
  <2> QED
    BY <1>1, <1>2, <2>1, <2>2 DEF TypeOK, ExecTypeOK
<1>6. ASSUME NEW pc \in Pc, ReExportErased(pc) \/ Retranslate(pc) PROVE TypeOK'
  <2>1. /\ UNCHANGED <<cur, status, regenerate, exportCounter, captured, prevPc, successors>>
        /\ phase' \in {phase, "undefined"}
        /\ \/ version' = version
           \/ version[pc] < MaxTbs /\ version' = [version EXCEPT ![pc] = version[pc] + 1]
    BY <1>6 DEF ReExportErased, Retranslate, execVars, s2eVars, cacheVars, traceVars, outputVars
  <2>2. version' \in [Pc -> 1..MaxTbs]
    BY <1>1, <2>1, ExportAssumption DEF TypeOK
  <2> QED
    BY <1>1, <1>2, <2>1, <2>2 DEF TypeOK, ExecTypeOK
<1>7. ASSUME NEW n \in States, StateFork(n) PROVE TypeOK'
  <2>1. /\ status' = [status EXCEPT ![n] = "live"] /\ regenerate' = FALSE
        /\ prevPc' = [prevPc EXCEPT ![n] = prevPc[cur]]
        /\ successors' = [successors EXCEPT ![n] = successors[cur]]
        /\ UNCHANGED <<cur, version, exportCounter, captured, phase>>
    BY <1>7 DEF StateFork, ExecFork, s2eVars, outputVars
  <2>2. /\ status' \in [States -> {"new", "live", "dead"}]
        /\ prevPc' \in [States -> Pc \cup {NoPc}]
        /\ successors' \in [States -> SUBSET (Pc \X Pc)]
    BY <1>4, <2>1
  <2> QED
    BY <1>1, <1>2, <2>1, <2>2 DEF TypeOK, ExecTypeOK
<1>8. ASSUME NEW n \in States, StateSwitch(n) PROVE TypeOK'
  <2>1. /\ cur' = n /\ captured' = Saved(cur)
        /\ UNCHANGED <<status, version, regenerate, exportCounter, prevPc, successors, phase>>
    BY <1>8 DEF StateSwitch, ExecSwitch, s2eVars, cacheVars, traceVars
  <2>2. /\ DOMAIN captured' \subseteq States \cup {Final}
        /\ captured' \in [DOMAIN captured' -> SUBSET (1..count)]
    BY <1>1, <1>4, <2>1, SavedType
  <2> QED
    BY <1>1, <1>2, <2>1, <2>2 DEF TypeOK, ExecTypeOK
<1>9. ASSUME StateExit PROVE TypeOK'
  <2>1. /\ status' = [status EXCEPT ![cur] = "dead"]
        /\ UNCHANGED <<cur, version, regenerate, exportCounter, captured, prevPc, successors, phase>>
    BY <1>9 DEF StateExit, ExecExit, s2eVars, cacheVars, traceVars, outputVars
  <2>2. status' \in [States -> {"new", "live", "dead"}]
    BY <1>4, <2>1
  <2> QED
    BY <1>1, <1>2, <2>1, <2>2 DEF TypeOK, ExecTypeOK
<1>10. ASSUME Shutdown PROVE TypeOK'
  <2>1. /\ captured' = Saved(Final) /\ phase' = "done"
        /\ UNCHANGED <<cur, status, version, regenerate, exportCounter, prevPc, successors>>
    BY <1>10 DEF Shutdown, execVars, s2eVars, cacheVars, traceVars
  <2>2. /\ DOMAIN captured' \subseteq States \cup {Final}
        /\ captured' \in [DOMAIN captured' -> SUBSET (1..count)]
    BY <1>1, <2>1, SavedType
  <2> QED
    BY <1>1, <1>2, <2>1, <2>2 DEF TypeOK, ExecTypeOK
<1>11. ASSUME UNCHANGED vars PROVE TypeOK'
  <2>1. /\ UNCHANGED <<cur, status, version, regenerate, exportCounter, captured>>
        /\ UNCHANGED <<prevPc, successors, phase>>
    BY <1>11 DEF vars, execVars, s2eVars, cacheVars, traceVars, outputVars
  <2> QED
    BY <1>1, <1>2, <2>1 DEF TypeOK, ExecTypeOK
<1>12. TypeOK'
  BY <1>5, <1>6, <1>7, <1>8, <1>9, <1>10, <1>11 DEF Other
<1> QED
  BY <1>3, <1>12 DEF IInv

\* No block has been exported at the start.
LEMMA InitIInv == Init => IInv
<1>1. SUFFICES ASSUME Init PROVE IInv
  OBVIOUS
<1>2. /\ ExecInit /\ count = 0 /\ code = [f \in {} |-> NoFunction] /\ module = {}
      /\ version = [pc \in Pc |-> 1] /\ translation = [tb \in Tb |-> NoFunction]
      /\ hasLlvm = {} /\ tbs = [pc \in {} |-> NoPc] /\ bbCounts = [pc \in Pc |-> 0]
      /\ finalized = {} /\ regenerate = TRUE /\ exportCounter = 0
      /\ prevPc = [s \in States |-> NoPc] /\ successors = [s \in States |-> {}]
      /\ captured = [k \in {} |-> {}] /\ phase = "running"
  BY <1>1 DEF Init
<1>3. ExecTypeOK
  BY <1>2, StatesAssumption DEF ExecInit, ExecTypeOK
<1>4. code \in [1..count -> Code] /\ translation \in [Tb -> 0..count]
  BY <1>2 DEF NoFunction
<1>5. TypeOK
  BY <1>2, <1>3, <1>4, ExportAssumption DEF TypeOK
<1>6. TbsOK /\ FinalOK
  BY <1>2 DEF TbsOK, FinalOK
<1> QED
  BY <1>5, <1>6 DEF IInv

\* Holds of every session, with retranslation, collection and preemption or without.
THEOREM ExportInvariant == Spec => []IInv
<1>1. Init => IInv
  BY InitIInv
<1>2. IInv /\ [Next]_vars => IInv'
  BY FirstExportStep, ReExportStep, S2EGenerateStep, CollectStep, OtherSteps DEF Next, Other
<1> QED
  BY <1>1, <1>2, PTL DEF Spec

\* The caches of the plugin and the functions of S2E have their types.
THEOREM ExportTypes == Spec => []TypeOK
<1>1. IInv => TypeOK
  BY DEF IInv
<1> QED
  BY <1>1, ExportInvariant, PTL

\* A block that regenCode declared final has a good function in the module from then
\* on, whatever S2E translates again and collects: that function belongs to no
\* translation block but the one m_tbs holds.
THEOREM FinalStays == Spec => []FinalizedKept
<1>1. IInv => FinalizedKept
  BY DEF IInv, FinalOK, Stays, FunctionsOf, FinalizedKept
<1> QED
  BY <1>1, ExportInvariant, PTL
-----------------------------------------------------------------------------
(* Without retranslation every traced block keeps its code.                *)

\* The functions of a block after a step that made one of it: one more, the latest.
LEMMA OneMore ==
  ASSUME TypeOK, NEW pc \in Pc, Made(pc), version[pc] = 1
  PROVE  /\ FunctionsOf(pc, 1..count)' = FunctionsOf(pc, 1..count) \cup {count'}
         /\ \A f \in FunctionsOf(pc, 1..count) : code'[f] = code[f] /\ f \in Nat /\ f < count'
         /\ FunctionsOf(pc, module) \subseteq FunctionsOf(pc, 1..count)
         /\ translation'[<<pc, 1>>] = count' /\ count' # NoFunction
         /\ count' \notin module /\ count' \in Nat
<1>1. /\ count \in Nat /\ module \subseteq 1..count /\ count' = count + 1
      /\ code'[count'].pc = pc /\ \A f \in 1..count : code'[f] = code[f]
      /\ translation'[CurrentTb(pc)] = count' /\ CurrentTb(pc) = <<pc, 1>>
  BY DEF TypeOK, Made, CurrentTb
<1>2. {f \in 1..count' : code'[f].pc = pc} = {f \in 1..count : code[f].pc = pc} \cup {count'}
  BY <1>1
<1>3. FunctionsOf(pc, 1..count)' = FunctionsOf(pc, 1..count) \cup {count'}
  BY <1>2 DEF FunctionsOf
<1>4. \A f \in FunctionsOf(pc, 1..count) : code'[f] = code[f] /\ f \in Nat /\ f < count'
  BY <1>1 DEF FunctionsOf
<1>5. FunctionsOf(pc, module) \subseteq FunctionsOf(pc, 1..count)
  BY <1>1 DEF FunctionsOf
<1> QED
  BY <1>1, <1>3, <1>4, <1>5 DEF NoFunction

\* Another block does not notice.
LEMMA OtherVersions ==
  ASSUME TypeOK, TbsOK, NEW q \in Pc, Versions(q), <<q, 1>> \in Tb,
         SameCode \/ \E pc \in Pc : pc # q /\ Made(pc),
         \A f \in 1..count : code[f].pc = q => (f \in module' <=> f \in module),
         module' \subseteq module \cup {count + 1}, module' \subseteq 1..count',
         <<q, 1>> \in hasLlvm' <=> <<q, 1>> \in hasLlvm
  PROVE  Versions(q)'
<1>1. /\ count \in Nat /\ module \subseteq 1..count /\ count' \in {count, count + 1}
      /\ \A f \in 1..count : code'[f] = code[f]
  BY OldCode DEF TypeOK
<1>2. count' = count + 1 => code'[count'].pc # q
  BY <1>1 DEF SameCode, Made
<1>3. translation'[<<q, 1>>] = translation[<<q, 1>>]
  <2>1. ASSUME NEW pc \in Pc, pc # q, Made(pc) PROVE translation'[<<q, 1>>] = translation[<<q, 1>>]
    <3>1. <<q, 1>> # CurrentTb(pc)
      BY <2>1 DEF CurrentTb
    <3> QED  BY <2>1, <3>1 DEF Made
  <2> QED  BY <2>1 DEF SameCode
<1>4. {f \in 1..count' : code'[f].pc = q} = {f \in 1..count : code[f].pc = q}
  BY <1>1, <1>2
<1>5. {f \in module' : code'[f].pc = q} = {f \in module : code[f].pc = q}
  BY <1>1, <1>2
<1>6. FunctionsOf(q, 1..count)' = FunctionsOf(q, 1..count)
  BY <1>4 DEF FunctionsOf
<1>7. FunctionsOf(q, module)' = FunctionsOf(q, module)
  BY <1>5 DEF FunctionsOf
<1>8. \A f \in FunctionsOf(q, 1..count) : code'[f] = code[f]
  BY <1>1 DEF FunctionsOf
<1>9. FunctionsOf(q, module) \subseteq FunctionsOf(q, 1..count)
  BY <1>1 DEF FunctionsOf
<1>10. EverGood(q)' <=> EverGood(q)
  BY <1>6, <1>8 DEF EverGood
<1>11. FirstIsGood(q)' <=> FirstIsGood(q)
  BY <1>7, <1>8, <1>9 DEF FirstIsGood
<1>12. OnlyLatest(q)' <=> OnlyLatest(q)
  BY <1>3, <1>7, <1>10 DEF OnlyLatest
<1>13. /\ \A f \in FunctionsOf(q, 1..count)' : f <= translation'[<<q, 1>>]
       /\ translation'[<<q, 1>>] # NoFunction /\ <<q, 1>> \notin hasLlvm' => EverGood(q)'
       /\ FirstIsGood(q)' \/ OnlyLatest(q)'
  BY <1>3, <1>6, <1>10, <1>11, <1>12 DEF Versions
<1>14. translation'[<<q, 1>>] # NoFunction => translation'[<<q, 1>>] \in module'
  <2>1. SUFFICES ASSUME translation[<<q, 1>>] # NoFunction PROVE translation[<<q, 1>>] \in module'
    BY <1>3
  <2>2. translation[<<q, 1>>] \in module
    BY <2>1 DEF Versions
  <2>3. code[translation[<<q, 1>>]].pc = q
    BY <2>1 DEF TbsOK
  <2> QED  BY <1>1, <2>2, <2>3
<1> QED
  BY <1>13, <1>14 DEF Versions
\* S2E or forceCodeGen generate for a TB without function: either it is the first one,
\* or a good one is already there.
LEMMA GeneratedVersions ==
  ASSUME TypeOK, NEW pc \in Pc, Versions(pc), version[pc] = 1, Made(pc),
         <<pc, 1>> \notin hasLlvm, <<pc, 1>> \in hasLlvm', module' = module \cup {count'}
  PROVE  Versions(pc)'
<1>1. /\ FunctionsOf(pc, 1..count)' = FunctionsOf(pc, 1..count) \cup {count'}
      /\ \A f \in FunctionsOf(pc, 1..count) : code'[f] = code[f] /\ f \in Nat /\ f < count'
      /\ FunctionsOf(pc, module) \subseteq FunctionsOf(pc, 1..count)
      /\ translation'[<<pc, 1>>] = count' /\ count' # NoFunction
      /\ count' \notin module /\ count' \in Nat
  BY OneMore
<1>2. FunctionsOf(pc, module)' = FunctionsOf(pc, module) \cup {count'}
  BY <1>1 DEF FunctionsOf, TypeOK, Made
<1>3. \A f \in FunctionsOf(pc, 1..count)' : f <= count'
  BY <1>1
<1>4. CASE FirstIsGood(pc)
  <2>1. PICK f \in FunctionsOf(pc, module) :
          code[f].valid /\ \A g \in FunctionsOf(pc, module) : f <= g
    BY <1>4 DEF FirstIsGood
  <2>2. /\ f \in FunctionsOf(pc, module)' /\ code'[f].valid
        /\ \A g \in FunctionsOf(pc, module)' : f <= g
    <3>1. f \in FunctionsOf(pc, module)'
      BY <1>2
    <3>2. f \in Nat /\ f < count' /\ code'[f].valid
      BY <1>1, <2>1
    <3>3. ASSUME NEW g \in FunctionsOf(pc, module)' PROVE f <= g
      <4>1. CASE g \in FunctionsOf(pc, module)
        BY <2>1, <4>1
      <4>2. CASE g = count'
        BY <1>1, <3>2, <4>2
      <4> QED  BY <1>2, <4>1, <4>2
    <3> QED  BY <3>1, <3>2, <3>3
  <2>3. FirstIsGood(pc)'
    BY <2>2 DEF FirstIsGood
  <2> QED
    BY <1>1, <1>2, <1>3, <2>3 DEF Versions
<1>5. CASE OnlyLatest(pc)
  <2>1. translation[<<pc, 1>>] = NoFunction
    BY <1>5 DEF Versions, OnlyLatest
  <2>2. FunctionsOf(pc, 1..count) = {}
    <3>1. \A f \in FunctionsOf(pc, 1..count) : f <= 0 /\ f \in 1..count
      BY <2>1 DEF Versions, FunctionsOf, NoFunction
    <3> QED  BY <3>1 DEF TypeOK
  <2>3. FunctionsOf(pc, 1..count)' = {count'} /\ FunctionsOf(pc, module)' = {count'}
    BY <1>1, <1>2, <2>2
  <2>4. FirstIsGood(pc)' \/ OnlyLatest(pc)'
    <3>1. CASE code'[count'].valid
      <4>1. PICK c \in Nat : c = count'
        BY <1>1
      <4>2. \A g \in FunctionsOf(pc, module)' : c <= g
        BY <2>3, <4>1
      <4> QED  BY <2>3, <3>1, <4>1, <4>2 DEF FirstIsGood
    <3>2. CASE ~ code'[count'].valid
      BY <1>1, <2>3, <3>2 DEF OnlyLatest, EverGood
    <3> QED  BY <3>1, <3>2
  <2> QED
    BY <1>1, <1>2, <1>3, <2>4 DEF Versions
<1> QED
  BY <1>4, <1>5 DEF Versions

\* regenCode of the block.
LEMMA RegenVersions ==
  ASSUME TypeOK, NEW pc \in Pc, Versions(pc), version[pc] = 1, Regen(pc),
         Old(pc) = translation[<<pc, 1>>], Old(pc) \in FunctionsOf(pc, module)
  PROVE  Versions(pc)'
<1>0. Made(pc) /\ CurrentTb(pc) = <<pc, 1>>
  BY DEF Regen, CurrentTb
<1>1. /\ FunctionsOf(pc, 1..count)' = FunctionsOf(pc, 1..count) \cup {count'}
      /\ \A f \in FunctionsOf(pc, 1..count) : code'[f] = code[f] /\ f \in Nat /\ f < count'
      /\ FunctionsOf(pc, module) \subseteq FunctionsOf(pc, 1..count)
      /\ translation'[<<pc, 1>>] = count' /\ count' # NoFunction
      /\ count' \notin module /\ count' \in Nat
  BY <1>0, OneMore
<1>2. \A f \in FunctionsOf(pc, 1..count)' : f <= count'
  BY <1>1
<1>3. \A f \in FunctionsOf(pc, module) : f <= Old(pc)
  BY <1>1 DEF Versions
<1>4. CASE /\ module' = module \cup {count'} /\ code[Old(pc)].valid
  <2>1. FunctionsOf(pc, module)' = FunctionsOf(pc, module) \cup {count'}
    BY <1>0, <1>1, <1>4 DEF FunctionsOf, TypeOK, Made
  <2>2. EverGood(pc)
    BY <1>1, <1>4 DEF EverGood
  <2>3. PICK f \in FunctionsOf(pc, module) :
          code[f].valid /\ \A g \in FunctionsOf(pc, module) : f <= g
    BY <2>2 DEF Versions, OnlyLatest, FirstIsGood
  <2>4. FirstIsGood(pc)'
    BY <1>1, <2>1, <2>3 DEF FirstIsGood
  <2>5. EverGood(pc)'
    BY <1>1, <2>3 DEF EverGood
  <2> QED
    BY <1>1, <1>2, <1>4, <2>4, <2>5 DEF Versions
<1>5. CASE /\ module' = (module \cup {count'}) \ {Old(pc)}
           /\ hasLlvm' = hasLlvm \cup {CurrentTb(pc)}
           /\ code[Old(pc)].valid => code'[count'].valid
  <2>1. FunctionsOf(pc, module)' = (FunctionsOf(pc, module) \cup {count'}) \ {Old(pc)}
    BY <1>0, <1>1, <1>5 DEF FunctionsOf, TypeOK, Made
  <2>2. count' \in FunctionsOf(pc, module)' /\ count' # Old(pc)
    BY <1>1, <2>1
  <2>3. ASSUME NEW f \in FunctionsOf(pc, module), f # Old(pc), code[f].valid,
               \A g \in FunctionsOf(pc, module) : f <= g
        PROVE  FirstIsGood(pc)'
    BY <1>1, <2>1, <2>3 DEF FirstIsGood
  <2>4. ASSUME FunctionsOf(pc, module) = {Old(pc)}
        PROVE  FunctionsOf(pc, module)' = {count'}
    BY <2>1, <2>2, <2>4
  <2>5. ASSUME FunctionsOf(pc, module)' = {count'}, code'[count'].valid
        PROVE  FirstIsGood(pc)'
    BY <1>1, <2>5 DEF FirstIsGood
  <2>6. CASE FirstIsGood(pc)
    <3>1. PICK f \in FunctionsOf(pc, module) :
            code[f].valid /\ \A g \in FunctionsOf(pc, module) : f <= g
      BY <2>6 DEF FirstIsGood
    <3>2. CASE f = Old(pc)
      <4>1. FunctionsOf(pc, module) = {Old(pc)}
        BY <1>1, <1>3, <3>1, <3>2
      <4> QED  BY <1>0, <1>1, <1>2, <1>5, <2>2, <2>4, <2>5, <3>1, <3>2, <4>1 DEF Versions, FunctionsOf
    <3>3. CASE f # Old(pc)
      BY <1>0, <1>1, <1>2, <1>5, <2>2, <2>3, <3>1, <3>3 DEF Versions, FunctionsOf
    <3> QED  BY <3>2, <3>3
  <2>7. CASE OnlyLatest(pc)
    <3>1. FunctionsOf(pc, module)' = {count'}
      BY <2>4, <2>7 DEF OnlyLatest
    <3>2. \A f \in FunctionsOf(pc, 1..count) : ~ code'[f].valid
      BY <1>1, <2>7 DEF OnlyLatest, EverGood
    <3>3. FirstIsGood(pc)' \/ OnlyLatest(pc)'
      <4>1. CASE code'[count'].valid
        BY <2>5, <3>1, <4>1
      <4>2. CASE ~ code'[count'].valid
        BY <1>1, <3>1, <3>2, <4>2 DEF OnlyLatest, EverGood
      <4> QED  BY <4>1, <4>2
    <3> QED
      BY <1>0, <1>1, <1>2, <1>5, <2>2, <3>3 DEF Versions, FunctionsOf
  <2> QED
    BY <2>6, <2>7 DEF Versions
<1> QED
  BY <1>4, <1>5 DEF Regen

\* With one translation per block, the block S2E runs is the one of m_tbs.
LEMMA OneTbCurrent ==
  ASSUME OneTb, NEW p \in Pc
  PROVE  <<p, 1>> \in Tb /\ version[p] = 1 /\ CurrentTb(p) = <<p, 1>> /\ CurrentTb(p)[2] = 1
<1>1. 1 \in 1..MaxTbs
  BY ExportAssumption
<1>2. version[p] = 1
  BY DEF OneTb
<1>3. <<p, 1>> \in Tb
  BY <1>1 DEF Tb
<1> QED
  BY <1>2, <1>3 DEF CurrentTb

\* OneTb after a step that concerns one block.
LEMMA OneTbStep ==
  ASSUME TypeOK, OneTb, SameCode \/ \E pc \in Pc : Made(pc), version' = version,
         NEW new \in Pc, hasLlvm' \subseteq hasLlvm \cup {<<new, 1>>},
         <<new, 1>> \in hasLlvm' \/ new \in DOMAIN tbs' => translation'[<<new, 1>>] # NoFunction,
         DOMAIN tbs' \subseteq DOMAIN tbs \cup {new},
         \A p \in DOMAIN tbs' : tbs'[p] = <<p, 1>>
  PROVE  OneTb'
<1>1. \A p \in Pc : <<p, 1>> \in Tb /\ version[p] = 1 /\ CurrentTb(p) = <<p, 1>>
  BY OneTbCurrent
<1>2. \A tb \in Tb : tb[2] # 1 => translation'[tb] = NoFunction
  <2>1. CASE SameCode
    BY <2>1 DEF SameCode, OneTb
  <2>2. ASSUME NEW pc \in Pc, Made(pc), NEW tb \in Tb, tb[2] # 1
        PROVE  translation'[tb] = NoFunction
    <3>1. tb # CurrentTb(pc)
      BY <2>2, OneTbCurrent
    <3> QED  BY <2>2, <3>1 DEF Made, OneTb
  <2> QED  BY <2>1, <2>2
<1>3. \A p \in Pc : translation[<<p, 1>>] # NoFunction => translation'[<<p, 1>>] # NoFunction
  <2>1. \A p \in Pc : translation'[<<p, 1>>] = translation[<<p, 1>>] \/ translation'[<<p, 1>>] = count + 1
    BY <1>1, OldCode
  <2>2. count + 1 # NoFunction
    BY DEF TypeOK, NoFunction
  <2> QED  BY <2>1, <2>2
<1>4. \A p \in DOMAIN tbs : p \in Pc /\ translation[<<p, 1>>] # NoFunction
  BY DEF OneTb, TypeOK
<1>5. \A p \in DOMAIN tbs' : tbs'[p] = <<p, 1>> /\ translation'[<<p, 1>>] # NoFunction
  BY <1>3, <1>4
<1>6. \A p \in Pc : <<p, 1>> \in hasLlvm' => translation'[<<p, 1>>] # NoFunction
  BY <1>3 DEF OneTb
<1> QED
  BY <1>1, <1>2, <1>5, <1>6 DEF OneTb

\* Every step keeps the functions of the traced blocks.
LEMMA CodeStep ==
  ASSUME ~Retranslation, IInv, CodeInv, [Next]_vars
  PROVE  CodeInv'
<1>1. TypeOK /\ TbsOK /\ OneTb /\ \A p \in Pc : Versions(p)
  BY DEF IInv, CodeInv
<1>2. TypeOK'
  BY FirstExportStep, ReExportStep, S2EGenerateStep, CollectStep, OtherSteps DEF Next, Other, IInv
<1>3. \A p \in Pc : <<p, 1>> \in Tb /\ version[p] = 1 /\ CurrentTb(p) = <<p, 1>>
  BY <1>1, OneTbCurrent
<1>4. ASSUME NEW pc \in Pc, FirstExport(pc) PROVE CodeInv'
  <2>1. /\ \/ SameCode /\ module' = module /\ hasLlvm' = hasLlvm /\ <<pc, 1>> \in hasLlvm
           \/ /\ Made(pc) /\ module' = module \cup {count'}
              /\ <<pc, 1>> \notin hasLlvm /\ hasLlvm' = hasLlvm \cup {<<pc, 1>>}
        /\ version' = version
    BY <1>1, <1>3, <1>4, ForceCodeGen
  <2>2. /\ DOMAIN tbs' = DOMAIN tbs \cup {pc}
        /\ \A p \in DOMAIN tbs : tbs'[p] = tbs[p]
        /\ pc \notin DOMAIN tbs => tbs'[pc] = CurrentTb(pc)
    BY <1>1, <1>4, VouchFacts DEF FirstExport, Exported
  <2>3. \A p \in DOMAIN tbs' : tbs'[p] = <<p, 1>>
    BY <1>1, <1>3, <2>2 DEF OneTb
  <2>4. CASE SameCode /\ module' = module /\ hasLlvm' = hasLlvm /\ <<pc, 1>> \in hasLlvm
    <3>1. translation'[<<pc, 1>>] # NoFunction
      BY <1>1, <2>4 DEF OneTb, SameCode
    <3>2. OneTb'
      BY <1>1, <2>1, <2>2, <2>3, <2>4, <3>1, OneTbStep
    <3>3. \A p \in Pc : Versions(p)'
      BY <1>1, <2>4 DEF SameCode, Versions, FunctionsOf, FirstIsGood, OnlyLatest, EverGood
    <3> QED  BY <3>2, <3>3 DEF CodeInv
  <2>5. CASE /\ Made(pc) /\ module' = module \cup {count'}
             /\ <<pc, 1>> \notin hasLlvm /\ hasLlvm' = hasLlvm \cup {<<pc, 1>>}
    <3>1. translation'[<<pc, 1>>] # NoFunction
      BY <1>1, <1>3, <2>5, OneMore
    <3>2. OneTb'
      BY <1>1, <2>1, <2>2, <2>3, <2>5, <3>1, OneTbStep
    <3>3. Versions(pc)'
      BY <1>1, <1>3, <2>5, GeneratedVersions
    <3>4. ASSUME NEW p \in Pc, p # pc PROVE Versions(p)'
      <4>1. /\ count' = count + 1 /\ module' \subseteq 1..count' /\ count \in Nat
        BY <1>1, <1>2, <2>5 DEF TypeOK, Made
      <4>2. \A f \in 1..count : f \in module' <=> f \in module
        BY <2>5, <4>1
      <4> QED
        BY <1>1, <1>3, <2>5, <3>4, <4>1, <4>2, OtherVersions
    <3> QED  BY <3>2, <3>3, <3>4 DEF CodeInv
  <2> QED  BY <2>1, <2>4, <2>5
<1>5. ASSUME NEW pc \in Pc, S2EGenerate(pc) PROVE CodeInv'
  <2>1. PICK valid \in BOOLEAN, size \in Sizes : Generate(CurrentTb(pc), valid, size)
    BY <1>5 DEF S2EGenerate
  <2>2. Made(pc)
    BY <1>1, <2>1, GenerateMakes
  <2>3. /\ module' = module \cup {count'} /\ <<pc, 1>> \notin hasLlvm
        /\ hasLlvm' = hasLlvm \cup {<<pc, 1>>} /\ version' = version /\ tbs' = tbs
    BY <1>3, <1>5, <2>2 DEF S2EGenerate, Made, Fresh, cacheVars
  <2>4. translation'[<<pc, 1>>] # NoFunction
    BY <1>1, <1>3, <2>2, OneMore
  <2>5. OneTb'
    <3>1. \A p \in DOMAIN tbs' : tbs'[p] = <<p, 1>>
      BY <1>1, <2>3 DEF OneTb
    <3> QED  BY <1>1, <2>2, <2>3, <2>4, <3>1, OneTbStep
  <2>6. Versions(pc)'
    BY <1>1, <1>3, <2>2, <2>3, GeneratedVersions
  <2>7. ASSUME NEW p \in Pc, p # pc PROVE Versions(p)'
    <3>1. /\ count' = count + 1 /\ module' \subseteq 1..count' /\ count \in Nat
      BY <1>1, <1>2, <2>2 DEF TypeOK, Made
    <3>2. \A f \in 1..count : f \in module' <=> f \in module
      BY <2>3, <3>1
    <3> QED
      BY <1>1, <1>3, <2>2, <2>3, <2>7, <3>1, <3>2, OtherVersions
  <2> QED  BY <2>5, <2>6, <2>7 DEF CodeInv
<1>6. ASSUME NEW pc \in Pc, ReExport(pc) PROVE CodeInv'
  <2>1. Regen(pc) /\ Made(pc)
    BY <1>1, <1>6, RegenFacts DEF Regen
  <2>2. Old(pc) \in module /\ pc \in DOMAIN tbs /\ version' = version
    BY <1>1, <1>6 DEF ReExport, Regenerated, TbsOK
  <2>3. tbs[pc] = <<pc, 1>> /\ Old(pc) = translation[<<pc, 1>>] /\ code[Old(pc)].pc = pc
    BY <1>1, <2>2, OldStays DEF OneTb, Old
  <2>4. /\ hasLlvm' \subseteq hasLlvm \cup {<<pc, 1>>} /\ hasLlvm \subseteq hasLlvm' \cup {<<pc, 1>>}
        /\ module' \subseteq module \cup {count'}
        /\ module \subseteq module' \cup {Old(pc)}
    BY <1>3, <2>1 DEF Regen
  <2>5. DOMAIN tbs' = DOMAIN tbs /\ \A p \in DOMAIN tbs' : tbs'[p] = <<p, 1>>
    <3>1. CASE tbs' = tbs
      BY <1>1, <3>1 DEF OneTb
    <3>2. CASE Vouch(pc)
      <4>1. DOMAIN tbs' = DOMAIN tbs /\ \A p \in DOMAIN tbs : tbs'[p] = tbs[p]
        BY <1>1, <2>2, <3>2, VouchFacts
      <4> QED  BY <1>1, <4>1 DEF OneTb
    <3> QED  BY <2>1, <3>1, <3>2 DEF Regen, NotExported
  <2>6. translation'[<<pc, 1>>] # NoFunction
    BY <1>1, <1>3, <2>1, OneMore
  <2>7. OneTb'
    BY <1>1, <2>1, <2>2, <2>4, <2>5, <2>6, OneTbStep
  <2>8. Versions(pc)'
    <3>1. Old(pc) \in FunctionsOf(pc, module)
      BY <2>2, <2>3 DEF FunctionsOf
    <3> QED  BY <1>1, <1>3, <2>1, <2>3, <3>1, RegenVersions
  <2>9. ASSUME NEW p \in Pc, p # pc PROVE Versions(p)'
    <3>1. /\ count' = count + 1 /\ module' \subseteq 1..count' /\ count \in Nat
      BY <1>1, <1>2, <2>1 DEF TypeOK, Made
    <3>2. \A f \in 1..count : code[f].pc = p => (f \in module' <=> f \in module)
      BY <2>3, <2>4, <2>9, <3>1
    <3>3. <<p, 1>> \in hasLlvm' <=> <<p, 1>> \in hasLlvm
      BY <2>4, <2>9
    <3>4. module' \subseteq module \cup {count + 1}
      BY <2>4, <3>1
    <3> QED
      BY <1>1, <1>3, <2>1, <2>9, <3>1, <3>2, <3>3, <3>4, OtherVersions
  <2> QED  BY <2>7, <2>8, <2>9 DEF CodeInv
<1>7. ASSUME NEW tb \in Tb, Collect(tb) PROVE FALSE
  <2>1. translation[tb] \in module /\ tb \notin Held
    BY <1>7 DEF Collect
  <2>2. translation[tb] # NoFunction
    BY <1>1, <2>1 DEF TypeOK, NoFunction
  <2>3. tb[1] \in Pc /\ tb = <<tb[1], 1>>
    BY <1>1, <2>2 DEF OneTb, Tb
  <2>4. tb = CurrentTb(tb[1])
    BY <1>3, <2>3
  <2> QED  BY <2>1, <2>3, <2>4 DEF Held
<1>8. ASSUME NEW pc \in Pc, Retranslate(pc) PROVE FALSE
  BY <1>8 DEF Retranslate
<1>9. CASE UNCHANGED <<count, code, module, version, translation, hasLlvm, tbs>>
  BY <1>1, <1>9 DEF CodeInv, OneTb, Versions, FunctionsOf, FirstIsGood, OnlyLatest, EverGood
<1>10. ASSUME Other PROVE \/ \E pc \in Pc : Retranslate(pc)
                          \/ UNCHANGED <<count, code, module, version, translation, hasLlvm, tbs>>
  BY <1>10 DEF Other, ReExportErased, SkipExport, StateFork, StateSwitch, StateExit,
     Shutdown, vars, s2eVars, cacheVars
<1> QED
  BY <1>4, <1>5, <1>6, <1>7, <1>8, <1>9, <1>10 DEF Next, Other
\* Every block exported has its function, which its only TB refers to.
LEMMA BlockHasCode ==
  ASSUME IInv, CodeInv, NEW pc \in DOMAIN tbs
  PROVE  translation[<<pc, 1>>] \in FunctionsOf(pc, module) /\ Old(pc) \in module
<1>1. TypeOK /\ TbsOK /\ OneTb /\ pc \in Pc /\ Versions(pc)
  BY DEF IInv, CodeInv, TypeOK
<1>2. tbs[pc] = <<pc, 1>> /\ translation[<<pc, 1>>] # NoFunction
  BY <1>1 DEF OneTb
<1>3. <<pc, 1>> \in Tb /\ <<pc, 1>>[1] = pc
  BY <1>1, OneTbCurrent
<1>4. translation[<<pc, 1>>] \in module /\ code[translation[<<pc, 1>>]].pc = pc
  BY <1>1, <1>2, <1>3 DEF Versions, TbsOK
<1> QED
  BY <1>2, <1>4 DEF FunctionsOf, Old

\* No function has been generated at the start.
LEMMA InitCode == Init => CodeInv
<1>1. SUFFICES ASSUME Init PROVE CodeInv
  OBVIOUS
<1>2. /\ count = 0 /\ module = {} /\ version = [pc \in Pc |-> 1] /\ hasLlvm = {}
      /\ translation = [tb \in Tb |-> NoFunction] /\ tbs = [pc \in {} |-> NoPc]
  BY <1>1 DEF Init
<1>3. OneTb
  BY <1>2 DEF OneTb
<1>4. ASSUME NEW pc \in Pc PROVE Versions(pc)
  <2>1. FunctionsOf(pc, 1..count) = {} /\ FunctionsOf(pc, module) = {}
    BY <1>2 DEF FunctionsOf
  <2>2. translation[<<pc, 1>>] = NoFunction
    <3>1. <<pc, 1>> \in Tb
      BY <1>3, OneTbCurrent
    <3> QED  BY <1>2, <3>1
  <2> QED
    BY <2>1, <2>2 DEF Versions, OnlyLatest, EverGood
<1> QED
  BY <1>3, <1>4 DEF CodeInv

\* Without retranslation every block has one translation block, whose function is its
\* latest, and the first function of a block is good if any of its functions is.
THEOREM CodeInvariant ==
  ASSUME ~Retranslation
  PROVE  Spec => []CodeInv
<1>1. Init => CodeInv
  BY InitCode
<1>2. IInv /\ CodeInv /\ [Next]_vars => CodeInv'
  BY CodeStep
<1> QED
  BY <1>1, <1>2, ExportInvariant, PTL DEF Spec

\* The first function of a block, which RenameBlockFuncs keeps, is free of exception
\* calls whenever the translator ever produced such a function.
THEOREM FirstIsBest ==
  ASSUME ~Retranslation
  PROVE  Spec => []BestVersionFirst
<1>1. IInv /\ CodeInv => BestVersionFirst
  <2>1. SUFFICES ASSUME IInv, CodeInv, NEW pc \in Pc,
                        \E f \in FunctionsOf(pc, 1..count) : code[f].valid
                 PROVE  code[Kept(pc)].valid
    BY DEF BestVersionFirst
  <2>2. PICK f \in FunctionsOf(pc, module) :
          code[f].valid /\ \A g \in FunctionsOf(pc, module) : f <= g
    BY <2>1 DEF CodeInv, Versions, OnlyLatest, EverGood, FirstIsGood
  <2>3. Kept(pc) \in FunctionsOf(pc, module) /\ \A g \in FunctionsOf(pc, module) : Kept(pc) <= g
    BY <2>2, Zenon DEF Kept
  <2>4. FunctionsOf(pc, module) \subseteq Int
    BY <2>1 DEF FunctionsOf, IInv, TypeOK
  <2>5. Kept(pc) = f
    BY <2>2, <2>3, <2>4
  <2> QED  BY <2>2, <2>5
<1> QED
  BY <1>1, ExportInvariant, CodeInvariant, PTL

\* areBBsEqual never reads an erased function.
THEOREM NeverReadsErased ==
  ASSUME ~Retranslation
  PROVE  Spec => [](phase # "undefined")
<1>1. Init => phase # "undefined"
  BY DEF Init
<1>2. IInv /\ CodeInv /\ phase # "undefined" /\ [Next]_vars => (phase # "undefined")'
  <2>1. SUFFICES ASSUME IInv, CodeInv, phase # "undefined", [Next]_vars
                 PROVE  phase' # "undefined"
    OBVIOUS
  <2>2. ASSUME NEW pc \in Pc, ReExportErased(pc) PROVE FALSE
    <3>1. pc \in DOMAIN tbs /\ Old(pc) \notin module
      BY <2>1, <2>2 DEF ReExportErased, Regenerated, IInv, TbsOK
    <3> QED  BY <2>1, <3>1, BlockHasCode
  <2>3. CASE phase' = phase \/ phase' = "done"
    BY <2>1, <2>3
  <2> QED
    BY <2>1, <2>2, <2>3 DEF Next, FirstExport, ReExport, SkipExport, StateFork, StateExit,
       StateSwitch, Shutdown, S2EGenerate, Retranslate, Collect, vars, outputVars
<1> QED
  BY <1>1, <1>2, ExportInvariant, CodeInvariant, PTL DEF Spec
-----------------------------------------------------------------------------
(* The files written have the code of the recorded edges.                  *)

\* The module has both ends of every recorded edge; files are copies of the module.
LEMMA ModuleCovers ==
  ASSUME IInv, CodeInv, EdgesOK, NEW s \in States
  PROVE  Covers(module, successors[s])
<1>1. ASSUME NEW e \in successors[s]
      PROVE  FunctionsOf(e[1], module) # {} /\ FunctionsOf(e[2], module) # {}
  <2>1. e[1] \in DOMAIN tbs /\ e[2] \in DOMAIN tbs
    BY <1>1 DEF EdgesOK
  <2> QED  BY <2>1, BlockHasCode
<1> QED
  BY <1>1 DEF Covers

\* A file keeps what it covers: its functions do not change.
LEMMA CoversStep ==
  ASSUME TypeOK, SameCode \/ \E pc \in Pc : Made(pc),
         NEW functions, functions \subseteq 1..count, NEW edges, Covers(functions, edges)
  PROVE  Covers(functions, edges)'
<1>1. \A f \in functions : code'[f] = code[f]
  BY OldCode
<1>2. \A pc : {f \in functions : code'[f].pc = pc} = {f \in functions : code[f].pc = pc}
  BY <1>1
<1> QED
  BY <1>2 DEF Covers, FunctionsOf

\* Steps of the running state, which may write its own file.
LEMMA SameStateStep ==
  ASSUME IInv, CoverInv, SameCode \/ \E pc \in Pc : Made(pc),
         phase = "running", cur' = cur, SavedCur,
         DOMAIN tbs \subseteq DOMAIN tbs',
         \A s \in States : prevPc'[s] \in (DOMAIN tbs') \cup {NoPc},
         \A s \in States : successors'[s] \subseteq (DOMAIN tbs') \X (DOMAIN tbs'),
         \A s \in States : s # cur /\ s \in DOMAIN captured => successors'[s] = successors[s],
         \A s \in States : status'[s] = "new" => status[s] = "new",
         status'[cur] # "new"
  PROVE  CoverInv'
<1>1. TypeOK /\ EdgesOK /\ CapturedCoversTrace /\ cur \in States
  BY DEF IInv, CoverInv, TypeOK, ExecTypeOK
<1>2. Final \notin States
  BY StatesAssumption DEF Final
<1>3. Final \notin DOMAIN captured' /\ \A s \in States : status'[s] = "new" => s \notin DOMAIN captured'
  BY <1>1, <1>2 DEF EdgesOK, SavedCur
<1>4. EdgesOK'
  BY <1>3 DEF EdgesOK
<1>5. ASSUME NEW s \in States, s \in DOMAIN captured', s # cur
      PROVE  Covers(captured[s], successors[s])'
  <2>1. s \in DOMAIN captured /\ captured'[s] = captured[s] /\ successors'[s] = successors[s]
    BY <1>5 DEF SavedCur
  <2>2. PICK functions, edges : functions = captured[s] /\ edges = successors[s]
    OBVIOUS
  <2>3. Covers(functions, edges) /\ functions \subseteq 1..count
    BY <1>1, <1>5, <2>1, <2>2 DEF CapturedCoversTrace, TypeOK
  <2>4. Covers(functions, edges)'
    BY <1>1, <2>3, CoversStep
  <2> QED  BY <2>1, <2>2, <2>4
<1>6. CapturedCoversTrace'
  BY <1>3, <1>5 DEF CapturedCoversTrace
<1> QED
  BY <1>4, <1>6 DEF CoverInv
\* The edge that slotModuleExecute adds is between blocks exported.
LEMMA FollowStep ==
  ASSUME IInv, CoverInv, SameCode \/ \E pc \in Pc : Made(pc),
         phase = "running", cur' = cur, status' = status, SavedCur,
         DOMAIN tbs \subseteq DOMAIN tbs', NEW pc \in Pc, pc \in DOMAIN tbs', Follow(pc)
  PROVE  CoverInv'
<1>1. TypeOK /\ EdgesOK /\ cur \in States /\ prevPc \in [States -> Pc \cup {NoPc}]
  BY DEF IInv, CoverInv, TypeOK, ExecTypeOK
<1>2. /\ prevPc' = [prevPc EXCEPT ![cur] = pc]
      /\ \A s \in States : s # cur => successors'[s] = successors[s]
      /\ \A e \in successors'[cur] :
           e \in successors[cur] \/ (e = <<prevPc[cur], pc>> /\ prevPc[cur] # NoPc)
  BY <1>1, FollowFacts
<1>3. \A s \in States : prevPc'[s] \in (DOMAIN tbs') \cup {NoPc}
  BY <1>1, <1>2 DEF EdgesOK
<1>4. ASSUME NEW s \in States PROVE successors'[s] \subseteq (DOMAIN tbs') \X (DOMAIN tbs')
  <2>1. CASE s # cur
    BY <1>1, <1>2, <2>1 DEF EdgesOK
  <2>2. CASE s = cur
    <3>1. ASSUME NEW e \in successors'[cur] PROVE e \in (DOMAIN tbs') \X (DOMAIN tbs')
      <4>1. CASE e \in successors[cur]
        BY <1>1, <4>1 DEF EdgesOK
      <4>2. CASE e = <<prevPc[cur], pc>> /\ prevPc[cur] # NoPc
        BY <1>1, <4>2 DEF EdgesOK
      <4> QED  BY <1>2, <4>1, <4>2
    <3> QED  BY <2>2, <3>1
  <2> QED  BY <2>1, <2>2
<1> QED
  BY <1>1, <1>2, <1>3, <1>4, SameStateStep DEF EdgesOK

\* S2E leaves the running state: its file is written now.
LEMMA SwitchCovers ==
  ASSUME IInv, CodeInv, CoverInv, NEW n \in States, StateSwitch(n)
  PROVE  CoverInv'
<1>1. /\ TypeOK /\ EdgesOK /\ CapturedCoversTrace /\ cur \in States
      /\ Final \notin States
  BY StatesAssumption DEF IInv, CoverInv, TypeOK, ExecTypeOK, Final
<1>2. /\ phase = "running" /\ status[n] = "live" /\ cur' = n /\ captured' = Saved(cur)
      /\ UNCHANGED <<status, code, module, tbs, prevPc, successors, phase>>
  BY DEF StateSwitch, ExecSwitch, s2eVars, cacheVars, traceVars
<1>3. /\ DOMAIN captured' \subseteq DOMAIN captured \cup {cur}
      /\ \A k \in DOMAIN captured' : k # cur => captured'[k] = captured[k]
      /\ cur \in DOMAIN captured' => captured'[cur] = module \/ DOMAIN tbs = {}
  BY <1>2 DEF Saved, SaveModule
<1>4. Final \notin DOMAIN captured' /\ \A s \in States : status[s] = "new" => s \notin DOMAIN captured'
  BY <1>1, <1>2, <1>3 DEF EdgesOK
<1>5. EdgesOK'
  BY <1>1, <1>2, <1>4 DEF EdgesOK
<1>6. ASSUME NEW s \in States, s \in DOMAIN captured', s # n
      PROVE  Covers(captured[s], successors[s])'
  <2>1. CASE s # cur
    <3>1. captured'[s] = captured[s] /\ Covers(captured[s], successors[s])
      BY <1>1, <1>3, <1>6, <2>1 DEF CapturedCoversTrace
    <3> QED  BY <1>2, <3>1 DEF Covers, FunctionsOf
  <2>2. CASE s = cur /\ captured'[cur] = module
    <3>1. Covers(module, successors[s])
      BY <1>1, ModuleCovers
    <3> QED  BY <1>2, <2>2, <3>1 DEF Covers, FunctionsOf
  <2>3. CASE DOMAIN tbs = {}
    <3>1. successors'[s] = {}
      BY <1>1, <1>2, <2>3 DEF EdgesOK
    <3> QED  BY <3>1 DEF Covers
  <2> QED  BY <1>3, <1>6, <2>1, <2>2, <2>3
<1>7. CapturedCoversTrace'
  BY <1>2, <1>4, <1>6 DEF CapturedCoversTrace
<1> QED
  BY <1>5, <1>7 DEF CoverInv

\* The destructor writes captured.bc.
LEMMA ShutdownCovers ==
  ASSUME IInv, CodeInv, CoverInv, Shutdown
  PROVE  CoverInv'
<1>1. /\ TypeOK /\ EdgesOK /\ CapturedCoversTrace /\ cur \in States
      /\ Final \notin States
  BY StatesAssumption DEF IInv, CoverInv, TypeOK, ExecTypeOK, Final
<1>2. /\ phase' = "done" /\ captured' = Saved(Final)
      /\ UNCHANGED <<cur, status, code, module, tbs, prevPc, successors>>
  BY DEF Shutdown, execVars, s2eVars, cacheVars, traceVars
<1>3. /\ DOMAIN captured' \subseteq DOMAIN captured \cup {Final}
      /\ \A k \in DOMAIN captured' : k # Final => captured'[k] = captured[k]
      /\ Final \in DOMAIN captured' => captured'[Final] = module \/ DOMAIN tbs = {}
  BY <1>2 DEF Saved, SaveModule
<1>4. EdgesOK'
  BY <1>1, <1>2, <1>3 DEF EdgesOK
<1>5. ASSUME NEW s \in States, s \in DOMAIN captured', s # cur
      PROVE  Covers(captured[s], successors[s])'
  <2>1. s \in DOMAIN captured /\ captured'[s] = captured[s] /\ Covers(captured[s], successors[s])
    BY <1>1, <1>3, <1>5 DEF CapturedCoversTrace
  <2> QED  BY <1>2, <2>1 DEF Covers, FunctionsOf
<1>6. ASSUME Final \in DOMAIN captured'
      PROVE  Covers(captured[Final], successors[cur])'
  <2>1. CASE captured'[Final] = module
    <3>1. Covers(module, successors[cur])
      BY <1>1, ModuleCovers
    <3> QED  BY <1>2, <2>1, <3>1 DEF Covers, FunctionsOf
  <2>2. CASE DOMAIN tbs = {}
    <3>1. successors'[cur'] = {}
      BY <1>1, <1>2, <2>2 DEF EdgesOK
    <3> QED  BY <3>1 DEF Covers
  <2> QED  BY <1>3, <1>6, <2>1, <2>2
<1>7. CapturedCoversTrace'
  BY <1>2, <1>5, <1>6 DEF CapturedCoversTrace
<1> QED
  BY <1>4, <1>7 DEF CoverInv

\* Edges are recorded between exported blocks, and a file is written after its edges.
LEMMA CoverStep ==
  ASSUME IInv, CodeInv, CoverInv, [Next]_vars
  PROVE  CoverInv'
<1>1. /\ TypeOK /\ TbsOK /\ EdgesOK /\ cur \in States
      /\ status \in [States -> {"new", "live", "dead"}]
      /\ prevPc \in [States -> Pc \cup {NoPc}] /\ successors \in [States -> SUBSET (Pc \X Pc)]
  BY DEF IInv, CoverInv, TypeOK, ExecTypeOK
<1>2. ASSUME NEW pc \in Pc, FirstExport(pc) PROVE CoverInv'
  <2>1. SameCode \/ Made(pc)
    BY <1>1, <1>2, ForceCodeGen
  <2>2. /\ phase = "running" /\ cur' = cur /\ status' = status
        /\ Vouch(pc) /\ CountExport /\ Follow(pc)
    BY <1>2 DEF FirstExport, Exported, execVars
  <2>3. DOMAIN tbs' = DOMAIN tbs \cup {pc}
    BY <1>1, <2>2, VouchFacts
  <2>4. SavedCur
    BY <1>1, <2>2, CountFacts
  <2> QED  BY <2>1, <2>2, <2>3, <2>4, FollowStep
<1>3. ASSUME NEW pc \in Pc, ReExport(pc) PROVE CoverInv'
  <2>1. Regen(pc) /\ Made(pc)
    BY <1>1, <1>3, RegenFacts DEF Regen
  <2>2. /\ phase = "running" /\ cur' = cur /\ status' = status /\ Follow(pc)
        /\ pc \in DOMAIN tbs
    BY <1>1, <1>3 DEF ReExport, Regenerated, execVars, TbsOK
  <2>3. CASE NotExported
    <3>1. tbs' = tbs /\ captured' = captured
      BY <2>3 DEF NotExported
    <3>2. SavedCur
      BY <1>1, <3>1, NotSaved
    <3> QED  BY <2>1, <2>2, <3>1, <3>2, FollowStep
  <2>4. CASE Vouch(pc) /\ CountExport
    <3>1. DOMAIN tbs' = DOMAIN tbs \cup {pc} /\ SavedCur
      BY <1>1, <2>4, VouchFacts, CountFacts
    <3> QED  BY <2>1, <2>2, <3>1, FollowStep
  <2> QED  BY <2>1, <2>3, <2>4 DEF Regen
<1>4. ASSUME NEW pc \in Pc, SkipExport(pc) PROVE CoverInv'
  <2>1. /\ phase = "running" /\ cur' = cur /\ status' = status /\ Follow(pc)
        /\ tbs' = tbs /\ captured' = captured /\ SameCode /\ bbCounts[pc] > 0
    BY <1>4 DEF SkipExport, execVars, s2eVars, cacheVars, outputVars, SameCode
  <2>2. SavedCur /\ pc \in DOMAIN tbs
    BY <1>1, <2>1, NotSaved DEF TbsOK
  <2> QED  BY <2>1, <2>2, FollowStep
<1>5. ASSUME NEW n \in States, StateFork(n) PROVE CoverInv'
  <2>1. /\ phase = "running" /\ status[n] = "new" /\ cur' = cur
        /\ status' = [status EXCEPT ![n] = "live"]
        /\ prevPc' = [prevPc EXCEPT ![n] = prevPc[cur]]
        /\ successors' = [successors EXCEPT ![n] = successors[cur]]
        /\ tbs' = tbs /\ captured' = captured /\ SameCode
    BY <1>5 DEF StateFork, ExecFork, s2eVars, outputVars, SameCode
  <2>2. SavedCur /\ n # cur /\ n \notin DOMAIN captured
    BY <1>1, <2>1, NotSaved DEF EdgesOK
  <2>3. /\ \A s \in States : prevPc'[s] \in (DOMAIN tbs') \cup {NoPc}
        /\ \A s \in States : successors'[s] \subseteq (DOMAIN tbs') \X (DOMAIN tbs')
    BY <1>1, <2>1 DEF EdgesOK
  <2>4. /\ \A s \in States : s # cur /\ s \in DOMAIN captured => successors'[s] = successors[s]
        /\ \A s \in States : status'[s] = "new" => status[s] = "new"
        /\ status'[cur] # "new"
    BY <1>1, <2>1, <2>2 DEF EdgesOK
  <2> QED
    BY <2>1, <2>2, <2>3, <2>4, SameStateStep
<1>6. ASSUME SameCode \/ \E pc \in Pc : Made(pc), phase = "running", cur' = cur,
             UNCHANGED <<tbs, prevPc, successors, captured>>,
             status' = status \/ status' = [status EXCEPT ![cur] = "dead"]
      PROVE  CoverInv'
  <2>1. SavedCur
    BY <1>1, <1>6, NotSaved
  <2>2. /\ \A s \in States : prevPc'[s] \in (DOMAIN tbs') \cup {NoPc}
        /\ \A s \in States : successors'[s] \subseteq (DOMAIN tbs') \X (DOMAIN tbs')
        /\ \A s \in States : status'[s] = "new" => status[s] = "new"
        /\ status'[cur] # "new"
    BY <1>1, <1>6 DEF EdgesOK
  <2> QED
    BY <1>6, <2>1, <2>2, SameStateStep
<1>7. ASSUME NEW pc \in Pc, S2EGenerate(pc) PROVE CoverInv'
  <2>1. PICK valid \in BOOLEAN, size \in Sizes : Generate(CurrentTb(pc), valid, size)
    BY <1>7 DEF S2EGenerate
  <2>2. Made(pc)
    BY <1>1, <2>1, GenerateMakes
  <2> QED
    BY <1>6, <1>7, <2>2 DEF S2EGenerate, execVars, cacheVars, traceVars, outputVars
<1>8. ASSUME \/ \E pc \in Pc : ReExportErased(pc) \/ Retranslate(pc)
             \/ \E tb \in Tb : Collect(tb)
             \/ StateExit
      PROVE  CoverInv'
  <2>1. /\ SameCode /\ phase = "running" /\ cur' = cur
        /\ UNCHANGED <<tbs, prevPc, successors, captured>>
        /\ status' = status \/ status' = [status EXCEPT ![cur] = "dead"]
    BY <1>8 DEF ReExportErased, Regenerated, Retranslate, Collect, StateExit, ExecExit, execVars,
       s2eVars, cacheVars, traceVars, outputVars, SameCode
  <2> QED  BY <1>6, <2>1
<1>9. CASE UNCHANGED vars
  <2>1. UNCHANGED <<cur, status, code, tbs, prevPc, successors, captured, phase>>
    BY <1>9 DEF vars, execVars, s2eVars, cacheVars, traceVars, outputVars
  <2> QED
    BY <2>1 DEF CoverInv, EdgesOK, CapturedCoversTrace, Covers, FunctionsOf
<1> QED
  BY <1>2, <1>3, <1>4, <1>5, <1>7, <1>8, <1>9, SwitchCovers, ShutdownCovers DEF Next

\* Without retranslation the file of a state that S2E left, intermediate files
\* included, and captured.bc have a function for each end of each recorded edge.
THEOREM FilesCoverTrace ==
  ASSUME ~Retranslation
  PROVE  Spec => []CapturedCoversTrace
<1>1. Init => CoverInv
  <2>1. ASSUME Init PROVE CoverInv
    <3>1. /\ ExecInit /\ prevPc = [s \in States |-> NoPc] /\ successors = [s \in States |-> {}]
          /\ captured = [k \in {} |-> {}]
      BY <2>1 DEF Init
    <3>2. DOMAIN captured = {} /\ status[cur] # "new"
      BY <3>1, StatesAssumption DEF ExecInit
    <3> QED
      BY <3>1, <3>2 DEF CoverInv, EdgesOK, CapturedCoversTrace
  <2> QED  BY <2>1
<1>2. IInv /\ CodeInv /\ CoverInv /\ [Next]_vars => CoverInv'
  BY CoverStep
<1>3. CoverInv => CapturedCoversTrace
  BY DEF CoverInv
<1> QED
  BY <1>1, <1>2, <1>3, ExportInvariant, CodeInvariant, PTL DEF Spec
-----------------------------------------------------------------------------
(* The code of traced blocks under second translations and collection.     *)

\* The current TB of the block has its function in the module.
CurrentInModule(pc) ==
  CurrentTb(pc) \in hasLlvm /\ translation[CurrentTb(pc)] \in module

\* The function of the TB in m_tbs is there, or the block was translated again: once,
\* and the current TB has a function there, or more often.
Reachable(pc) ==
  /\ tbs[pc][2] <= version[pc]
  /\ \/ Old(pc) \in module
     \/ /\ version[pc] > tbs[pc][2]
        /\ version[pc] = tbs[pc][2] + 1 => CurrentInModule(pc)

\* No TB has code before S2E translates it.
CurrentOK(pc) ==
  /\ CurrentTb(pc) \in hasLlvm => translation[CurrentTb(pc)] \in module
  /\ \A tb \in hasLlvm : tb[1] = pc => tb[2] <= version[pc]

TracedInv == (\A pc \in Pc : CurrentOK(pc)) /\ (\A pc \in DOMAIN tbs : Reachable(pc))

\* A step that keeps the versions, m_tbs and the functions that TracedInv speaks of.
LEMMA KeepsTraced ==
  ASSUME IInv, TracedInv, NEW p \in Pc, version'[p] = version[p],
         \A tb \in Tb : tb[1] = p => (tb \in hasLlvm' <=> tb \in hasLlvm)
                                     /\ translation'[tb] = translation[tb],
         hasLlvm' \subseteq Tb,
         p \in DOMAIN tbs' => p \in DOMAIN tbs /\ tbs'[p] = tbs[p],
         translation[CurrentTb(p)] \in module => translation[CurrentTb(p)] \in module',
         p \in DOMAIN tbs /\ Old(p) \in module => Old(p) \in module'
  PROVE  CurrentOK(p)' /\ (p \in DOMAIN tbs' => Reachable(p)')
<1>1. TypeOK /\ TbsOK
  BY DEF IInv
<1>2. CurrentTb(p) \in Tb /\ CurrentTb(p)[1] = p /\ CurrentTb(p)' = CurrentTb(p)
  BY <1>1, CurrentTbType DEF CurrentTb
<1>3. /\ CurrentTb(p)' \in hasLlvm' <=> CurrentTb(p) \in hasLlvm
      /\ translation'[CurrentTb(p)'] = translation[CurrentTb(p)]
  BY <1>2
<1>4. CurrentOK(p)'
  <2>1. ASSUME NEW tb \in hasLlvm', tb[1] = p PROVE tb[2] <= version'[p]
    <3>1. tb \in hasLlvm
      BY <2>1
    <3> QED  BY <2>1, <3>1 DEF TracedInv, CurrentOK
  <2> QED  BY <1>3, <2>1 DEF TracedInv, CurrentOK
<1>5. ASSUME p \in DOMAIN tbs' PROVE Reachable(p)'
  <2>1. p \in DOMAIN tbs /\ tbs'[p] = tbs[p] /\ tbs[p] \in Tb /\ tbs[p][1] = p
    BY <1>1, <1>5 DEF TypeOK, TbsOK
  <2>2. Reachable(p) /\ Old(p)' = Old(p)
    BY <2>1 DEF TracedInv, Old
  <2>3. CurrentInModule(p) => CurrentInModule(p)'
    BY <1>3 DEF CurrentInModule
  <2> QED  BY <2>1, <2>2, <2>3 DEF Reachable
<1> QED
  BY <1>4, <1>5

\* Generating code for the current TB of a block, the new function being in the module.
LEMMA MakesTraced ==
  ASSUME IInv, TracedInv, NEW p \in Pc, Made(p), version' = version,
         count' \in module', CurrentTb(p) \in Tb,
         \A tb \in Tb : tb # CurrentTb(p) => (tb \in hasLlvm' <=> tb \in hasLlvm),
         hasLlvm' \subseteq Tb,
         p \in DOMAIN tbs' => \/ p \in DOMAIN tbs /\ tbs'[p] = tbs[p]
                           \/ tbs'[p] = CurrentTb(p),
         CurrentTb(p) \in hasLlvm' \/ (p \in DOMAIN tbs /\ Old(p) \in module')
  PROVE  CurrentOK(p)' /\ (p \in DOMAIN tbs' => Reachable(p)')
<1>1. TypeOK /\ TbsOK
  BY DEF IInv
<1>2. /\ CurrentTb(p)' = CurrentTb(p) /\ CurrentTb(p)[1] = p
      /\ CurrentTb(p)[2] = version[p] /\ version[p] \in Nat
  BY <1>1, CurrentTbType DEF CurrentTb, TypeOK
<1>3. /\ translation'[CurrentTb(p)'] = count'
      /\ \A tb \in Tb : tb # CurrentTb(p) => translation'[tb] = translation[tb]
  BY <1>2 DEF Made
<1>4. CurrentOK(p)'
  <2>1. ASSUME NEW tb \in hasLlvm', tb[1] = p PROVE tb[2] <= version'[p]
    <3>1. CASE tb = CurrentTb(p)
      BY <1>2, <3>1
    <3>2. CASE tb # CurrentTb(p)
      <4>1. tb \in hasLlvm
        BY <2>1, <3>2
      <4> QED  BY <2>1, <4>1 DEF TracedInv, CurrentOK
    <3> QED  BY <3>1, <3>2
  <2> QED  BY <1>3, <2>1 DEF CurrentOK
<1>5. ASSUME p \in DOMAIN tbs' PROVE Reachable(p)'
  <2>1. CASE tbs'[p] = CurrentTb(p)
    <3>1. Old(p)' = count'
      BY <1>2, <1>3, <2>1 DEF Old
    <3> QED  BY <1>2, <2>1, <3>1 DEF Reachable
  <2>2. CASE p \in DOMAIN tbs /\ tbs'[p] = tbs[p] /\ tbs[p] # CurrentTb(p)
    <3>1. Reachable(p) /\ tbs[p] \in Tb /\ Old(p)' = Old(p)
      BY <1>1, <1>3, <2>2 DEF TracedInv, Old, TypeOK
    <3>2. tbs[p] = <<p, tbs[p][2]>> /\ CurrentTb(p) = <<p, version[p]>> /\ tbs[p][2] \in Nat
      BY <1>1, <2>2, <3>1 DEF TbsOK, CurrentTb, Tb
    <3>3. tbs[p][2] < version[p]
      BY <1>2, <2>2, <3>1, <3>2 DEF Reachable
    <3>4. CASE CurrentTb(p) \in hasLlvm'
      <4>1. CurrentInModule(p)'
        BY <1>2, <1>3, <3>4 DEF CurrentInModule
      <4>2. tbs'[p][2] = tbs[p][2] /\ version'[p] = version[p]
        BY <2>2
      <4> QED  BY <1>2, <3>2, <3>3, <4>1, <4>2 DEF Reachable
    <3>5. CASE Old(p) \in module'
      BY <1>2, <2>2, <3>1, <3>2, <3>3, <3>5 DEF Reachable
    <3> QED  BY <3>4, <3>5
  <2> QED  BY <1>5, <2>1, <2>2
<1> QED
  BY <1>4, <1>5

\* TracedInv is kept by an export of the block pc, whichever way it goes.
LEMMA ExportTraced ==
  ASSUME IInv, TracedInv, NEW pc \in Pc, FirstExport(pc) \/ ReExport(pc) \/ S2EGenerate(pc)
  PROVE  TracedInv'
<1>1. TypeOK /\ TbsOK /\ IInv' /\ CurrentTb(pc) \in Tb /\ CurrentTb(pc)[1] = pc
  BY FirstExportStep, ReExportStep, S2EGenerateStep, CurrentTbType DEF IInv
<1>2. /\ hasLlvm' \subseteq Tb /\ DOMAIN tbs' \subseteq Pc /\ DOMAIN tbs \subseteq Pc
      /\ module \subseteq 1..count /\ count \in Nat
  BY <1>1 DEF IInv, TypeOK
<1>3. /\ SameCode \/ Made(pc)
      /\ version' = version
      /\ DOMAIN tbs' \subseteq DOMAIN tbs \cup {pc}
      /\ \A p \in DOMAIN tbs : tbs'[p] = tbs[p]
      /\ pc \in DOMAIN tbs' /\ pc \notin DOMAIN tbs => tbs'[pc] = CurrentTb(pc)
      /\ \A tb \in Tb : tb # CurrentTb(pc) => (tb \in hasLlvm' <=> tb \in hasLlvm)
      /\ \A f \in module : code[f].pc # pc => f \in module'
      /\ \/ Made(pc) /\ count' \in module'
            /\ (CurrentTb(pc) \in hasLlvm' \/ (pc \in DOMAIN tbs /\ Old(pc) \in module'))
         \/ /\ SameCode /\ module' = module /\ hasLlvm' = hasLlvm /\ CurrentTb(pc) \in hasLlvm
  <2>1. CASE FirstExport(pc)
    <3>1. Vouch(pc) /\ bbCounts[pc] = 0
      BY <2>1 DEF FirstExport, Exported
    <3>2. /\ DOMAIN tbs' = DOMAIN tbs \cup {pc}
          /\ \A p \in DOMAIN tbs : tbs'[p] = tbs[p]
          /\ pc \notin DOMAIN tbs => tbs'[pc] = CurrentTb(pc)
      BY <1>1, <3>1, VouchFacts
    <3>3. /\ \/ SameCode /\ module' = module /\ hasLlvm' = hasLlvm /\ CurrentTb(pc) \in hasLlvm
             \/ /\ Made(pc) /\ module' = module \cup {count'}
                /\ hasLlvm' = hasLlvm \cup {CurrentTb(pc)}
          /\ version' = version
      BY <1>1, <2>1, ForceCodeGen
    <3>4. CASE SameCode /\ module' = module /\ hasLlvm' = hasLlvm /\ CurrentTb(pc) \in hasLlvm
      BY <3>2, <3>3, <3>4
    <3>5. CASE Made(pc) /\ module' = module \cup {count'}
               /\ hasLlvm' = hasLlvm \cup {CurrentTb(pc)}
      BY <3>2, <3>3, <3>5
    <3> QED  BY <3>3, <3>4, <3>5
  <2>2. CASE S2EGenerate(pc)
    <3>1. PICK valid \in BOOLEAN, size \in Sizes : Generate(CurrentTb(pc), valid, size)
      BY <2>2 DEF S2EGenerate
    <3>2. Made(pc)
      BY <1>1, <3>1, GenerateMakes
    <3>3. /\ module' = module \cup {count'} /\ hasLlvm' = hasLlvm \cup {CurrentTb(pc)}
          /\ UNCHANGED <<version, tbs>>
      BY <2>2, <3>2 DEF S2EGenerate, Made, Fresh, cacheVars
    <3> QED  BY <1>1, <1>2, <3>2, <3>3
  <2>3. CASE ReExport(pc)
    <3>1. Regen(pc) /\ Made(pc)
      BY <1>1, <2>3, RegenFacts DEF Regen
    <3>2. version' = version /\ Old(pc) \in module /\ pc \in DOMAIN tbs
      BY <1>1, <2>3 DEF ReExport, Regenerated, TbsOK
    <3>3. code[Old(pc)].pc = pc /\ Old(pc) # count'
      BY <1>1, <1>2, <3>1, <3>2, OldStays DEF Made
    <3>4. tbs' = tbs \/ Vouch(pc)
      BY <3>1 DEF Regen, NotExported
    <3>5. DOMAIN tbs' = DOMAIN tbs /\ \A p \in DOMAIN tbs : tbs'[p] = tbs[p]
      BY <1>1, <3>2, <3>4, VouchFacts
    <3>6. \/ /\ module' = module \cup {count'} /\ hasLlvm' = hasLlvm \ {CurrentTb(pc)}
          \/ /\ module' = (module \cup {count'}) \ {Old(pc)}
             /\ hasLlvm' = hasLlvm \cup {CurrentTb(pc)}
      BY <3>1 DEF Regen
    <3>7. count' \in module' /\ \A f \in module : code[f].pc # pc => f \in module'
      BY <3>3, <3>6
    <3> QED  BY <1>1, <3>1, <3>2, <3>5, <3>6, <3>7
  <2> QED  BY <2>1, <2>2, <2>3
<1>4. ASSUME NEW p \in Pc, p # pc PROVE CurrentOK(p)' /\ (p \in DOMAIN tbs' => Reachable(p)')
  <2>1. \A tb \in Tb : tb[1] = p => /\ tb \in hasLlvm' <=> tb \in hasLlvm
                                    /\ translation'[tb] = translation[tb]
    BY <1>1, <1>3, <1>4 DEF SameCode, Made
  <2>2. p \in DOMAIN tbs' => p \in DOMAIN tbs /\ tbs'[p] = tbs[p]
    BY <1>3, <1>4
  <2>3. \A tb \in Tb : tb[1] = p /\ translation[tb] \in module => translation[tb] \in module'
    <3>1. ASSUME NEW tb \in Tb, tb[1] = p, translation[tb] \in module
          PROVE  translation[tb] \in module'
      <4>1. code[translation[tb]].pc = p
        BY <1>1, <1>2, <3>1 DEF TbsOK, NoFunction
      <4> QED  BY <1>3, <1>4, <3>1, <4>1
    <3> QED  BY <3>1
  <2>4. translation[CurrentTb(p)] \in module => translation[CurrentTb(p)] \in module'
    BY <1>1, <2>3, CurrentTbType
  <2>5. p \in DOMAIN tbs /\ Old(p) \in module => Old(p) \in module'
    BY <1>1, <2>3 DEF Old, TypeOK, TbsOK
  <2> QED
    BY <1>2, <1>3, <2>1, <2>2, <2>4, <2>5, KeepsTraced
<1>5. CurrentOK(pc)' /\ (pc \in DOMAIN tbs' => Reachable(pc)')
  <2>1. CASE Made(pc) /\ count' \in module'
             /\ (CurrentTb(pc) \in hasLlvm' \/ (pc \in DOMAIN tbs /\ Old(pc) \in module'))
    BY <1>1, <1>2, <1>3, <2>1, MakesTraced
  <2>2. CASE SameCode /\ module' = module /\ hasLlvm' = hasLlvm /\ CurrentTb(pc) \in hasLlvm
    <3>1. CurrentTb(pc)' = CurrentTb(pc)
      BY <1>3 DEF CurrentTb
    <3>2. CurrentOK(pc)'
      BY <1>3, <2>2, <3>1 DEF TracedInv, CurrentOK, SameCode
    <3>3. ASSUME pc \in DOMAIN tbs PROVE Reachable(pc)'
      <4>1. Reachable(pc) /\ tbs'[pc] = tbs[pc]
        BY <1>3, <3>3 DEF TracedInv
      <4> QED  BY <1>3, <2>2, <3>1, <4>1 DEF Reachable, Old, CurrentInModule, SameCode
    <3>4. ASSUME pc \in DOMAIN tbs', pc \notin DOMAIN tbs PROVE Reachable(pc)'
      <4>1. tbs'[pc] = CurrentTb(pc) /\ CurrentTb(pc)[2] = version[pc]
        BY <1>1, <1>3, <3>4, CurrentTbType
      <4>2. Old(pc)' \in module'
        BY <2>2, <4>1 DEF Old, SameCode, TracedInv, CurrentOK
      <4>3. version[pc] \in Nat
        BY <1>1 DEF TypeOK
      <4> QED  BY <1>3, <4>1, <4>2, <4>3 DEF Reachable
    <3> QED  BY <3>2, <3>3, <3>4
  <2> QED  BY <1>3, <2>1, <2>2
<1> QED
  BY <1>2, <1>4, <1>5 DEF TracedInv

\* S2E translates a block once more.
LEMMA RetranslateTraced ==
  ASSUME IInv, TracedInv, NEW pc \in Pc, Retranslate(pc)
  PROVE  TracedInv'
<1>1. TypeOK /\ TbsOK
  BY DEF IInv
<1>2. /\ version' = [version EXCEPT ![pc] = version[pc] + 1]
      /\ UNCHANGED <<module, translation, hasLlvm, tbs>>
  BY DEF Retranslate, cacheVars
<1>3. \A p \in Pc : version[p] \in Nat /\ version'[p] = IF p = pc THEN version[p] + 1 ELSE version[p]
  BY <1>1, <1>2 DEF TypeOK
<1>4. ASSUME NEW p \in Pc PROVE CurrentOK(p)'
  <2>1. CASE p # pc
    <3>1. CurrentTb(p)' = CurrentTb(p)
      BY <1>3, <2>1 DEF CurrentTb
    <3> QED  BY <1>2, <1>3, <2>1, <3>1 DEF TracedInv, CurrentOK
  <2>2. CASE p = pc
    <3>1. CurrentTb(p)' = <<p, version[p] + 1>>
      BY <1>3, <2>2 DEF CurrentTb
    <3>2. \A tb \in hasLlvm : tb \in Tb /\ tb[2] \in Nat /\ (tb[1] = p => tb[2] <= version[p])
      BY <1>1 DEF TracedInv, CurrentOK, TypeOK, Tb
    <3>3. CurrentTb(p)' \notin hasLlvm'
      BY <1>2, <1>3, <3>1, <3>2
    <3>4. \A tb \in hasLlvm' : tb[1] = p => tb[2] <= version'[p]
      BY <1>2, <1>3, <2>2, <3>2
    <3> QED  BY <3>3, <3>4 DEF CurrentOK
  <2> QED  BY <2>1, <2>2
<1>5. ASSUME NEW p \in DOMAIN tbs' PROVE Reachable(p)'
  <2>1. p \in Pc /\ Reachable(p) /\ Old(p)' = Old(p) /\ tbs'[p] = tbs[p] /\ tbs[p] \in Tb
    BY <1>1, <1>2, <1>5 DEF TracedInv, TypeOK, Old
  <2>2. tbs[p][2] \in Nat
    BY <2>1 DEF Tb
  <2>3. CASE p # pc
    <3>1. CurrentTb(p)' = CurrentTb(p) /\ version'[p] = version[p]
      BY <1>3, <2>1, <2>3 DEF CurrentTb
    <3> QED  BY <1>2, <2>1, <3>1 DEF Reachable, CurrentInModule
  <2>4. CASE p = pc
    <3>1. version'[p] = version[p] + 1 /\ version[p] \in Nat
      BY <1>3, <2>1, <2>4
    <3> QED  BY <1>2, <2>1, <2>2, <3>1 DEF Reachable
  <2> QED  BY <2>3, <2>4
<1> QED
  BY <1>1, <1>2, <1>4, <1>5 DEF TracedInv, TypeOK

\* What is collected is neither current nor in m_tbs.
LEMMA CollectTraced ==
  ASSUME IInv, TracedInv, NEW tb \in Tb, Collect(tb)
  PROVE  TracedInv'
<1>1. TypeOK /\ TbsOK /\ DOMAIN tbs \subseteq Pc
  BY DEF IInv, TypeOK
<1>2. /\ tb \notin Held /\ translation[tb] \in module /\ module' = module \ {translation[tb]}
      /\ UNCHANGED <<version, translation, hasLlvm, tbs>>
  BY DEF Collect, cacheVars
<1>3. translation[tb] # NoFunction
  BY <1>1, <1>2 DEF TypeOK, NoFunction
<1>4. \A t \in Tb : t \in Held /\ translation[t] \in module => translation[t] \in module'
  BY <1>1, <1>2, <1>3 DEF TbsOK
<1>5. ASSUME NEW p \in Pc PROVE CurrentOK(p)' /\ (p \in DOMAIN tbs' => Reachable(p)')
  <2>1. translation[CurrentTb(p)] \in module => translation[CurrentTb(p)] \in module'
    <3>1. CurrentTb(p) \in Held /\ CurrentTb(p) \in Tb
      BY <1>1, CurrentTbType DEF Held
    <3> QED  BY <1>4, <3>1
  <2>2. p \in DOMAIN tbs /\ Old(p) \in module => Old(p) \in module'
    <3>1. ASSUME p \in DOMAIN tbs PROVE tbs[p] \in Tb /\ tbs[p] \in Held
      BY <1>1, <3>1 DEF TypeOK, Held, HeldByPlugin
    <3> QED  BY <1>4, <3>1 DEF Old
  <2>3. hasLlvm' \subseteq Tb
    BY <1>1, <1>2 DEF TypeOK
  <2> QED
    BY <1>2, <2>1, <2>2, <2>3, KeepsTraced
<1> QED
  BY <1>1, <1>2, <1>5 DEF TracedInv

\* Every step keeps TracedInv.
LEMMA TracedStep ==
  ASSUME IInv, TracedInv, [Next]_vars
  PROVE  TracedInv'
<1>1. ASSUME UNCHANGED <<version, module, translation, hasLlvm, tbs>> PROVE TracedInv'
  BY <1>1 DEF TracedInv, CurrentOK, Reachable, CurrentInModule, CurrentTb, Old
<1>2. ASSUME \/ \E pc \in Pc : SkipExport(pc) \/ ReExportErased(pc)
             \/ \E n \in States : StateFork(n) \/ StateSwitch(n)
             \/ StateExit
             \/ Shutdown
             \/ UNCHANGED vars
      PROVE  UNCHANGED <<version, module, translation, hasLlvm, tbs>>
  BY <1>2 DEF SkipExport, ReExportErased, StateFork, StateSwitch, StateExit, Shutdown, vars,
       s2eVars, cacheVars
<1> QED
  BY <1>1, <1>2, ExportTraced, RetranslateTraced, CollectTraced DEF Next

\* Whatever S2E translates again and collects, a traced block has a function until
\* S2E has translated it twice more than the TB in m_tbs, and always once it is final.
THEOREM TracedCodeStays == Spec => []TracedCodeKept
<1>1. Init => TracedInv
  <2>1. ASSUME Init PROVE TracedInv
    <3>1. hasLlvm = {} /\ DOMAIN tbs = {}
      BY <2>1 DEF Init
    <3> QED  BY <3>1 DEF TracedInv, CurrentOK
  <2> QED  BY <2>1
<1>2. IInv /\ TracedInv /\ [Next]_vars => TracedInv'
  BY TracedStep
<1>3. IInv /\ TracedInv => TracedCodeKept
  <2>1. SUFFICES ASSUME IInv, TracedInv, NEW pc \in DOMAIN tbs, FunctionsOf(pc, module) = {}
                 PROVE  pc \notin finalized /\ version[pc] >= tbs[pc][2] + 2
    BY DEF TracedCodeKept
  <2>2. TypeOK /\ TbsOK /\ pc \in Pc /\ tbs[pc] \in Tb /\ tbs[pc][1] = pc
    BY <2>1 DEF IInv, TypeOK, TbsOK
  <2>3. pc \notin finalized
    BY <2>1 DEF IInv, FinalOK, Stays
  <2>4. \A tb \in Tb : tb[1] = pc => translation[tb] \notin module
    <3>1. ASSUME NEW tb \in Tb, tb[1] = pc, translation[tb] \in module PROVE FALSE
      <4>1. translation[tb] # NoFunction
        BY <2>2, <3>1 DEF TypeOK, NoFunction
      <4>2. code[translation[tb]].pc = pc
        BY <2>2, <3>1, <4>1 DEF TbsOK
      <4> QED  BY <2>1, <3>1, <4>2 DEF FunctionsOf
    <3> QED  BY <3>1
  <2>5. Old(pc) \notin module /\ translation[CurrentTb(pc)] \notin module
    BY <2>2, <2>4, CurrentTbType DEF Old
  <2>6. version[pc] > tbs[pc][2] /\ version[pc] # tbs[pc][2] + 1
    BY <2>1, <2>5 DEF TracedInv, Reachable, CurrentInModule
  <2>7. version[pc] \in Nat /\ tbs[pc][2] \in Nat
    BY <2>2 DEF TypeOK, Tb
  <2> QED  BY <2>3, <2>6, <2>7
<1> QED
  BY <1>1, <1>2, <1>3, ExportInvariant, PTL DEF Spec
=============================================================================
