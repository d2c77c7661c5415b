----------------------------- MODULE SymbolProofs -----------------------------
(***************************************************************************)
(* What becomes of the traced code for any number of blocks, traces and    *)
(* captured helpers: no pass loses a function of the program, however      *)
(* dead code is swept, names are changed and modules linked.               *)
(***************************************************************************)
EXTENDS Symbols, FiniteSetTheorems, SequenceTheorems, TLAPS

Main == N("main")
Wrap == N("Func_wrapper")

IsOwn(n) == n[1] \in FunctionBases
IsImport(n) == n[1] \in Imports
Plain(n) == ~IsOwn(n) /\ ~IsImport(n)

-----------------------------------------------------------------------------
(* What every pass may rely on.                                            *)

Record(f, d, l, r, e, u, c, i) ==
  [fn |-> f, def |-> d, link |-> l, refs |-> r, fields |-> e, stubs |-> u, calls |-> c,
   imports |-> i]

\* A symbol has all fields of one.
Whole(s) == s = Record(s.fn, s.def, s.link, s.refs, s.fields, s.stubs, s.calls, s.imports)

\* Code refers to a data import by address only.
TidySymbol(s) ==
  /\ Whole(s)
  /\ s.imports \subseteq Imports
  /\ s.calls \subseteq Libs
  /\ s.stubs \subseteq Libs
  /\ \A f \in s.fields : f \notin FunctionBases \cup Imports
  /\ \A r \in s.refs : ~IsImport(r)

Records(m) == \A n \in DOMAIN m : Whole(m[n])

Tidy(m) == \A n \in DOMAIN m : TidySymbol(m[n]) /\ (IsImport(n) => ~m[n].def)

\* No symbol has the name of a data import.
Free(m) == \A n \in DOMAIN m : ~IsImport(n)

\* Variables of the module are not exported.
VarsLocal(m) == \A n \in DOMAIN m : ~m[n].fn /\ m[n].def => m[n].link = "internal"

\* All that is exported are main, the trampoline and the stubs.
Exports == {Main, Trampoline} \cup {StubName(f) : f \in Libs}
OnlyExports(m) == \A n \in DOMAIN m : m[n].def /\ m[n].link # "internal" => n \in Exports

\* A symbol of the program stays what it is; a PLT block gets other code.
Same(s, t) ==
  /\ t.fn = s.fn /\ t.def = s.def /\ t.link = s.link
  /\ t.stubs \subseteq s.stubs
  /\ s.imports \subseteq t.imports
  /\ s.stubs = {} => \A r \in s.refs : IsOwn(r) => r \in t.refs

Keeps(m, o) ==
  /\ \A n \in DOMAIN o : IsOwn(n) => n \in DOMAIN m
  /\ \A n \in DOMAIN m : IsOwn(n) => n \in DOMAIN o /\ Same(m[n], o[n])

\* A pass that leaves the functions of the program alone.
Mild(m, o) == Keeps(m, o) /\ Tidy(o)

\* One that does not export anything either.
Local(m, o) ==
  /\ Mild(m, o)
  /\ VarsLocal(m) => VarsLocal(o)
  /\ OnlyExports(m) => OnlyExports(o)

-----------------------------------------------------------------------------
(* What is true of the module at each stage.                               *)

OwnNames(bs) == {FuncName(b) : b \in bs}

\* The code of a block is there, and uses what the block uses.
BlockKept(u, b, s) ==
  /\ s.fn /\ s.def /\ s.link = "external"
  /\ s.stubs \subseteq {u[b]} \cap Libs
  /\ {u[b]} \cap Imports \subseteq s.imports

\* Before the run time support is linked: the blocks bs and nothing like them.
Traced(u, m, bs) ==
  /\ Tidy(m) /\ Free(m)
  /\ \A n \in DOMAIN m : IsOwn(n) => n \in OwnNames(bs)
  /\ \A b \in bs : FuncName(b) \in DOMAIN m /\ BlockKept(u, b, m[FuncName(b)])

\* Until functions are recovered: main calls a Func_wrapper that has no body yet.
Liftable(u, m) ==
  /\ Tidy(m) /\ Free(m)
  /\ \A n \in DOMAIN m : IsOwn(n) => n \in {Main, Wrap} \cup OwnNames(Blocks)
  /\ \A b \in Blocks : FuncName(b) \in DOMAIN m /\ BlockKept(u, b, m[FuncName(b)])
  /\ {Main, Wrap} \subseteq DOMAIN m
  /\ m[Main].fn /\ m[Main].def /\ m[Main].link = "external" /\ m[Main].stubs = {}
  /\ Wrap \in m[Main].refs /\ m[Wrap].fn

\* main calls Func_wrapper, that the function of block 1, and that the others:
\* the code of every function is referred to.  nm: the names they have.
Calls(fs, m, nm) ==
  /\ {Main, Wrap} \subseteq DOMAIN m
  /\ m[Main].fn /\ m[Main].def /\ m[Main].link = "external" /\ m[Main].stubs = {}
  /\ Wrap \in m[Main].refs
  /\ m[Wrap].fn /\ m[Wrap].def /\ m[Wrap].stubs = {}
  /\ nm[1] \in m[Wrap].refs
  /\ \A b \in fs : nm[b] \in DOMAIN m /\ m[nm[b]].fn /\ m[nm[b]].def
  /\ m[nm[1]].stubs = {}
  /\ \A b \in fs \ {1} : nm[b] \in m[nm[1]].refs

\* An import has its old address in the code of those that use it ...
Imported(u, fs, m, nm) == \A b \in fs : {u[b]} \cap Imports \subseteq m[nm[b]].imports

\* ... or is a variable for others to define.
Bound(u, fs, m, nm) ==
  \A b \in fs : u[b] \in Imports =>
    /\ m[nm[b]].imports = {}
    /\ N(u[b]) \in m[nm[b]].refs
    /\ N(u[b]) \in DOMAIN m /\ ~m[N(u[b])].def

\* While the functions have the names of their first blocks.
Known(m) == \A n \in DOMAIN m : IsOwn(n) => n \in {Main, Wrap} \cup OwnNames(Blocks)
FuncNames(fs) == [b \in fs |-> FuncName(b)]

Recoverable(u, fs, m) ==
  /\ Tidy(m) /\ Known(m)
  /\ Calls(fs, m, FuncNames(fs))
  /\ Imported(u, fs, m, FuncNames(fs))

\* The names they may have afterwards.
NamedAfter(b, n) ==
  \/ n = FuncName(b)
  \/ b \in DOMAIN SymbolOf /\ n[1] = SymbolName(b) /\ n # Wrap

Namings(fs, m) == {nm \in [fs -> {n \in DOMAIN m : IsOwn(n)}] : \A b \in fs : NamedAfter(b, nm[b])}

PreparingStages == {"link_prep_2", "GlobalizeEnv"}
MergedStages == {"clean", "fixups"}
ExportingStages ==
  {"AddMemArray", "ExternPLT", "InlineLibCallArgs", "library", "InlineQemuOpHelpers",
   "InternalizeFunctions"}
LocalStages == {"UnalignStack", "IntrinsicCleaner", "FunctionRenaming"}
SweptStages ==
  PreparingStages \cup {"RecoverFunctions", "UnalignStack", "IntrinsicCleaner", "done"}

\* st: the stage; sw: dead code is being swept.
LiftedAt(st, sw, u, fs, m) ==
  /\ st \in MergedStages => Traced(u, m, Blocks)
  /\ st \in {"InternalizeGlobals", "RecoverFunctions"} => Liftable(u, m)
  /\ st \in {"RecoverFunctions"} \cup ExportingStages => VarsLocal(m)
  /\ st \in ExportingStages \cup LocalStages => Recoverable(u, fs, m)
  /\ st \in LocalStages \cup {"GlobalizeDataImports", "compile", "done"} => OnlyExports(m)
  /\ st \in {"IntrinsicCleaner", "FunctionRenaming"} => Free(m)
  /\ st = "UnalignStack" /\ ~sw => Free(m)
  /\ st = "GlobalizeDataImports" =>
       /\ Tidy(m) /\ Free(m)
       /\ \E nm \in Namings(fs, m) : Calls(fs, m, nm) /\ Imported(u, fs, m, nm)
  /\ st \in {"compile", "done"} =>
       /\ Records(m)
       /\ \E nm \in Namings(fs, m) : Calls(fs, m, nm) /\ Bound(u, fs, m, nm)

InputsInv ==
  /\ use \in [Blocks -> Helpers \cup Imports \cup Libs]
  /\ use[1] \notin Libs
  /\ traced \in [1..Traces -> SUBSET Blocks]
  /\ UNION {traced[t] : t \in 1..Traces} = Blocks
  /\ functions \subseteq Blocks /\ 1 \in functions
  /\ stage \in Stages /\ sweep \in BOOLEAN

\* al: what the sweep has found alive.
SweepAt(st, sw, al, m) ==
  /\ al \subseteq DOMAIN m
  /\ ~sw => al = {}
  /\ sw => st \in SweptStages /\ Roots(m) \subseteq al
  /\ sw /\ st # "done" => \A n \in al : ~IsImport(n)

SweepInv == SweepAt(stage, sweep, live, mod)

\* t: the blocks of the traces, p: the prepared traces, the first k merged.
MergedBlocks(t, k) == UNION {t[i] : i \in 1..k}

PreparedAt(st, u, t, p, m) ==
  /\ st \in PreparingStages \cup {"link_prep_1"} =>
       /\ Len(p) < Traces
       /\ \A i \in 1..Len(p) : Traced(u, p[i], t[i])
  /\ st = "link_prep_1" => m = Empty
  /\ st \in PreparingStages => Traced(u, m, t[Len(p) + 1])
  /\ st = "merge" =>
       /\ Len(p) <= Traces
       /\ Traced(u, m, MergedBlocks(t, Traces - Len(p)))
       /\ \A i \in 1..Len(p) : Traced(u, p[i], t[Traces - Len(p) + i])

PreparedInv == PreparedAt(stage, use, traced, prepared, mod)

IsSequence(p) == \E S : p \in Seq(S)

LiftedInv == LiftedAt(stage, sweep, use, functions, mod)

IInv == InputsInv /\ SweepInv /\ PreparedInv /\ LiftedInv /\ IsSequence(prepared)

-----------------------------------------------------------------------------

LEMMA SupportPlain == \A s \in SupportBases \cup Libs : Plain(N(s))
  BY NamesAssumption DEF Plain, IsOwn, IsImport, N

LEMMA StubPlain == \A f \in Libs : Plain(StubName(f))
  BY NamesAssumption DEF Plain, IsOwn, IsImport

LEMMA KeepsTrans ==
  ASSUME NEW m, NEW o, NEW p, Keeps(m, o), Keeps(o, p)
  PROVE  Keeps(m, p)
  BY DEF Keeps, Same

LEMMA MildTrans ==
  ASSUME NEW m, NEW o, NEW p, Mild(m, o), Mild(o, p)
  PROVE  Mild(m, p)
  BY KeepsTrans DEF Mild

LEMMA LocalTrans ==
  ASSUME NEW m, NEW o, NEW p, Local(m, o), Local(o, p)
  PROVE  Local(m, p)
  BY MildTrans DEF Local

-----------------------------------------------------------------------------
(* The operations on a table.                                              *)

LEMMA LinkedMild ==
  ASSUME NEW m, Tidy(m), NEW names, NEW link,
         \A n \in names \cap DOMAIN m : ~IsOwn(n)
  PROVE  /\ Mild(m, Linked(m, names, link))
         /\ DOMAIN Linked(m, names, link) = DOMAIN m
  BY DEF Tidy, TidySymbol, Whole, Record, Mild, Keeps, Same, Linked

LEMMA UnreferencedMild ==
  ASSUME NEW m, Tidy(m), NEW names, \A n \in names : ~IsOwn(n)
  PROVE  /\ Local(m, Unreferenced(m, names))
         /\ DOMAIN Unreferenced(m, names) = DOMAIN m
<1> DEFINE o == Unreferenced(m, names)
<1>1. \A n \in DOMAIN m :
        /\ TidySymbol(o[n]) /\ o[n].fn = m[n].fn /\ o[n].def = m[n].def
        /\ o[n].link = m[n].link /\ Same(m[n], o[n])
  BY DEF Tidy, TidySymbol, Whole, Record, Same, Unreferenced
<1>2. DOMAIN o = DOMAIN m
  BY DEF Unreferenced
<1> QED BY <1>1, <1>2 DEF Tidy, Local, Mild, Keeps, VarsLocal, OnlyExports

LEMMA DeclaredMild ==
  ASSUME NEW m, Tidy(m), NEW names, NEW decl \in {FuncDecl, VarDecl}, \A n \in names : ~IsOwn(n)
  PROVE  /\ Local(m, Declared(m, names, decl))
         /\ DOMAIN Declared(m, names, decl) = DOMAIN m \cup names
         /\ \A n \in DOMAIN m : Declared(m, names, decl)[n] = m[n]
         /\ \A n \in names \ DOMAIN m : Declared(m, names, decl)[n] = decl
<1> DEFINE o == Declared(m, names, decl)
<1>1. TidySymbol(decl) /\ ~decl.def
  BY DEF TidySymbol, Whole, Record, FuncDecl, VarDecl, Sym
<1>2. /\ DOMAIN o = DOMAIN m \cup names
      /\ \A n \in DOMAIN m : o[n] = m[n]
      /\ \A n \in names \ DOMAIN m : o[n] = decl
  BY DEF Declared, And
<1>3. Keeps(m, o)
  BY <1>2 DEF Keeps, Same
<1>4. Tidy(o) /\ (VarsLocal(m) => VarsLocal(o)) /\ (OnlyExports(m) => OnlyExports(o))
  BY <1>1, <1>2 DEF Tidy, VarsLocal, OnlyExports
<1> QED BY <1>2, <1>3, <1>4 DEF Local, Mild

LEMMA WithoutMild ==
  ASSUME NEW m, Tidy(m), NEW names, \A n \in names : ~IsOwn(n)
  PROVE  /\ Local(m, Without(m, names))
         /\ DOMAIN Without(m, names) = DOMAIN m \ names
         /\ \A n \in DOMAIN m \ names : Without(m, names)[n] = m[n]
  BY DEF Tidy, Local, Mild, Keeps, Same, VarsLocal, OnlyExports, Without

\* Code of other functions takes the place of calls.
LEMMA InlinedSymbol ==
  ASSUME NEW m, NEW s, Whole(s), NEW names
  PROVE  LET inner == s.refs \cap names
         IN  Inlined(m, s, names) =
               Record(s.fn, s.def, s.link,
                      (s.refs \ names) \cup UNION {m[n].refs : n \in inner},
                      s.fields \cup UNION {m[n].fields : n \in inner}, s.stubs,
                      s.calls \cup UNION {m[n].calls : n \in inner},
                      s.imports \cup UNION {m[n].imports : n \in inner})
<1> DEFINE inner == s.refs \cap names
           r == (s.refs \ names) \cup UNION {m[n].refs : n \in inner}
           e == s.fields \cup UNION {m[n].fields : n \in inner}
           c == s.calls \cup UNION {m[n].calls : n \in inner}
           i == s.imports \cup UNION {m[n].imports : n \in inner}
           s1 == [s EXCEPT !.refs = r]
           s2 == [s1 EXCEPT !.fields = e]
           s3 == [s2 EXCEPT !.calls = c]
           s4 == [s3 EXCEPT !.imports = i]
<1>0. Inlined(m, s, names) = s4
  BY DEF Inlined
<1> HIDE DEF r, e, c, i
<1>1. s1 = Record(s.fn, s.def, s.link, r, s.fields, s.stubs, s.calls, s.imports)
  BY DEF Whole, Record
<1>2. s2 = Record(s.fn, s.def, s.link, r, e, s.stubs, s.calls, s.imports)
  <2> HIDE DEF s1
  <2> QED BY <1>1 DEF Record
<1>3. s3 = Record(s.fn, s.def, s.link, r, e, s.stubs, c, s.imports)
  <2> HIDE DEF s2
  <2> QED BY <1>2 DEF Record
<1>4. s4 = Record(s.fn, s.def, s.link, r, e, s.stubs, c, i)
  <2> HIDE DEF s3
  <2> QED BY <1>3 DEF Record
<1> QED BY <1>0, <1>4 DEF r, e, c, i

LEMMA InlinedTidy ==
  ASSUME NEW m, Tidy(m), NEW s, TidySymbol(s),
         NEW names, names \subseteq DOMAIN m, \A n \in names : ~IsOwn(n)
  PROVE  LET t == Inlined(m, s, names) IN TidySymbol(t) /\ Same(s, t)
<1> DEFINE t == Inlined(m, s, names)
           inner == s.refs \cap names
<1>1. /\ t.fn = s.fn /\ t.def = s.def /\ t.link = s.link /\ t.stubs = s.stubs
      /\ t.refs = (s.refs \ names) \cup UNION {m[n].refs : n \in inner}
      /\ t.fields = s.fields \cup UNION {m[n].fields : n \in inner}
      /\ t.calls = s.calls \cup UNION {m[n].calls : n \in inner}
      /\ t.imports = s.imports \cup UNION {m[n].imports : n \in inner}
      /\ Whole(t)
  <2>1. Whole(s)
    BY DEF TidySymbol
  <2> HIDE DEF t
  <2> QED BY <2>1, InlinedSymbol DEF t, Whole, Record
<1>2. \A n \in inner : TidySymbol(m[n])
  BY DEF Tidy
<1> HIDE DEF t
<1>3. TidySymbol(t)
  BY <1>1, <1>2 DEF TidySymbol
<1>4. Same(s, t)
  BY <1>1 DEF Same
<1> QED BY <1>3, <1>4 DEF t

LEMMA InlinedMild ==
  ASSUME NEW m, Tidy(m), NEW names, names \subseteq DOMAIN m, \A n \in names : ~IsOwn(n)
  PROVE  /\ Local(m, InlinedAll(m, names))
         /\ DOMAIN InlinedAll(m, names) = DOMAIN m
<1> DEFINE o == InlinedAll(m, names)
<1>1. DOMAIN o = DOMAIN m /\ \A n \in DOMAIN m : o[n] = Inlined(m, m[n], names)
  BY DEF InlinedAll
<1>2. \A n \in DOMAIN m : TidySymbol(o[n]) /\ Same(m[n], o[n])
  BY <1>1, InlinedTidy DEF Tidy
<1> HIDE DEF o
<1>3. Tidy(o) /\ Keeps(m, o) /\ (VarsLocal(m) => VarsLocal(o))
         /\ (OnlyExports(m) => OnlyExports(o))
  BY <1>1, <1>2 DEF Tidy, Keeps, VarsLocal, OnlyExports, Same
<1> QED BY <1>1, <1>3 DEF Local, Mild, o

-----------------------------------------------------------------------------
(* What the functions of the program need is kept by every such pass.      *)

LEMMA TracedKept ==
  ASSUME NEW u, NEW m, NEW o, NEW bs, Traced(u, m, bs), Mild(m, o), Free(o)
  PROVE  Traced(u, o, bs)
<1>1. \A b \in bs : IsOwn(FuncName(b))
  BY DEF IsOwn, FuncName, FunctionBases
<1> QED BY <1>1 DEF Traced, Mild, Keeps, Same, BlockKept

LEMMA LiftableKept ==
  ASSUME NEW u, NEW m, NEW o, Liftable(u, m), Mild(m, o), Free(o)
  PROVE  Liftable(u, o)
<1>1. IsOwn(Main) /\ IsOwn(Wrap) /\ \A b \in Blocks : IsOwn(FuncName(b))
  BY DEF IsOwn, FuncName, FunctionBases, Main, Wrap, N
<1> HIDE DEF Main, Wrap
<1> QED BY <1>1 DEF Liftable, Mild, Keeps, Same, BlockKept

LEMMA CallsKept ==
  ASSUME NEW fs, NEW m, NEW o, NEW nm, 1 \in fs, Calls(fs, m, nm), Keeps(m, o),
         \A b \in fs : IsOwn(nm[b])
  PROVE  Calls(fs, o, nm)
<1>1. IsOwn(Main) /\ IsOwn(Wrap)
  BY DEF IsOwn, FunctionBases, Main, Wrap, N
<1>2. \A b \in fs : /\ nm[b] \in DOMAIN o /\ o[nm[b]].fn /\ o[nm[b]].def
                    /\ Same(m[nm[b]], o[nm[b]])
  BY DEF Calls, Keeps, Same
<1>3. {Main, Wrap} \subseteq DOMAIN o /\ Same(m[Main], o[Main]) /\ Same(m[Wrap], o[Wrap])
  BY <1>1 DEF Calls, Keeps
<1>4. nm[1] \in o[Wrap].refs /\ o[Wrap].stubs = {} /\ o[nm[1]].stubs = {}
  BY <1>2, <1>3 DEF Calls, Same
<1>5. \A b \in fs \ {1} : nm[b] \in o[nm[1]].refs
  BY <1>2 DEF Calls, Same
<1>6. /\ o[Main].fn /\ o[Main].def /\ o[Main].link = "external" /\ o[Main].stubs = {}
      /\ Wrap \in o[Main].refs /\ o[Wrap].fn /\ o[Wrap].def
  BY <1>1, <1>3 DEF Calls, Same
<1> QED BY <1>2, <1>3, <1>4, <1>5, <1>6 DEF Calls

LEMMA ImportedKept ==
  ASSUME NEW u, NEW fs, NEW m, NEW o, NEW nm, Imported(u, fs, m, nm), Keeps(m, o),
         \A b \in fs : IsOwn(nm[b]) /\ nm[b] \in DOMAIN m
  PROVE  Imported(u, fs, o, nm)
  BY DEF Imported, Keeps, Same

LEMMA FuncNamesOwn == \A fs, b : b \in fs => FuncNames(fs)[b] = FuncName(b) /\ IsOwn(FuncName(b))
  BY DEF FuncNames, FuncName, IsOwn, FunctionBases

LEMMA RecoverableKept ==
  ASSUME NEW u, NEW fs, NEW m, NEW o, 1 \in fs, Recoverable(u, fs, m), Mild(m, o)
  PROVE  Recoverable(u, fs, o)
<1> DEFINE nm == FuncNames(fs)
<1>1. \A b \in fs : IsOwn(nm[b]) /\ nm[b] \in DOMAIN m
  BY FuncNamesOwn DEF Recoverable, Calls
<1> HIDE DEF nm
<1>2. Calls(fs, m, nm) /\ Imported(u, fs, m, nm)
  BY DEF Recoverable, nm
<1>3. Calls(fs, o, nm) /\ Imported(u, fs, o, nm)
  BY <1>1, <1>2, CallsKept, ImportedKept DEF Mild
<1>4. Tidy(o) /\ Known(o)
  BY DEF Recoverable, Known, Mild, Keeps
<1> QED BY <1>3, <1>4 DEF Recoverable, nm

-----------------------------------------------------------------------------
(* Sweeping: main is a root, and from main on everything is referred to.   *)

Dropped(m, alive) == [n \in alive |-> m[n]]

LEMMA DroppedTidy ==
  ASSUME NEW m, NEW alive, alive \subseteq DOMAIN m, Tidy(m)
  PROVE  /\ Tidy(Dropped(m, alive))
         /\ VarsLocal(m) => VarsLocal(Dropped(m, alive))
         /\ OnlyExports(m) => OnlyExports(Dropped(m, alive))
         /\ Free(m) => Free(Dropped(m, alive))
  BY DEF Tidy, VarsLocal, OnlyExports, Free, Dropped

LEMMA DroppedExports ==
  ASSUME NEW m, NEW alive, alive \subseteq DOMAIN m, OnlyExports(m)
  PROVE  OnlyExports(Dropped(m, alive))
  BY DEF OnlyExports, Dropped

LEMMA DroppedTraced ==
  ASSUME NEW u, NEW m, NEW bs, NEW alive, alive \subseteq DOMAIN m, Roots(m) \subseteq alive,
         Traced(u, m, bs)
  PROVE  Traced(u, Dropped(m, alive), bs)
<1>1. \A b \in bs : FuncName(b) \in alive
  BY DEF Traced, BlockKept, Roots
<1> QED BY <1>1, DroppedTidy DEF Traced, Dropped

LEMMA DroppedLiftable ==
  ASSUME NEW u, NEW m, NEW alive, alive \subseteq DOMAIN m, Roots(m) \subseteq alive,
         Marked(m, alive) = alive, Liftable(u, m)
  PROVE  Liftable(u, Dropped(m, alive))
<1>1. \A b \in Blocks : FuncName(b) \in alive
  BY DEF Liftable, BlockKept, Roots
<1>2. Main \in alive
  BY DEF Liftable, Roots
<1>3. Wrap \in alive
  BY <1>2 DEF Liftable, Marked
<1> QED BY <1>1, <1>2, <1>3, DroppedTidy DEF Liftable, Dropped

LEMMA AliveFunctions ==
  ASSUME NEW fs, NEW m, NEW nm, NEW alive, alive \subseteq DOMAIN m, Roots(m) \subseteq alive,
         Marked(m, alive) = alive, 1 \in fs, Calls(fs, m, nm)
  PROVE  {Main, Wrap} \subseteq alive /\ \A b \in fs : nm[b] \in alive
<1>1. Main \in alive
  BY DEF Calls, Roots
<1>2. Wrap \in alive
  BY <1>1 DEF Calls, Marked
<1>3. nm[1] \in alive
  BY <1>2 DEF Calls, Marked
<1>4. \A b \in fs \ {1} : nm[b] \in alive
  BY <1>3 DEF Calls, Marked
<1> QED BY <1>1, <1>2, <1>3, <1>4

LEMMA DroppedCalls ==
  ASSUME NEW u, NEW fs, NEW m, NEW nm, NEW alive, alive \subseteq DOMAIN m,
         Roots(m) \subseteq alive, Marked(m, alive) = alive, 1 \in fs, Calls(fs, m, nm)
  PROVE  LET o == Dropped(m, alive)
         IN  /\ Calls(fs, o, nm)
             /\ Imported(u, fs, m, nm) => Imported(u, fs, o, nm)
             /\ Bound(u, fs, m, nm) => Bound(u, fs, o, nm)
<1> DEFINE o == Dropped(m, alive)
<1>1. {Main, Wrap} \subseteq alive /\ \A b \in fs : nm[b] \in alive
  BY AliveFunctions
<1>2. DOMAIN o = alive /\ \A n \in alive : o[n] = m[n]
  BY DEF Dropped
<1> HIDE DEF o
<1>3. Calls(fs, o, nm)
  BY <1>1, <1>2 DEF Calls
<1>4. Imported(u, fs, m, nm) => Imported(u, fs, o, nm)
  BY <1>1, <1>2 DEF Imported
<1>5. ASSUME Bound(u, fs, m, nm)
      PROVE  Bound(u, fs, o, nm)
  <2>1. \A b \in fs : u[b] \in Imports => N(u[b]) \in alive
    BY <1>1, <1>5 DEF Bound, Marked
  <2> QED BY <1>1, <1>2, <1>5, <2>1 DEF Bound
<1> QED BY <1>3, <1>4, <1>5 DEF o

LEMMA DroppedRecoverable ==
  ASSUME NEW u, NEW fs, NEW m, NEW alive, alive \subseteq DOMAIN m,
         Roots(m) \subseteq alive, Marked(m, alive) = alive, 1 \in fs, Recoverable(u, fs, m)
  PROVE  Recoverable(u, fs, Dropped(m, alive))
<1>1. Tidy(Dropped(m, alive)) /\ Known(Dropped(m, alive))
  BY DroppedTidy DEF Recoverable, Known, Dropped
<1> QED BY <1>1, DroppedCalls DEF Recoverable

\* No round of marking reaches a data import before its variable is made.
LEMMA RootsFree ==
  ASSUME NEW m, Tidy(m)
  PROVE  \A n \in Roots(m) : ~IsImport(n)
  BY DEF Tidy, Roots

LEMMA MarkedFree ==
  ASSUME NEW m, Tidy(m), NEW alive, alive \subseteq DOMAIN m, \A n \in alive : ~IsImport(n)
  PROVE  \A n \in Marked(m, alive) : ~IsImport(n)
  BY DEF Tidy, TidySymbol, Marked

-----------------------------------------------------------------------------
(* Preparation of one trace.                                               *)

LEMMA CapturedPlain ==
  \A n \in DOMAIN Captured : Plain(n) /\ \A f \in Captured[n].fields : Plain(N(f))
<1>1. /\ \A n \in DOMAIN Captured : n[1] \notin FunctionBases \cup Imports
      /\ \A n \in DOMAIN Captured : \A f \in Captured[n].fields : f \notin FunctionBases \cup Imports
  <2> DEFINE captured == {n[1] : n \in DOMAIN Captured}
                          \cup UNION {Captured[n].fields : n \in DOMAIN Captured}
  <2>1. (FunctionBases \cup Imports) \cap captured = {}
    BY NamesAssumption
  <2> QED BY <2>1
<1> QED BY <1>1 DEF Plain, IsOwn, IsImport, N

LEMMA CapturedTidy == \A n \in DOMAIN Captured : TidySymbol(Captured[n])
<1> TAKE n \in DOMAIN Captured
<1>1. Whole(Captured[n])
  BY SymbolsAssumption DEF Symbol, Whole, Record
<1>2. \A r \in Captured[n].refs : ~IsImport(r)
  BY CapturedAssumption, CapturedPlain DEF Plain
<1>3. \A f \in Captured[n].fields : f \notin FunctionBases \cup Imports
  BY CapturedPlain DEF Plain, IsOwn, IsImport, N
<1> QED BY <1>1, <1>2, <1>3, CapturedAssumption DEF TidySymbol

LEMMA BlockCodeKept ==
  ASSUME NEW b \in Blocks
  PROVE  TidySymbol(BlockCode(b)) /\ BlockKept(use, b, BlockCode(b))
<1> DEFINE refs == Names({"helper_s2e_tcg_execution_handler"} \cup ({use[b]} \cap Helpers))
           e == {"eip", "regs"}
           u == {use[b]} \cap Libs
           i == {use[b]} \cap Imports
           s == Func(refs)
           s1 == [s EXCEPT !.fields = e]
           s2 == [s1 EXCEPT !.stubs = u]
           s3 == [s2 EXCEPT !.imports = i]
<1>r. \A r \in refs : ~IsImport(r)
  <2>1. \A h \in Helpers : Plain(N(h))
    BY CapturedPlain, SymbolsAssumption DEF Names
  <2>2. Plain(N("helper_s2e_tcg_execution_handler"))
    BY SupportPlain DEF SupportBases
  <2> QED BY <2>1, <2>2 DEF Names, Plain
<1>e. \A f \in e : f \notin FunctionBases \cup Imports
  <2>1. Plain(N("eip")) /\ Plain(N("regs"))
    BY SupportPlain DEF SupportBases
  <2> QED BY <2>1 DEF Plain, IsOwn, IsImport, N
<1>1. s = Record(TRUE, TRUE, "external", refs, {}, {}, {}, {})
  BY DEF Func, Sym, Record
<1>2. BlockCode(b) = s3
  BY DEF BlockCode
<1> HIDE DEF refs, e, u, i, s
<1>w. Whole(s) /\ s.fn /\ s.def /\ s.link = "external" /\ s.refs = refs /\ s.calls = {}
  BY <1>1 DEF Whole, Record
<1>v. Whole(s)
  BY <1>w
<1>3. s1 = Record(s.fn, s.def, s.link, s.refs, e, s.stubs, s.calls, s.imports)
  BY <1>v DEF Whole, Record
<1>4. s2 = Record(s.fn, s.def, s.link, s.refs, e, u, s.calls, s.imports)
  <2> HIDE DEF s1
  <2> QED BY <1>3 DEF Record
<1>5. s3 = Record(s.fn, s.def, s.link, s.refs, e, u, s.calls, i)
  <2> HIDE DEF s2
  <2> QED BY <1>4 DEF Record
<1> HIDE DEF s3
<1>6. TidySymbol(s3)
  BY <1>5, <1>w, <1>e, <1>r DEF TidySymbol, Whole, Record, u, i
<1>7. BlockKept(use, b, s3)
  BY <1>5, <1>w DEF BlockKept, Record, u, i
<1> QED BY <1>2, <1>6, <1>7

LEMMA CapturedModuleTidy ==
  /\ DOMAIN CapturedModule = DOMAIN Captured \cup {<<"tcg-llvm", b>> : b \in Blocks}
  /\ \A n \in DOMAIN Captured : CapturedModule[n] = Captured[n]
  /\ \A b \in Blocks : CapturedModule[<<"tcg-llvm", b>>] = BlockCode(b)
  /\ Tidy(CapturedModule)
  /\ \A n \in DOMAIN CapturedModule : Plain(n)
<1> DEFINE m == CapturedModule
<1>1. /\ DOMAIN m = DOMAIN Captured \cup {<<"tcg-llvm", b>> : b \in Blocks}
      /\ \A n \in DOMAIN Captured : m[n] = Captured[n]
      /\ \A b \in Blocks : m[<<"tcg-llvm", b>>] = BlockCode(b)
  BY CapturedAssumption DEF CapturedModule, And
<1> HIDE DEF m
<1>2. \A b : Plain(<<"tcg-llvm", b>>)
  BY SupportPlain DEF SupportBases, Plain, IsOwn, IsImport, N
<1>3. \A n \in DOMAIN m : Plain(n) /\ TidySymbol(m[n])
  BY <1>1, <1>2, CapturedPlain, CapturedTidy, BlockCodeKept
<1> QED BY <1>1, <1>3 DEF m, Tidy, Plain

LEMMA LinkedTraced ==
  ASSUME NEW u, NEW m, NEW bs, Traced(u, m, bs), NEW names, NEW link,
         \/ \A n \in names \cap DOMAIN m : ~IsOwn(n)
         \/ link = "external"
  PROVE  Traced(u, Linked(m, names, link), bs)
<1> DEFINE o == Linked(m, names, link)
<1>1. DOMAIN o = DOMAIN m
  BY DEF Linked
<1>2. \A n \in DOMAIN m : /\ TidySymbol(o[n]) /\ o[n].fn = m[n].fn /\ o[n].def = m[n].def
                          /\ o[n].stubs = m[n].stubs /\ o[n].imports = m[n].imports
                          /\ o[n].link = IF n \in names THEN link ELSE m[n].link
  BY DEF Traced, Tidy, TidySymbol, Whole, Record, Linked
<1> HIDE DEF o
<1>3. \A b \in bs : BlockKept(u, b, o[FuncName(b)])
  <2> TAKE b \in bs
  <2>1. IsOwn(FuncName(b)) /\ FuncName(b) \in DOMAIN m /\ BlockKept(u, b, m[FuncName(b)])
    BY DEF Traced, IsOwn, FuncName, FunctionBases
  <2>2. o[FuncName(b)].link = "external"
    BY <1>2, <2>1 DEF BlockKept
  <2> QED BY <1>2, <2>1, <2>2 DEF BlockKept
<1> QED BY <1>1, <1>2, <1>3 DEF Traced, Tidy, Free, o

LEMMA InternalizeImportsTraced ==
  ASSUME NEW u, NEW m, NEW bs, Traced(u, m, bs)
  PROVE  Traced(u, InternalizeImports(m), bs)
<1> DEFINE names == Definitions(m) \ (Lifted(m) \cup Ignore_Functions)
<1>1. \A n \in names \cap DOMAIN m : ~IsOwn(n)
  BY DEF Traced, OwnNames, FuncName, Definitions, Lifted, is_lifted_function
<1> HIDE DEF names
<1> QED BY <1>1, LinkedTraced DEF InternalizeImports, names

LEMMA RenameBlockFuncsTraced ==
  ASSUME NEW tr \in SUBSET Blocks
  PROVE  Traced(use, RenameBlockFuncs(CapturedModule, tr), tr)
<1> DEFINE m == CapturedModule
           blocks == {n \in DOMAIN m : n[1] = "tcg-llvm"}
           decls == {n \in Functions(m) \ blocks : ~m[n].def /\ m[n].link = "private"}
           others == Linked(m, decls, "external")
           kept == {n \in blocks : n[2] \in tr}
           rest == Without(others, blocks)
           named == [n \in {FuncName(k[2]) : k \in kept} |-> m[<<"tcg-llvm", n[2]>>]]
           o == And(rest, named)
<1>0. RenameBlockFuncs(m, tr) = o
  BY DEF RenameBlockFuncs
<1>1. /\ Tidy(m)
      /\ \A n \in DOMAIN m : Plain(n)
      /\ blocks = {<<"tcg-llvm", b>> : b \in Blocks}
      /\ \A b \in Blocks : m[<<"tcg-llvm", b>>] = BlockCode(b)
  BY CapturedModuleTidy, CapturedAssumption
<1> HIDE DEF m
<1>2. Tidy(others) /\ DOMAIN others = DOMAIN m
  <2>1. \A n \in decls \cap DOMAIN m : ~IsOwn(n)
    BY <1>1 DEF Plain
  <2> QED BY <1>1, <2>1, LinkedMild DEF Mild
<1>3. /\ DOMAIN named = OwnNames(tr)
      /\ \A b \in tr : named[FuncName(b)] = BlockCode(b)
  <2>1. kept = {<<"tcg-llvm", b>> : b \in tr}
    BY <1>1
  <2>2. {FuncName(k[2]) : k \in kept} = OwnNames(tr)
    <3>1. \A k \in kept : k[2] \in tr
      OBVIOUS
    <3>2. \A b \in tr : <<"tcg-llvm", b>> \in kept /\ <<"tcg-llvm", b>>[2] = b
      BY <2>1
    <3> HIDE DEF kept
    <3> QED BY <3>1, <3>2 DEF OwnNames
  <2>3. \A b : FuncName(b)[2] = b
    BY DEF FuncName
  <2> HIDE DEF kept
  <2>4. \A b \in tr : FuncName(b) \in DOMAIN named
    BY <2>2 DEF OwnNames
  <2> QED BY <1>1, <2>2, <2>3, <2>4
<1> HIDE DEF others, named, blocks, decls, kept
<1>4. /\ DOMAIN rest = DOMAIN m \ blocks
      /\ \A n \in DOMAIN rest : TidySymbol(rest[n]) /\ Plain(n)
  BY <1>1, <1>2 DEF Without, Tidy
<1> HIDE DEF rest
<1>5. \A b \in tr : FuncName(b) \notin DOMAIN rest /\ IsOwn(FuncName(b)) /\ ~IsImport(FuncName(b))
  BY <1>4, NamesAssumption DEF Plain, IsOwn, IsImport, FuncName, FunctionBases
<1>6. /\ DOMAIN o = DOMAIN rest \cup OwnNames(tr)
      /\ \A n \in DOMAIN rest : o[n] = rest[n]
      /\ \A b \in tr : o[FuncName(b)] = BlockCode(b)
  <2>1. DOMAIN o = DOMAIN rest \cup OwnNames(tr) /\ \A n \in DOMAIN rest : o[n] = rest[n]
    BY <1>3 DEF And
  <2>2. \A b \in tr : FuncName(b) \in DOMAIN named
    BY <1>3 DEF OwnNames
  <2>3. \A b \in tr : o[FuncName(b)] = named[FuncName(b)]
    BY <1>5, <2>2 DEF And
  <2> QED BY <1>3, <2>1, <2>3
<1> HIDE DEF o
<1>7. Tidy(o) /\ Free(o)
  BY <1>4, <1>5, <1>6, BlockCodeKept DEF Tidy, Free, Plain, OwnNames
<1>8. \A n \in DOMAIN o : IsOwn(n) => n \in OwnNames(tr)
  BY <1>4, <1>6 DEF Plain
<1>9. \A b \in tr : FuncName(b) \in DOMAIN o /\ BlockKept(use, b, o[FuncName(b)])
  BY <1>6, BlockCodeKept DEF OwnNames
<1> QED BY <1>0, <1>7, <1>8, <1>9 DEF Traced, m

LEMMA LinkPrep1Traced ==
  ASSUME NEW tr \in SUBSET Blocks
  PROVE  Traced(use, LinkPrep1(CapturedModule, tr), tr)
<1> DEFINE m == RenameBlockFuncs(CapturedModule, tr)
<1>1. Traced(use, m, tr)
  BY RenameBlockFuncsTraced
<1> HIDE DEF m
<1>2. Traced(use, ExternalizeFunctions(m), tr)
  BY <1>1, LinkedTraced DEF ExternalizeFunctions
<1> QED BY <1>2, InternalizeImportsTraced DEF LinkPrep1, m

-----------------------------------------------------------------------------
(* The run time support.                                                   *)

LEMMA CustomDefinitionsUse ==
  /\ \A d \in DOMAIN CustomDefinitions :
       /\ d \in {"main"} \cup SupportBases
       /\ CustomDefinitions[d] \subseteq {"Func_wrapper"} \cup SupportBases
  /\ "main" \in DOMAIN CustomDefinitions
  /\ "Func_wrapper" \in CustomDefinitions["main"]
  /\ "Func_wrapper" \notin DOMAIN CustomDefinitions
  BY DEF CustomDefinitions, SupportBases

LEMMA CustomHelpersNames ==
  /\ \A n \in DOMAIN CustomHelpers :
       /\ TidySymbol(CustomHelpers[n]) /\ ~IsImport(n)
       /\ CustomHelpers[n].link = "external" /\ CustomHelpers[n].stubs = {}
       /\ IsOwn(n) => n \in {Main, Wrap}
  /\ {Main, Wrap} \subseteq DOMAIN CustomHelpers
  /\ CustomHelpers[Main].fn /\ CustomHelpers[Main].def /\ Wrap \in CustomHelpers[Main].refs
  /\ ~CustomHelpers[Wrap].def /\ CustomHelpers[Wrap].fn
<1> DEFINE bases == DOMAIN CustomDefinitions
           code(n) == Names(CustomDefinitions[n[1]])
           defs == [n \in Names(bases) |-> Func(code(n))]
           used == UNION {defs[n].refs : n \in DOMAIN defs}
           vars1 == Declared(defs, CustomVariables, VarDecl)
           all == Declared(vars1, used, FuncDecl)
<1>0. CustomHelpers = all
  BY DEF CustomHelpers
<1>1. /\ DOMAIN all = Names(bases) \cup CustomVariables \cup used
      /\ \A n \in Names(bases) : all[n] = Func(code(n))
      /\ \A n \in CustomVariables \ Names(bases) : all[n] = VarDecl
      /\ \A n \in used \ (Names(bases) \cup CustomVariables) : all[n] = FuncDecl
  <2>1. DOMAIN defs = Names(bases) /\ \A n \in Names(bases) : defs[n] = Func(code(n))
    OBVIOUS
  <2> HIDE DEF defs, used
  <2>2. /\ DOMAIN vars1 = Names(bases) \cup CustomVariables
        /\ \A n \in Names(bases) : vars1[n] = Func(code(n))
        /\ \A n \in CustomVariables \ Names(bases) : vars1[n] = VarDecl
    BY <2>1 DEF Declared, And
  <2> HIDE DEF vars1
  <2> QED BY <2>2 DEF Declared, And
<1> DEFINE support == Names(SupportBases)
<1>2. \A n \in Names(bases) : n \in {Main} \cup support /\ code(n) \subseteq {Wrap} \cup support
  BY CustomDefinitionsUse DEF Names, N, Main, Wrap
<1>3. CustomVariables \subseteq support
  BY DEF CustomVariables, Registers, Names, SupportBases
<1>4. used \subseteq {Wrap} \cup support
  <2>1. \A n \in Names(bases) : defs[n].refs = code(n)
    BY DEF Func, Sym
  <2>2. DOMAIN defs = Names(bases)
    OBVIOUS
  <2> HIDE DEF defs, code
  <2> QED BY <1>2, <2>1, <2>2
<1>5. /\ Main \in Names(bases) /\ Wrap \in code(Main) /\ Wrap \in used
      /\ Wrap \notin Names(bases) \cup CustomVariables
  <2>1. Main \in Names(bases) /\ Wrap \in code(Main) /\ Wrap \notin Names(bases)
    BY CustomDefinitionsUse DEF Names, N, Main, Wrap
  <2>2. Wrap \in used
    <3>1. defs[Main].refs = code(Main) /\ Main \in DOMAIN defs
      BY <2>1 DEF Func, Sym
    <3> HIDE DEF defs
    <3> QED BY <2>1, <3>1
  <2>3. Wrap \notin CustomVariables
    BY DEF CustomVariables, Registers, Names, N, Wrap
  <2> QED BY <2>1, <2>2, <2>3
<1>6. \A n \in support : Plain(n)
  BY SupportPlain DEF Names
<1>7. IsOwn(Main) /\ IsOwn(Wrap) /\ ~IsImport(Main) /\ ~IsImport(Wrap)
  BY NamesAssumption DEF IsOwn, IsImport, Main, Wrap, N, FunctionBases
<1> HIDE DEF bases, code, defs, used, vars1, all, support
<1>8. \A n \in DOMAIN all : n \in {Main, Wrap} \cup support
  BY <1>1, <1>2, <1>3, <1>4
<1>9. \A n \in DOMAIN all :
        TidySymbol(all[n]) /\ all[n].link = "external" /\ all[n].stubs = {}
  <2> TAKE n \in DOMAIN all
  <2>1. CASE n \in Names(bases)
    <3>1. \A r \in code(n) : ~IsImport(r)
      BY <1>2, <1>6, <1>7, <2>1 DEF Plain
    <3> QED BY <1>1, <2>1, <3>1 DEF TidySymbol, Whole, Record, Func, Sym
  <2>2. CASE n \notin Names(bases)
    <3>1. all[n] \in {VarDecl, FuncDecl}
      BY <1>1, <2>2
    <3> QED BY <3>1 DEF TidySymbol, Whole, Record, VarDecl, FuncDecl, Sym
  <2> QED BY <2>1, <2>2
<1>10. \A n \in DOMAIN all : ~IsImport(n) /\ (IsOwn(n) => n \in {Main, Wrap})
  BY <1>6, <1>7, <1>8 DEF Plain
<1>11. {Main, Wrap} \subseteq DOMAIN all
  BY <1>1, <1>5
<1>12. all[Main].fn /\ all[Main].def /\ Wrap \in all[Main].refs
  BY <1>1, <1>5 DEF Func, Sym
<1>13. ~all[Wrap].def /\ all[Wrap].fn
  BY <1>1, <1>5 DEF FuncDecl, Sym
<1> QED BY <1>0, <1>9, <1>10, <1>11, <1>12, <1>13

LEMMA UnimplementedMild ==
  ASSUME NEW m, Tidy(m), NEW names, \A n \in names \cap DOMAIN m : ~IsOwn(n)
  PROVE  Mild(m, Unimplemented(m, names)) /\ DOMAIN Unimplemented(m, names) = DOMAIN m
<1>1. TidySymbol(FuncDecl) /\ ~FuncDecl.def
  BY DEF TidySymbol, Whole, Record, FuncDecl, Sym
<1> QED BY <1>1 DEF Tidy, Mild, Keeps, Same, Unimplemented, Definitions, Functions

LEMMA LinkPrep2Traced ==
  ASSUME NEW u, NEW m, NEW bs, Traced(u, m, bs)
  PROVE  Traced(u, LinkPrep2(m), bs)
<1> DEFINE m1 == InternalizeImports(m)
           declared == {n \in Functions(CustomHelpers) : ~CustomHelpers[n].def}
           m2 == Linked(m1, declared, "external")
           names == Definitions(CustomHelpers) \cup MmuFunctions(m1)
<1>1. Traced(u, m1, bs)
  BY InternalizeImportsTraced
<1> HIDE DEF m1
<1>2. Traced(u, m2, bs)
  <2> HIDE DEF declared
  <2> QED BY <1>1, LinkedTraced
<1> HIDE DEF m2
<1>3. \A n \in names \cap DOMAIN m2 : ~IsOwn(n)
  <2>1. \A n \in DOMAIN m2 : IsOwn(n) => n[1] = "Func"
    BY <1>2 DEF Traced, OwnNames, FuncName
  <2>2. \A n \in Definitions(CustomHelpers) : IsOwn(n) => n[1] # "Func"
    BY CustomHelpersNames DEF Definitions, Functions, Main, Wrap, N
  <2>3. \A n \in MmuFunctions(m1) : n[1] # "Func"
    BY DEF MmuFunctions, N
  <2> QED BY <2>1, <2>2, <2>3
<1> HIDE DEF names
<1>4. Mild(m2, Unimplemented(m2, names)) /\ DOMAIN Unimplemented(m2, names) = DOMAIN m2
  BY <1>2, <1>3, UnimplementedMild DEF Traced
<1>5. Free(Unimplemented(m2, names))
  BY <1>2, <1>4 DEF Traced, Free
<1>6. Traced(u, Unimplemented(m2, names), bs)
  BY <1>2, <1>4, <1>5, TracedKept
<1> QED BY <1>6 DEF LinkPrep2, UnimplementCustomHelpers, m1, m2, declared, names

LEMMA GlobalizeEnvTraced ==
  ASSUME NEW u, NEW m, NEW bs, Traced(u, m, bs)
  PROVE  Traced(u, GlobalizeEnv(m), bs)
<1> DEFINE fields == UNION {m[n].fields : n \in DOMAIN m}
           named == [n \in DOMAIN m |->
                       [m[n] EXCEPT !.refs = @ \cup Names(m[n].fields), !.fields = {}]]
<1>1. \A n \in DOMAIN m :
        /\ Whole(named[n]) /\ Same(m[n], named[n])
        /\ named[n].refs = m[n].refs \cup Names(m[n].fields) /\ named[n].fields = {}
        /\ named[n].def = m[n].def /\ named[n].stubs = m[n].stubs
        /\ named[n].calls = m[n].calls /\ named[n].imports = m[n].imports
  <2> TAKE n \in DOMAIN m
  <2> DEFINE s == m[n]
             r == s.refs \cup Names(s.fields)
             s1 == [s EXCEPT !.refs = r]
             s2 == [s1 EXCEPT !.fields = {}]
  <2>0. named[n] = s2
    OBVIOUS
  <2>1. Whole(s)
    BY DEF Traced, Tidy, TidySymbol
  <2> HIDE DEF s, r
  <2>2. s1 = Record(s.fn, s.def, s.link, r, s.fields, s.stubs, s.calls, s.imports)
    BY <2>1 DEF Whole, Record
  <2>3. s2 = Record(s.fn, s.def, s.link, r, {}, s.stubs, s.calls, s.imports)
    <3> HIDE DEF s1
    <3> QED BY <2>2 DEF Record
  <2> HIDE DEF s2
  <2>4. /\ Whole(s2) /\ s2.refs = r /\ s2.fields = {} /\ s2.def = s.def /\ s2.fn = s.fn
        /\ s2.link = s.link /\ s2.stubs = s.stubs /\ s2.calls = s.calls
        /\ s2.imports = s.imports
    BY <2>3 DEF Whole, Record
  <2>5. Same(s, s2)
    BY <2>4 DEF Same, r
  <2> HIDE DEF named
  <2> QED BY <2>0, <2>4, <2>5 DEF s, r
<1>2. DOMAIN named = DOMAIN m
  OBVIOUS
<1> HIDE DEF named
<1>3. \A n \in DOMAIN m : \A f \in m[n].fields : Plain(N(f))
  BY DEF Traced, Tidy, TidySymbol, Plain, IsOwn, IsImport, N
<1>4. \A n \in Names(fields) : Plain(n)
  BY <1>3 DEF Names
<1>5. Tidy(named)
  <2>1. \A n \in DOMAIN m : \A r \in named[n].refs : ~IsImport(r)
    BY <1>1, <1>3 DEF Traced, Tidy, TidySymbol, Names, Plain
  <2> QED BY <1>1, <1>2, <2>1 DEF Traced, Tidy, TidySymbol
<1>6. Keeps(m, named)
  BY <1>1, <1>2 DEF Keeps
<1> HIDE DEF fields
<1>7. /\ Mild(named, Declared(named, Names(fields), VarDecl))
      /\ DOMAIN Declared(named, Names(fields), VarDecl) = DOMAIN m \cup Names(fields)
  BY <1>2, <1>4, <1>5, DeclaredMild DEF Local, Plain
<1>8. Free(Declared(named, Names(fields), VarDecl))
  BY <1>4, <1>7 DEF Traced, Free, Plain
<1> DEFINE o == Declared(named, Names(fields), VarDecl)
<1>9. GlobalizeEnv(m) = o
  BY DEF GlobalizeEnv, fields, named
<1>10. Mild(m, named)
  BY <1>5, <1>6 DEF Mild
<1> HIDE DEF o
<1>11. Mild(m, o)
  BY <1>7, <1>10, MildTrans DEF o
<1> QED BY <1>8, <1>9, <1>11, TracedKept DEF o

LEMMA RenameEnvTraced ==
  ASSUME NEW u, NEW m, NEW bs, Traced(u, m, bs)
  PROVE  Traced(u, RenameEnv(m), bs)
<1> DEFINE regs == N("regs")
           inRegs == [n \in DOMAIN m |-> IF regs \in m[n].refs
                        THEN [m[n] EXCEPT !.refs = (@ \ {regs}) \cup (Registers \ {PC})] ELSE m[n]]
           declared == IF regs \in DOMAIN m /\ Users(m, regs) # {}
                       THEN Declared(inRegs, Registers \ {PC}, VarDecl) ELSE inRegs
           new(n) == IF n = N("eip") THEN PC ELSE n
           source(n) == IF n = PC /\ PC \notin DOMAIN declared THEN N("eip") ELSE n
           o == [n \in {new(k) : k \in DOMAIN declared} |->
                   [declared[source(n)] EXCEPT !.refs = {new(r) : r \in @}]]
<1>0. RenameEnv(m) = o
  BY DEF RenameEnv
<1>1. Plain(regs) /\ Plain(N("eip")) /\ Plain(PC) /\ \A n \in Registers : Plain(n)
  BY SupportPlain DEF SupportBases, Registers, Names, PC
<1>2. Mild(m, inRegs) /\ DOMAIN inRegs = DOMAIN m
  <2>1. \A n \in DOMAIN m : TidySymbol(inRegs[n]) /\ Same(m[n], inRegs[n])
    <3> TAKE n \in DOMAIN m
    <3> DEFINE s == m[n]
               r == (s.refs \ {regs}) \cup (Registers \ {PC})
               t == [s EXCEPT !.refs = r]
    <3>1. inRegs[n] = t \/ inRegs[n] = s
      OBVIOUS
    <3>2. TidySymbol(s)
      BY DEF Traced, Tidy
    <3>3. (\A x \in r : ~IsImport(x)) /\ \A x \in s.refs : IsOwn(x) => x \in r
      BY <1>1, <3>2 DEF TidySymbol, Plain
    <3> HIDE DEF s, r, inRegs
    <3>4. TidySymbol(t) /\ Same(s, t) /\ Same(s, s)
      BY <3>2, <3>3 DEF TidySymbol, Whole, Record, Same
    <3> QED BY <3>1, <3>2, <3>4 DEF s
  <2>2. DOMAIN inRegs = DOMAIN m /\ \A n \in DOMAIN m : inRegs[n].def = m[n].def
    OBVIOUS
  <2> HIDE DEF inRegs
  <2> QED BY <2>1, <2>2 DEF Traced, Tidy, Mild, Keeps
<1> HIDE DEF inRegs
<1>3. Mild(m, declared) /\ Free(declared)
  <2>1. CASE ~(regs \in DOMAIN m /\ Users(m, regs) # {})
    BY <1>2, <2>1 DEF Traced, Free
  <2>2. CASE regs \in DOMAIN m /\ Users(m, regs) # {}
    <3> DEFINE d == Declared(inRegs, Registers \ {PC}, VarDecl)
    <3>1. Mild(inRegs, d) /\ DOMAIN d = DOMAIN inRegs \cup (Registers \ {PC})
      BY <1>1, <1>2, DeclaredMild DEF Mild, Local, Plain
    <3>2. Free(d)
      BY <1>1, <1>2, <3>1 DEF Traced, Free, Plain
    <3>3. declared = d
      BY <2>2
    <3> HIDE DEF d
    <3> QED BY <1>2, <3>1, <3>2, <3>3, MildTrans
  <2> QED BY <2>1, <2>2
<1>4. Traced(u, declared, bs)
  BY <1>3, TracedKept
<1> HIDE DEF declared
<1>5. \A n \in DOMAIN o : source(n) \in DOMAIN declared /\ ~IsImport(n) /\ (IsOwn(n) => source(n) = n)
  <2> TAKE n \in DOMAIN o
  <2>1. PICK k \in DOMAIN declared : n = new(k)
    OBVIOUS
  <2>2. CASE k = N("eip")
    BY <1>1, <2>1, <2>2 DEF Plain
  <2>3. CASE k # N("eip")
    BY <1>1, <1>3, <2>1, <2>3 DEF Plain, Free
  <2> QED BY <2>2, <2>3
<1>6. \A n \in DOMAIN declared : IsOwn(n) => n \in DOMAIN o /\ source(n) = n
  BY <1>1 DEF Plain
<1>7. \A n \in DOMAIN o : LET s == declared[source(n)] IN TidySymbol(o[n]) /\ Same(s, o[n])
  <2> TAKE n \in DOMAIN o
  <2> DEFINE s == declared[source(n)]
             r == {new(x) : x \in s.refs}
             t == [s EXCEPT !.refs = r]
  <2>1. TidySymbol(s)
    BY <1>4, <1>5 DEF Traced, Tidy
  <2>2. o[n] = t
    OBVIOUS
  <2>3. \A x \in r : ~IsImport(x)
    BY <1>1, <2>1 DEF TidySymbol, Plain
  <2>4. \A x \in s.refs : IsOwn(x) => x \in r
    BY <1>1 DEF Plain
  <2> HIDE DEF s, r, o
  <2>5. TidySymbol(t) /\ Same(s, t)
    BY <2>1, <2>3, <2>4 DEF TidySymbol, Whole, Record, Same
  <2> QED BY <2>2, <2>5 DEF s
<1> HIDE DEF o, new, source
<1>8. Mild(declared, o) /\ Free(o)
  <2>1. Tidy(o) /\ Free(o)
    BY <1>5, <1>7 DEF Tidy, Free
  <2>2. Keeps(declared, o)
    BY <1>5, <1>6, <1>7 DEF Keeps
  <2> QED BY <2>1, <2>2 DEF Mild
<1> QED BY <1>0, <1>4, <1>8, TracedKept

-----------------------------------------------------------------------------
(* Cleaning, and linking.                                                  *)

LEMMA CleanTraced ==
  ASSUME NEW u, NEW m, NEW bs, Traced(u, m, bs)
  PROVE  Traced(u, AddCustomHelperVars(RemoveS2EHelpers(m)), bs)
<1> DEFINE m1 == RemoveS2EHelpers(m)
           names == Names({"debug_verbosity"})
           o == Declared(m1, names, Var)
<1>1. \A n \in S2EHelpers \cup names : Plain(n)
  BY SupportPlain DEF S2EHelpers, Names, SupportBases
<1>2. Mild(m, m1) /\ DOMAIN m1 = DOMAIN m
  BY <1>1, UnreferencedMild DEF RemoveS2EHelpers, Traced, Local, Plain
<1> HIDE DEF m1, names
<1>3. /\ DOMAIN o = DOMAIN m1 \cup names
      /\ \A n \in DOMAIN m1 : o[n] = m1[n]
      /\ \A n \in names \ DOMAIN m1 : o[n] = Var
  BY DEF Declared, And
<1> HIDE DEF o
<1>4. TidySymbol(Var)
  BY DEF TidySymbol, Whole, Record, Var, Sym
<1>5. Tidy(o) /\ Free(o)
  BY <1>1, <1>2, <1>3, <1>4 DEF Traced, Tidy, Mild, Free, Plain
<1>6. Keeps(m1, o)
  BY <1>1, <1>3 DEF Keeps, Same, Plain
<1>7. Mild(m, o)
  BY <1>2, <1>5, <1>6, MildTrans DEF Mild
<1>8. Traced(u, o, bs)
  BY <1>5, <1>7, TracedKept
<1> QED BY <1>8 DEF AddCustomHelperVars, o, m1, names

\* Names of the program are left to it, the others keep what they begin with.
LEMMA RenamedMild ==
  ASSUME NEW m, Tidy(m), Free(m), NEW names, \A n \in names : ~IsOwn(n), NEW taken
  PROVE  Mild(m, Renamed(m, names, taken)) /\ Free(Renamed(m, names, taken))
<1> DEFINE used(b) == {n[2] : n \in {k \in DOMAIN m \cup taken : k[1] = b}}
           number(n) == Cardinality(used(n[1]))
           new(n) == IF n \in names THEN <<n[1], number(n)>> ELSE n
           old(n) == CHOOSE k \in DOMAIN m : new(k) = n
           o == [n \in {new(k) : k \in DOMAIN m} |->
                   [m[old(n)] EXCEPT !.refs = {new(r) : r \in @}]]
<1>0. Renamed(m, names, taken) = o
  BY DEF Renamed
<1> HIDE DEF number
<1>1. \A n : (IsOwn(new(n)) <=> IsOwn(n)) /\ (IsImport(new(n)) <=> IsImport(n)) /\ (IsOwn(n) => new(n) = n)
  BY DEF IsOwn, IsImport
<1> HIDE DEF new
<1>2. \A n \in DOMAIN o : old(n) \in DOMAIN m /\ new(old(n)) = n
  OBVIOUS
<1>3. \A n \in DOMAIN o : ~IsImport(n) /\ (IsOwn(n) => old(n) = n)
  BY <1>1, <1>2 DEF Free
<1>4. \A n \in DOMAIN m : IsOwn(n) => n \in DOMAIN o
  BY <1>1
<1>5. \A n \in DOMAIN o : TidySymbol(o[n]) /\ Same(m[old(n)], o[n])
  <2> TAKE n \in DOMAIN o
  <2> DEFINE s == m[old(n)]
             r == {new(x) : x \in s.refs}
             t == [s EXCEPT !.refs = r]
  <2>1. TidySymbol(s)
    BY <1>2 DEF Tidy
  <2>2. o[n] = t
    OBVIOUS
  <2>3. \A x \in r : ~IsImport(x)
    BY <1>1, <2>1 DEF TidySymbol
  <2>4. \A x \in s.refs : IsOwn(x) => x \in r
    BY <1>1
  <2> HIDE DEF s, r, o
  <2>5. TidySymbol(t) /\ Same(s, t)
    BY <2>1, <2>3, <2>4 DEF TidySymbol, Whole, Record, Same
  <2> QED BY <2>2, <2>5 DEF s
<1> HIDE DEF o, old
<1>6. Tidy(o) /\ Free(o)
  BY <1>3, <1>5 DEF Tidy, Free
<1>7. Keeps(m, o)
  BY <1>2, <1>3, <1>4, <1>5 DEF Keeps
<1> QED BY <1>0, <1>6, <1>7 DEF Mild

LEMMA LinkKept ==
  ASSUME NEW m, Tidy(m), Free(m), NEW o, Tidy(o), Free(o),
         \A n \in DOMAIN m \cap DOMAIN o : IsOwn(n) => Shared(m, n) /\ Shared(o, n)
  PROVE  LET l == Link(m, o)
         IN  /\ Tidy(l) /\ Free(l)
             /\ \A n \in DOMAIN l : IsOwn(n) => n \in DOMAIN m \cup DOMAIN o
             /\ \A n \in DOMAIN o : IsOwn(n) /\ (o[n].def \/ n \notin DOMAIN m) =>
                  n \in DOMAIN l /\ Same(o[n], l[n])
             /\ \A n \in DOMAIN m \ DOMAIN o : IsOwn(n) => n \in DOMAIN l /\ Same(m[n], l[n])
<1> DEFINE common == DOMAIN m \cap DOMAIN o
           ms == {n \in common : ~Shared(m, n) /\ Shared(o, n)}
           os == {n \in common : ~Shared(o, n)}
           first == Renamed(m, ms, DOMAIN o)
           second == Renamed(o, os, DOMAIN m)
           l == [n \in DOMAIN first \cup DOMAIN second |->
                   IF n \in DOMAIN second /\ (second[n].def \/ n \notin DOMAIN first)
                   THEN second[n] ELSE first[n]]
<1>0. Link(m, o) = l
  BY DEF Link
<1>1. \A n \in ms \cup os : ~IsOwn(n)
  OBVIOUS
<1> HIDE DEF ms, os
<1>2. Mild(m, first) /\ Free(first) /\ Mild(o, second) /\ Free(second)
  BY <1>1, RenamedMild
<1> HIDE DEF first, second
<1>3. /\ DOMAIN l = DOMAIN first \cup DOMAIN second
      /\ \A n \in DOMAIN l :
           \/ n \in DOMAIN second /\ l[n] = second[n]
           \/ n \in DOMAIN first /\ l[n] = first[n]
      /\ \A n \in DOMAIN second : second[n].def \/ n \notin DOMAIN first => l[n] = second[n]
      /\ \A n \in DOMAIN first \ DOMAIN second : l[n] = first[n]
  OBVIOUS
<1> HIDE DEF l
<1>4. Tidy(l) /\ Free(l)
  BY <1>2, <1>3 DEF Mild, Tidy, Free
<1>5. \A n \in DOMAIN l : IsOwn(n) => n \in DOMAIN m \cup DOMAIN o
  BY <1>2, <1>3 DEF Mild, Keeps
<1>6. ASSUME NEW n \in DOMAIN o, IsOwn(n), o[n].def \/ n \notin DOMAIN m
      PROVE  n \in DOMAIN l /\ Same(o[n], l[n])
  <2>1. n \in DOMAIN second /\ Same(o[n], second[n]) /\ (n \in DOMAIN first => n \in DOMAIN m)
    BY <1>2, <1>6 DEF Mild, Keeps
  <2>2. second[n].def \/ n \notin DOMAIN first
    BY <1>6, <2>1 DEF Same
  <2> QED BY <1>3, <2>1, <2>2
<1>7. ASSUME NEW n \in DOMAIN m \ DOMAIN o, IsOwn(n)
      PROVE  n \in DOMAIN l /\ Same(m[n], l[n])
  <2>1. n \in DOMAIN first /\ Same(m[n], first[n]) /\ n \notin DOMAIN second
    BY <1>2, <1>7 DEF Mild, Keeps
  <2> QED BY <1>3, <2>1
<1> QED BY <1>0, <1>4, <1>5, <1>6, <1>7

LEMMA MergedTraced ==
  ASSUME NEW u, NEW m, NEW o, NEW bs, NEW cs, Traced(u, m, bs), Traced(u, o, cs)
  PROVE  Traced(u, Link(m, o), bs \cup cs)
<1> DEFINE l == Link(m, o)
<1>1. \A b \in bs : /\ FuncName(b) \in DOMAIN m /\ BlockKept(u, b, m[FuncName(b)])
                    /\ IsOwn(FuncName(b))
  BY DEF Traced, IsOwn, FuncName, FunctionBases
<1>2. \A b \in cs : /\ FuncName(b) \in DOMAIN o /\ BlockKept(u, b, o[FuncName(b)])
                    /\ IsOwn(FuncName(b))
  BY DEF Traced, IsOwn, FuncName, FunctionBases
<1>3. \A n \in DOMAIN m \cap DOMAIN o : IsOwn(n) => Shared(m, n) /\ Shared(o, n)
  <2>1. \A n \in DOMAIN m : IsOwn(n) => m[n].link = "external"
    BY <1>1 DEF Traced, OwnNames, BlockKept
  <2>2. \A n \in DOMAIN o : IsOwn(n) => o[n].link = "external"
    BY <1>2 DEF Traced, OwnNames, BlockKept
  <2> QED BY <2>1, <2>2 DEF Shared
<1>4. /\ Tidy(l) /\ Free(l)
      /\ \A n \in DOMAIN l : IsOwn(n) => n \in DOMAIN m \cup DOMAIN o
      /\ \A n \in DOMAIN o : IsOwn(n) /\ (o[n].def \/ n \notin DOMAIN m) =>
                  n \in DOMAIN l /\ Same(o[n], l[n])
      /\ \A n \in DOMAIN m \ DOMAIN o : IsOwn(n) => n \in DOMAIN l /\ Same(m[n], l[n])
  <2>1. Tidy(m) /\ Free(m) /\ Tidy(o) /\ Free(o)
    BY DEF Traced
  <2> QED BY <1>3, <2>1, LinkKept
<1> HIDE DEF l
<1>5. \A n \in DOMAIN l : IsOwn(n) => n \in OwnNames(bs \cup cs)
  BY <1>4 DEF Traced, OwnNames
<1>6. ASSUME NEW b \in cs
      PROVE  FuncName(b) \in DOMAIN l /\ BlockKept(u, b, l[FuncName(b)])
  BY <1>2, <1>4 DEF BlockKept, Same
<1>7. ASSUME NEW b \in bs \ cs
      PROVE  FuncName(b) \in DOMAIN l /\ BlockKept(u, b, l[FuncName(b)])
  <2>1. FuncName(b) \notin DOMAIN o
    <3>1. \A c \in cs : FuncName(c) # FuncName(b)
      BY DEF FuncName
    <3> QED BY <1>1, <3>1 DEF Traced, OwnNames
  <2> QED BY <1>1, <1>4, <2>1 DEF BlockKept, Same
<1> QED BY <1>4, <1>5, <1>6, <1>7 DEF Traced, l

LEMMA NothingTraced == \A u : Traced(u, Empty, {})
  BY DEF Traced, Tidy, Free, Empty

LEMMA FixedUp ==
  ASSUME NEW u, NEW m, Traced(u, m, Blocks)
  PROVE  Liftable(u, Link(m, CustomHelpers))
<1> DEFINE l == Link(m, CustomHelpers)
<1>1. \A b \in Blocks : /\ FuncName(b) \in DOMAIN m /\ BlockKept(u, b, m[FuncName(b)])
                        /\ IsOwn(FuncName(b)) /\ FuncName(b) \notin DOMAIN CustomHelpers
  <2>1. \A b : FuncName(b) \notin {Main, Wrap}
    BY DEF FuncName, Main, Wrap, N
  <2> QED BY <2>1, CustomHelpersNames DEF Traced, IsOwn, FuncName, FunctionBases
<1>2. Main \notin DOMAIN m /\ Wrap \notin DOMAIN m /\ IsOwn(Main) /\ IsOwn(Wrap)
  BY DEF Traced, OwnNames, FuncName, Main, Wrap, N, IsOwn, FunctionBases
<1>3. Tidy(CustomHelpers) /\ Free(CustomHelpers)
  BY CustomHelpersNames DEF Tidy, Free
<1>4. /\ Tidy(l) /\ Free(l)
      /\ \A n \in DOMAIN l : IsOwn(n) => n \in DOMAIN m \cup DOMAIN CustomHelpers
      /\ \A n \in DOMAIN CustomHelpers : IsOwn(n) /\ n \notin DOMAIN m =>
                  n \in DOMAIN l /\ Same(CustomHelpers[n], l[n])
      /\ \A n \in DOMAIN m \ DOMAIN CustomHelpers : IsOwn(n) =>
                  n \in DOMAIN l /\ Same(m[n], l[n])
  <2>1. Tidy(m) /\ Free(m)
    BY DEF Traced
  <2>2. \A n \in DOMAIN m \cap DOMAIN CustomHelpers : ~IsOwn(n)
    BY <1>1, <1>2, CustomHelpersNames DEF Traced, OwnNames
  <2> QED BY <1>3, <2>1, <2>2, LinkKept
<1> HIDE DEF l
<1>5. \A n \in DOMAIN l : IsOwn(n) => n \in {Main, Wrap} \cup OwnNames(Blocks)
  BY <1>4, CustomHelpersNames DEF Traced
<1>6. \A b \in Blocks : FuncName(b) \in DOMAIN l /\ BlockKept(u, b, l[FuncName(b)])
  BY <1>1, <1>4 DEF BlockKept, Same
<1>7. /\ Main \in DOMAIN l /\ Same(CustomHelpers[Main], l[Main])
      /\ Wrap \in DOMAIN l /\ Same(CustomHelpers[Wrap], l[Wrap])
  BY <1>2, <1>4, CustomHelpersNames
<1>8. /\ l[Main].fn /\ l[Main].def /\ l[Main].link = "external" /\ l[Main].stubs = {}
      /\ Wrap \in l[Main].refs /\ l[Wrap].fn
  BY <1>2, <1>7, CustomHelpersNames DEF Same
<1> QED BY <1>4, <1>5, <1>6, <1>7, <1>8 DEF Liftable, l

-----------------------------------------------------------------------------
(* Functions are recovered.                                                *)

LEMMA InternalizeGlobalsKept ==
  ASSUME NEW u, NEW m, Liftable(u, m)
  PROVE  Liftable(u, InternalizeGlobals(m)) /\ VarsLocal(InternalizeGlobals(m))
<1> DEFINE o == InternalizeGlobals(m)
           changed(s) == [s EXCEPT !.def = TRUE, !.link = "internal"]
<1>1. /\ DOMAIN o = DOMAIN m
      /\ \A n \in DOMAIN m : o[n] = IF m[n].fn THEN m[n] ELSE changed(m[n])
  BY DEF InternalizeGlobals, Variables, Functions
<1>2. \A s : TidySymbol(s) => /\ TidySymbol(changed(s)) /\ changed(s).fn = s.fn
                              /\ changed(s).link = "internal"
  <2> TAKE s
  <2> HAVE TidySymbol(s)
  <2> DEFINE d == TRUE
             s1 == [s EXCEPT !.def = d]
             s2 == [s1 EXCEPT !.link = "internal"]
  <2>0. Whole(s)
    BY DEF TidySymbol
  <2> HIDE DEF d
  <2>1. s1 = Record(s.fn, d, s.link, s.refs, s.fields, s.stubs, s.calls, s.imports)
    BY <2>0 DEF Whole, Record
  <2>2. s2 = Record(s.fn, d, "internal", s.refs, s.fields, s.stubs, s.calls, s.imports)
    <3> HIDE DEF s1
    <3> QED BY <2>1 DEF Record
  <2>3. changed(s) = s2
    BY DEF d
  <2> HIDE DEF s2, changed
  <2> QED BY <2>2, <2>3 DEF TidySymbol, Whole, Record
<1> HIDE DEF o, changed
<1>3. Tidy(o) /\ VarsLocal(o) /\ Free(o)
  BY <1>1, <1>2 DEF Liftable, Tidy, Free, VarsLocal
<1>4. Keeps(m, o)
  <2>1. \A n \in DOMAIN m : IsOwn(n) => m[n].fn
    BY DEF Liftable, BlockKept, OwnNames
  <2> QED BY <1>1, <2>1 DEF Keeps, Same
<1> QED BY <1>3, <1>4, LiftableKept DEF o, Mild

LEMMA RecoverFunctionsKept ==
  ASSUME NEW u, u[1] \notin Libs, NEW m, Liftable(u, m), VarsLocal(m),
         NEW fs \in SUBSET Blocks, 1 \in fs
  PROVE  Recoverable(u, fs, RecoverFunctions(m, fs)) /\ VarsLocal(RecoverFunctions(m, fs))
<1> DEFINE funcs == {FuncName(b) : b \in fs}
           f1 == FuncName(1)
           refs(n) == IF n = f1 THEN m[n].refs \cup (funcs \ {n}) ELSE m[n].refs
           lifted(n) == [m[n] EXCEPT !.link = "internal",
                                     !.refs = IF n = f1 THEN @ \cup (funcs \ {n}) ELSE @]
           wrapper == Func({f1})
           o == RecoverFunctions(m, fs)
<1>1. /\ DOMAIN o = DOMAIN m
      /\ \A n \in DOMAIN m : o[n] = CASE n = Wrap -> wrapper
                                      [] n \in funcs -> lifted(n)
                                      [] OTHER -> m[n]
  BY DEF RecoverFunctions, Wrap
<1> HIDE DEF o
<1>2. ASSUME NEW n \in DOMAIN m
      PROVE  lifted(n) = Record(m[n].fn, m[n].def, "internal", refs(n), m[n].fields, m[n].stubs,
                                m[n].calls, m[n].imports)
  <2> DEFINE s == m[n]
             r == refs(n)
             s1 == [s EXCEPT !.link = "internal"]
             s2 == [s1 EXCEPT !.refs = r]
  <2>0. Whole(s)
    BY DEF Liftable, Tidy, TidySymbol
  <2>1. lifted(n) = s2
    <3>1. s1.refs = s.refs
      BY <2>0 DEF Whole, Record
    <3> HIDE DEF s
    <3> QED BY <3>1 DEF s
  <2> HIDE DEF s, r, refs
  <2>2. s1 = Record(s.fn, s.def, "internal", s.refs, s.fields, s.stubs, s.calls, s.imports)
    BY <2>0 DEF Whole, Record
  <2>3. s2 = Record(s.fn, s.def, "internal", r, s.fields, s.stubs, s.calls, s.imports)
    <3> HIDE DEF s1
    <3> QED BY <2>2 DEF Record
  <2> HIDE DEF s2, lifted
  <2> QED BY <2>1, <2>3 DEF s, r
<1> HIDE DEF lifted
<1>3. \A b \in fs : /\ FuncName(b) \in DOMAIN m /\ FuncName(b) \in funcs /\ FuncName(b) # Wrap
                    /\ FuncName(b) # Main
                    /\ BlockKept(u, b, m[FuncName(b)])
                    /\ ~IsImport(FuncName(b))
  <2>1. \A b : FuncName(b) # Wrap /\ FuncName(b) # Main
    BY DEF FuncName, Wrap, Main, N
  <2> QED BY <2>1 DEF Liftable, Free
<1>4. \A n \in funcs : n \in DOMAIN m /\ ~IsImport(n) /\ n # Main /\ n # Wrap
  BY <1>3
<1>5. o[Wrap] = wrapper /\ Wrap \in DOMAIN o
  <2>1. Wrap \in DOMAIN m /\ Wrap \notin funcs
    BY <1>4 DEF Liftable
  <2> HIDE DEF funcs, wrapper
  <2> QED BY <1>1, <2>1
<1>6. \A n \in funcs : o[n] = lifted(n)
  BY <1>1, <1>4
<1>7. \A n \in DOMAIN m \ funcs : n # Wrap => o[n] = m[n]
  BY <1>1
<1> HIDE DEF funcs, refs, wrapper, f1
<1>8. Tidy(o) /\ VarsLocal(o)
  <2>1. TidySymbol(wrapper) /\ wrapper.fn
    BY <1>3 DEF TidySymbol, Whole, Record, wrapper, Func, Sym, f1
  <2>2. ~IsImport(Wrap)
    BY DEF Liftable, Free
  <2>3. \A n \in funcs : /\ TidySymbol(lifted(n)) /\ lifted(n).link = "internal"
    <3> TAKE n \in funcs
    <3>1. TidySymbol(m[n]) /\ \A r \in refs(n) : ~IsImport(r)
      BY <1>4 DEF Liftable, Tidy, TidySymbol, refs
    <3> QED BY <1>2, <1>4, <3>1 DEF TidySymbol, Whole, Record
  <2>4. \A n \in DOMAIN o : TidySymbol(o[n])
    BY <1>1, <1>5, <1>6, <1>7, <2>1, <2>3 DEF Liftable, Tidy
  <2>5. \A n \in DOMAIN o : ~IsImport(n)
    BY <1>1 DEF Liftable, Free
  <2>6. VarsLocal(o)
    BY <1>1, <1>5, <1>6, <1>7, <2>1, <2>3 DEF VarsLocal
  <2> QED BY <2>4, <2>5, <2>6 DEF Tidy
<1>9. Known(o)
  BY <1>1 DEF Liftable, Known
<1> DEFINE nm == FuncNames(fs)
<1>10. \A b \in fs : nm[b] = FuncName(b)
  BY FuncNamesOwn
<1> HIDE DEF nm
<1>11. ASSUME NEW b \in fs
       PROVE  LET s == o[nm[b]] t == m[FuncName(b)]
              IN  /\ nm[b] \in DOMAIN o /\ s.fn /\ s.def
                  /\ s.stubs = t.stubs /\ s.imports = t.imports /\ s.refs = refs(FuncName(b))
  BY <1>1, <1>2, <1>3, <1>6, <1>10 DEF Record, BlockKept
<1>12. Imported(u, fs, o, nm)
  BY <1>3, <1>11 DEF Imported, BlockKept
<1>13. o[nm[1]].stubs = {}
  BY <1>3, <1>11 DEF BlockKept
<1>14. \A b \in fs \ {1} : nm[b] \in o[nm[1]].refs
  <2> TAKE b \in fs \ {1}
  <2>1. o[nm[1]].refs = m[f1].refs \cup (funcs \ {f1})
    BY <1>11 DEF refs, f1
  <2>2. nm[b] \in funcs /\ nm[b] # f1
    <3>1. FuncName(b) # FuncName(1)
      BY DEF FuncName
    <3> QED BY <1>3, <1>10, <3>1 DEF f1
  <2> QED BY <2>1, <2>2
<1>15. o[Wrap].fn /\ o[Wrap].def /\ o[Wrap].stubs = {} /\ nm[1] \in o[Wrap].refs
  BY <1>5, <1>10 DEF wrapper, Func, Sym, f1
<1>16. /\ Main \in DOMAIN o
       /\ o[Main].fn /\ o[Main].def /\ o[Main].link = "external" /\ o[Main].stubs = {}
       /\ Wrap \in o[Main].refs
  <2>1. Main # Wrap /\ Main \notin funcs
    BY <1>4 DEF Main, Wrap, N
  <2> QED BY <1>1, <1>7, <2>1 DEF Liftable
<1>17. Calls(fs, o, nm)
  BY <1>5, <1>11, <1>13, <1>14, <1>15, <1>16 DEF Calls
<1> QED BY <1>8, <1>9, <1>12, <1>17 DEF Recoverable, o, nm

-----------------------------------------------------------------------------
(* Passes that leave the functions of the program where they are.          *)

LEMMA PointwiseLocal ==
  ASSUME NEW m, NEW o, Tidy(m), DOMAIN o = DOMAIN m,
         \A n \in DOMAIN m : TidySymbol(o[n]) /\ Same(m[n], o[n])
  PROVE  Local(m, o)
  BY DEF Tidy, Local, Mild, Keeps, Same, VarsLocal, OnlyExports

LEMMA AddMemArrayLocal ==
  ASSUME NEW m, Tidy(m)
  PROVE  Local(m, AddMemArray(m))
<1>1. \A n \in Names({"helper_ldl_mmu", "cpu_ldl_data"}) : ~IsOwn(n)
  BY SupportPlain DEF Names, SupportBases, Plain
<1> QED BY <1>1, UnreferencedMild DEF AddMemArray

LEMMA AlwaysInlinerLocal ==
  ASSUME NEW m, Tidy(m)
  PROVE  Local(m, AlwaysInliner(m))
<1>1. \A n \in AlwaysInline : ~IsOwn(n)
  BY SupportPlain DEF AlwaysInline, Names, SupportBases, Plain
<1>2. AlwaysInline \cap Definitions(m) \subseteq DOMAIN m
  BY DEF Definitions, Functions
<1> QED BY <1>1, <1>2, InlinedMild DEF AlwaysInliner

LEMMA ExternPLTLocal ==
  ASSUME NEW m, Tidy(m), ~ExternPLTFails(m)
  PROVE  Local(m, ExternPLT(m))
<1> DEFINE helpers(s) == {PltHelper(f) : f \in s.stubs}
           trampolined(s) == {f \in s.stubs : PltHelper(f) = N("helper_extern_stub")}
           call(s) == [s EXCEPT !.refs = helpers(s), !.calls = trampolined(s), !.stubs = {}]
           o == ExternPLT(m)
<1>1. /\ DOMAIN o = DOMAIN m
      /\ \A n \in DOMAIN m : o[n] = IF m[n].stubs = {} THEN m[n]
                                    ELSE Inlined(m, call(m[n]), helpers(m[n]))
  BY DEF ExternPLT
<1> HIDE DEF o
<1>2. \A f : PltHelper(f) \in DOMAIN m /\ Plain(PltHelper(f))
  <2>1. \A h \in Names({"nonlib_setjmp", "nonlib_longjmp", "helper_extern_stub"}) :
          h \in DOMAIN m /\ Plain(h)
    BY SupportPlain DEF ExternPLTFails, Names, SupportBases
  <2>2. \A f : PltHelper(f) \in Names({"nonlib_setjmp", "nonlib_longjmp", "helper_extern_stub"})
    BY DEF PltHelper, Names
  <2> QED BY <2>1, <2>2
<1>3. ASSUME NEW s, TidySymbol(s), s.stubs # {}
      PROVE  TidySymbol(Inlined(m, call(s), helpers(s))) /\ Same(s, Inlined(m, call(s), helpers(s)))
  <2> DEFINE r == helpers(s)
             c == trampolined(s)
             none == {}
             s1 == [s EXCEPT !.refs = r]
             s2 == [s1 EXCEPT !.calls = c]
             s3 == [s2 EXCEPT !.stubs = none]
  <2>0. Whole(s)
    BY <1>3 DEF TidySymbol
  <2>a. c \subseteq Libs /\ r \subseteq DOMAIN m /\ \A x \in r : Plain(x)
    BY <1>2, <1>3 DEF TidySymbol
  <2> HIDE DEF helpers, trampolined, r, c, none
  <2>1. call(s) = s3
    <3>1. s1.calls = s.calls
      BY <2>0 DEF Whole, Record
    <3> QED BY DEF r, c, none
  <2>2. s1 = Record(s.fn, s.def, s.link, r, s.fields, s.stubs, s.calls, s.imports)
    BY <2>0 DEF Whole, Record
  <2>3. s2 = Record(s.fn, s.def, s.link, r, s.fields, s.stubs, c, s.imports)
    <3> HIDE DEF s1
    <3> QED BY <2>2 DEF Record
  <2>4. s3 = Record(s.fn, s.def, s.link, r, s.fields, none, c, s.imports)
    <3> HIDE DEF s2
    <3> QED BY <2>3 DEF Record
  <2> HIDE DEF s3, call
  <2>5. TidySymbol(s3)
    BY <1>3, <2>4, <2>a DEF TidySymbol, Whole, Record, Plain, none
  <2>6. TidySymbol(Inlined(m, s3, r)) /\ Same(s3, Inlined(m, s3, r))
    BY <2>5, <2>a, InlinedTidy DEF Plain
  <2>7. /\ s3.fn = s.fn /\ s3.def = s.def /\ s3.link = s.link /\ s3.stubs = {}
        /\ s3.imports = s.imports
    BY <2>4 DEF Record, none
  <2> DEFINE t == Inlined(m, s3, r)
  <2> HIDE DEF t
  <2>8. Same(s, t)
    BY <1>3, <2>6, <2>7 DEF Same, t
  <2> QED BY <2>1, <2>6, <2>8 DEF r, t
<1> HIDE DEF call, helpers
<1>4. \A n \in DOMAIN m : TidySymbol(o[n]) /\ Same(m[n], o[n])
  <2> TAKE n \in DOMAIN m
  <2>1. TidySymbol(m[n]) /\ Same(m[n], m[n])
    BY DEF Tidy, Same
  <2> QED BY <1>1, <1>3, <2>1
<1> QED BY <1>1, <1>4, PointwiseLocal DEF o

LEMMA LibraryCallsListed ==
  ASSUME NEW m, Tidy(m)
  PROVE  Listed(m) \subseteq LibraryCalls(m) /\ LibraryCalls(m) \subseteq Libs
  BY DEF Listed, LibraryCalls, Tidy, TidySymbol

LEMMA InlineLibCallArgsLocal ==
  ASSUME NEW m, Tidy(m)
  PROVE  Local(m, InlineLibCallArgs(m))
<1> DEFINE inline(s) == s.calls \cap Listed(m)
           used(f) == {StubName(f), R_ESP} \cup
                      (IF Sig[f] \in DOMAIN Virtualize THEN {N(Virtualize[Sig[f]])} ELSE {})
           left(s) == IF s.calls # {} /\ inline(s) = s.calls THEN s.refs \ {Trampoline} ELSE s.refs
           added(s) == UNION {used(f) : f \in inline(s)}
           rewritten == [n \in DOMAIN m |->
                           [m[n] EXCEPT !.refs = left(m[n]) \cup UNION {used(f) : f \in inline(m[n])},
                                        !.calls = @ \ Listed(m)]]
           stubs == {StubName(f) : f \in Listed(m)}
<1>0. InlineLibCallArgs(m) =
        IF Trampoline \notin DOMAIN m THEN m ELSE Declared(rewritten, stubs, FuncDecl)
  BY DEF InlineLibCallArgs
<1>1. \A f \in Libs : \A n \in used(f) : Plain(n)
  <2>1. Plain(R_ESP)
    BY SupportPlain DEF R_ESP, SupportBases
  <2>2. \A k \in DOMAIN Virtualize : Plain(N(Virtualize[k]))
    BY SupportPlain DEF Virtualize, SupportBases
  <2> HIDE DEF Virtualize
  <2> QED BY <2>1, <2>2, StubPlain
<1> HIDE DEF used
<1>2. Plain(Trampoline)
  BY SupportPlain DEF Trampoline, SupportBases
<1>3. Listed(m) \subseteq Libs
  BY LibraryCallsListed
<1>4. \A n \in DOMAIN m : TidySymbol(rewritten[n]) /\ Same(m[n], rewritten[n])
  <2> TAKE n \in DOMAIN m
  <2> DEFINE s == m[n]
             r == left(s) \cup added(s)
             c == s.calls \ Listed(m)
             s1 == [s EXCEPT !.refs = r]
             s2 == [s1 EXCEPT !.calls = c]
  <2>0. TidySymbol(s)
    BY DEF Tidy
  <2>1. rewritten[n] = s2
    <3>1. s1.calls = s.calls
      BY <2>0 DEF TidySymbol, Whole, Record
    <3> HIDE DEF s, left, inline
    <3> QED BY <3>1 DEF s
  <2>2. \A x \in r : ~IsImport(x)
    <3>1. \A x \in added(s) : Plain(x)
      BY <1>1, <1>3
    <3>2. \A x \in left(s) : ~IsImport(x)
      BY <2>0 DEF TidySymbol
    <3> HIDE DEF left, added, s
    <3> QED BY <3>1, <3>2 DEF Plain
  <2>3. \A x \in s.refs : IsOwn(x) => x \in r
    <3>1. \A x \in s.refs : IsOwn(x) => x \in left(s)
      BY <1>2 DEF Plain
    <3> HIDE DEF left, added
    <3> QED BY <3>1
  <2> HIDE DEF s, r, c, rewritten
  <2>4. s1 = Record(s.fn, s.def, s.link, r, s.fields, s.stubs, s.calls, s.imports)
    BY <2>0 DEF TidySymbol, Whole, Record
  <2>5. s2 = Record(s.fn, s.def, s.link, r, s.fields, s.stubs, c, s.imports)
    <3> HIDE DEF s1
    <3> QED BY <2>4 DEF Record
  <2> HIDE DEF s2
  <2>6. TidySymbol(s2)
    BY <2>0, <2>2, <2>5 DEF TidySymbol, Whole, Record, c
  <2>7. Same(s, s2)
    BY <2>3, <2>5 DEF Same, Record
  <2> QED BY <2>1, <2>6, <2>7 DEF s
<1>5. DOMAIN rewritten = DOMAIN m
  OBVIOUS
<1> HIDE DEF rewritten
<1>6. Local(m, rewritten)
  BY <1>4, <1>5, PointwiseLocal
<1>7. \A n \in stubs : ~IsOwn(n)
  BY <1>3, StubPlain DEF Plain
<1> HIDE DEF stubs
<1>8. Local(rewritten, Declared(rewritten, stubs, FuncDecl))
  BY <1>6, <1>7, DeclaredMild DEF Local, Mild
<1>9. Local(m, m)
  BY PointwiseLocal DEF Same, Tidy
<1> QED BY <1>0, <1>6, <1>8, <1>9, LocalTrans

\* A data import has a variable of its name, for others to define.
LEMMA ReplaceDynamicSymbolsLocal ==
  ASSUME NEW m, Tidy(m)
  PROVE  Local(m, ReplaceDynamicSymbols(m))
<1>1. \A n \in Names(Imports) : ~IsOwn(n)
  BY NamesAssumption DEF Names, N, IsOwn
<1> QED BY <1>1, DeclaredMild DEF ReplaceDynamicSymbols

LEMMA LibCallNewPLTLocal ==
  ASSUME NEW m, Tidy(m)
  PROVE  Local(m, LibCallNewPLT(m))
<1> DEFINE o == [n \in DOMAIN m |-> [m[n] EXCEPT !.refs = @ \cup Names(m[n].calls)]]
<1>0. LibCallNewPLT(m) = Declared(o, Names(LibraryCalls(m)), FuncDecl)
  BY DEF LibCallNewPLT
<1>1. \A n \in Names(Libs) : Plain(n)
  BY SupportPlain DEF Names
<1>2. \A n \in DOMAIN m : TidySymbol(o[n]) /\ Same(m[n], o[n])
  <2> TAKE n \in DOMAIN m
  <2> DEFINE s == m[n]
             r == s.refs \cup Names(s.calls)
             s1 == [s EXCEPT !.refs = r]
  <2>1. o[n] = s1 /\ TidySymbol(s)
    BY DEF Tidy
  <2>2. \A x \in r : ~IsImport(x)
    BY <1>1, <2>1 DEF TidySymbol, Names, Plain
  <2>3. s.refs \subseteq r
    OBVIOUS
  <2> HIDE DEF s, r, o
  <2>4. TidySymbol(s1) /\ Same(s, s1)
    BY <2>1, <2>2, <2>3 DEF TidySymbol, Whole, Record, Same
  <2> QED BY <2>1, <2>4 DEF s
<1>3. DOMAIN o = DOMAIN m
  OBVIOUS
<1> HIDE DEF o
<1>4. Local(m, o)
  BY <1>2, <1>3, PointwiseLocal
<1>5. \A n \in Names(LibraryCalls(m)) : ~IsOwn(n)
  BY <1>1, LibraryCallsListed DEF Names, Plain
<1> DEFINE names == Names(LibraryCalls(m))
<1> HIDE DEF names
<1>6. Local(o, Declared(o, names, FuncDecl))
  BY <1>4, <1>5, DeclaredMild DEF Local, Mild, names
<1> QED BY <1>0, <1>4, <1>6, LocalTrans DEF names

LEMMA ImplementLibCallsNewPLTLocal ==
  ASSUME NEW m, Tidy(m)
  PROVE  Local(m, ImplementLibCallsNewPLT(m))
<1> DEFINE lib(x) == CHOOSE f \in Stubs(m) : x = StubName(f)
           new(x) == IF \E f \in Stubs(m) : x = StubName(f) THEN N(lib(x)) ELSE x
           o == [n \in DOMAIN m |-> [m[n] EXCEPT !.refs = {new(r) : r \in @}]]
           names == Names(Stubs(m))
<1>0. ImplementLibCallsNewPLT(m) = Declared(o, names, FuncDecl)
  BY DEF ImplementLibCallsNewPLT
<1>1. \A f \in Stubs(m) : Plain(N(f)) /\ Plain(StubName(f))
  BY SupportPlain, StubPlain DEF Stubs
<1>2. \A x : (IsOwn(x) => new(x) = x) /\ (~IsImport(x) => ~IsImport(new(x)))
  <2> TAKE x
  <2>1. CASE \E f \in Stubs(m) : x = StubName(f)
    <3>1. lib(x) \in Stubs(m)
      BY <2>1
    <3> HIDE DEF lib
    <3> QED BY <1>1, <2>1, <3>1 DEF Plain
  <2>2. CASE ~\E f \in Stubs(m) : x = StubName(f)
    BY <2>2
  <2> QED BY <2>1, <2>2
<1> HIDE DEF new
<1>3. \A n \in DOMAIN m : TidySymbol(o[n]) /\ Same(m[n], o[n])
  <2> TAKE n \in DOMAIN m
  <2> DEFINE s == m[n]
             r == {new(x) : x \in s.refs}
             s1 == [s EXCEPT !.refs = r]
  <2>1. o[n] = s1 /\ TidySymbol(s)
    BY DEF Tidy
  <2>2. (\A x \in r : ~IsImport(x)) /\ \A x \in s.refs : IsOwn(x) => x \in r
    BY <1>2, <2>1 DEF TidySymbol
  <2> HIDE DEF s, r, o
  <2>4. TidySymbol(s1) /\ Same(s, s1)
    BY <2>1, <2>2 DEF TidySymbol, Whole, Record, Same
  <2> QED BY <2>1, <2>4 DEF s
<1>4. DOMAIN o = DOMAIN m
  OBVIOUS
<1> HIDE DEF o
<1>5. Local(m, o)
  BY <1>3, <1>4, PointwiseLocal
<1>6. \A n \in names : ~IsOwn(n)
  BY <1>1 DEF Names, Plain
<1> HIDE DEF names
<1>7. Local(o, Declared(o, names, FuncDecl))
  BY <1>5, <1>6, DeclaredMild DEF Local, Mild
<1> QED BY <1>0, <1>5, <1>7, LocalTrans

LEMMA ImplementLibCallStubsLocal ==
  ASSUME NEW m, Tidy(m)
  PROVE  Local(m, ImplementLibCallStubs(m))
<1> DEFINE stubs == {StubName(f) : f \in Stubs(m)}
           o == ImplementLibCallStubs(m)
<1>1. /\ DOMAIN o = DOMAIN m
      /\ \A n \in DOMAIN m : o[n] = IF n \in stubs THEN Func({}) ELSE m[n]
  BY DEF ImplementLibCallStubs
<1>2. TidySymbol(Func({})) /\ Func({}).fn
  BY DEF TidySymbol, Whole, Record, Func, Sym
<1>3. \A n \in stubs : Plain(n) /\ n \in Exports
  BY StubPlain DEF Stubs, Exports
<1> HIDE DEF o, stubs
<1>4. Tidy(o) /\ (VarsLocal(m) => VarsLocal(o)) /\ (OnlyExports(m) => OnlyExports(o))
  BY <1>1, <1>2, <1>3 DEF Tidy, VarsLocal, OnlyExports, Plain
<1>5. Keeps(m, o)
  BY <1>1, <1>3 DEF Keeps, Same, Plain
<1> QED BY <1>4, <1>5 DEF Local, Mild, o

LEMMA InlineQemuOpHelpersLocal ==
  ASSUME NEW m, Tidy(m)
  PROVE  Local(m, InlineQemuOpHelpers(m))
<1> DEFINE names == OpHelpers(m)
           o == InlinedAll(m, names)
<1>1. names \subseteq DOMAIN m
  BY DEF OpHelpers, Functions
<1>2. \A n \in names : ~IsOwn(n)
  <2>1. Plain(N("helper_divb_AL")) /\ Plain(N("helper_cc_compute_all"))
    BY SupportPlain DEF SupportBases
  <2> QED BY <2>1 DEF OpHelpers, Plain, IsOwn, N
<1> HIDE DEF names, o
<1>3. Local(m, o)
  BY <1>1, <1>2, InlinedMild DEF o
<1>4. Local(o, Without(o, names))
  BY <1>2, <1>3, WithoutMild DEF Local, Mild
<1> QED BY <1>3, <1>4, LocalTrans DEF InlineQemuOpHelpers, o, names

LEMMA CallTracerLocal ==
  ASSUME NEW m, Tidy(m)
  PROVE  Local(m, CallTracer(m))
<1> DEFINE tracer == Names({"binrecrt_fdprintf"})
           o == [n \in DOMAIN m |-> IF n \in Lifted(m)
                   THEN [m[n] EXCEPT !.refs = @ \cup tracer] ELSE m[n]]
<1>0. CallTracer(m) = Declared(o, tracer, FuncDecl)
  BY DEF CallTracer
<1>1. \A n \in tracer : Plain(n)
  BY SupportPlain DEF Names, SupportBases
<1> HIDE DEF tracer
<1>2. \A n \in DOMAIN m : TidySymbol(o[n]) /\ Same(m[n], o[n])
  <2> TAKE n \in DOMAIN m
  <2> DEFINE s == m[n]
             r == s.refs \cup tracer
             s1 == [s EXCEPT !.refs = r]
  <2>1. (o[n] = s1 \/ o[n] = s) /\ TidySymbol(s)
    BY DEF Tidy
  <2>2. (\A x \in r : ~IsImport(x)) /\ s.refs \subseteq r
    BY <1>1, <2>1 DEF TidySymbol, Plain
  <2> HIDE DEF s, r, o
  <2>3. TidySymbol(s1) /\ Same(s, s1) /\ Same(s, s)
    BY <2>1, <2>2 DEF TidySymbol, Whole, Record, Same
  <2> QED BY <2>1, <2>3 DEF s
<1>3. DOMAIN o = DOMAIN m
  OBVIOUS
<1> HIDE DEF o
<1>4. Local(m, o)
  BY <1>2, <1>3, PointwiseLocal
<1>5. Local(o, Declared(o, tracer, FuncDecl))
  BY <1>1, <1>4, DeclaredMild DEF Local, Mild, Plain
<1> QED BY <1>0, <1>4, <1>5, LocalTrans

LEMMA IntrinsicCleanerLocal ==
  ASSUME NEW m, Tidy(m)
  PROVE  Local(m, IntrinsicCleaner(m)) /\ (Free(m) => Free(IntrinsicCleaner(m)))
<1> DEFINE names == Cleaned(m)
           o == Unreferenced(m, names)
           p == Without(o, names)
<1>1. \A n \in names : ~IsOwn(n)
  <2>1. \A b \in {"memcpy", "uadd.i32", "countLeadingZeros32"} : Plain(N(b))
    BY SupportPlain DEF SupportBases
  <2> QED BY <2>1 DEF Cleaned, Names, Plain, IsOwn, N
<1> HIDE DEF names
<1>2. Local(m, o) /\ DOMAIN o = DOMAIN m
  BY <1>1, UnreferencedMild
<1> HIDE DEF o
<1>3. Local(o, p) /\ DOMAIN p = DOMAIN o \ names
  BY <1>1, <1>2, WithoutMild DEF Local, Mild
<1> HIDE DEF p
<1>4. IntrinsicCleaner(m) = p
  BY DEF IntrinsicCleaner, p, o, names
<1>5. Local(m, p)
  BY <1>2, <1>3, LocalTrans
<1> QED BY <1>2, <1>3, <1>4, <1>5 DEF Free

\* After this pass only main, the trampoline and the stubs are exported.
LEMMA InternalizeFunctionsKept ==
  ASSUME NEW u, NEW fs, NEW m, 1 \in fs, Recoverable(u, fs, m), VarsLocal(m)
  PROVE  Recoverable(u, fs, InternalizeFunctions(m)) /\ OnlyExports(InternalizeFunctions(m))
<1> DEFINE names == Definitions(m) \ ({N("main"), Trampoline} \cup {StubName(f) : f \in Libs})
           o == InternalizeFunctions(m)
           nm == FuncNames(fs)
           internal(s) == [s EXCEPT !.link = "internal"]
<1>1. /\ DOMAIN o = DOMAIN m
      /\ \A n \in DOMAIN m : o[n] = IF n \in names THEN internal(m[n]) ELSE m[n]
  BY DEF InternalizeFunctions, Linked
<1>2. \A n \in DOMAIN m :
        /\ TidySymbol(o[n]) /\ o[n].fn = m[n].fn /\ o[n].def = m[n].def
        /\ o[n].refs = m[n].refs /\ o[n].stubs = m[n].stubs /\ o[n].imports = m[n].imports
        /\ o[n].link = IF n \in names THEN "internal" ELSE m[n].link
  <2> HIDE DEF names, o
  <2> QED BY <1>1 DEF Recoverable, Tidy, TidySymbol, Whole, Record
<1>3. \A n \in DOMAIN m : m[n].fn /\ m[n].def /\ n \notin Exports => n \in names
  BY DEF Definitions, Functions, Exports, Main
<1>4. Main \notin names
  BY DEF Main
<1> HIDE DEF names, o, nm
<1>5. OnlyExports(o)
  BY <1>1, <1>2, <1>3 DEF OnlyExports, VarsLocal
<1>6. Tidy(o) /\ Known(o)
  BY <1>1, <1>2 DEF Recoverable, Tidy, Known
<1>7. Calls(fs, m, nm) /\ Imported(u, fs, m, nm)
  BY DEF Recoverable, nm
<1>8. Calls(fs, o, nm)
  BY <1>1, <1>2, <1>4, <1>7 DEF Calls
<1>9. Imported(u, fs, o, nm)
  BY <1>1, <1>2, <1>7 DEF Calls, Imported
<1> QED BY <1>5, <1>6, <1>8, <1>9 DEF Recoverable, o, nm

LEMMA InternalizeDebugHelpersKept ==
  ASSUME NEW u, NEW fs, NEW m, NEW nm, Records(m), 1 \in fs,
         Calls(fs, m, nm), Bound(u, fs, m, nm), OnlyExports(m)
  PROVE  LET o == InternalizeDebugHelpers(m)
         IN  /\ Calls(fs, o, nm) /\ Bound(u, fs, o, nm) /\ OnlyExports(o)
             /\ DOMAIN o = DOMAIN m /\ Records(o)
<1> DEFINE names == {n \in Definitions(m) : n[1] \in HelperNames}
           o == InternalizeDebugHelpers(m)
           internal(s) == [s EXCEPT !.link = "internal"]
<1>1. /\ DOMAIN o = DOMAIN m
      /\ \A n \in DOMAIN m : o[n] = IF n \in names THEN internal(m[n]) ELSE m[n]
  BY DEF InternalizeDebugHelpers, Linked
<1>2. Main \notin names
  BY DEF Main, N, HelperNames
<1> HIDE DEF names, o
<1>3. \A n \in DOMAIN m :
        /\ Whole(o[n]) /\ o[n].fn = m[n].fn /\ o[n].def = m[n].def
        /\ o[n].refs = m[n].refs /\ o[n].stubs = m[n].stubs /\ o[n].imports = m[n].imports
        /\ o[n].link = IF n \in names THEN "internal" ELSE m[n].link
  BY <1>1 DEF Records, Whole, Record
<1>4. Calls(fs, o, nm)
  BY <1>1, <1>2, <1>3 DEF Calls
<1>5. Bound(u, fs, o, nm)
  BY <1>1, <1>3 DEF Calls, Bound
<1>6. OnlyExports(o)
  BY <1>1, <1>3 DEF OnlyExports
<1> QED BY <1>1, <1>3, <1>4, <1>5, <1>6 DEF Records, o

-----------------------------------------------------------------------------
(* Data imports are bound, and functions are named.                        *)

LEMMA GlobalizeDataImportsKept ==
  ASSUME NEW u, NEW fs, NEW m, NEW nm, Tidy(m), Free(m), OnlyExports(m), 1 \in fs,
         Calls(fs, m, nm), Imported(u, fs, m, nm)
  PROVE  LET o == GlobalizeDataImports(m)
         IN  /\ Calls(fs, o, nm) /\ Bound(u, fs, o, nm) /\ OnlyExports(o) /\ Records(o)
             /\ DOMAIN m \subseteq DOMAIN o
<1> DEFINE var(i) == IF N(i) \in DOMAIN m THEN <<i, 1>> ELSE N(i)
           changed == [n \in DOMAIN m |->
                         [m[n] EXCEPT !.refs = @ \cup {var(i) : i \in m[n].imports},
                                      !.imports = @ \ Imports]]
           names == {var(i) : i \in Imports}
           o == Declared(changed, names, VarDecl)
<1>0. GlobalizeDataImports(m) = o
  BY DEF GlobalizeDataImports
<1>1. \A i \in Imports : var(i) = N(i) /\ N(i) \notin DOMAIN m
  BY DEF Free, IsImport, N
<1>2. ASSUME NEW n \in DOMAIN m
      PROVE  /\ Whole(changed[n]) /\ changed[n].fn = m[n].fn /\ changed[n].def = m[n].def
             /\ changed[n].link = m[n].link /\ changed[n].stubs = m[n].stubs
             /\ changed[n].imports = {}
             /\ changed[n].refs = m[n].refs \cup {var(i) : i \in m[n].imports}
  <2> DEFINE s == m[n]
             r == s.refs \cup {var(i) : i \in s.imports}
             d == s.imports \ Imports
             s1 == [s EXCEPT !.refs = r]
             s2 == [s1 EXCEPT !.imports = d]
  <2>0. TidySymbol(s)
    BY DEF Tidy
  <2>1. changed[n] = s2
    <3>1. s1.imports = s.imports
      BY <2>0 DEF TidySymbol, Whole, Record
    <3> HIDE DEF s, var
    <3> QED BY <3>1 DEF s
  <2>2. d = {}
    BY <2>0 DEF TidySymbol
  <2> HIDE DEF s, r, d, changed
  <2>3. s1 = Record(s.fn, s.def, s.link, r, s.fields, s.stubs, s.calls, s.imports)
    BY <2>0 DEF TidySymbol, Whole, Record
  <2>4. s2 = Record(s.fn, s.def, s.link, r, s.fields, s.stubs, s.calls, d)
    <3> HIDE DEF s1
    <3> QED BY <2>3 DEF Record
  <2> HIDE DEF s2
  <2>5. /\ Whole(s2) /\ s2.fn = s.fn /\ s2.def = s.def /\ s2.link = s.link
        /\ s2.stubs = s.stubs /\ s2.imports = d /\ s2.refs = r
    BY <2>4 DEF Whole, Record
  <2> QED BY <2>1, <2>2, <2>5 DEF s, r
<1>3. /\ DOMAIN o = DOMAIN m \cup names
      /\ \A n \in DOMAIN m : o[n] = changed[n]
      /\ \A n \in names \ DOMAIN m : o[n] = VarDecl
  <2>1. DOMAIN changed = DOMAIN m
    OBVIOUS
  <2> HIDE DEF changed, names
  <2> QED BY <2>1 DEF Declared, And
<1> HIDE DEF changed, o
<1>4. OnlyExports(o) /\ Records(o)
  <2>1. Whole(VarDecl) /\ ~VarDecl.def
    BY DEF Whole, Record, VarDecl, Sym
  <2> HIDE DEF names
  <2> QED BY <1>2, <1>3, <2>1 DEF OnlyExports, Records
<1>5. Calls(fs, o, nm)
  <2>1. \A n \in DOMAIN m : /\ n \in DOMAIN o /\ o[n].fn = m[n].fn /\ o[n].def = m[n].def
                            /\ o[n].link = m[n].link /\ o[n].stubs = m[n].stubs
                            /\ m[n].refs \subseteq o[n].refs
    BY <1>2, <1>3
  <2>2. 1 \in fs /\ nm[1] \in DOMAIN m
    BY DEF Calls
  <2> QED BY <2>1, <2>2 DEF Calls
<1>6. Bound(u, fs, o, nm)
  <2> SUFFICES ASSUME NEW b \in fs, u[b] \in Imports
               PROVE  /\ o[nm[b]].imports = {} /\ N(u[b]) \in o[nm[b]].refs
                      /\ N(u[b]) \in DOMAIN o /\ ~o[N(u[b])].def
    BY DEF Bound
  <2>1. nm[b] \in DOMAIN m /\ u[b] \in m[nm[b]].imports
    BY DEF Calls, Imported
  <2>2. o[nm[b]].imports = {} /\ N(u[b]) \in o[nm[b]].refs
    BY <1>1, <1>2, <1>3, <2>1
  <2>3. N(u[b]) \in names \ DOMAIN m
    BY <1>1
  <2> HIDE DEF names
  <2> QED BY <1>3, <2>2, <2>3 DEF VarDecl, Sym
<1> HIDE DEF names
<1> QED BY <1>0, <1>3, <1>4, <1>5, <1>6

\* The numbers of functions whose names would be the same differ.
LEMMA NumbersDiffer ==
  ASSUME NEW named, named \subseteq DOMAIN SymbolOf, NEW c \in named, NEW b \in named, b < c,
         SymbolName(b) = SymbolName(c)
  PROVE  LET twins(x) == {y \in named : SymbolName(y) = SymbolName(x) /\ y < x}
         IN  /\ Cardinality(twins(b)) \in Nat /\ Cardinality(twins(c)) \in Nat
             /\ Cardinality(twins(b)) < Cardinality(twins(c))
<1> DEFINE twins(x) == {y \in named : SymbolName(y) = SymbolName(x) /\ y < x}
<1>1. named \subseteq Nat /\ IsFiniteSet(named)
  BY SymbolsAssumption, FS_Subset
<1>2. \A x \in named : IsFiniteSet(twins(x)) /\ Cardinality(twins(x)) \in Nat
  <2> TAKE x \in named
  <2>1. twins(x) \in SUBSET named
    OBVIOUS
  <2> HIDE DEF twins
  <2>2. IsFiniteSet(twins(x))
    BY <1>1, <2>1, FS_Subset
  <2> QED BY <2>2, FS_CardinalityType
<1>3. b \notin twins(b) /\ twins(b) \cup {b} \subseteq twins(c)
  BY <1>1
<1> HIDE DEF twins
<1>4. /\ IsFiniteSet(twins(b) \cup {b})
      /\ Cardinality(twins(b) \cup {b}) = Cardinality(twins(b)) + 1
  BY <1>2, <1>3, FS_AddElement
<1>5. Cardinality(twins(b) \cup {b}) <= Cardinality(twins(c))
  BY <1>2, <1>3, FS_Subset
<1>6. Cardinality(twins(b)) < Cardinality(twins(c))
  BY <1>2, <1>4, <1>5
<1> QED BY <1>2, <1>6 DEF twins

LEMMA TwinsCounted ==
  ASSUME NEW named, named \subseteq DOMAIN SymbolOf, NEW b \in named
  PROVE  Cardinality({y \in named : SymbolName(y) = SymbolName(b) /\ y < b}) \in Nat
<1> DEFINE twins == {y \in named : SymbolName(y) = SymbolName(b) /\ y < b}
<1>1. IsFiniteSet(DOMAIN SymbolOf) /\ twins \in SUBSET DOMAIN SymbolOf
  BY SymbolsAssumption
<1> HIDE DEF twins
<1>2. IsFiniteSet(twins)
  BY <1>1, FS_Subset
<1> QED BY <1>2, FS_CardinalityType DEF twins

LEMMA SymbolNames ==
  \A b \in DOMAIN SymbolOf :
    /\ SymbolName(b) \in FunctionBases /\ SymbolName(b) \notin Imports
    /\ SymbolName(b) # "main" /\ SymbolName(b) # "Func"
<1> DEFINE names == {SymbolName(b) : b \in DOMAIN SymbolOf}
<1>1. {"main", "Func"} \cap names = {} /\ FunctionBases \cap Imports = {}
  BY NamesAssumption
<1>2. names \subseteq FunctionBases
  BY DEF FunctionBases
<1> QED BY <1>1, <1>2

LEMMA FunctionRenamingKept ==
  ASSUME NEW u, NEW fs \in SUBSET Blocks, NEW m, 1 \in fs,
         Recoverable(u, fs, m), Free(m), OnlyExports(m)
  PROVE  LET o == FunctionRenaming(m)
         IN  /\ Tidy(o) /\ Free(o) /\ OnlyExports(o)
             /\ \E nm \in Namings(fs, o) : Calls(fs, o, nm) /\ Imported(u, fs, o, nm)
<1> DEFINE named == {b \in DOMAIN SymbolOf : FuncName(b) \in DOMAIN m}
           twins(b) == {c \in named : SymbolName(c) = SymbolName(b) /\ c < b}
           taken(b) == IF N(SymbolName(b)) \in DOMAIN m THEN 1 ELSE 0
           number(b) == Cardinality(twins(b)) + taken(b)
           renamed(n) == is_lifted_function(n) /\ n[2] \in named
           new(n) == IF renamed(n) THEN <<SymbolName(n[2]), number(n[2])>> ELSE n
           old(n) == CHOOSE k \in DOMAIN m : new(k) = n
           o == [n \in {new(k) : k \in DOMAIN m} |->
                   [m[old(n)] EXCEPT !.refs = {new(r) : r \in @}]]
<1>0. FunctionRenaming(m) = o
  BY DEF FunctionRenaming
<1>1. named \subseteq DOMAIN SymbolOf /\ named \subseteq Nat
  BY SymbolsAssumption
<1>2. \A b \in named : /\ SymbolName(b) \in FunctionBases
                       /\ SymbolName(b) \notin Imports
                       /\ SymbolName(b) # "main" /\ SymbolName(b) # "Func"
  BY <1>1, SymbolNames
<1>3. \A n \in DOMAIN m : renamed(n) => n = FuncName(n[2])
  <2> TAKE n \in DOMAIN m
  <2> HAVE renamed(n)
  <2>1. IsOwn(n)
    BY DEF is_lifted_function, IsOwn, FunctionBases
  <2>2. n # Main /\ n # Wrap
    BY DEF is_lifted_function, Main, Wrap, N
  <2>3. PICK b \in Blocks : n = FuncName(b)
    BY <2>1, <2>2 DEF Recoverable, Known, OwnNames
  <2> QED BY <2>3 DEF FuncName
<1>4. \A b \in named : number(b) \in Nat /\ (N(SymbolName(b)) \in DOMAIN m => number(b) > 0)
  <2> TAKE b \in named
  <2>1. Cardinality(twins(b)) \in Nat
    BY <1>1, TwinsCounted
  <2> HIDE DEF twins
  <2> QED BY <2>1
<1>5. \A b \in named : \A c \in named :
        SymbolName(b) = SymbolName(c) /\ number(b) = number(c) => b = c
  <2> SUFFICES ASSUME NEW b \in named, NEW c \in named, SymbolName(b) = SymbolName(c), b < c
               PROVE  number(b) # number(c)
    BY <1>1
  <2>1. /\ Cardinality(twins(b)) \in Nat /\ Cardinality(twins(c)) \in Nat
        /\ Cardinality(twins(b)) < Cardinality(twins(c))
    BY <1>1, NumbersDiffer
  <2>2. taken(b) = taken(c) /\ taken(b) \in Nat
    OBVIOUS
  <2> HIDE DEF twins, taken
  <2> QED BY <2>1, <2>2
<1> HIDE DEF number
<1>6. ASSUME NEW k \in DOMAIN m, renamed(k)
      PROVE  /\ new(k) \notin {Main, Wrap}
             /\ \A b : new(k) # FuncName(b)
             /\ IsOwn(new(k)) /\ ~IsImport(new(k)) /\ k \notin Exports
             /\ new(k)[1] = SymbolName(k[2])
  <2>1. k[2] \in named /\ new(k) = <<SymbolName(k[2]), number(k[2])>>
    BY <1>6
  <2>2. new(k) # Main /\ \A b : new(k) # FuncName(b)
    BY <1>2, <2>1 DEF Main, N, FuncName
  <2>3. new(k) # Wrap
    <3> SUFFICES ASSUME new(k) = Wrap PROVE FALSE
      OBVIOUS
    <3>1. N(SymbolName(k[2])) = Wrap /\ number(k[2]) = 0
      BY <2>1 DEF Wrap, N
    <3>2. Wrap \in DOMAIN m
      BY DEF Recoverable, Calls
    <3> QED BY <1>4, <2>1, <3>1, <3>2
  <2>4. IsOwn(new(k)) /\ ~IsImport(new(k)) /\ new(k)[1] = SymbolName(k[2])
    BY <1>2, <2>1 DEF IsOwn, IsImport
  <2>5. k \notin Exports
    <3>1. IsOwn(k) /\ k # Main
      BY <1>6 DEF is_lifted_function, IsOwn, FunctionBases, Main, N
    <3>2. Plain(Trampoline) /\ \A f \in Libs : Plain(StubName(f))
      BY SupportPlain, StubPlain DEF SupportBases, Trampoline
    <3> QED BY <3>1, <3>2 DEF Exports, Plain
  <2> QED BY <2>2, <2>3, <2>4, <2>5
<1>7. \A k \in DOMAIN m : ~renamed(k) => new(k) = k
  OBVIOUS
<1>8. ASSUME NEW k \in DOMAIN m, NEW j \in DOMAIN m, new(k) = new(j)
      PROVE  k = j
  <2>1. CASE renamed(k) /\ renamed(j)
    <3>1. /\ new(k) = <<SymbolName(k[2]), number(k[2])>> /\ k[2] \in named
          /\ new(j) = <<SymbolName(j[2]), number(j[2])>> /\ j[2] \in named
      BY <2>1
    <3>2. k[2] = j[2]
      BY <1>5, <1>8, <3>1
    <3> QED BY <1>3, <2>1, <3>2
  <2>2. ASSUME NEW x \in DOMAIN m, NEW y \in DOMAIN m, renamed(x), ~renamed(y), new(x) = new(y)
        PROVE  FALSE
    <3>1. new(y) = y
      BY <2>2
    <3>2. IsOwn(y)
      BY <1>6, <2>2, <3>1
    <3>3. y \in {Main, Wrap} \cup OwnNames(Blocks)
      BY <3>2 DEF Recoverable, Known
    <3> QED BY <1>6, <2>2, <3>1, <3>3 DEF OwnNames
  <2>3. CASE ~renamed(k) /\ ~renamed(j)
    BY <1>7, <1>8, <2>3
  <2> QED BY <1>8, <2>1, <2>2, <2>3
<1>9. \A r : (~IsImport(r) => ~IsImport(new(r)))
  <2> TAKE r
  <2>1. CASE renamed(r)
    <3>1. new(r) = <<SymbolName(r[2]), number(r[2])>> /\ r[2] \in named
      BY <2>1
    <3> QED BY <1>2, <3>1 DEF IsImport
  <2>2. CASE ~renamed(r)
    BY <2>2
  <2> QED BY <2>1, <2>2
<1>10. new(Main) = Main /\ new(Wrap) = Wrap
  BY DEF is_lifted_function, Main, Wrap, N
<1> HIDE DEF new, renamed
<1>11. \A k \in DOMAIN m : new(k) \in DOMAIN o /\ old(new(k)) = k
  <2> TAKE k \in DOMAIN m
  <2>1. old(new(k)) \in DOMAIN m /\ new(old(new(k))) = new(k)
    OBVIOUS
  <2>2. old(new(k)) = k
    BY <1>8, <2>1
  <2> QED BY <2>2
<1>12. \A n \in DOMAIN o : \E k \in DOMAIN m : n = new(k)
  OBVIOUS
<1> HIDE DEF old
<1>13. ASSUME NEW k \in DOMAIN m
       PROVE  LET s == m[k] t == o[new(k)]
              IN  /\ TidySymbol(t) /\ t.fn = s.fn /\ t.def = s.def /\ t.link = s.link
                  /\ t.stubs = s.stubs /\ t.imports = s.imports
                  /\ \A x \in s.refs : new(x) \in t.refs
  <2> DEFINE s == m[k]
             r == {new(x) : x \in s.refs}
             t == [s EXCEPT !.refs = r]
  <2>1. o[new(k)] = t /\ TidySymbol(s)
    BY <1>11 DEF Recoverable, Tidy
  <2>2. (\A x \in r : ~IsImport(x)) /\ \A x \in s.refs : new(x) \in r
    BY <1>9, <2>1 DEF TidySymbol
  <2> HIDE DEF s, r, o
  <2>3. /\ TidySymbol(t) /\ t.fn = s.fn /\ t.def = s.def /\ t.link = s.link
        /\ t.stubs = s.stubs /\ t.imports = s.imports /\ t.refs = r
    BY <2>1, <2>2 DEF TidySymbol, Whole, Record
  <2> QED BY <2>1, <2>2, <2>3 DEF s
<1> HIDE DEF o
<1>14. Free(o)
  BY <1>6, <1>7, <1>12 DEF Free
<1>15. Tidy(o)
  BY <1>12, <1>13, <1>14 DEF Tidy, Free
<1>16. OnlyExports(o)
  <2> SUFFICES ASSUME NEW k \in DOMAIN m, o[new(k)].def, o[new(k)].link # "internal"
               PROVE  new(k) \in Exports
    BY <1>12 DEF OnlyExports
  <2>1. k \in Exports
    BY <1>13 DEF OnlyExports
  <2> QED BY <1>6, <1>7, <2>1
<1> DEFINE om == FuncNames(fs)
           nm == [b \in fs |-> new(om[b])]
<1>17. \A b \in fs : om[b] = FuncName(b) /\ om[b] \in DOMAIN m
  BY FuncNamesOwn DEF Recoverable, Calls
<1>18. Calls(fs, m, om) /\ Imported(u, fs, m, om)
  BY DEF Recoverable
<1> HIDE DEF om
<1>19. nm \in Namings(fs, o)
  <2> SUFFICES ASSUME NEW b \in fs
               PROVE  nm[b] \in DOMAIN o /\ IsOwn(nm[b]) /\ NamedAfter(b, nm[b])
    BY DEF Namings
  <2>1. nm[b] = new(FuncName(b)) /\ FuncName(b) \in DOMAIN m
    BY <1>17
  <2>2. CASE renamed(FuncName(b))
    <3>1. FuncName(b)[2] = b
      BY DEF FuncName
    <3>2. b \in DOMAIN SymbolOf
      BY <2>2, <3>1 DEF renamed
    <3> QED BY <1>6, <1>11, <2>1, <2>2, <3>1, <3>2 DEF NamedAfter
  <2>3. CASE ~renamed(FuncName(b))
    BY <1>7, <1>11, <2>1, <2>3, FuncNamesOwn DEF NamedAfter
  <2> QED BY <2>2, <2>3
<1>20. Calls(fs, o, nm)
  <2>1. \A b \in fs : nm[b] = new(om[b])
    OBVIOUS
  <2> HIDE DEF nm
  <2>2. /\ Main \in DOMAIN o /\ o[Main].fn /\ o[Main].def /\ o[Main].link = "external"
        /\ o[Main].stubs = {} /\ Wrap \in o[Main].refs
    <3>1. Main \in DOMAIN m
      BY <1>18 DEF Calls
    <3> QED BY <1>10, <1>11, <1>13, <1>18, <3>1 DEF Calls
  <2>3. /\ Wrap \in DOMAIN o /\ o[Wrap].fn /\ o[Wrap].def /\ o[Wrap].stubs = {}
        /\ nm[1] \in o[Wrap].refs
    <3>1. Wrap \in DOMAIN m /\ om[1] \in m[Wrap].refs
      BY <1>18 DEF Calls
    <3> QED BY <1>10, <1>11, <1>13, <1>18, <2>1, <3>1 DEF Calls
  <2>4. \A b \in fs : nm[b] \in DOMAIN o /\ o[nm[b]].fn /\ o[nm[b]].def
    BY <1>11, <1>13, <1>17, <1>18, <2>1 DEF Calls
  <2>5. o[nm[1]].stubs = {} /\ \A b \in fs \ {1} : nm[b] \in o[nm[1]].refs
    <3>1. om[1] \in DOMAIN m /\ nm[1] = new(om[1])
      BY <1>17, <2>1
    <3> QED BY <1>13, <1>18, <2>1, <3>1 DEF Calls
  <2> QED BY <2>2, <2>3, <2>4, <2>5 DEF Calls
<1>21. Imported(u, fs, o, nm)
  BY <1>13, <1>17, <1>18 DEF Imported
<1> HIDE DEF nm
<1> QED BY <1>0, <1>14, <1>15, <1>16, <1>19, <1>20, <1>21

-----------------------------------------------------------------------------
(* The stages.                                                             *)

LEMMA FailedLifted == \A sw, u, fs, m : LiftedAt("failed", sw, u, fs, m)
  BY DEF LiftedAt, MergedStages, ExportingStages, LocalStages

LEMMA ExportingStep ==
  ASSUME NEW st \in ExportingStages, NEW u, NEW fs, NEW m, NEW o, 1 \in fs,
         Recoverable(u, fs, m), VarsLocal(m), Local(m, o)
  PROVE  LiftedAt(st, FALSE, u, fs, o)
<1>1. Recoverable(u, fs, o) /\ VarsLocal(o)
  BY RecoverableKept DEF Local
<1> QED BY <1>1 DEF LiftedAt, ExportingStages, MergedStages, LocalStages

\* From the merge on the prepared traces no longer matter.
LEMMA RunInv ==
  ASSUME IInv, NEW name, NEW next \in Stages \ (PreparingStages \cup {"link_prep_1", "merge"}),
         NEW fails, NEW new, NEW swept \in BOOLEAN, Run(name, next, fails, new, swept),
         swept => next \in SweptStages /\ (next # "done" => Tidy(new)),
         ~fails => LiftedAt(next, swept, use, functions, new)
  PROVE  IInv'
<1>1. UNCHANGED <<use, traced, functions, options, prepared>> /\ sweep = FALSE
  BY DEF Run, inputs, IInv, InputsInv
<1>2. CASE fails
  <2>1. stage' = "failed" /\ mod' = mod /\ sweep' = FALSE /\ live' = live
    BY <1>1, <1>2 DEF Run, dce
  <2>2. InputsInv'
    BY <1>1, <2>1 DEF IInv, InputsInv, Stages
  <2>3. SweepAt("failed", FALSE, live, mod)
    BY <1>1 DEF IInv, SweepInv, SweepAt
  <2>4. PreparedAt("failed", use, traced, prepared, mod)
    BY DEF PreparedAt, PreparingStages
  <2> QED BY <1>1, <2>1, <2>2, <2>3, <2>4, FailedLifted
          DEF IInv, SweepInv, PreparedInv, LiftedInv
<1>3. CASE ~fails
  <2>1. stage' = next /\ mod' = new /\ sweep' = swept /\ live' = IF swept THEN Roots(new) ELSE {}
    BY <1>3 DEF Run
  <2>2. InputsInv'
    BY <1>1, <2>1 DEF IInv, InputsInv
  <2>3. SweepAt(next, swept, IF swept THEN Roots(new) ELSE {}, new)
    BY RootsFree DEF SweepAt, Roots
  <2>4. PreparedAt(next, use, traced, prepared, new)
    BY DEF PreparedAt
  <2> QED BY <1>1, <1>3, <2>1, <2>2, <2>3, <2>4 DEF IInv, SweepInv, PreparedInv, LiftedInv
<1> QED BY <1>2, <1>3

LEMMA PreparedLength == ASSUME IsSequence(prepared) PROVE Len(prepared) \in Nat
  BY LenProperties DEF IsSequence

LEMMA InitInv == Init => IInv
<1> SUFFICES ASSUME Init PROVE IInv
  OBVIOUS
<1>1. IsSequence(prepared) /\ Len(prepared) = 0
  <2>1. <<>> \in Seq({})
    OBVIOUS
  <2> QED BY <2>1 DEF Init, IsSequence
<1>2. InputsInv
  BY DEF Init, InputsInv, Stages
<1>3. SweepInv
  BY DEF Init, SweepInv, SweepAt
<1>4. PreparedInv
  BY <1>1, SymbolsAssumption DEF Init, PreparedInv, PreparedAt, PreparingStages
<1>5. LiftedInv
  BY DEF Init, LiftedInv, LiftedAt, MergedStages, ExportingStages, LocalStages
<1> QED BY <1>1, <1>2, <1>3, <1>4, <1>5 DEF IInv

LEMMA GlobalDCEInv ==
  ASSUME IInv, GlobalDCE
  PROVE  IInv'
<1>1. /\ UNCHANGED <<use, traced, functions, options, stage, prepared>>
      /\ sweep /\ stage \in SweptStages /\ sweep \in BOOLEAN
      /\ live \subseteq DOMAIN mod /\ Roots(mod) \subseteq live
      /\ stage # "done" => \A n \in live : ~IsImport(n)
  BY DEF GlobalDCE, inputs, IInv, SweepInv, SweepAt, InputsInv
<1>2. PreparedAt(stage, use, traced, prepared, mod) /\ LiftedAt(stage, sweep, use, functions, mod)
  BY DEF IInv, PreparedInv, LiftedInv
<1>3. 1 \in functions
  BY DEF IInv, InputsInv
<1>4. stage # "done" => Tidy(mod)
  BY <1>1, <1>2 DEF PreparedAt, LiftedAt, Traced, Liftable, Recoverable, SweptStages,
                    PreparingStages, LocalStages
<1>5. CASE Marked(mod, live) # live
  <2>1. live' = Marked(mod, live) /\ mod' = mod /\ sweep' = sweep
    BY <1>5 DEF GlobalDCE
  <2>2. SweepAt(stage, sweep, Marked(mod, live), mod)
    <3>1. Marked(mod, live) \subseteq DOMAIN mod /\ live \subseteq Marked(mod, live)
      BY <1>1 DEF Marked
    <3>2. stage # "done" => \A n \in Marked(mod, live) : ~IsImport(n)
      BY <1>1, <1>4, MarkedFree
    <3> QED BY <1>1, <3>1, <3>2 DEF SweepAt
  <2>3. InputsInv'
    BY <1>1, <2>1 DEF IInv, InputsInv
  <2> QED BY <1>1, <1>2, <2>1, <2>2, <2>3 DEF IInv, SweepInv, PreparedInv, LiftedInv
<1>6. CASE Marked(mod, live) = live
  <2> DEFINE o == Dropped(mod, live)
  <2>1. mod' = o /\ sweep' = FALSE /\ live' = {}
    BY <1>6 DEF GlobalDCE, Dropped
  <2>2. SweepAt(stage, FALSE, {}, o)
    BY DEF SweepAt
  <2>3. InputsInv'
    BY <1>1, <2>1 DEF IInv, InputsInv
  <2>4. PreparedAt(stage, use, traced, prepared, o)
    <3>1. stage # "link_prep_1" /\ stage # "merge"
      BY <1>1 DEF SweptStages, PreparingStages
    <3>2. stage \in PreparingStages => Traced(use, o, traced[Len(prepared) + 1])
      BY <1>1, <1>2, DroppedTraced DEF PreparedAt
    <3> HIDE DEF o
    <3> QED BY <1>2, <3>1, <3>2 DEF PreparedAt
  <2>5. LiftedAt(stage, FALSE, use, functions, o)
    <3>1. CASE stage \in PreparingStages
      BY <3>1 DEF LiftedAt, PreparingStages, MergedStages, ExportingStages, LocalStages
    <3>2. CASE stage = "RecoverFunctions"
      <4>1. Liftable(use, mod) /\ VarsLocal(mod)
        BY <1>2, <3>2 DEF LiftedAt
      <4>2. Liftable(use, o) /\ VarsLocal(o)
        BY <1>1, <1>6, <4>1, DroppedLiftable, DroppedTidy DEF Liftable
      <4> HIDE DEF o
      <4> QED BY <3>2, <4>2 DEF LiftedAt, MergedStages, ExportingStages, LocalStages
    <3>3. CASE stage \in {"UnalignStack", "IntrinsicCleaner"}
      <4>1. Recoverable(use, functions, mod) /\ OnlyExports(mod)
        BY <1>2, <3>3 DEF LiftedAt, LocalStages
      <4>2. Recoverable(use, functions, o) /\ OnlyExports(o)
        BY <1>1, <1>3, <1>6, <4>1, DroppedRecoverable, DroppedExports
      <4>3. Free(o)
        BY <1>1, <3>3 DEF Free, Dropped
      <4> HIDE DEF o
      <4> QED BY <3>3, <4>2, <4>3 DEF LiftedAt, MergedStages, ExportingStages, LocalStages
    <3>4. CASE stage = "done"
      <4>1. Records(mod) /\ OnlyExports(mod)
        BY <1>2, <3>4 DEF LiftedAt
      <4>2. PICK nm \in Namings(functions, mod) :
              Calls(functions, mod, nm) /\ Bound(use, functions, mod, nm)
        BY <1>2, <3>4 DEF LiftedAt
      <4>3. Records(o) /\ OnlyExports(o)
        BY <1>1, <4>1, DroppedExports DEF Records, Dropped
      <4>4. Calls(functions, o, nm) /\ Bound(use, functions, o, nm)
        BY <1>1, <1>3, <1>6, <4>2, DroppedCalls
      <4>5. nm \in Namings(functions, o)
        <5>1. \A b \in functions : nm[b] \in live
          BY <1>1, <1>3, <1>6, <4>2, AliveFunctions
        <5> QED BY <4>2, <5>1 DEF Namings, Dropped
      <4> HIDE DEF o
      <4> QED BY <3>4, <4>3, <4>4, <4>5 DEF LiftedAt, MergedStages, ExportingStages, LocalStages
    <3> QED BY <1>1, <3>1, <3>2, <3>3, <3>4 DEF SweptStages
  <2> HIDE DEF o
  <2> QED BY <1>1, <2>1, <2>2, <2>3, <2>4, <2>5 DEF IInv, SweepInv, PreparedInv, LiftedInv
<1> QED BY <1>5, <1>6

LEMMA RunLinkPrep1Inv ==
  ASSUME IInv, RunLinkPrep1
  PROVE  IInv'
<1> DEFINE tr == traced[Len(prepared) + 1]
           new == LinkPrep1(CapturedModule, tr)
<1>1. /\ stage = "link_prep_1" /\ stage' = "link_prep_2" /\ mod' = new /\ sweep' = TRUE
      /\ live' = Roots(new) /\ UNCHANGED <<use, traced, functions, options, prepared>>
  BY DEF RunLinkPrep1, Run, inputs
<1>2. Len(prepared) < Traces /\ \A i \in 1..Len(prepared) : Traced(use, prepared[i], traced[i])
  BY <1>1 DEF IInv, PreparedInv, PreparedAt
<1>3. tr \in SUBSET Blocks
  <2>1. Len(prepared) + 1 \in 1..Traces
    BY <1>2, PreparedLength, SymbolsAssumption DEF IInv
  <2> QED BY <2>1 DEF IInv, InputsInv
<1> HIDE DEF tr
<1>4. Traced(use, new, tr)
  BY <1>3, LinkPrep1Traced
<1> HIDE DEF new
<1>5. SweepAt("link_prep_2", TRUE, Roots(new), new)
  BY <1>4, RootsFree DEF SweepAt, Traced, Roots, SweptStages, PreparingStages
<1>6. PreparedAt("link_prep_2", use, traced, prepared, new)
  BY <1>2, <1>4 DEF PreparedAt, tr
<1>7. LiftedAt("link_prep_2", TRUE, use, functions, new)
  BY DEF LiftedAt, MergedStages, ExportingStages, LocalStages
<1>8. InputsInv'
  BY <1>1 DEF IInv, InputsInv, Stages
<1> QED BY <1>1, <1>5, <1>6, <1>7, <1>8 DEF IInv, SweepInv, PreparedInv, LiftedInv

LEMMA RunLinkPrep2Inv ==
  ASSUME IInv, RunLinkPrep2
  PROVE  IInv'
<1> DEFINE new == LinkPrep2(mod)
           tr == traced[Len(prepared) + 1]
<1>1. /\ stage = "link_prep_2" /\ stage' = "GlobalizeEnv" /\ mod' = new /\ sweep' = TRUE
      /\ live' = Roots(new) /\ UNCHANGED <<use, traced, functions, options, prepared>>
  BY DEF RunLinkPrep2, Run, inputs
<1>2. /\ Len(prepared) < Traces /\ \A i \in 1..Len(prepared) : Traced(use, prepared[i], traced[i])
      /\ Traced(use, mod, tr)
  BY <1>1 DEF IInv, PreparedInv, PreparedAt, PreparingStages
<1>3. Traced(use, new, tr)
  BY <1>2, LinkPrep2Traced
<1> HIDE DEF new
<1>4. SweepAt("GlobalizeEnv", TRUE, Roots(new), new)
  BY <1>3, RootsFree DEF SweepAt, Traced, Roots, SweptStages, PreparingStages
<1>5. PreparedAt("GlobalizeEnv", use, traced, prepared, new)
  BY <1>2, <1>3 DEF PreparedAt
<1>6. LiftedAt("GlobalizeEnv", TRUE, use, functions, new)
  BY DEF LiftedAt, MergedStages, ExportingStages, LocalStages
<1>7. InputsInv'
  BY <1>1 DEF IInv, InputsInv, Stages
<1> QED BY <1>1, <1>4, <1>5, <1>6, <1>7 DEF IInv, SweepInv, PreparedInv, LiftedInv

LEMMA SequenceAppended ==
  ASSUME NEW p, IsSequence(p), NEW e
  PROVE  /\ IsSequence(Append(p, e)) /\ Len(Append(p, e)) = Len(p) + 1
         /\ \A i \in 1..Len(p) : Append(p, e)[i] = p[i]
         /\ Append(p, e)[Len(p) + 1] = e
<1>1. PICK S : p \in Seq(S)
  BY DEF IsSequence
<1>2. p \in Seq(S \cup {e}) /\ e \in S \cup {e}
  BY <1>1
<1> HIDE DEF IsSequence
<1>3. Append(p, e) \in Seq(S \cup {e})
  BY <1>2, AppendProperties
<1> QED BY <1>2, <1>3, AppendProperties DEF IsSequence

LEMMA SequenceTail ==
  ASSUME NEW p, IsSequence(p), p # <<>>
  PROVE  /\ IsSequence(Tail(p)) /\ Len(p) \in Nat /\ Len(p) > 0 /\ Len(Tail(p)) = Len(p) - 1
         /\ \A i \in 1..Len(Tail(p)) : Tail(p)[i] = p[i + 1]
         /\ Head(p) = p[1]
         /\ Tail(p) = <<>> <=> Len(p) = 1
<1>1. PICK S : p \in Seq(S)
  BY DEF IsSequence
<1>2. /\ Tail(p) \in Seq(S) /\ Len(Tail(p)) = Len(p) - 1 /\ Head(p) = p[1]
      /\ \A i \in 1..Len(Tail(p)) : Tail(p)[i] = p[i + 1]
  BY <1>1, HeadTailProperties
<1>3. Len(p) \in Nat /\ Len(p) > 0
  BY <1>1, LenProperties, EmptySeq
<1>4. Tail(p) = <<>> <=> Len(Tail(p)) = 0
  BY <1>2, EmptySeq
<1> QED BY <1>2, <1>3, <1>4 DEF IsSequence

LEMMA RunGlobalizeEnvInv ==
  ASSUME IInv, RunGlobalizeEnv
  PROVE  IInv'
<1> DEFINE k == Len(prepared) + 1
           new == EnvOutOfWay(mod)
           p == Append(prepared, new)
<1>1. /\ stage = "GlobalizeEnv" /\ sweep = FALSE
      /\ UNCHANGED <<use, traced, functions, options, sweep, live>>
  BY DEF RunGlobalizeEnv, inputs, dce, IInv, InputsInv
<1>2. /\ Len(prepared) < Traces /\ \A i \in 1..Len(prepared) : Traced(use, prepared[i], traced[i])
      /\ Traced(use, mod, traced[k])
  BY <1>1 DEF IInv, PreparedInv, PreparedAt, PreparingStages
<1>3. CASE GlobalizeEnvFails(mod)
  <2>1. stage' = "failed" /\ mod' = mod /\ prepared' = prepared
    BY <1>3 DEF RunGlobalizeEnv
  <2>2. SweepAt("failed", FALSE, live, mod) /\ PreparedAt("failed", use, traced, prepared, mod)
    BY <1>1 DEF IInv, SweepInv, SweepAt, PreparedAt, PreparingStages
  <2>3. InputsInv'
    BY <1>1, <2>1 DEF IInv, InputsInv, Stages
  <2> QED BY <1>1, <2>1, <2>2, <2>3, FailedLifted DEF IInv, SweepInv, PreparedInv, LiftedInv
<1>4. CASE ~GlobalizeEnvFails(mod)
  <2>1. /\ prepared' = p /\ mod' = Empty
        /\ stage' = IF k < Traces THEN "link_prep_1" ELSE "merge"
    BY <1>4 DEF RunGlobalizeEnv
  <2>2. Traced(use, new, traced[k])
    BY <1>2, GlobalizeEnvTraced, RenameEnvTraced DEF EnvOutOfWay
  <2> HIDE DEF new
  <2>3. /\ IsSequence(p) /\ Len(p) = k /\ Len(prepared) \in Nat
        /\ \A i \in 1..Len(prepared) : p[i] = prepared[i]
        /\ p[k] = new
    BY SequenceAppended, PreparedLength DEF IInv
  <2> HIDE DEF p
  <2>4. \A i \in 1..Len(p) : Traced(use, p[i], traced[i])
    <3> TAKE i \in 1..Len(p)
    <3>1. CASE i = k
      BY <2>2, <2>3, <3>1
    <3>2. CASE i # k
      <4>1. i \in 1..Len(prepared)
        BY <2>3, <3>2
      <4> QED BY <1>2, <2>3, <4>1
    <3> QED BY <3>1, <3>2
  <2>5. InputsInv'
    BY <1>1, <2>1 DEF IInv, InputsInv, Stages
  <2>6. SweepAt(stage', FALSE, live, Empty)
    BY <1>1 DEF IInv, SweepInv, SweepAt
  <2>7. CASE k < Traces
    <3>1. stage' = "link_prep_1"
      BY <2>1, <2>7
    <3>2. PreparedAt("link_prep_1", use, traced, p, Empty)
      BY <2>3, <2>4, <2>7 DEF PreparedAt, PreparingStages
    <3>3. LiftedAt("link_prep_1", FALSE, use, functions, Empty)
      BY DEF LiftedAt, MergedStages, ExportingStages, LocalStages
    <3> QED BY <1>1, <2>1, <2>3, <2>5, <2>6, <3>1, <3>2, <3>3
            DEF IInv, SweepInv, PreparedInv, LiftedInv
  <2>8. CASE ~(k < Traces)
    <3>1. stage' = "merge" /\ k = Traces
      BY <1>2, <2>1, <2>3, <2>8, SymbolsAssumption
    <3>2. Traced(use, Empty, MergedBlocks(traced, Traces - Len(p)))
      <4>1. 1..(Traces - Len(p)) = {}
        BY <2>3, <3>1
      <4>2. MergedBlocks(traced, Traces - Len(p)) = {}
        BY <4>1 DEF MergedBlocks
      <4> QED BY <4>2, NothingTraced
    <3>3. \A i \in 1..Len(p) : Traced(use, p[i], traced[Traces - Len(p) + i])
      <4>1. \A i \in 1..Len(p) : Traces - Len(p) + i = i
        BY <2>3, <3>1
      <4> QED BY <2>4, <4>1
    <3>4. Len(p) <= Traces
      BY <2>3, <3>1
    <3>5. PreparedAt("merge", use, traced, p, Empty)
      BY <3>2, <3>3, <3>4 DEF PreparedAt, PreparingStages
    <3>6. LiftedAt("merge", FALSE, use, functions, Empty)
      BY DEF LiftedAt, MergedStages, ExportingStages, LocalStages
    <3> QED BY <1>1, <2>1, <2>3, <2>5, <2>6, <3>1, <3>5, <3>6
            DEF IInv, SweepInv, PreparedInv, LiftedInv
  <2> QED BY <2>7, <2>8
<1> QED BY <1>3, <1>4

LEMMA MergeInv ==
  ASSUME IInv, Merge
  PROVE  IInv'
<1> DEFINE k == Traces - Len(prepared)
           p == Tail(prepared)
           head == Head(prepared)
           new == IF mod = Empty THEN head ELSE Link(head, mod)
           bs == MergedBlocks(traced, k)
           cs == MergedBlocks(traced, k + 1)
<1>1. /\ stage = "merge" /\ prepared # <<>> /\ mod' = new /\ prepared' = p
      /\ stage' = IF p = <<>> THEN "clean" ELSE stage
      /\ UNCHANGED <<use, traced, functions, options, sweep, live>>
  BY DEF Merge, inputs, dce
<1>2. /\ sweep = FALSE /\ live = {}
  BY <1>1 DEF IInv, InputsInv, SweepInv, SweepAt, SweptStages, PreparingStages
<1>3. /\ Len(prepared) <= Traces /\ Traced(use, mod, bs)
      /\ \A i \in 1..Len(prepared) : Traced(use, prepared[i], traced[k + i])
  BY <1>1 DEF IInv, PreparedInv, PreparedAt, PreparingStages
<1>4. /\ IsSequence(p) /\ Len(prepared) \in Nat /\ Len(prepared) > 0
      /\ Len(p) = Len(prepared) - 1
      /\ \A i \in 1..Len(p) : p[i] = prepared[i + 1]
      /\ head = prepared[1] /\ (p = <<>> <=> Len(prepared) = 1)
  BY <1>1, SequenceTail DEF IInv
<1> HIDE DEF p, head, new, bs, cs
<1>5. /\ k \in Nat /\ Traces - Len(p) = k + 1 /\ Traces \in Nat
  <2>1. Traces \in Nat
    BY SymbolsAssumption
  <2> QED BY <1>3, <1>4, <2>1
<1> HIDE DEF k
<1>6. cs = traced[k + 1] \cup bs
  <2>1. 1..(k + 1) = (1..k) \cup {k + 1}
    BY <1>5
  <2> QED BY <2>1 DEF MergedBlocks, bs, cs
<1>7. Traced(use, head, traced[k + 1])
  BY <1>3, <1>4
<1>8. Traced(use, new, cs)
  <2>1. CASE mod = Empty
    <3>1. bs = {}
      BY <1>3, <2>1 DEF Traced, Empty
    <3> QED BY <1>6, <1>7, <2>1, <3>1 DEF new
  <2>2. CASE mod # Empty
    BY <1>3, <1>6, <1>7, <2>2, MergedTraced DEF new
  <2> QED BY <2>1, <2>2
<1>9. SweepAt(stage', FALSE, {}, new)
  BY DEF SweepAt
<1>10. InputsInv'
  BY <1>1 DEF IInv, InputsInv, Stages
<1>11. CASE p = <<>>
  <2>1. k + 1 = Traces
    <3>1. Len(prepared) = 1
      BY <1>4, <1>11, Zenon
    <3> QED BY <1>5, <3>1 DEF k
  <2>2. cs = Blocks
    BY <2>1 DEF IInv, InputsInv, MergedBlocks, cs
  <2>3. stage' = "clean" /\ LiftedAt("clean", FALSE, use, functions, new)
    BY <1>1, <1>8, <1>11, <2>2 DEF LiftedAt, MergedStages, ExportingStages, LocalStages
  <2>4. PreparedAt("clean", use, traced, p, new)
    BY DEF PreparedAt, PreparingStages
  <2> QED BY <1>1, <1>2, <1>4, <1>9, <1>10, <2>3, <2>4 DEF IInv, SweepInv, PreparedInv, LiftedInv
<1>12. CASE p # <<>>
  <2>1. \A i \in 1..Len(p) : Traced(use, p[i], traced[k + 1 + i])
    <3> TAKE i \in 1..Len(p)
    <3>1. i + 1 \in 1..Len(prepared) /\ k + (i + 1) = k + 1 + i
      BY <1>4, <1>5
    <3> QED BY <1>3, <1>4, <3>1 DEF k
  <2>2. Len(p) <= Traces
    BY <1>3, <1>4, <1>5
  <2>3. PreparedAt("merge", use, traced, p, new)
    BY <1>5, <1>8, <2>1, <2>2 DEF PreparedAt, PreparingStages, cs
  <2>4. stage' = "merge" /\ LiftedAt("merge", FALSE, use, functions, new)
    BY <1>1, <1>12 DEF LiftedAt, MergedStages, ExportingStages, LocalStages
  <2> QED BY <1>1, <1>2, <1>4, <1>9, <1>10, <2>3, <2>4 DEF IInv, SweepInv, PreparedInv, LiftedInv
<1> QED BY <1>11, <1>12

LEMMA CleanInv ==
  ASSUME IInv, Clean
  PROVE  IInv'
<1> DEFINE new == AddCustomHelperVars(RemoveS2EHelpers(mod))
<1>1. stage = "clean" /\ Run("clean", "fixups", TagInstPcFails(mod), new, FALSE)
  BY DEF Clean, Run
<1>2. Traced(use, mod, Blocks)
  BY <1>1 DEF IInv, LiftedInv, LiftedAt, MergedStages
<1>3. Traced(use, new, Blocks)
  BY <1>2, CleanTraced
<1> HIDE DEF new
<1>4. LiftedAt("fixups", FALSE, use, functions, new)
  BY <1>3 DEF LiftedAt, MergedStages, ExportingStages, LocalStages
<1>5. "fixups" \in Stages \ (PreparingStages \cup {"link_prep_1", "merge"})
  BY DEF Stages, PreparingStages
<1> QED BY <1>1, <1>4, <1>5, RunInv

LEMMA ApplyFixupsInv ==
  ASSUME IInv, ApplyFixups
  PROVE  IInv'
<1> DEFINE new == Link(mod, CustomHelpers)
<1>1. stage = "fixups" /\ Run("fixups", "InternalizeGlobals", LinkFails(mod, CustomHelpers), new, FALSE)
  BY DEF ApplyFixups, Run
<1>2. Traced(use, mod, Blocks)
  BY <1>1 DEF IInv, LiftedInv, LiftedAt, MergedStages
<1>3. Liftable(use, new)
  BY <1>2, FixedUp
<1> HIDE DEF new
<1>4. LiftedAt("InternalizeGlobals", FALSE, use, functions, new)
  BY <1>3 DEF LiftedAt, MergedStages, ExportingStages, LocalStages
<1>5. "InternalizeGlobals" \in Stages \ (PreparingStages \cup {"link_prep_1", "merge"})
  BY DEF Stages, PreparingStages
<1> QED BY <1>1, <1>4, <1>5, RunInv

LEMMA RunInternalizeGlobalsInv ==
  ASSUME IInv, RunInternalizeGlobals
  PROVE  IInv'
<1> DEFINE new == InternalizeGlobals(mod)
<1>1. stage = "InternalizeGlobals" /\ Run("InternalizeGlobals", "RecoverFunctions", FALSE, new, TRUE)
  BY DEF RunInternalizeGlobals, Run
<1>2. Liftable(use, mod)
  BY <1>1 DEF IInv, LiftedInv, LiftedAt
<1>3. Liftable(use, new) /\ VarsLocal(new)
  BY <1>2, InternalizeGlobalsKept
<1> HIDE DEF new
<1>4. LiftedAt("RecoverFunctions", TRUE, use, functions, new)
  BY <1>3 DEF LiftedAt, MergedStages, ExportingStages, LocalStages
<1>5. /\ "RecoverFunctions" \in Stages \ (PreparingStages \cup {"link_prep_1", "merge"})
      /\ "RecoverFunctions" \in SweptStages /\ Tidy(new)
  BY <1>3 DEF Stages, PreparingStages, SweptStages, Liftable
<1> QED BY <1>1, <1>4, <1>5, RunInv

LEMMA RunRecoverFunctionsInv ==
  ASSUME IInv, RunRecoverFunctions
  PROVE  IInv'
<1> DEFINE new == RecoverFunctions(mod, functions)
<1>1. /\ stage = "RecoverFunctions"
      /\ Run("RecoverFunctions", "AddMemArray", RecoverFunctionsFails(mod), new, FALSE)
  BY DEF RunRecoverFunctions, Run
<1>2. Liftable(use, mod) /\ VarsLocal(mod)
  BY <1>1 DEF IInv, LiftedInv, LiftedAt
<1>3. Recoverable(use, functions, new) /\ VarsLocal(new)
  BY <1>2, RecoverFunctionsKept DEF IInv, InputsInv
<1> HIDE DEF new
<1>4. LiftedAt("AddMemArray", FALSE, use, functions, new)
  BY <1>3 DEF LiftedAt, MergedStages, ExportingStages, LocalStages
<1>5. "AddMemArray" \in Stages \ (PreparingStages \cup {"link_prep_1", "merge"})
  BY DEF Stages, PreparingStages
<1> QED BY <1>1, <1>4, <1>5, RunInv

LEMMA AtStage ==
  ASSUME IInv
  PROVE  /\ stage \in ExportingStages => /\ Recoverable(use, functions, mod) /\ VarsLocal(mod)
                                         /\ Tidy(mod)
         /\ stage \in LocalStages => /\ Recoverable(use, functions, mod) /\ OnlyExports(mod)
                                     /\ Tidy(mod)
         /\ 1 \in functions /\ functions \in SUBSET Blocks
  BY DEF IInv, InputsInv, LiftedInv, LiftedAt, Recoverable

LEMMA LaterStages ==
  ASSUME NEW next \in ExportingStages \cup LocalStages \cup {"GlobalizeDataImports", "compile", "done"}
  PROVE  next \in Stages \ (PreparingStages \cup {"link_prep_1", "merge"})
  BY DEF Stages, PreparingStages, ExportingStages, LocalStages

\* Passes that leave the functions of the program where they are.
LEMMA RunExporting ==
  ASSUME IInv, NEW name \in ExportingStages, NEW next \in ExportingStages, NEW fails, NEW new,
         Run(name, next, fails, new, FALSE), ~fails => Local(mod, new)
  PROVE  IInv'
<1>1. stage = name
  BY DEF Run
<1>2. ~fails => LiftedAt(next, FALSE, use, functions, new)
  BY <1>1, AtStage, ExportingStep
<1>3. next \in Stages \ (PreparingStages \cup {"link_prep_1", "merge"})
  BY LaterStages
<1> QED BY <1>2, <1>3, RunInv

LEMMA RunAddMemArrayInv ==
  ASSUME IInv, RunAddMemArray
  PROVE  IInv'
<1> DEFINE new == AddMemArray(mod)
           fails == FALSE
<1>1. stage = "AddMemArray" /\ Run("AddMemArray", "ExternPLT", fails, new, FALSE)
  BY DEF RunAddMemArray, Run
<1>2. "AddMemArray" \in ExportingStages /\ "ExternPLT" \in ExportingStages
  BY DEF ExportingStages
<1>3. Tidy(mod)
  BY <1>1, <1>2, AtStage
<1>4. ~fails => Local(mod, new)
  BY <1>3, AddMemArrayLocal
<1> HIDE DEF new, fails
<1> QED BY <1>1, <1>2, <1>4, RunExporting

LEMMA RunExternPLTInv ==
  ASSUME IInv, RunExternPLT
  PROVE  IInv'
<1> DEFINE new == AlwaysInliner(ExternPLT(mod))
           fails == ExternPLTFails(mod)
<1>1. stage = "ExternPLT" /\ Run("ExternPLT", "InlineLibCallArgs", fails, new, FALSE)
  BY DEF RunExternPLT, Run
<1>2. "ExternPLT" \in ExportingStages /\ "InlineLibCallArgs" \in ExportingStages
  BY DEF ExportingStages
<1>3. Tidy(mod)
  BY <1>1, <1>2, AtStage
<1>4. ~fails => Local(mod, new)
  <2> SUFFICES ASSUME ~ExternPLTFails(mod) PROVE Local(mod, new)
    OBVIOUS
  <2>1. Local(mod, ExternPLT(mod))
    BY <1>3, ExternPLTLocal
  <2>2. Local(ExternPLT(mod), new)
    BY <2>1, AlwaysInlinerLocal DEF Local, Mild
  <2> HIDE DEF new
  <2> QED BY <2>1, <2>2, LocalTrans
<1> HIDE DEF new, fails
<1> QED BY <1>1, <1>2, <1>4, RunExporting

LEMMA RunInlineLibCallArgsInv ==
  ASSUME IInv, RunInlineLibCallArgs
  PROVE  IInv'
<1> DEFINE new == AlwaysInliner(InlineLibCallArgs(mod))
           fails == InlineLibCallArgsFails(mod)
<1>1. stage = "InlineLibCallArgs" /\ Run("InlineLibCallArgs", "library", fails, new, FALSE)
  BY DEF RunInlineLibCallArgs, Run
<1>2. "InlineLibCallArgs" \in ExportingStages /\ "library" \in ExportingStages
  BY DEF ExportingStages
<1>3. Tidy(mod)
  BY <1>1, <1>2, AtStage
<1>4. ~fails => Local(mod, new)
  <2>1. Local(mod, InlineLibCallArgs(mod))
    BY <1>3, InlineLibCallArgsLocal
  <2>2. Local(InlineLibCallArgs(mod), new)
    BY <2>1, AlwaysInlinerLocal DEF Local, Mild
  <2> HIDE DEF new
  <2> QED BY <2>1, <2>2, LocalTrans
<1> HIDE DEF new, fails
<1> QED BY <1>1, <1>2, <1>4, RunExporting

LEMMA LinkLibraryInv ==
  ASSUME IInv, LinkLibrary
  PROVE  IInv'
<1> DEFINE new == ImplementLibCallsNewPLT(LibCallNewPLT(ReplaceDynamicSymbols(mod)))
           fails == FALSE
<1>1. stage = "library" /\ Run("library", "InlineQemuOpHelpers", fails, new, FALSE)
  BY DEF LinkLibrary, Run
<1>2. "library" \in ExportingStages /\ "InlineQemuOpHelpers" \in ExportingStages
  BY DEF ExportingStages
<1>3. Tidy(mod)
  BY <1>1, <1>2, AtStage
<1>4. ~fails => Local(mod, new)
  <2> DEFINE m1 == ReplaceDynamicSymbols(mod)
             m2 == LibCallNewPLT(m1)
  <2>1. Local(mod, m1)
    BY <1>3, ReplaceDynamicSymbolsLocal
  <2> HIDE DEF m1
  <2>2. Local(m1, m2)
    BY <2>1, LibCallNewPLTLocal DEF Local, Mild
  <2> HIDE DEF m2
  <2>3. Local(m2, ImplementLibCallsNewPLT(m2))
    BY <2>2, ImplementLibCallsNewPLTLocal DEF Local, Mild
  <2>4. Local(mod, ImplementLibCallsNewPLT(m2))
    BY <2>1, <2>2, <2>3, LocalTrans
  <2> QED BY <2>4 DEF m1, m2
<1> HIDE DEF new, fails
<1> QED BY <1>1, <1>2, <1>4, RunExporting

LEMMA SkipLinkInv ==
  ASSUME IInv, SkipLink
  PROVE  IInv'
<1> DEFINE new == ImplementLibCallStubs(mod)
           fails == FALSE
<1>1. stage = "library" /\ Run("library", "InlineQemuOpHelpers", fails, new, FALSE)
  BY DEF SkipLink, Run
<1>2. "library" \in ExportingStages /\ "InlineQemuOpHelpers" \in ExportingStages
  BY DEF ExportingStages
<1>3. Tidy(mod)
  BY <1>1, <1>2, AtStage
<1>4. ~fails => Local(mod, new)
  BY <1>3, ImplementLibCallStubsLocal
<1> HIDE DEF new, fails
<1> QED BY <1>1, <1>2, <1>4, RunExporting

LEMMA RunInlineQemuOpHelpersInv ==
  ASSUME IInv, RunInlineQemuOpHelpers
  PROVE  IInv'
<1> DEFINE new == IF options.trace_calls THEN CallTracer(InlineQemuOpHelpers(mod))
                  ELSE InlineQemuOpHelpers(mod)
           fails == InlineQemuOpHelpersFails(mod)
<1>1. stage = "InlineQemuOpHelpers" /\ Run("InlineQemuOpHelpers", "InternalizeFunctions", fails, new, FALSE)
  BY DEF RunInlineQemuOpHelpers, Run
<1>2. "InlineQemuOpHelpers" \in ExportingStages /\ "InternalizeFunctions" \in ExportingStages
  BY DEF ExportingStages
<1>3. Tidy(mod)
  BY <1>1, <1>2, AtStage
<1>4. ~fails => Local(mod, new)
  <2> DEFINE m1 == InlineQemuOpHelpers(mod)
  <2>1. Local(mod, m1)
    BY <1>3, InlineQemuOpHelpersLocal
  <2> HIDE DEF m1
  <2>2. Local(m1, CallTracer(m1))
    BY <2>1, CallTracerLocal DEF Local, Mild
  <2>3. Local(mod, CallTracer(m1))
    BY <2>1, <2>2, LocalTrans
  <2> QED BY <2>1, <2>3 DEF m1
<1> HIDE DEF new, fails
<1> QED BY <1>1, <1>2, <1>4, RunExporting

LEMMA RunInternalizeFunctionsInv ==
  ASSUME IInv, RunInternalizeFunctions
  PROVE  IInv'
<1> DEFINE new == InternalizeFunctions(mod)
<1>1. /\ stage = "InternalizeFunctions"
      /\ Run("InternalizeFunctions", "UnalignStack", FALSE, new, TRUE)
  BY DEF RunInternalizeFunctions, Run
<1>2. Recoverable(use, functions, new) /\ OnlyExports(new) /\ Tidy(new)
  <2>1. stage \in ExportingStages
    BY <1>1 DEF ExportingStages
  <2> QED BY <2>1, AtStage, InternalizeFunctionsKept DEF Recoverable
<1> HIDE DEF new
<1>3. LiftedAt("UnalignStack", TRUE, use, functions, new)
  BY <1>2 DEF LiftedAt, MergedStages, ExportingStages, LocalStages
<1>4. "UnalignStack" \in LocalStages /\ "UnalignStack" \in SweptStages
  BY DEF LocalStages, SweptStages
<1> QED BY <1>1, <1>2, <1>3, <1>4, LaterStages, RunInv

LEMMA RunUnalignStackInv ==
  ASSUME IInv, RunUnalignStack
  PROVE  IInv'
<1>1. /\ stage = "UnalignStack" /\ sweep = FALSE
      /\ Run("UnalignStack", "IntrinsicCleaner", UnalignStackFails(mod), mod, TRUE)
  BY DEF RunUnalignStack, Run, IInv, InputsInv
<1>2. Recoverable(use, functions, mod) /\ OnlyExports(mod) /\ Tidy(mod)
  <2>1. stage \in LocalStages
    BY <1>1 DEF LocalStages
  <2> QED BY <2>1, AtStage
<1>3. Free(mod)
  BY <1>1 DEF IInv, LiftedInv, LiftedAt
<1>4. LiftedAt("IntrinsicCleaner", TRUE, use, functions, mod)
  BY <1>2, <1>3 DEF LiftedAt, MergedStages, ExportingStages, LocalStages
<1>5. "IntrinsicCleaner" \in LocalStages /\ "IntrinsicCleaner" \in SweptStages
  BY DEF LocalStages, SweptStages
<1> QED BY <1>1, <1>2, <1>4, <1>5, LaterStages, RunInv

LEMMA RunIntrinsicCleanerInv ==
  ASSUME IInv, RunIntrinsicCleaner
  PROVE  IInv'
<1> DEFINE new == IntrinsicCleaner(mod)
<1>1. /\ stage = "IntrinsicCleaner"
      /\ Run("IntrinsicCleaner", "FunctionRenaming", IntrinsicCleanerFails(mod), new, FALSE)
  BY DEF RunIntrinsicCleaner, Run
<1>2. Recoverable(use, functions, mod) /\ OnlyExports(mod) /\ Tidy(mod) /\ 1 \in functions
  <2>1. stage \in LocalStages
    BY <1>1 DEF LocalStages
  <2> QED BY <2>1, AtStage
<1>3. Free(mod)
  BY <1>1 DEF IInv, LiftedInv, LiftedAt
<1>4. Local(mod, new) /\ Free(new)
  BY <1>2, <1>3, IntrinsicCleanerLocal
<1> HIDE DEF new
<1>5. Recoverable(use, functions, new) /\ OnlyExports(new)
  BY <1>2, <1>4, RecoverableKept DEF Local
<1>6. LiftedAt("FunctionRenaming", FALSE, use, functions, new)
  BY <1>4, <1>5 DEF LiftedAt, MergedStages, ExportingStages, LocalStages
<1>7. "FunctionRenaming" \in LocalStages
  BY DEF LocalStages
<1> QED BY <1>1, <1>6, <1>7, LaterStages, RunInv

LEMMA RunFunctionRenamingInv ==
  ASSUME IInv, RunFunctionRenaming
  PROVE  IInv'
<1> DEFINE new == FunctionRenaming(mod)
<1>1. /\ stage = "FunctionRenaming"
      /\ Run("FunctionRenaming", "GlobalizeDataImports", FALSE, new, FALSE)
  BY DEF RunFunctionRenaming, Run
<1>2. /\ Recoverable(use, functions, mod) /\ OnlyExports(mod)
      /\ 1 \in functions /\ functions \in SUBSET Blocks
  <2>1. stage \in LocalStages
    BY <1>1 DEF LocalStages
  <2> QED BY <2>1, AtStage
<1>3. Free(mod)
  BY <1>1 DEF IInv, LiftedInv, LiftedAt
<1>4. /\ Tidy(new) /\ Free(new) /\ OnlyExports(new)
      /\ \E nm \in Namings(functions, new) :
           Calls(functions, new, nm) /\ Imported(use, functions, new, nm)
  BY <1>2, <1>3, FunctionRenamingKept
<1> HIDE DEF new
<1>5. LiftedAt("GlobalizeDataImports", FALSE, use, functions, new)
  BY <1>4 DEF LiftedAt, MergedStages, ExportingStages, LocalStages
<1> QED BY <1>1, <1>5, LaterStages, RunInv

LEMMA RunGlobalizeDataImportsInv ==
  ASSUME IInv, RunGlobalizeDataImports
  PROVE  IInv'
<1> DEFINE new == GlobalizeDataImports(mod)
<1>1. /\ stage = "GlobalizeDataImports"
      /\ Run("GlobalizeDataImports", "compile", FALSE, new, FALSE)
  BY DEF RunGlobalizeDataImports, Run
<1>2. Tidy(mod) /\ Free(mod) /\ OnlyExports(mod)
  BY <1>1 DEF IInv, LiftedInv, LiftedAt
<1>3. PICK nm \in Namings(functions, mod) :
        Calls(functions, mod, nm) /\ Imported(use, functions, mod, nm)
  BY <1>1 DEF IInv, LiftedInv, LiftedAt
<1>4. /\ Calls(functions, new, nm) /\ Bound(use, functions, new, nm) /\ OnlyExports(new)
      /\ Records(new) /\ DOMAIN mod \subseteq DOMAIN new
  BY <1>2, <1>3, AtStage, GlobalizeDataImportsKept
<1> HIDE DEF new
<1>5. nm \in Namings(functions, new)
  BY <1>3, <1>4 DEF Namings
<1>6. LiftedAt("compile", FALSE, use, functions, new)
  BY <1>4, <1>5 DEF LiftedAt, MergedStages, ExportingStages, LocalStages
<1> QED BY <1>1, <1>6, LaterStages, RunInv

LEMMA CompileInv ==
  ASSUME IInv, Compile
  PROVE  IInv'
<1> DEFINE new == InternalizeDebugHelpers(mod)
<1>1. stage = "compile" /\ Run("compile", "done", FALSE, new, TRUE)
  BY DEF Compile, Run
<1>2. Records(mod) /\ OnlyExports(mod)
  BY <1>1 DEF IInv, LiftedInv, LiftedAt
<1>3. PICK nm \in Namings(functions, mod) :
        Calls(functions, mod, nm) /\ Bound(use, functions, mod, nm)
  BY <1>1 DEF IInv, LiftedInv, LiftedAt
<1>4. /\ Calls(functions, new, nm) /\ Bound(use, functions, new, nm) /\ OnlyExports(new)
      /\ Records(new) /\ DOMAIN new = DOMAIN mod
  BY <1>2, <1>3, AtStage, InternalizeDebugHelpersKept
<1> HIDE DEF new
<1>5. nm \in Namings(functions, new)
  BY <1>3, <1>4 DEF Namings
<1>6. LiftedAt("done", TRUE, use, functions, new)
  BY <1>4, <1>5 DEF LiftedAt, MergedStages, ExportingStages, LocalStages
<1>7. "done" \in SweptStages
  BY DEF SweptStages
<1> QED BY <1>1, <1>6, <1>7, LaterStages, RunInv

LEMMA NextInv == IInv /\ [Next]_vars => IInv'
<1> SUFFICES ASSUME IInv, [Next]_vars PROVE IInv'
  OBVIOUS
<1>1. CASE UNCHANGED vars
  BY <1>1 DEF vars, inputs, dce, IInv, InputsInv, SweepInv, PreparedInv, LiftedInv
<1>2. CASE Next
  <2>1. CASE GlobalDCE
    BY <2>1, GlobalDCEInv
  <2>2. CASE RunLinkPrep1
    BY <2>2, RunLinkPrep1Inv
  <2>3. CASE RunLinkPrep2
    BY <2>3, RunLinkPrep2Inv
  <2>4. CASE RunGlobalizeEnv
    BY <2>4, RunGlobalizeEnvInv
  <2>5. CASE Merge
    BY <2>5, MergeInv
  <2>6. CASE Clean
    BY <2>6, CleanInv
  <2>7. CASE ApplyFixups
    BY <2>7, ApplyFixupsInv
  <2>8. CASE RunInternalizeGlobals
    BY <2>8, RunInternalizeGlobalsInv
  <2>9. CASE RunRecoverFunctions
    BY <2>9, RunRecoverFunctionsInv
  <2>10. CASE RunAddMemArray
    BY <2>10, RunAddMemArrayInv
  <2>11. CASE RunExternPLT
    BY <2>11, RunExternPLTInv
  <2>12. CASE RunInlineLibCallArgs
    BY <2>12, RunInlineLibCallArgsInv
  <2>13. CASE LinkLibrary
    BY <2>13, LinkLibraryInv
  <2>14. CASE SkipLink
    BY <2>14, SkipLinkInv
  <2>15. CASE RunInlineQemuOpHelpers
    BY <2>15, RunInlineQemuOpHelpersInv
  <2>16. CASE RunInternalizeFunctions
    BY <2>16, RunInternalizeFunctionsInv
  <2>17. CASE RunUnalignStack
    BY <2>17, RunUnalignStackInv
  <2>18. CASE RunIntrinsicCleaner
    BY <2>18, RunIntrinsicCleanerInv
  <2>19. CASE RunFunctionRenaming
    BY <2>19, RunFunctionRenamingInv
  <2>20. CASE RunGlobalizeDataImports
    BY <2>20, RunGlobalizeDataImportsInv
  <2>21. CASE Compile
    BY <2>21, CompileInv
  <2> QED BY <1>2, <2>1, <2>2, <2>3, <2>4, <2>5, <2>6, <2>7, <2>8, <2>9, <2>10, <2>11,
             <2>12, <2>13, <2>14, <2>15, <2>16, <2>17, <2>18, <2>19, <2>20, <2>21 DEF Next
<1> QED BY <1>1, <1>2

LEMMA AlwaysIInv == Spec => []IInv
  BY InitInv, NextInv, PTL DEF Spec

-----------------------------------------------------------------------------
(* What it is for.                                                         *)

LEMMA RecoveredNames ==
  ASSUME NEW b, NEW n \in DOMAIN mod, NamedAfter(b, n)
  PROVE  n \in Recovered(b)
  BY DEF NamedAfter, Recovered, Wrap

LEMMA FunctionsHeld ==
  ASSUME IInv, stage \in {"GlobalizeDataImports", "compile", "done"}
  PROVE  \E nm \in Namings(functions, mod) :
           Calls(functions, mod, nm) /\ (stage = "done" => Bound(use, functions, mod, nm))
  BY DEF IInv, LiftedInv, LiftedAt

\* No stage after the merge loses the code of a function of the program: dead code
\* elimination keeps what main leads to, and no renaming makes two functions one.
THEOREM FunctionsKept == Spec => []CodeKept
<1>1. IInv => CodeKept
  <2> SUFFICES ASSUME IInv,
                      stage \notin {"link_prep_1", "link_prep_2", "GlobalizeEnv", "merge", "failed"},
                      NEW b \in functions
               PROVE  \E n \in Recovered(b) : mod[n].fn /\ mod[n].def
    BY DEF CodeKept
  <2>1. b \in Blocks
    BY DEF IInv, InputsInv
  <2>2. CASE stage \in MergedStages \cup {"InternalizeGlobals", "RecoverFunctions"}
    <3>1. FuncName(b) \in DOMAIN mod /\ BlockKept(use, b, mod[FuncName(b)])
      BY <2>1, <2>2 DEF IInv, LiftedInv, LiftedAt, Traced, Liftable
    <3>2. FuncName(b) \in Recovered(b)
      BY <3>1 DEF Recovered
    <3> QED BY <3>1, <3>2 DEF BlockKept
  <2>3. CASE stage \in ExportingStages \cup LocalStages
    <3>1. Calls(functions, mod, FuncNames(functions))
      BY <2>3, AtStage DEF Recoverable
    <3>2. FuncName(b) \in DOMAIN mod /\ mod[FuncName(b)].fn /\ mod[FuncName(b)].def
      BY <3>1, FuncNamesOwn DEF Calls
    <3>3. FuncName(b) \in Recovered(b)
      BY <3>2 DEF Recovered
    <3> QED BY <3>2, <3>3
  <2>4. CASE stage \in {"GlobalizeDataImports", "compile", "done"}
    <3>1. PICK nm \in Namings(functions, mod) : Calls(functions, mod, nm)
      BY <2>4, FunctionsHeld
    <3>2. /\ nm[b] \in DOMAIN mod /\ mod[nm[b]].fn /\ mod[nm[b]].def
          /\ NamedAfter(b, nm[b])
      BY <3>1 DEF Calls, Namings
    <3> QED BY <3>2, RecoveredNames
  <2> QED BY <2>2, <2>3, <2>4
          DEF IInv, InputsInv, Stages, MergedStages, ExportingStages, LocalStages
<1> QED BY <1>1, AlwaysIInv, PTL

\* No definition of the object file takes the place of a library function: all that
\* is exported is main, the trampoline and the stubs.
THEOREM LibrariesUnshadowed == Spec => []NothingShadowed
<1>1. IInv => NothingShadowed
  <2> SUFFICES ASSUME IInv, Done, NEW n \in Names(Libs) \cap DOMAIN mod, mod[n].def,
                      mod[n].link # "internal"
               PROVE  FALSE
    BY DEF NothingShadowed
  <2>1. OnlyExports(mod)
    BY DEF IInv, LiftedInv, LiftedAt, Done
  <2>2. n \in Exports
    BY <2>1 DEF OnlyExports
  <2>3. PICK f \in Libs : n = N(f)
    BY DEF Names
  <2>4. n # Main
    <3>1. ~IsOwn(n) /\ IsOwn(Main)
      BY <2>3, SupportPlain DEF Plain, IsOwn, Main, N, FunctionBases
    <3> QED BY <3>1
  <2> DEFINE stubs == {StubName(g)[1] : g \in Libs}
  <2>5. Libs \cap (stubs \cup {"helper_stub_trampoline"}) = {}
    BY NamesAssumption
  <2>6. n[1] = f
    BY <2>3 DEF N
  <2>7. n # Trampoline /\ \A g \in Libs : n # StubName(g)
    BY <2>5, <2>6 DEF Trampoline, N
  <2> QED BY <2>2, <2>4, <2>7 DEF Exports
<1> QED BY <1>1, AlwaysIInv, PTL

\* The code of a function refers to its data import by name in the end, and leaves
\* it to be defined elsewhere.
THEOREM DataImportsBound == Spec => []ImportsBound
<1>1. IInv => ImportsBound
  <2> SUFFICES ASSUME IInv, Done, NEW b \in functions, use[b] \in Imports
               PROVE  \E n \in Recovered(b) :
                        /\ mod[n].imports = {} /\ N(use[b]) \in mod[n].refs
                        /\ ~mod[N(use[b])].def
    BY DEF ImportsBound
  <2>1. PICK nm \in Namings(functions, mod) :
          Calls(functions, mod, nm) /\ Bound(use, functions, mod, nm)
    BY FunctionsHeld DEF Done
  <2>2. nm[b] \in DOMAIN mod /\ NamedAfter(b, nm[b])
    BY <2>1 DEF Calls, Namings
  <2>3. /\ mod[nm[b]].imports = {} /\ N(use[b]) \in mod[nm[b]].refs
        /\ ~mod[N(use[b])].def
    BY <2>1 DEF Bound
  <2> QED BY <2>2, <2>3, RecoveredNames
<1> QED BY <1>1, AlwaysIInv, PTL
=============================================================================
