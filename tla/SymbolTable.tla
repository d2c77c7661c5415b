----------------------------- MODULE SymbolTable -----------------------------
(***************************************************************************)
(* An LLVM module as the table of its functions and variables: which are   *)
(* defined, their linkage, and what their code refers to.  What LLVM does  *)
(* with such a table (external): dead symbols are found, calls inlined,    *)
(* two modules are linked.                                                 *)
(***************************************************************************)
EXTENDS Naturals, FiniteSets

\* A name and the number LLVM appends when the name is taken: f, f.1, ...
Name == STRING \X Nat
N(base) == <<base, 0>>
Names(bases) == {N(b) : b \in bases}

\* fn       a function, not a variable
\* def      it has a body or an initializer
\* refs     the names its code refers to
\* fields   the fields of CPUX86State it accesses
\* stubs    the library functions of its PLT blocks (extern_symbol)
\* calls    those called by helper_stub_trampoline (funcname)
\* imports  the data imports whose address is a constant of its code
Symbol ==
  [fn : BOOLEAN, def : BOOLEAN, link : {"external", "internal", "private"},
   refs : SUBSET Name, fields : SUBSET STRING, stubs : SUBSET STRING,
   calls : SUBSET STRING, imports : SUBSET STRING]

Sym(fn, def, refs) ==
  [fn |-> fn, def |-> def, link |-> "external", refs |-> refs,
   fields |-> {}, stubs |-> {}, calls |-> {}, imports |-> {}]

Func(refs)  == Sym(TRUE, TRUE, refs)
FuncDecl    == Sym(TRUE, FALSE, {})
Var         == Sym(FALSE, TRUE, {})
VarDecl     == Sym(FALSE, FALSE, {})

Empty == [n \in {} |-> FuncDecl]

Functions(m)   == {n \in DOMAIN m : m[n].fn}
Definitions(m) == {n \in Functions(m) : m[n].def}
Variables(m)   == DOMAIN m \ Functions(m)

Linked(m, names, link) ==
  [n \in DOMAIN m |-> IF n \in names THEN [m[n] EXCEPT !.link = link] ELSE m[n]]

\* Function::deleteBody; the declaration is external.
Unimplemented(m, names) ==
  [n \in DOMAIN m |-> IF n \in names \cap Definitions(m) THEN FuncDecl ELSE m[n]]

Without(m, names) == [n \in DOMAIN m \ names |-> m[n]]

\* A module and what another has besides.
And(m, o) == [n \in DOMAIN m \cup DOMAIN o |-> IF n \in DOMAIN m THEN m[n] ELSE o[n]]

\* getOrInsertFunction, getOrInsertGlobal: a name that exists is left as it is.
Declared(m, names, decl) == And(m, [n \in names |-> decl])

\* Instructions that use the names are erased.
Unreferenced(m, names) == [n \in DOMAIN m |-> [m[n] EXCEPT !.refs = @ \ names]]

Users(m, n) == {u \in DOMAIN m : n \in m[u].refs}

\* GlobalDCE keeps what other modules may use, and what the code of anything it
\* keeps refers to.
Roots(m) == {n \in DOMAIN m : m[n].def /\ m[n].link = "external"}

Marked(m, live) == live \cup {n \in DOMAIN m : \E u \in live : n \in m[u].refs}

\* The symbol whose code has the code of the functions of names in place of calls.
Inlined(m, s, names) ==
  LET inner == s.refs \cap names IN
  [s EXCEPT !.refs = (@ \ names) \cup UNION {m[n].refs : n \in inner},
            !.fields = @ \cup UNION {m[n].fields : n \in inner},
            !.calls = @ \cup UNION {m[n].calls : n \in inner},
            !.imports = @ \cup UNION {m[n].imports : n \in inner}]

InlinedAll(m, names) == [n \in DOMAIN m |-> Inlined(m, m[n], names)]

\* Modules link unless both define a name for others.
Shared(m, n) == n \in DOMAIN m /\ m[n].link = "external"

LinkFails(m, o) ==
  \E n \in DOMAIN m \cap DOMAIN o : Shared(m, n) /\ Shared(o, n) /\ m[n].def /\ o[n].def

\* Renamed(m, names): the names get the next free number, in code as well.
Renamed(m, names, taken) ==
  LET used(b)  == {n[2] : n \in {k \in DOMAIN m \cup taken : k[1] = b}}
      new(n)   == IF n \in names THEN <<n[1], Cardinality(used(n[1]))>> ELSE n
      old(n)   == CHOOSE k \in DOMAIN m : new(k) = n
  IN  [n \in {new(k) : k \in DOMAIN m} |->
         [m[old(n)] EXCEPT !.refs = {new(r) : r \in @}]]

\* A local name that the other module has too is renamed; where both define a name
\* (llvm-link -override) the second wins.
Link(m, o) ==
  LET common == DOMAIN m \cap DOMAIN o
      first  == Renamed(m, {n \in common : ~Shared(m, n) /\ Shared(o, n)}, DOMAIN o)
      second == Renamed(o, {n \in common : ~Shared(o, n)}, DOMAIN m)
  IN  [n \in DOMAIN first \cup DOMAIN second |->
         IF n \in DOMAIN second /\ (second[n].def \/ n \notin DOMAIN first)
         THEN second[n] ELSE first[n]]

\* What the verifier asks of a module: names are known and local ones defined.
WellFormed(m) ==
  \A n \in DOMAIN m :
    /\ m[n].refs \subseteq DOMAIN m
    /\ m[n].link = "external" \/ m[n].def
=============================================================================
