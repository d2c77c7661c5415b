------------------------------ MODULE MCLinking ------------------------------
(***************************************************************************)
(* Instances of Linking: a binary with all kinds of sections, also one     *)
(* with a flag of its processor, one whose sections have names that differ *)
(* only in a dot and a dash, one with a .tbss that shares its addresses    *)
(* with the section after it, and one that reaches up to the new code.     *)
(* (Any file may turn out to be no binary.)                                *)
(***************************************************************************)
EXTENDS Linking

Dot(parts) == <<".">> \o parts

Bits(name, addr, size, data) ==
  [name |-> Dot(name), addr |-> addr, size |-> size, nobits |-> FALSE,
   flags |-> {"write", "alloc"}, data |-> data]
NoBits(name, addr, size) ==
  [name |-> Dot(name), addr |-> addr, size |-> size, nobits |-> TRUE,
   flags |-> {"write", "alloc"}, data |-> ""]

Flagged(section, flags) == [section EXCEPT !.flags = flags]

ELF(sections) == [kind |-> "elf", sections |-> sections]

MCBinaries ==
  { ELF(<<Bits(<<"data">>, 1, 2, "a"), NoBits(<<"bss">>, 3, 1),
          Flagged(Bits(<<"large">>, 4, 1, "p"), {"write", "alloc", "proc"}),
          Flagged(Bits(<<"comment">>, 0, 1, "c"), {})>>),
    ELF(<<Bits(<<"x", ".", "y">>, 1, 1, "d"), Bits(<<"x", "-", "y">>, 2, 1, "e")>>),
    ELF(<<NoBits(<<"tbss">>, 2, 1), Bits(<<"data">>, 2, 1, "f")>>),
    ELF(<<Bits(<<"data">>, 5, 4, "g")>>) }

\* How lift.py calls lift, and every way to call it.
MCUsed == {<<TRUE, FALSE, FALSE>>}
MCAllFlags == BOOLEAN \X BOOLEAN \X BOOLEAN

MCNewCode == [addr |-> 7, size |-> 2, data |-> "new"]

\* Trace directories and names of work directories are interchangeable.
MCSymmetry == Permutations(TraceDirs) \cup Permutations(WorkDirs)
=============================================================================
