------------------------------ MODULE MCExport ------------------------------
(* Small instances of Export for TLC.                                      *)
EXTENDS Export

\* Two lengths of a last basic block: enough for equal and different ones.
MCSizes == {1, 2}
=============================================================================
