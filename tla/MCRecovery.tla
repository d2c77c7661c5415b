----------------------------- MODULE MCRecovery -----------------------------
(* Recovery with interchangeable projects, traces and handlers.            *)
EXTENDS Recovery

Interchangeable ==
  Permutations(Projects) \cup Permutations(Traces) \cup Permutations(Handlers)
=============================================================================
