---------------------------- MODULE MCFunctionLog ----------------------------
(* Small instances of FunctionLog for TLC: how the blocks of the traced    *)
(* binary are divided into functions.                                      *)
EXTENDS FunctionLog, TLC

\* One function of two blocks, 1 and 2, and one of the single block 3.
MCOwner == 1 :> 1 @@ 2 :> 1 @@ 3 :> 3

\* One function of one block.
MCOwnerSingle == 1 :> 1
=============================================================================
