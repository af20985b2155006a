------------------------- MODULE MCRunTransactions -------------------------
(***************************************************************************)
(* RunTransactions with two runs and three transactions at a time.         *)
(***************************************************************************)
EXTENDS RunTransactions, TLC

Symmetry == Permutations(Slots)
=============================================================================
