---------------------------- MODULE MCReviewRuns ----------------------------
(***************************************************************************)
(* ReviewRuns on two pull requests that share three run ids; one attempt   *)
(* of each milestone (MCRunTransactions overlaps three of them).           *)
(***************************************************************************)
EXTENDS ReviewRuns, TLC

Symmetry == Permutations(Reviews) \cup Permutations(Runs)
=============================================================================
