---------------------------- MODULE MCReviewFlow ----------------------------
(***************************************************************************)
(* ReviewFlow on one pull request that is pushed to twice: two runs, and   *)
(* two executions that either run, or the redelivery of a row, may open.   *)
(***************************************************************************)
EXTENDS ReviewFlow

CONSTANT v1

MCPrOf == [e \in Executions |-> v1]
=============================================================================
