---------------------------- MODULE MCPostReview ----------------------------
(***************************************************************************)
(* PostReview with two runs of one pull request, a finding that both runs  *)
(* may find, two attempts per run and two requests per call.               *)
(***************************************************************************)
EXTENDS PostReview
=============================================================================
