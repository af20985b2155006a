-------------------------- MODULE MCWorkspaceLease --------------------------
(* An instance of WorkspaceLease for TLC. *)
EXTENDS WorkspaceLease
=============================================================================
