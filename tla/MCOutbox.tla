------------------------------ MODULE MCOutbox ------------------------------
(***************************************************************************)
(* Outbox with two rows in one batch, two attempts per row and two tries   *)
(* of a claim; Boot may happen any number of times.                        *)
(***************************************************************************)
EXTENDS Outbox
=============================================================================
