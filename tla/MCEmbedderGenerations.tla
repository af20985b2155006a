------------------------ MODULE MCEmbedderGenerations ------------------------
(***************************************************************************)
(* Instance of EmbedderGenerations for the run about single activeness:    *)
(* the seed and two generations that two operators may activate.           *)
(***************************************************************************)
EXTENDS EmbedderGenerations

=============================================================================
