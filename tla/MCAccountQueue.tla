--------------------------- MODULE MCAccountQueue ---------------------------
(* An instance of AccountQueue for TLC. *)
EXTENDS AccountQueue
=============================================================================
