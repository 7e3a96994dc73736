--------------------------- MODULE MC_Checkpoints ---------------------------
(* Instances of Checkpoints for TLC, which need no definitions of their own. *)
EXTENDS Checkpoints
=============================================================================
