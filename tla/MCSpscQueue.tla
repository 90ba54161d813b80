---- MODULE MCSpscQueue ----
(* Instances of SpscQueue for TLC. *)
EXTENDS SpscQueue
=============================================================================
