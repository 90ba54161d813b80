---- MODULE MCSpscState ----
(* Instances of SpscState for TLC. *)
EXTENDS SpscState
=============================================================================
