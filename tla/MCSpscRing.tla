---- MODULE MCSpscRing ----
(* Instances of SpscRing for TLC. *)
EXTENDS SpscRing
=============================================================================
