---- MODULE MCStealBench ----
(* Instances of StealBench for TLC. *)
EXTENDS StealBench
=============================================================================
