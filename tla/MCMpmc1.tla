---- MODULE MCMpmc1 ----
(* Instances of Mpmc1 for TLC. *)
EXTENDS Mpmc1
=============================================================================
