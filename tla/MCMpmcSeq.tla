---- MODULE MCMpmcSeq ----
(* Instances of MpmcSeq for TLC. *)
EXTENDS MpmcSeq
=============================================================================
