---- MODULE MCJoadMpmc ----
(* Instances of JoadMpmc, and with it of MpmcSeq, for TLC. *)
EXTENDS JoadMpmc
=============================================================================
