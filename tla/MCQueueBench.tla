---- MODULE MCQueueBench ----
(* Instances of QueueBench for TLC. *)
EXTENDS QueueBench
=============================================================================
