---- MODULE MCWsq ----
(* Instances of Wsq for TLC: a bounded queue of two slots, and an unbounded *)
(* one that has to grow for its second and for its third item.              *)
EXTENDS Wsq

MCFirstSize == [k \in Kinds |-> IF k = "bounded" THEN 2 ELSE 1]
=============================================================================
