----------------------------- MODULE BoundedBag -----------------------------
(***************************************************************************)
(* What the state-flag multi-producer multi-consumer queue promises: at    *)
(* most Capacity items, each put once and taken once.  It does not promise *)
(* an order.  Mpmc1 implements this specification.                         *)
(***************************************************************************)
EXTENDS Naturals, FiniteSets

CONSTANTS Item,       \* the items, each put at most once
          Capacity    \* what capacity() returns

VARIABLES bag,        \* the items in the queue
          handed      \* how often each item was taken

bagVars == <<bag, handed>>

BagInit == bag = {} /\ handed = [i \in Item |-> 0]

Put(i) == /\ i \notin bag /\ handed[i] = 0
          /\ Cardinality(bag) < Capacity
          /\ bag' = bag \union {i}
          /\ UNCHANGED handed

Take(i) == /\ i \in bag
           /\ bag' = bag \ {i}
           /\ handed' = [handed EXCEPT ![i] = @ + 1]

BagNext == \E i \in Item : Put(i) \/ Take(i)

BagSpec == BagInit /\ [][BagNext]_bagVars
=============================================================================
