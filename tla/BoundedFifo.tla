---------------------------- MODULE BoundedFifo ----------------------------
(***************************************************************************)
(* What every single-producer single-consumer queue of include/ promises:  *)
(* a first-in first-out sequence of at most Capacity items.  Enqueue and   *)
(* Dequeue happen at one instant each.  SpscQueue and SpscRing implement   *)
(* this specification.                                                     *)
(***************************************************************************)
EXTENDS Naturals, Sequences

CONSTANTS Value,      \* the values a client may enqueue
          Capacity    \* what capacity() returns

VARIABLES q,          \* the items in the queue, oldest first
          delivered,  \* every item handed to the consumer, in order
          open        \* whether the queue object is alive

fifoVars == <<q, delivered, open>>

FifoInit == q = <<>> /\ delivered = <<>> /\ open = TRUE

Enqueue(v) == /\ open /\ Len(q) < Capacity
              /\ q' = Append(q, v)
              /\ UNCHANGED <<delivered, open>>

Dequeue == /\ open /\ q # <<>>
           /\ q' = Tail(q)
           /\ delivered' = Append(delivered, Head(q))
           /\ UNCHANGED open

\* The queue object goes away together with the items still in it.
Discard == /\ open /\ open' = FALSE
           /\ q' = <<>>
           /\ UNCHANGED delivered

FifoNext == Dequeue \/ Discard \/ \E v \in Value : Enqueue(v)

FifoSpec == FifoInit /\ [][FifoNext]_fifoVars
=============================================================================
