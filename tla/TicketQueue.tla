---------------------------- MODULE TicketQueue ----------------------------
(***************************************************************************)
(* What the multi-producer multi-consumer queues with numbered slots       *)
(* promise.  Pushes and pops are numbered; the pop with number t takes     *)
(* what the push with number t stored, each exactly once, and an item is   *)
(* stored only when the item Capacity numbers before it has been taken.    *)
(* MpmcSeq and Orbit implement this specification.                         *)
(***************************************************************************)
EXTENDS Naturals, Sequences

CONSTANTS Value,      \* the values a client may push
          Capacity,   \* what capacity() returns
          Ticket      \* the numbers of the pushes and pops

VARIABLES stored,     \* what was stored under each number
          taken       \* what was taken under each number

ticketVars == <<stored, taken>>

TicketInit == /\ stored = [k \in Ticket |-> <<>>]
              /\ taken = [k \in Ticket |-> <<>>]

Put(k, v) == /\ stored[k] = <<>>
             /\ k >= Capacity => taken[k - Capacity] # <<>>
             /\ stored' = [stored EXCEPT ![k] = <<v>>]
             /\ UNCHANGED taken

Take(k) == /\ stored[k] # <<>> /\ taken[k] = <<>>
           /\ taken' = [taken EXCEPT ![k] = stored[k]]
           /\ UNCHANGED stored

TicketNext == \E k \in Ticket : Take(k) \/ \E v \in Value : Put(k, v)

TicketSpec == TicketInit /\ [][TicketNext]_ticketVars
=============================================================================
