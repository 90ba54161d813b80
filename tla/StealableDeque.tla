--------------------------- MODULE StealableDeque ---------------------------
(***************************************************************************)
(* What a work-stealing deque promises: the owner pushes and pops at the   *)
(* bottom, anyone steals at the top, every operation happens at one        *)
(* instant, and an item is handed out when, and only when, it leaves the   *)
(* deque.  WorkStealDeque and Wsq implement this specification.            *)
(***************************************************************************)
EXTENDS Naturals, Sequences

CONSTANTS Item,       \* the items, each pushed at most once
          Capacity    \* what capacity() returns

VARIABLES dq,         \* the items in the deque, top first
          handed      \* how often each item was handed out

dequeVars == <<dq, handed>>

DequeInit == dq = <<>> /\ handed = [i \in Item |-> 0]

HandOut(i) == handed' = [handed EXCEPT ![i] = @ + 1]

\* One or more new items go behind those that are there, if they fit.
PushBottom == /\ dq' \in Seq(Item)
              /\ Len(dq) < Len(dq') /\ Len(dq') <= Capacity
              /\ SubSeq(dq', 1, Len(dq)) = dq
              /\ \A k \in Len(dq) + 1 .. Len(dq') :
                   handed[dq'[k]] = 0 /\ \A j \in 1 .. k - 1 : dq'[j] # dq'[k]
              /\ UNCHANGED handed

PopBottom == /\ dq # <<>>
             /\ dq' = SubSeq(dq, 1, Len(dq) - 1)
             /\ HandOut(dq[Len(dq)])

StealTop == /\ dq # <<>>
            /\ dq' = Tail(dq)
            /\ HandOut(Head(dq))

DequeNext == PushBottom \/ PopBottom \/ StealTop

DequeSpec == DequeInit /\ [][DequeNext]_dequeVars
=============================================================================
