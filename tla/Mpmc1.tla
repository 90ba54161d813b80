------------------------------- MODULE Mpmc1 -------------------------------
(***************************************************************************)
(* The bounded multi-producer multi-consumer queue of include/mpmc_1.h     *)
(* (LockFreeQueueMpmc1).  Tickets choose a slot, and a state byte per slot *)
(* (Empty, Storing, Stored, Loading) decides who may use it: unlike        *)
(* MpmcSeq, a slot does not remember whose turn it is.                     *)
(*                                                                         *)
(* Every step below is one access to shared memory; the element is stored  *)
(* before the release of Stored and copied before the release of Empty.    *)
(* buffer_index and state_index permute the slots: each ticket has its own *)
(* slot of SIZE, here Slot.                                                *)
(***************************************************************************)
EXTENDS Integers, FiniteSets

CONSTANTS SIZE,        \* the template argument, a power of two
          None,        \* not an item
          Producer,    \* threads that push
          Consumer,    \* threads that pop
          MaxTickets   \* bound: pushes and pops in a run, each

Thread == Producer \union Consumer
CAPACITY == SIZE
Slot(i) == i % SIZE
Item == Producer \X (0 .. MaxTickets - 1)   \* a producer and its item's number

ASSUME Mpmc1Assumption == /\ SIZE \in Nat \ {0}
                          /\ MaxTickets \in Nat
                          /\ None \notin Item

VARIABLES
  head, tail,    \* producer_.head_, consumer_.tail_
  state, buf,    \* states_, buffer_
  pc, pos,       \* where each thread is, and its ticket or loaded index
  next,          \* the number of each producer's next item
  last,          \* history: per consumer and producer, the next unseen number
  handed         \* history: how often each item was popped

vars == <<head, tail, state, buf, pc, pos, next, last, handed>>

PushPc == {"tryPushTail", "tryPushCas", "pushSlot", "write", "pushPublish"}
PopPc  == {"tryPopHead", "tryPopCas", "popSlot", "read", "popPublish"}

TypeOK ==
  /\ head \in Nat /\ tail \in Nat
  /\ state \in [0 .. SIZE - 1 -> {"Empty", "Storing", "Stored", "Loading"}]
  /\ buf \in [0 .. SIZE - 1 -> Item \union {None}]
  /\ \A s \in DOMAIN state :
       state[s] \in {"Stored", "Loading"} => buf[s] \in Item
  /\ pc \in [Thread -> {"idle"} \union PushPc \union PopPc]
  /\ pos \in [Thread -> Nat]
  /\ next \in [Producer -> Nat]
  /\ last \in [Consumer -> [Producer -> Nat]]
  /\ handed \in [Item -> Nat]

Init ==
  /\ head = 0 /\ tail = 0
  /\ state = [s \in 0 .. SIZE - 1 |-> "Empty"]
  /\ buf = [s \in 0 .. SIZE - 1 |-> None]
  /\ pc = [t \in Thread |-> "idle"]
  /\ pos = [t \in Thread |-> 0]
  /\ next = [p \in Producer |-> 0]
  /\ last = [c \in Consumer |-> [p \in Producer |-> 0]]
  /\ handed = [i \in Item |-> 0]

At(t, l) == pc[t] = l
Goto(t, l) == pc' = [pc EXCEPT ![t] = l]
SetPos(t, i) == pos' = [pos EXCEPT ![t] = i]
MySlot(t) == Slot(pos[t])
SetState(t, s) == state' = [state EXCEPT ![MySlot(t)] = s]
slotVars == <<state, buf>>
history == <<next, last, handed>>

-----------------------------------------------------------------------------
(* push, emplace *)

Push(t) ==
  /\ At(t, "idle") /\ head < MaxTickets
  /\ SetPos(t, head)
  /\ head' = head + 1
  /\ Goto(t, "pushSlot")
  /\ UNCHANGED <<tail, slotVars, history>>

(* try_emplace, try_push, enqueue *)

TryPush(t) ==
  /\ At(t, "idle") /\ head < MaxTickets
  /\ SetPos(t, head)
  /\ Goto(t, "tryPushTail")
  /\ UNCHANGED <<head, tail, slotVars, history>>

\* Mutant: a full queue costs a ticket.
TryPushTailMutant(t) ==
  /\ At(t, "tryPushTail")
  /\ IF pos[t] - tail >= CAPACITY
     THEN Goto(t, "idle") /\ head' = head + 1
     ELSE Goto(t, "tryPushCas") /\ UNCHANGED head
  /\ UNCHANGED <<tail, slotVars, pos, history>>

\* used >= CAPACITY sends the call home.
TryPushTail(t) ==
  /\ At(t, "tryPushTail")
  /\ Goto(t, IF pos[t] - tail >= CAPACITY THEN "idle" ELSE "tryPushCas")
  /\ UNCHANGED <<head, tail, slotVars, pos, history>>

\* Mutant: a fetch_add whose result is ignored in place of the CAS, so that the
\* call goes on with the index it loaded before.
TryPushCasMutant(t) ==
  /\ At(t, "tryPushCas") /\ head < MaxTickets
  /\ head' = head + 1 /\ Goto(t, "pushSlot")
  /\ UNCHANGED <<tail, slotVars, pos, history>>

\* A failed CAS leaves the current head in the local variable.
TryPushCas(t) ==
  /\ At(t, "tryPushCas") /\ head < MaxTickets
  /\ IF head = pos[t]
     THEN head' = head + 1 /\ Goto(t, "pushSlot") /\ UNCHANGED pos
     ELSE SetPos(t, head) /\ Goto(t, "tryPushTail") /\ UNCHANGED head
  /\ UNCHANGED <<tail, slotVars, history>>

(* push_direct *)

\* Mutant: a slot that holds an item counts as free.
PushSlotOverwriteMutant(t) ==
  /\ At(t, "pushSlot") /\ state[MySlot(t)] \in {"Empty", "Stored"}
  /\ SetState(t, "Storing")
  /\ Goto(t, "write")
  /\ UNCHANGED <<head, tail, buf, pos, history>>

\* The CAS that ends the wait for an empty slot.
PushSlot(t) ==
  /\ At(t, "pushSlot") /\ state[MySlot(t)] = "Empty"
  /\ SetState(t, "Storing")
  /\ Goto(t, "write")
  /\ UNCHANGED <<head, tail, buf, pos, history>>

WriteVal(t) ==
  /\ At(t, "write")
  /\ buf' = [buf EXCEPT ![MySlot(t)] = <<t, next[t]>>]
  /\ next' = [next EXCEPT ![t] = @ + 1]
  /\ Goto(t, "pushPublish")
  /\ UNCHANGED <<head, tail, state, pos, last, handed>>

PushPublish(t) ==
  /\ At(t, "pushPublish")
  /\ SetState(t, "Stored")
  /\ Goto(t, "idle")
  /\ UNCHANGED <<head, tail, buf, pos, history>>

-----------------------------------------------------------------------------
(* pop *)

Pop(t) ==
  /\ At(t, "idle") /\ tail < MaxTickets
  /\ SetPos(t, tail)
  /\ tail' = tail + 1
  /\ Goto(t, "popSlot")
  /\ UNCHANGED <<head, slotVars, history>>

(* try_pop, dequeue, try_dequeue *)

TryPop(t) ==
  /\ At(t, "idle") /\ tail < MaxTickets
  /\ SetPos(t, tail)
  /\ Goto(t, "tryPopHead")
  /\ UNCHANGED <<head, tail, slotVars, history>>

\* Mutant: an empty queue costs a ticket.
TryPopHeadMutant(t) ==
  /\ At(t, "tryPopHead")
  /\ IF head - pos[t] <= 0
     THEN Goto(t, "idle") /\ tail' = tail + 1
     ELSE Goto(t, "tryPopCas") /\ UNCHANGED tail
  /\ UNCHANGED <<head, slotVars, pos, history>>

\* available <= 0 sends the call home.
TryPopHead(t) ==
  /\ At(t, "tryPopHead")
  /\ Goto(t, IF head - pos[t] <= 0 THEN "idle" ELSE "tryPopCas")
  /\ UNCHANGED <<head, tail, slotVars, pos, history>>

TryPopCas(t) ==
  /\ At(t, "tryPopCas") /\ tail < MaxTickets
  /\ IF tail = pos[t]
     THEN tail' = tail + 1 /\ Goto(t, "popSlot") /\ UNCHANGED pos
     ELSE SetPos(t, tail) /\ Goto(t, "tryPopHead") /\ UNCHANGED tail
  /\ UNCHANGED <<head, slotVars, history>>

(* pop_direct *)

\* Mutant: the consumer does not mark the slot.
PopSlotMutant(t) ==
  /\ At(t, "popSlot") /\ state[MySlot(t)] = "Stored"
  /\ Goto(t, "read")
  /\ UNCHANGED <<head, tail, slotVars, pos, history>>

PopSlot(t) ==
  /\ At(t, "popSlot") /\ state[MySlot(t)] = "Stored"
  /\ SetState(t, "Loading")
  /\ Goto(t, "read")
  /\ UNCHANGED <<head, tail, buf, pos, history>>

ReadVal(t) ==
  /\ At(t, "read")
  /\ LET i == buf[MySlot(t)] IN
       /\ handed' = [handed EXCEPT ![i] = @ + 1]
       /\ last' = [last EXCEPT ![t][i[1]] = i[2] + 1]
  /\ Goto(t, "popPublish")
  /\ UNCHANGED <<head, tail, slotVars, pos, next>>

PopPublish(t) ==
  /\ At(t, "popPublish")
  /\ SetState(t, "Empty")
  /\ Goto(t, "idle")
  /\ UNCHANGED <<head, tail, buf, pos, history>>

-----------------------------------------------------------------------------

PushStep(t) == \/ TryPushTail(t) \/ TryPushCas(t)
               \/ PushSlot(t) \/ WriteVal(t) \/ PushPublish(t)
PopStep(t) == \/ TryPopHead(t) \/ TryPopCas(t)
              \/ PopSlot(t) \/ ReadVal(t) \/ PopPublish(t)

Next == \/ \E t \in Producer : Push(t) \/ TryPush(t) \/ PushStep(t)
        \/ \E t \in Consumer : Pop(t) \/ TryPop(t) \/ PopStep(t)

Spec == Init /\ [][Next]_vars

\* Every thread inside an operation takes its next step; calls are free.
FairSpec == Spec /\ /\ \A t \in Producer : WF_vars(PushStep(t))
                    /\ \A t \in Consumer : WF_vars(PopStep(t))

-----------------------------------------------------------------------------
(* Properties *)

Owns(t) == pc[t] \in {"write", "pushPublish", "read", "popPublish"}

\* A slot is accessed by one thread at a time, also when producers or
\* consumers of different laps wait for the same slot.
SlotExclusive ==
  /\ TypeOK
  /\ \A t, u \in Thread :
       t # u /\ Owns(t) /\ Owns(u) => MySlot(t) # MySlot(u)

\* What the slots tell and the state bytes do not say by themselves.  Locked:
\* the byte of a slot shows its owner.  Held: whether the item in it still waits
\* to be popped.  Numbered: no item is stored twice, and each producer has used
\* fewer numbers than it has drawn tickets.
Spent(s) == buf[s] = None \/ (buf[s] \in Item /\ handed[buf[s]] > 0)
Waiting(s) == buf[s] \in Item /\ handed[buf[s]] = 0
Locked ==
  \A t \in Thread :
    /\ pc[t] \in {"write", "pushPublish"} => state[MySlot(t)] = "Storing"
    /\ pc[t] \in {"read", "popPublish"} => state[MySlot(t)] = "Loading"
Held ==
  /\ \A s \in 0 .. SIZE - 1 :
       /\ state[s] = "Stored" => Waiting(s)
       /\ state[s] = "Empty" => Spent(s)
  /\ \A t \in Thread :
       /\ pc[t] \in {"pushPublish", "read"} => Waiting(MySlot(t))
       /\ pc[t] \in {"write", "popPublish"} => Spent(MySlot(t))
Numbered ==
  /\ head <= MaxTickets
  /\ \A p \in Producer :
       /\ next[p] <= head
       /\ pc[p] \in {"pushSlot", "write"} => next[p] <= pos[p] /\ pos[p] < head
  /\ \A p \in Producer : \A n \in next[p] .. MaxTickets - 1 :
       handed[<<p, n>>] = 0 /\ \A s \in 0 .. SIZE - 1 : buf[s] # <<p, n>>
  /\ \A s, r \in 0 .. SIZE - 1 : buf[s] \in Item /\ buf[s] = buf[r] => s = r

\* The inductive invariant behind SlotExclusive and ImplementsBag.
IInv == SlotExclusive /\ Locked /\ Held /\ Numbered

\* Every pushed item is popped at most once, none is lost or overwritten, and
\* at most CAPACITY wait; the queue is a bag.
Contents ==
  {i \in Item : handed[i] = 0 /\ \E s \in DOMAIN buf : buf[s] = i}
Bag == INSTANCE BoundedBag WITH Capacity <- CAPACITY, bag <- Contents
ImplementsBag == Bag!BagSpec

\* When no operation is in flight, size() is the number of stored items: the
\* tickets handed out and the slots in use agree although threads with
\* tickets of different laps may have swapped slots.
SizeAtRest ==
  (\A t \in Thread : At(t, "idle")) =>
    /\ tail <= head
    /\ head - tail = Cardinality({s \in DOMAIN state : state[s] = "Stored"})

\* The inductive invariant behind SizeAtRest.  Tickets that wait for no slot any
\* more have entered one: a push that has its slot makes it Storing, a pop that
\* has its slot ends that, so between them they leave head - tail slots in use.
PushesQueued == {t \in Thread : pc[t] = "pushSlot"}
PopsQueued == {t \in Thread : pc[t] = "popSlot"}
InUse == {s \in 0 .. SIZE - 1 : state[s] \in {"Storing", "Stored"}}
Counted ==
  /\ IsFiniteSet(PushesQueued) /\ IsFiniteSet(PopsQueued)
  /\ head - Cardinality(PushesQueued)
       = tail - Cardinality(PopsQueued) + Cardinality(InUse)
  /\ \A s \in 0 .. SIZE - 1 :
       state[s] = "Storing" => \E t \in Thread :
                                 MySlot(t) = s /\ pc[t] \in {"write", "pushPublish"}

\* A slot a pop waits for is emptied again, as long as pops do not outrun pushes
\* (consumers that use try_pop only): its item is stored or will be, whichever
\* thread stores it.  Nothing is said of who gets the item: a thread with the
\* ticket of a later lap may win the slot every time, so that a single pop can
\* wait without bound.
Waits(s) == \E t \in Consumer : At(t, "popSlot") /\ MySlot(t) = s
WaitedSlotsServed ==
  [](tail <= head) =>
    \A s \in 0 .. SIZE - 1 : Waits(s) ~> state[s] = "Loading"

\* What test_try_api_and_fifo_order expects, with one producer and one
\* consumer: as long as no other thread has used the queue, items are popped in
\* the order of their pushes.  With more threads two producers (or consumers) a
\* lap apart may wait for the same slot, and the one that came last may win it.
OnlyUsers(p, c) ==
  /\ \A q \in Producer \ {p} : next[q] = 0 /\ At(q, "idle")
  /\ \A d \in Consumer \ {c} : last[d][p] = 0 /\ At(d, "idle")
ProducerOrder ==
  [][\A c \in Consumer : ReadVal(c) =>
       LET i == buf[MySlot(c)] IN
         OnlyUsers(i[1], c) => i[2] = last[c][i[1]]]_vars

\* The inductive invariant behind ProducerOrder.  As long as p alone has stored
\* and c alone has taken items of p, tickets and item numbers are the same: item n
\* goes into the slot of ticket n and stays there until c takes it.
Alone(p, c) ==
  /\ \A q \in Producer \ {p} : next[q] = 0 /\ pc[q] \notin {"pushSlot", "write"}
  /\ \A d \in Consumer \ {c} : last[d][p] = 0 /\ pc[d] \notin {"popSlot", "read"}
Busy(t, labels) == IF pc[t] \in labels THEN 1 ELSE 0
InTurn(p, c) ==
  /\ head = next[p] + Busy(p, {"pushSlot", "write"})
  /\ tail = last[c][p] + Busy(c, {"popSlot", "read"})
  /\ pc[p] \in {"pushSlot", "write"} => pos[p] = next[p]
  /\ pc[c] \in {"popSlot", "read"} => pos[c] = last[c][p]
  /\ \A n \in 0 .. MaxTickets - 1 : n < last[c][p] <=> handed[<<p, n>>] > 0
  /\ \A n \in last[c][p] .. next[p] - 1 : buf[Slot(n)] = <<p, n>>
InOrder == \A p \in Producer, c \in Consumer : Alone(p, c) => InTurn(p, c)
=============================================================================
