------------------------------ MODULE MpmcSeq ------------------------------
(***************************************************************************)
(* The bounded multi-producer multi-consumer queue of include/mpmc_seq.h   *)
(* (LockFreeQueueMpmcSeq).  Each slot has a sequence number; push and pop  *)
(* draw a ticket and wait for its slot, try_emplace and try_pop look at    *)
(* the slot first and then try to win its ticket with a CAS.               *)
(* include/mpmc_seq_split.h is the same algorithm with values and sequence *)
(* numbers in two arrays, the values at a permuted position.               *)
(*                                                                         *)
(* Memory.  Every step below is one access to shared memory.  fetch_add    *)
(* and CAS are locked instructions; a sequence number is stored after the  *)
(* slot access it publishes (release) and loaded before the one it permits *)
(* (acquire), so a thread that sees the number sees the slot.              *)
(***************************************************************************)
EXTENDS Naturals, Sequences, FiniteSets

CONSTANTS SIZE,        \* the template argument, a power of two
          Value,       \* element values
          None,        \* not a value
          Producer,    \* threads that push
          Consumer,    \* threads that pop
          MaxTickets   \* bound: pushes and pops in a run, each

Thread == Producer \union Consumer
Ticket == 0 .. MaxTickets - 1
CAPACITY == SIZE
Slot(i) == i % SIZE

ASSUME MpmcSeqAssumption == /\ SIZE \in Nat \ {0}
                            /\ None \notin Value
                            /\ MaxTickets \in Nat

VARIABLES
  head,      \* producer_.head_: the next push ticket
  tail,      \* consumer_.tail_: the next pop ticket
  seq,       \* slots_[i].seq
  val,       \* slots_[i].val
  pc, pos,   \* where each thread is, and the ticket it holds or looks at
  arg,       \* the value each thread pushes
  stored,    \* history: what each push ticket stored
  taken      \* history: what each pop ticket took

vars == <<head, tail, seq, val, pc, pos, arg, stored, taken>>

PushPc == {"pushWait", "tryPush", "tryPushSeq", "tryPushCas", "write",
           "pushPublish"}
PopPc  == {"popWait", "tryPop", "tryPopSeq", "tryPopCas", "read",
           "popPublish"}

TypeOK ==
  /\ head \in Nat /\ tail \in Nat
  /\ seq \in [0 .. SIZE - 1 -> Nat]
  /\ val \in [0 .. SIZE - 1 -> Value \union {None}]
  /\ pc \in [Thread -> {"idle"} \union PushPc \union PopPc]
  /\ pos \in [Thread -> Nat]
  /\ arg \in [Thread -> Value \union {None}]
  /\ stored \in [Ticket -> Seq(Value)]
  /\ taken \in [Ticket -> Seq(Value)]

Init ==
  /\ head = 0 /\ tail = 0
  /\ seq = [s \in 0 .. SIZE - 1 |-> s]
  /\ val = [s \in 0 .. SIZE - 1 |-> None]
  /\ pc = [t \in Thread |-> "idle"]
  /\ pos = [t \in Thread |-> 0]
  /\ arg = [t \in Thread |-> None]
  /\ stored = [k \in Ticket |-> <<>>]
  /\ taken = [k \in Ticket |-> <<>>]

\* Thread t moves to another point of its operation.
Goto(t, l) == pc' = [pc EXCEPT ![t] = l]
At(t, l) == pc[t] = l
SeqSeen(t) == seq[Slot(pos[t])]

-----------------------------------------------------------------------------
(* push, emplace: a ticket first, then its slot *)

Push(t, v) ==
  /\ At(t, "idle") /\ head < MaxTickets
  /\ pos' = [pos EXCEPT ![t] = head]
  /\ head' = head + 1
  /\ arg' = [arg EXCEPT ![t] = v]
  /\ Goto(t, "pushWait")
  /\ UNCHANGED <<tail, seq, val, stored, taken>>

\* wait_for_sequence(slot.seq, pos): the acquire load that ends the wait.
PushWait(t) ==
  /\ At(t, "pushWait") /\ SeqSeen(t) = pos[t]
  /\ Goto(t, "write")
  /\ UNCHANGED <<head, tail, seq, val, pos, arg, stored, taken>>

WriteVal(t) ==
  /\ At(t, "write")
  /\ val' = [val EXCEPT ![Slot(pos[t])] = arg[t]]
  /\ stored' = [stored EXCEPT ![pos[t]] = Append(@, arg[t])]
  /\ Goto(t, "pushPublish")
  /\ UNCHANGED <<head, tail, seq, pos, arg, taken>>

PushPublish(t) ==
  /\ At(t, "pushPublish")
  /\ seq' = [seq EXCEPT ![Slot(pos[t])] = pos[t] + 1]
  /\ arg' = [arg EXCEPT ![t] = None]
  /\ Goto(t, "idle")
  /\ UNCHANGED <<head, tail, val, pos, stored, taken>>

-----------------------------------------------------------------------------
(* try_emplace, try_push, enqueue *)

TryPush(t, v) ==
  /\ At(t, "idle") /\ head < MaxTickets
  /\ arg' = [arg EXCEPT ![t] = v]
  /\ Goto(t, "tryPush")
  /\ UNCHANGED <<head, tail, seq, val, pos, stored, taken>>

TryPushHead(t) ==
  /\ At(t, "tryPush")
  /\ pos' = [pos EXCEPT ![t] = head]
  /\ Goto(t, "tryPushSeq")
  /\ UNCHANGED <<head, tail, seq, val, arg, stored, taken>>

\* Mutants: a full slot costs a ticket; a free slot counts as full.
TryPushFullTicketMutant(t) ==
  /\ At(t, "tryPushSeq") /\ SeqSeen(t) < pos[t]
  /\ arg' = [arg EXCEPT ![t] = None]
  /\ head' = head + 1
  /\ Goto(t, "idle")
  /\ UNCHANGED <<tail, seq, val, pos, stored, taken>>
TryPushFullEarlyMutant(t) ==
  /\ At(t, "tryPushSeq") /\ SeqSeen(t) <= pos[t]
  /\ arg' = [arg EXCEPT ![t] = None]
  /\ Goto(t, "idle")
  /\ UNCHANGED <<head, tail, seq, val, pos, stored, taken>>

\* diff < 0: the slot still holds the item of the lap before; return false.
TryPushFull(t) ==
  /\ At(t, "tryPushSeq") /\ SeqSeen(t) < pos[t]
  /\ arg' = [arg EXCEPT ![t] = None]
  /\ Goto(t, "idle")
  /\ UNCHANGED <<head, tail, seq, val, pos, stored, taken>>

\* diff = 0 leads to the CAS, diff > 0 back to the load of head.
TryPushSeq(t) ==
  /\ At(t, "tryPushSeq") /\ SeqSeen(t) >= pos[t]
  /\ Goto(t, IF SeqSeen(t) = pos[t] THEN "tryPushCas" ELSE "tryPush")
  /\ UNCHANGED <<head, tail, seq, val, pos, arg, stored, taken>>

TryPushCas(t) ==
  /\ At(t, "tryPushCas") /\ pos[t] < MaxTickets
  /\ IF head = pos[t]
     THEN head' = head + 1 /\ Goto(t, "write")
     ELSE UNCHANGED head /\ Goto(t, "tryPush")
  /\ UNCHANGED <<tail, seq, val, pos, arg, stored, taken>>

-----------------------------------------------------------------------------
(* pop *)

Pop(t) ==
  /\ At(t, "idle") /\ tail < MaxTickets
  /\ pos' = [pos EXCEPT ![t] = tail]
  /\ tail' = tail + 1
  /\ Goto(t, "popWait")
  /\ UNCHANGED <<head, seq, val, arg, stored, taken>>

\* Mutant: the wait ends one number early.
PopWaitMutant(t) ==
  /\ At(t, "popWait") /\ SeqSeen(t) >= pos[t]
  /\ Goto(t, "read")
  /\ UNCHANGED <<head, tail, seq, val, pos, arg, stored, taken>>

PopWait(t) ==
  /\ At(t, "popWait") /\ SeqSeen(t) = pos[t] + 1
  /\ Goto(t, "read")
  /\ UNCHANGED <<head, tail, seq, val, pos, arg, stored, taken>>

ReadVal(t) ==
  /\ At(t, "read")
  /\ taken' = [taken EXCEPT ![pos[t]] = Append(@, val[Slot(pos[t])])]
  /\ Goto(t, "popPublish")
  /\ UNCHANGED <<head, tail, seq, val, pos, arg, stored>>

\* Mutant: the slot is released for the wrong lap.
PopPublishMutant(t) ==
  /\ At(t, "popPublish")
  /\ seq' = [seq EXCEPT ![Slot(pos[t])] = pos[t] + 1 + CAPACITY]
  /\ Goto(t, "idle")
  /\ UNCHANGED <<head, tail, val, pos, arg, stored, taken>>

PopPublish(t) ==
  /\ At(t, "popPublish")
  /\ seq' = [seq EXCEPT ![Slot(pos[t])] = pos[t] + CAPACITY]
  /\ Goto(t, "idle")
  /\ UNCHANGED <<head, tail, val, pos, arg, stored, taken>>

-----------------------------------------------------------------------------
(* try_pop, dequeue, try_dequeue *)

TryPop(t) ==
  /\ At(t, "idle") /\ tail < MaxTickets
  /\ Goto(t, "tryPop")
  /\ UNCHANGED <<head, tail, seq, val, pos, arg, stored, taken>>

TryPopTail(t) ==
  /\ At(t, "tryPop")
  /\ pos' = [pos EXCEPT ![t] = tail]
  /\ Goto(t, "tryPopSeq")
  /\ UNCHANGED <<head, tail, seq, val, arg, stored, taken>>

\* diff < 0: the item of this ticket is not there yet; return false.
TryPopEmpty(t) ==
  /\ At(t, "tryPopSeq") /\ SeqSeen(t) < pos[t] + 1
  /\ Goto(t, "idle")
  /\ UNCHANGED <<head, tail, seq, val, pos, arg, stored, taken>>

TryPopSeq(t) ==
  /\ At(t, "tryPopSeq") /\ SeqSeen(t) >= pos[t] + 1
  /\ Goto(t, IF SeqSeen(t) = pos[t] + 1 THEN "tryPopCas" ELSE "tryPop")
  /\ UNCHANGED <<head, tail, seq, val, pos, arg, stored, taken>>

\* Mutant: tail is stored without the comparison.
TryPopCasMutant(t) ==
  /\ At(t, "tryPopCas") /\ pos[t] < MaxTickets
  /\ tail' = pos[t] + 1 /\ Goto(t, "read")
  /\ UNCHANGED <<head, seq, val, pos, arg, stored, taken>>

TryPopCas(t) ==
  /\ At(t, "tryPopCas") /\ pos[t] < MaxTickets
  /\ IF tail = pos[t]
     THEN tail' = tail + 1 /\ Goto(t, "read")
     ELSE UNCHANGED tail /\ Goto(t, "tryPop")
  /\ UNCHANGED <<head, seq, val, pos, arg, stored, taken>>

-----------------------------------------------------------------------------

PushStep(t) ==
  \/ PushWait(t) \/ WriteVal(t) \/ PushPublish(t)
  \/ TryPushHead(t) \/ TryPushFull(t) \/ TryPushSeq(t) \/ TryPushCas(t)
PopStep(t) ==
  \/ PopWait(t) \/ ReadVal(t) \/ PopPublish(t)
  \/ TryPopTail(t) \/ TryPopEmpty(t) \/ TryPopSeq(t) \/ TryPopCas(t)

Next ==
  \/ \E t \in Producer : \/ \E v \in Value : Push(t, v) \/ TryPush(t, v)
                         \/ PushStep(t)
  \/ \E t \in Consumer : Pop(t) \/ TryPop(t) \/ PopStep(t)

Spec == Init /\ [][Next]_vars

\* Every thread inside an operation takes its next step; calls are free.
FairSpec == Spec /\ \A t \in Thread : WF_vars(PushStep(t) \/ PopStep(t))
-----------------------------------------------------------------------------
(* Properties *)

Owns(t) == pc[t] \in {"write", "pushPublish", "read", "popPublish"}

\* A slot is accessed by one thread at a time, from the sequence number it
\* waited for (or won the ticket with) until the number it stores: push and
\* try_emplace, pop and try_pop in any mixture, on any lap.
SlotExclusive ==
  \A t, u \in Thread :
    t # u /\ Owns(t) /\ Owns(u) => Slot(pos[t]) # Slot(pos[u])

\* Tickets are handed out once, a ticket looked at is not yet beyond the
\* counter, and a push has its value.
HoldsPush(t) == pc[t] \in {"pushWait", "write", "pushPublish"}
HoldsPop(t)  == pc[t] \in {"popWait", "read", "popPublish"}
TicketsHeld ==
  /\ head <= MaxTickets /\ tail <= MaxTickets
  /\ \A t \in Thread :
       /\ HoldsPush(t) => pos[t] < head
       /\ HoldsPop(t) => pos[t] < tail
       /\ pc[t] \in {"tryPushSeq", "tryPushCas"} => pos[t] <= head
       /\ pc[t] \in {"tryPopSeq", "tryPopCas"} => pos[t] <= tail
       /\ pc[t] \in PushPc => arg[t] \in Value
  /\ \A t, u \in Thread : t # u /\ pos[t] = pos[u] =>
       ~(HoldsPush(t) /\ HoldsPush(u)) /\ ~(HoldsPop(t) /\ HoldsPop(u))

\* The sequence number an owner waited for stays until the owner replaces it;
\* a CAS that would still succeed would find the number its thread saw.
SlotsOwned ==
  \A t \in Thread :
    /\ pc[t] \in {"write", "pushPublish"} => SeqSeen(t) = pos[t]
    /\ pc[t] \in {"read", "popPublish"} => SeqSeen(t) = pos[t] + 1
    /\ At(t, "tryPushCas") /\ head = pos[t] => SeqSeen(t) = pos[t]
    /\ At(t, "tryPopCas") /\ tail = pos[t] => SeqSeen(t) = pos[t] + 1

\* The sequence number of a slot tells which of its tickets have been stored
\* and taken, but for those of a thread about to publish.
Publishing(k, l) == \E t \in Thread : At(t, l) /\ pos[t] = k
StoredAt(k) ==
  stored[k] # <<>> <=> seq[Slot(k)] > k \/ Publishing(k, "pushPublish")
TakenAt(k) ==
  taken[k] # <<>> <=> seq[Slot(k)] > k + 1 \/ Publishing(k, "popPublish")
ValueAt(k) ==
  seq[Slot(k)] = k + 1 \/ Publishing(k, "pushPublish")
    => stored[k] = <<val[Slot(k)]>>
Recorded == \A k \in Ticket : StoredAt(k) /\ TakenAt(k) /\ ValueAt(k)

\* The inductive invariant behind SlotExclusive and ImplementsTickets: tickets,
\* sequence numbers and slots agree after every step, if SIZE > 1.
IInv == TypeOK /\ TicketsHeld /\ SlotsOwned /\ Recorded

\* A ticket below the counter has been used or is held by a thread that will
\* use it, and a slot's number is one of its tickets or the next number.
Holding(k, pcs) == \E t \in Thread : pc[t] \in pcs /\ pos[t] = k
PushUsed(k) ==
  k < head <=> stored[k] # <<>> \/ Holding(k, {"pushWait", "write"})
PopUsed(k) ==
  k < tail <=> taken[k] # <<>> \/ Holding(k, {"popWait", "read"})
TicketsUsed == \A k \in Ticket : PushUsed(k) /\ PopUsed(k)
NumbersInStep ==
  \A s \in 0 .. SIZE - 1 :
    Slot(seq[s]) = s \/ (seq[s] > 0 /\ Slot(seq[s] - 1) = s)

\* The inductive invariant behind SizeAtRest and TryFailsHonestly.
Accounted == IInv /\ TicketsUsed /\ NumbersInStep

\* Pop number k returns what push number k stored, each exactly once, and at
\* most CAPACITY items are stored and not taken.
Tickets == INSTANCE TicketQueue WITH Capacity <- CAPACITY
ImplementsTickets == Tickets!TicketSpec

\* No more than CAPACITY items wait in the queue: once capacity() pushes have
\* succeeded, try_emplace fails until an item is popped.
AtMostCapacity ==
  Cardinality({k \in Ticket : stored[k] # <<>> /\ taken[k] = <<>>}) <= CAPACITY

\* When no operation is in flight, size() is the number of items that can be
\* popped: a failed try_emplace or try_pop used up no ticket.
SizeAtRest ==
  (\A t \in Thread : At(t, "idle")) =>
    /\ tail <= head
    /\ head - tail = Cardinality({s \in 0 .. SIZE - 1 :
                        \E k \in tail .. head - 1 : s = Slot(k)
                                                   /\ seq[s] = k + 1})

\* try_emplace returns false only when the queue is full, unless a pop is in
\* flight; try_pop returns false only when it is empty, unless a push is.
InFlight(T, pcs) == \E t \in T : pc[t] \in pcs
TryFailsHonestly ==
  [][/\ \A t \in Producer :
          TryPushFull(t) /\ ~InFlight(Thread, PopPc) => head >= tail + CAPACITY
     /\ \A t \in Consumer :
          TryPopEmpty(t) /\ ~InFlight(Thread, PushPc) => tail >= head]_vars

\* A blocked pop returns once as many pushes have been called as it has
\* predecessors, and a blocked push once its slot's last item has a consumer,
\* however the try operations interfere.
BlockedOpsComplete ==
  \A t \in Thread :
    /\ At(t, "popWait") /\ pos[t] < head ~> At(t, "idle")
    /\ At(t, "pushWait") /\ pos[t] < tail + CAPACITY ~> At(t, "idle")
=============================================================================
