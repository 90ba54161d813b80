---------------------------- MODULE Mpmc1_proofs ----------------------------
(***************************************************************************)
(* Proofs about Mpmc1 for every SIZE, Producer, Consumer and MaxTickets.   *)
(***************************************************************************)
EXTENDS Mpmc1, FiniteSetTheorems, TLAPS

\* An index falls into a ring of n slots.
LEMMA ModRange ==
  ASSUME NEW n \in Nat \ {0}, NEW i \in Nat
  PROVE  i % n \in 0 .. n - 1
OBVIOUS

\* A ticket has a slot.
LEMMA SlotRange ==
  ASSUME NEW i \in Nat
  PROVE  Slot(i) \in 0 .. SIZE - 1
BY Mpmc1Assumption, ModRange DEF Slot

\* The slot of a thread is one of the queue's.
LEMMA MySlotRange ==
  ASSUME TypeOK, NEW t \in Thread
  PROVE  MySlot(t) \in 0 .. SIZE - 1
BY SlotRange DEF TypeOK, MySlot

\* The empty queue satisfies the inductive invariant.
LEMMA InitInv == Init => IInv
<1> SUFFICES ASSUME Init PROVE IInv
  OBVIOUS
<1> USE Mpmc1Assumption DEF Init
<1>1. TypeOK
  BY DEF TypeOK, Item
<1>2. SlotExclusive
  BY <1>1 DEF SlotExclusive, Owns
<1>3. Locked
  BY DEF Locked
<1>4. Held
  BY DEF Held, Spent
<1>5. Numbered
  <2>1. /\ head = 0 /\ next = [p \in Producer |-> 0] /\ pc = [t \in Thread |-> "idle"]
        /\ buf = [s \in 0 .. SIZE - 1 |-> None] /\ handed = [i \in Item |-> 0]
    OBVIOUS
  <2> HIDE DEF Init
  <2>2. \A p \in Producer : \A n \in next[p] .. MaxTickets - 1 :
          handed[<<p, n>>] = 0 /\ \A s \in 0 .. SIZE - 1 : buf[s] # <<p, n>>
    BY <2>1 DEF Item
  <2>3. \A s \in 0 .. SIZE - 1 : buf[s] \notin Item
    BY <2>1
  <2>4. \A p \in Producer : next[p] <= head /\ pc[p] \notin {"pushSlot", "write"}
    BY <2>1 DEF Thread
  <2>5. head <= MaxTickets
    BY <2>1
  <2> QED
    BY <2>2, <2>3, <2>4, <2>5 DEF Numbered
<1> QED
  BY <1>2, <1>3, <1>4, <1>5 DEF IInv

-----------------------------------------------------------------------------
(* Steps that draw a ticket or look for one *)

\* Thread t, at label l with index i after the step, has no slot before or
\* after it; a producer that is about to wait for a slot holds a new ticket.
Quiet(t, l, i) ==
  /\ UNCHANGED <<slotVars, history>>
  /\ ~Owns(t)
  /\ l \in {"idle", "tryPushTail", "tryPushCas", "pushSlot",
            "tryPopHead", "tryPopCas", "popSlot"}
  /\ i \in Nat
  /\ pc' = [pc EXCEPT ![t] = l] /\ pos' = [pos EXCEPT ![t] = i]
  /\ head' \in head .. MaxTickets /\ tail' \in Nat
  /\ t \in Producer /\ l = "pushSlot" => next[t] <= i /\ i < head'

\* Such a step leaves every slot and every number as it is.
LEMMA QuietInv ==
  ASSUME IInv, NEW t \in Thread, NEW l, NEW i, Quiet(t, l, i)
  PROVE  IInv'
<1> USE DEF Quiet, slotVars, history
<1> TypeOK
  BY DEF IInv, SlotExclusive
<1>1. TypeOK'
  BY Mpmc1Assumption DEF TypeOK, PushPc, PopPc
<1>2. \A u \in Thread : u # t => pc'[u] = pc[u] /\ pos'[u] = pos[u]
  BY DEF TypeOK
<1>3. pc'[t] = l /\ pos'[t] = i
  BY DEF TypeOK
<1>4. SlotExclusive'
  BY <1>1, <1>2, <1>3 DEF IInv, SlotExclusive, Owns, MySlot
<1>5. Locked'
  BY <1>2, <1>3 DEF IInv, Locked, MySlot
<1>6. Held'
  BY <1>2, <1>3 DEF IInv, Held, MySlot, Spent, Waiting
<1>7. Numbered'
  <2>1. \A p \in Producer :
          /\ next'[p] <= head'
          /\ pc'[p] \in {"pushSlot", "write"} =>
               next'[p] <= pos'[p] /\ pos'[p] < head'
    <3> TAKE p \in Producer
    <3>1. p \in Thread /\ next[p] \in Nat /\ head \in Nat /\ pos[p] \in Nat
      BY DEF TypeOK, Thread
    <3>2. CASE p = t
      BY <1>3, <3>1, <3>2, Mpmc1Assumption DEF IInv, Numbered
    <3>3. CASE p # t
      BY <1>2, <3>1, <3>3, Mpmc1Assumption DEF IInv, Numbered
    <3> QED
      BY <3>2, <3>3
  <2>2. head' <= MaxTickets
    BY Mpmc1Assumption DEF TypeOK
  <2> QED
    BY <2>1, <2>2 DEF IInv, Numbered
<1> QED
  BY <1>4, <1>5, <1>6, <1>7 DEF IInv

\* The calls, and the try operations as long as they look for a ticket.
TicketStep(t) ==
  \/ t \in Producer /\ (Push(t) \/ TryPush(t) \/ TryPushTail(t) \/ TryPushCas(t))
  \/ t \in Consumer /\ (Pop(t) \/ TryPop(t) \/ TryPopHead(t) \/ TryPopCas(t))

\* All of them are quiet.
LEMMA TicketStepQuiet ==
  ASSUME IInv, NEW t \in Thread, TicketStep(t)
  PROVE  \E l, i : Quiet(t, l, i)
<1> TypeOK
  BY DEF IInv, SlotExclusive
<1> USE Mpmc1Assumption DEF At, Goto, SetPos, Owns
<1>1. /\ head \in Nat /\ tail \in Nat /\ pos[t] \in Nat
      /\ pos \in [Thread -> Nat]
      /\ head <= MaxTickets
      /\ t \in Producer => next[t] \in Nat /\ next[t] <= head
  BY DEF TypeOK, IInv, Numbered
<1>2. pos = [pos EXCEPT ![t] = pos[t]]
  BY <1>1
<1>3. CASE t \in Producer /\ Push(t)
  <2>1. Quiet(t, "pushSlot", head)
    BY <1>1, <1>3 DEF Quiet, Push
  <2> QED
    BY <2>1
<1>4. CASE t \in Producer /\ TryPush(t)
  <2>1. Quiet(t, "tryPushTail", head)
    BY <1>1, <1>4 DEF Quiet, TryPush
  <2> QED
    BY <2>1
<1>5. CASE t \in Producer /\ TryPushTail(t)
  <2>1. Quiet(t, IF pos[t] - tail >= CAPACITY THEN "idle" ELSE "tryPushCas", pos[t])
    BY <1>1, <1>2, <1>5 DEF Quiet, TryPushTail
  <2> QED
    BY <2>1
<1>6. CASE t \in Producer /\ TryPushCas(t)
  <2>1. CASE head = pos[t]
    <3>1. Quiet(t, "pushSlot", pos[t])
      BY <1>1, <1>2, <1>6, <2>1 DEF Quiet, TryPushCas
    <3> QED
      BY <3>1
  <2>2. CASE head # pos[t]
    <3>1. Quiet(t, "tryPushTail", head)
      BY <1>1, <1>6, <2>2 DEF Quiet, TryPushCas
    <3> QED
      BY <3>1
  <2> QED
    BY <2>1, <2>2
<1>7. CASE t \in Consumer /\ Pop(t)
  <2>1. Quiet(t, "popSlot", tail)
    BY <1>1, <1>7 DEF Quiet, Pop
  <2> QED
    BY <2>1
<1>8. CASE t \in Consumer /\ TryPop(t)
  <2>1. Quiet(t, "tryPopHead", tail)
    BY <1>1, <1>8 DEF Quiet, TryPop
  <2> QED
    BY <2>1
<1>9. CASE t \in Consumer /\ TryPopHead(t)
  <2>1. Quiet(t, IF head - pos[t] <= 0 THEN "idle" ELSE "tryPopCas", pos[t])
    BY <1>1, <1>2, <1>9 DEF Quiet, TryPopHead
  <2> QED
    BY <2>1
<1>10. CASE t \in Consumer /\ TryPopCas(t)
  <2>1. CASE tail = pos[t]
    <3>1. Quiet(t, "popSlot", pos[t])
      BY <1>1, <1>2, <1>10, <2>1 DEF Quiet, TryPopCas
    <3> QED
      BY <3>1
  <2>2. CASE tail # pos[t]
    <3>1. Quiet(t, "tryPopHead", tail)
      BY <1>1, <1>10, <2>2 DEF Quiet, TryPopCas
    <3> QED
      BY <3>1
  <2> QED
    BY <2>1, <2>2
<1> QED
  BY <1>3, <1>4, <1>5, <1>6, <1>7, <1>8, <1>9, <1>10 DEF TicketStep

-----------------------------------------------------------------------------
(* Steps on a slot *)

\* The step of thread t that takes a slot whose state byte is free, or gives
\* back its own, moves t from label k to l and the byte from a to b.
Marks(t, k, l, a, b) ==
  /\ UNCHANGED <<head, tail, buf, pos, history>>
  /\ pc[t] = k /\ pc' = [pc EXCEPT ![t] = l]
  /\ state[MySlot(t)] = a /\ state' = [state EXCEPT ![MySlot(t)] = b]

\* What such a step leaves alone: the other threads, and the other slots.
LEMMA MarksFrame ==
  ASSUME TypeOK, NEW t \in Thread, NEW k, NEW l, NEW a, NEW b,
         Marks(t, k, l, a, b)
  PROVE  /\ pc'[t] = l /\ state'[MySlot(t)] = b
         /\ \A u \in Thread : /\ MySlot(u)' = MySlot(u)
                              /\ u # t => pc'[u] = pc[u]
         /\ \A s \in 0 .. SIZE - 1 : s # MySlot(t) => state'[s] = state[s]
         /\ \A s : Waiting(s)' = Waiting(s) /\ Spent(s)' = Spent(s)
<1> USE DEF Marks, history
<1>1. MySlot(t) \in 0 .. SIZE - 1
  BY MySlotRange
<1>2. pc'[t] = l /\ state'[MySlot(t)] = b
  BY <1>1 DEF TypeOK
<1>3. \A u \in Thread : MySlot(u)' = MySlot(u) /\ (u # t => pc'[u] = pc[u])
  BY DEF TypeOK, MySlot
<1>4. \A s \in 0 .. SIZE - 1 : s # MySlot(t) => state'[s] = state[s]
  BY DEF TypeOK
<1>5. \A s : Waiting(s)' = Waiting(s) /\ Spent(s)' = Spent(s)
  BY DEF Waiting, Spent
<1> QED
  BY <1>2, <1>3, <1>4, <1>5

\* No item is stored and no ticket drawn, so the numbers stay right.
LEMMA MarksNumbered ==
  ASSUME TypeOK, Numbered, NEW t \in Thread, NEW k, NEW l, NEW a, NEW b,
         Marks(t, k, l, a, b),
         l = "write" => k = "pushSlot", l # "pushSlot"
  PROVE  Numbered'
<1>1. \A p \in Producer : pc'[p] \in {"pushSlot", "write"} =>
                           pc[p] \in {"pushSlot", "write"}
  BY MarksFrame DEF Thread, Marks
<1> QED
  BY <1>1 DEF Numbered, Marks, history

\* The other owners keep their slots: theirs are other slots than t's, because
\* t had its own already or found a byte that no owner has.
LEMMA MarksApart ==
  ASSUME IInv, NEW t \in Thread, NEW k, NEW l, NEW a, NEW b,
         Marks(t, k, l, a, b),
         Owns(t) \/ a \in {"Empty", "Stored"},
         NEW u \in Thread, u # t, Owns(u)
  PROVE  MySlot(u) # MySlot(t)
<1>1. state[MySlot(u)] \in {"Storing", "Loading"}
  BY DEF IInv, Locked, Owns
<1> QED
  BY <1>1 DEF IInv, SlotExclusive, Marks

\* What Held says of one slot.
LEMMA HeldSlot ==
  ASSUME Held, NEW s \in 0 .. SIZE - 1
  PROVE  (state[s] = "Stored" => Waiting(s)) /\ (state[s] = "Empty" => Spent(s))
BY DEF Held

\* A step that marks a slot keeps the invariant if the byte it stores is right.
LEMMA MarksInv ==
  ASSUME IInv, NEW t \in Thread, NEW k, NEW l, NEW a, NEW b,
         Marks(t, k, l, a, b),
         Owns(t) \/ a \in {"Empty", "Stored"},
         \/ k = "pushSlot" /\ l = "write" /\ b = "Storing" /\ Spent(MySlot(t))
         \/ k = "popSlot" /\ l = "read" /\ b = "Loading" /\ Waiting(MySlot(t))
         \/ l = "idle" /\ b = "Stored" /\ Waiting(MySlot(t))
         \/ l = "idle" /\ b = "Empty" /\ Spent(MySlot(t))
  PROVE  IInv'
<1> TypeOK
  BY DEF IInv, SlotExclusive
<1>1. /\ pc'[t] = l /\ state'[MySlot(t)] = b
      /\ \A u \in Thread : /\ MySlot(u)' = MySlot(u)
                           /\ u # t => pc'[u] = pc[u]
      /\ \A s \in 0 .. SIZE - 1 : s # MySlot(t) => state'[s] = state[s]
      /\ \A s : Waiting(s)' = Waiting(s) /\ Spent(s)' = Spent(s)
  BY MarksFrame
<1>2. \A u \in Thread : u # t /\ Owns(u) => MySlot(u) # MySlot(t)
  BY MarksApart
<1>3. \A u \in Thread : MySlot(u) \in 0 .. SIZE - 1
  BY MySlotRange
<1>4. TypeOK'
  <2>1. buf[MySlot(t)] \in Item \/ b \notin {"Stored", "Loading"}
    BY DEF Waiting
  <2>2. \A s \in 0 .. SIZE - 1 :
          state'[s] \in {"Stored", "Loading"} => buf[s] \in Item
    BY <1>1, <2>1 DEF TypeOK
  <2>3. pc' \in [Thread -> {"idle"} \union PushPc \union PopPc]
    BY DEF TypeOK, Marks, PushPc, PopPc
  <2>4. state' \in [0 .. SIZE - 1 -> {"Empty", "Storing", "Stored", "Loading"}]
    BY DEF TypeOK, Marks
  <2> QED
    BY <2>2, <2>3, <2>4 DEF TypeOK, Marks, history
<1>5. SlotExclusive'
  <2>1. \A u \in Thread : Owns(u)' => u = t \/ Owns(u)
    BY <1>1 DEF Owns
  <2> QED
    BY <1>1, <1>2, <1>4, <2>1 DEF IInv, SlotExclusive
<1>6. Locked'
  <2>1. ASSUME NEW u \in Thread
        PROVE  /\ pc'[u] \in {"write", "pushPublish"} => state'[MySlot(u)] = "Storing"
               /\ pc'[u] \in {"read", "popPublish"} => state'[MySlot(u)] = "Loading"
    <3>1. CASE u = t
      BY <1>1, <3>1
    <3>2. CASE u # t
      BY <1>1, <1>2, <1>3, <3>2 DEF IInv, Locked, Owns
    <3> QED
      BY <3>1, <3>2
  <2> QED
    BY <1>1, <2>1 DEF Locked
<1>7. Held'
  <2>1. ASSUME NEW s \in 0 .. SIZE - 1
        PROVE  /\ state'[s] = "Stored" => Waiting(s)
               /\ state'[s] = "Empty" => Spent(s)
    <3>1. Held
      BY DEF IInv
    <3>2. CASE s = MySlot(t)
      BY <1>1, <3>2
    <3>3. CASE s # MySlot(t)
      <4>1. state'[s] = state[s]
        BY <1>1, <3>3
      <4> QED
        BY <3>1, <4>1, HeldSlot
    <3> QED
      BY <3>2, <3>3
  <2>2. ASSUME NEW u \in Thread
        PROVE  /\ pc'[u] \in {"pushPublish", "read"} => Waiting(MySlot(u))
               /\ pc'[u] \in {"write", "popPublish"} => Spent(MySlot(u))
    BY <1>1, <2>2 DEF IInv, Held
  <2> QED
    BY <1>1, <2>1, <2>2 DEF Held
<1>8. Numbered'
  BY MarksNumbered DEF IInv
<1> QED
  BY <1>5, <1>6, <1>7, <1>8 DEF IInv

\* The CAS on a state byte that wins a slot, and the store that gives it back.
SlotStep(t) == \/ PushSlot(t) \/ PushPublish(t)
               \/ PopSlot(t) \/ PopPublish(t)

\* Each marks its slot as MarksInv asks.
LEMMA SlotStepInv ==
  ASSUME IInv, NEW t \in Thread, SlotStep(t)
  PROVE  IInv'
<1> TypeOK
  BY DEF IInv, SlotExclusive
<1> USE DEF At, Goto, SetState, Owns
<1>1. MySlot(t) \in 0 .. SIZE - 1
  BY MySlotRange
<1>2. CASE PushSlot(t)
  <2>1. Marks(t, "pushSlot", "write", "Empty", "Storing")
    BY <1>2 DEF PushSlot, Marks
  <2>2. Spent(MySlot(t))
    BY <1>1, <1>2 DEF PushSlot, IInv, Held
  <2> QED
    BY <2>1, <2>2, MarksInv
<1>3. CASE PushPublish(t)
  <2>1. Marks(t, "pushPublish", "idle", "Storing", "Stored")
    BY <1>3 DEF PushPublish, Marks, IInv, Locked
  <2>2. Waiting(MySlot(t))
    BY <1>3 DEF PushPublish, IInv, Held
  <2> QED
    BY <1>3, <2>1, <2>2, MarksInv DEF PushPublish
<1>4. CASE PopSlot(t)
  <2>1. Marks(t, "popSlot", "read", "Stored", "Loading")
    BY <1>4 DEF PopSlot, Marks
  <2>2. Waiting(MySlot(t))
    BY <1>1, <1>4, HeldSlot DEF PopSlot, IInv
  <2> QED
    BY <2>1, <2>2, MarksInv
<1>5. CASE PopPublish(t)
  <2>1. Marks(t, "popPublish", "idle", "Loading", "Empty")
    BY <1>5 DEF PopPublish, Marks, IInv, Locked
  <2>2. Spent(MySlot(t))
    BY <1>5 DEF PopPublish, IInv, Held
  <2> QED
    BY <1>5, <2>1, <2>2, MarksInv DEF PopPublish
<1> QED
  BY <1>2, <1>3, <1>4, <1>5 DEF SlotStep

-----------------------------------------------------------------------------
(* Steps on the element of a slot *)

\* The item a producer is about to store is in no slot and was never popped.
LEMMA NewItem ==
  ASSUME IInv, NEW t \in Producer, pc[t] = "write"
  PROVE  /\ <<t, next[t]>> \in Item /\ next[t] < head
         /\ handed[<<t, next[t]>>] = 0
         /\ \A s \in 0 .. SIZE - 1 : buf[s] # <<t, next[t]>>
<1>1. TypeOK /\ Numbered
  BY DEF IInv, SlotExclusive
<1>2. /\ head \in Nat /\ next[t] \in Nat /\ pos[t] \in Nat
      /\ head <= MaxTickets /\ next[t] <= pos[t] /\ pos[t] < head
  BY <1>1 DEF TypeOK, Numbered, Thread
<1>3. next[t] \in 0 .. MaxTickets - 1 /\ next[t] \in next[t] .. MaxTickets - 1
  BY <1>2, Mpmc1Assumption
<1> QED
  BY <1>1, <1>2, <1>3 DEF Numbered, Item

\* Storing the element turns the slot from spent to waiting.
LEMMA WriteInv ==
  ASSUME IInv, NEW t \in Producer, WriteVal(t)
  PROVE  IInv'
<1> DEFINE m == MySlot(t)
           v == <<t, next[t]>>
<1>0. t \in Thread /\ pc[t] = "write"
  BY DEF Thread, WriteVal, At
<1>1. TypeOK /\ Locked /\ Held /\ Numbered
  BY DEF IInv, SlotExclusive
<1>2. m \in 0 .. SIZE - 1
  BY <1>0, <1>1, MySlotRange
<1>3. /\ v \in Item /\ next[t] < head /\ handed[v] = 0
      /\ \A s \in 0 .. SIZE - 1 : buf[s] # v
  BY <1>0, NewItem
<1>4. /\ buf' = [buf EXCEPT ![m] = v] /\ next' = [next EXCEPT ![t] = @ + 1]
      /\ pc' = [pc EXCEPT ![t] = "pushPublish"]
      /\ UNCHANGED <<head, tail, state, pos, last, handed>>
  BY DEF WriteVal, Goto
<1> DEFINE w == next[t] + 1
<1>5. /\ buf'[m] = v /\ pc'[t] = "pushPublish" /\ next'[t] = w
      /\ \A s \in 0 .. SIZE - 1 : s # m => buf'[s] = buf[s]
      /\ \A u \in Thread : MySlot(u)' = MySlot(u) /\ (u # t => pc'[u] = pc[u])
      /\ \A p \in Producer : p # t => next'[p] = next[p]
  BY <1>0, <1>1, <1>2, <1>4 DEF TypeOK, MySlot
<1>6. TypeOK'
  <2>1. buf' \in [0 .. SIZE - 1 -> Item \union {None}]
    BY <1>1, <1>3, <1>4 DEF TypeOK
  <2>2. \A s \in DOMAIN state' :
          state'[s] \in {"Stored", "Loading"} => buf'[s] \in Item
    BY <1>1, <1>3, <1>4, <1>5 DEF TypeOK
  <2>3. next' \in [Producer -> Nat]
    BY <1>1, <1>4 DEF TypeOK
  <2>4. pc' \in [Thread -> {"idle"} \union PushPc \union PopPc]
    BY <1>1, <1>4 DEF TypeOK, PushPc
  <2> QED
    BY <1>1, <1>4, <2>1, <2>2, <2>3, <2>4 DEF TypeOK
<1>7. \A u \in Thread : Owns(u)' => Owns(u)
  BY <1>0, <1>5 DEF Owns
<1>8. \A u \in Thread : u # t /\ Owns(u) => MySlot(u) # m
  BY <1>0 DEF IInv, SlotExclusive, Owns
<1>9. SlotExclusive'
  BY <1>5, <1>6, <1>7 DEF IInv, SlotExclusive
<1>10. Locked'
  BY <1>0, <1>1, <1>4, <1>5 DEF Locked
<1>11. Waiting(m)'
  <2>1. m' = m
    BY <1>0, <1>5
  <2>2. buf'[m] \in Item /\ handed'[buf'[m]] = 0
    BY <1>3, <1>4, <1>5
  <2> QED
    BY <2>1, <2>2 DEF Waiting
<1>12. \A s \in 0 .. SIZE - 1 :
         s # m => Waiting(s)' = Waiting(s) /\ Spent(s)' = Spent(s)
  BY <1>4, <1>5 DEF Waiting, Spent
<1>13. Held'
  <2>1. state[m] = "Storing"
    BY <1>0, <1>1 DEF Locked
  <2>2. ASSUME NEW s \in 0 .. SIZE - 1
        PROVE  /\ state[s] = "Stored" => Waiting(s)'
               /\ state[s] = "Empty" => Spent(s)'
    BY <1>1, <1>12, <2>1, <2>2, HeldSlot
  <2>3. ASSUME NEW u \in Thread
        PROVE  /\ pc'[u] \in {"pushPublish", "read"} => Waiting(MySlot(u))'
               /\ pc'[u] \in {"write", "popPublish"} => Spent(MySlot(u))'
    <3>1. CASE u = t
      BY <1>5, <1>11, <3>1
    <3>2. CASE u # t
      <4>1. MySlot(u) \in 0 .. SIZE - 1 /\ MySlot(u)' = MySlot(u) /\ pc'[u] = pc[u]
        BY <1>1, <1>5, <3>2, MySlotRange
      <4>2. Owns(u) => MySlot(u) # m
        BY <1>8, <3>2
      <4>3. Owns(u) => /\ Waiting(MySlot(u))' = Waiting(MySlot(u))
                       /\ Spent(MySlot(u))' = Spent(MySlot(u))
        BY <1>12, <4>1, <4>2 DEF Waiting, Spent
      <4> QED
        BY <1>1, <4>1, <4>3 DEF Held, Owns
    <3> QED
      BY <3>1, <3>2
  <2> QED
    BY <1>4, <2>2, <2>3 DEF Held
<1>14. Numbered'
  <2>1. \A p \in Producer :
          /\ next'[p] <= head'
          /\ pc'[p] \in {"pushSlot", "write"} =>
               next'[p] <= pos'[p] /\ pos'[p] < head'
    <3> TAKE p \in Producer
    <3>1. CASE p = t
      <4>1. next[t] \in Nat /\ head \in Nat
        BY <1>1 DEF TypeOK
      <4> QED
        BY <1>3, <1>4, <1>5, <3>1, <4>1
    <3>2. CASE p # t
      BY <1>1, <1>4, <1>5, <3>2 DEF Numbered, Thread
    <3> QED
      BY <3>1, <3>2
  <2>2. ASSUME NEW p \in Producer, NEW n \in next'[p] .. MaxTickets - 1
        PROVE  /\ handed[<<p, n>>] = 0
               /\ \A s \in 0 .. SIZE - 1 : buf'[s] # <<p, n>>
    <3>1. next[p] \in Nat /\ MaxTickets \in Nat
      BY <1>1, Mpmc1Assumption DEF TypeOK
    <3>2. n \in next[p] .. MaxTickets - 1 /\ <<p, n>> # v
      <4>1. CASE p = t
        BY <1>5, <2>2, <3>1, <4>1
      <4>2. CASE p # t
        BY <1>5, <2>2, <3>1, <4>2
      <4> QED
        BY <4>1, <4>2
    <3> QED
      BY <1>1, <1>5, <3>2 DEF Numbered
  <2>3. \A s, r \in 0 .. SIZE - 1 :
          buf'[s] \in Item /\ buf'[s] = buf'[r] => s = r
    BY <1>1, <1>3, <1>5 DEF Numbered
  <2>4. head' <= MaxTickets
    BY <1>1, <1>4 DEF Numbered
  <2> QED
    BY <1>4, <2>1, <2>2, <2>3, <2>4 DEF Numbered
<1> QED
  BY <1>9, <1>10, <1>13, <1>14 DEF IInv

\* Copying the element hands it out, and only its own slot held it.
LEMMA ReadInv ==
  ASSUME IInv, NEW t \in Consumer, ReadVal(t)
  PROVE  IInv'
<1> DEFINE m == MySlot(t)
           v == buf[m]
<1>0. t \in Thread /\ pc[t] = "read"
  BY DEF Thread, ReadVal, At
<1>1. TypeOK /\ Locked /\ Held /\ Numbered
  BY DEF IInv, SlotExclusive
<1>2. m \in 0 .. SIZE - 1
  BY <1>0, <1>1, MySlotRange
<1>3. v \in Item /\ handed[v] = 0
  BY <1>0, <1>1 DEF Held, Waiting
<1>4. /\ handed' = [handed EXCEPT ![v] = @ + 1]
      /\ last' = [last EXCEPT ![t][v[1]] = v[2] + 1]
      /\ pc' = [pc EXCEPT ![t] = "popPublish"]
      /\ UNCHANGED <<head, tail, state, buf, pos, next>>
  BY DEF ReadVal, Goto, slotVars
<1>5. /\ handed'[v] = 1 /\ pc'[t] = "popPublish"
      /\ \A i \in Item : i # v => handed'[i] = handed[i]
      /\ \A u \in Thread : MySlot(u)' = MySlot(u) /\ (u # t => pc'[u] = pc[u])
  BY <1>0, <1>1, <1>3, <1>4 DEF TypeOK, MySlot
<1>6. TypeOK'
  <2>1. handed' \in [Item -> Nat]
    BY <1>1, <1>3, <1>4 DEF TypeOK
  <2>2. last' \in [Consumer -> [Producer -> Nat]]
    <3>1. v[2] + 1 \in Nat
      BY <1>3, Mpmc1Assumption DEF Item
    <3> QED
      BY <1>1, <1>4, <3>1 DEF TypeOK
  <2>3. pc' \in [Thread -> {"idle"} \union PushPc \union PopPc]
    BY <1>1, <1>4 DEF TypeOK, PopPc
  <2> QED
    BY <1>1, <1>4, <2>1, <2>2, <2>3 DEF TypeOK
<1>7. \A u \in Thread : Owns(u)' => Owns(u)
  BY <1>0, <1>5 DEF Owns
<1>8. \A u \in Thread : u # t /\ Owns(u) => MySlot(u) # m
  BY <1>0 DEF IInv, SlotExclusive, Owns
<1>9. SlotExclusive'
  BY <1>5, <1>6, <1>7 DEF IInv, SlotExclusive
<1>10. Locked'
  BY <1>0, <1>1, <1>4, <1>5 DEF Locked
<1>11. Spent(m)'
  <2>1. m' = m
    BY <1>0, <1>5
  <2>2. buf'[m] \in Item /\ handed'[buf'[m]] > 0
    BY <1>3, <1>4, <1>5
  <2> QED
    BY <2>1, <2>2 DEF Spent
<1>12. ASSUME NEW s \in 0 .. SIZE - 1, s # m
       PROVE  (Waiting(s) => Waiting(s)') /\ (Spent(s) => Spent(s)')
  <2>1. buf'[s] = buf[s] /\ (buf[s] \in Item => buf[s] # v)
    BY <1>1, <1>2, <1>3, <1>4, <1>12 DEF Numbered
  <2>2. buf[s] \in Item => handed'[buf[s]] = handed[buf[s]]
    BY <1>5, <2>1
  <2> QED
    BY <2>1, <2>2 DEF Waiting, Spent
<1>13. Held'
  <2>1. state[m] = "Loading"
    BY <1>0, <1>1 DEF Locked
  <2>2. ASSUME NEW s \in 0 .. SIZE - 1
        PROVE  /\ state[s] = "Stored" => Waiting(s)'
               /\ state[s] = "Empty" => Spent(s)'
    BY <1>1, <1>12, <2>1, <2>2, HeldSlot
  <2>3. ASSUME NEW u \in Thread
        PROVE  /\ pc'[u] \in {"pushPublish", "read"} => Waiting(MySlot(u))'
               /\ pc'[u] \in {"write", "popPublish"} => Spent(MySlot(u))'
    <3>1. CASE u = t
      BY <1>5, <1>11, <3>1
    <3>2. CASE u # t
      <4>1. MySlot(u) \in 0 .. SIZE - 1 /\ MySlot(u)' = MySlot(u) /\ pc'[u] = pc[u]
        BY <1>1, <1>5, <3>2, MySlotRange
      <4>2. Owns(u) => MySlot(u) # m
        BY <1>8, <3>2
      <4>3. Owns(u) => /\ Waiting(MySlot(u)) => Waiting(MySlot(u))'
                       /\ Spent(MySlot(u)) => Spent(MySlot(u))'
        BY <1>12, <4>1, <4>2 DEF Waiting, Spent
      <4> QED
        BY <1>1, <4>1, <4>3 DEF Held, Owns
    <3> QED
      BY <3>1, <3>2
  <2> QED
    BY <1>4, <2>2, <2>3 DEF Held
<1>14. Numbered'
  <2>1. \A p \in Producer :
          /\ next'[p] <= head'
          /\ pc'[p] \in {"pushSlot", "write"} =>
               next'[p] <= pos'[p] /\ pos'[p] < head'
    BY <1>0, <1>1, <1>4, <1>5 DEF Numbered, Thread
  <2>2. ASSUME NEW p \in Producer, NEW n \in next[p] .. MaxTickets - 1
        PROVE  /\ handed'[<<p, n>>] = 0
               /\ \A s \in 0 .. SIZE - 1 : buf[s] # <<p, n>>
    <3>1. handed[<<p, n>>] = 0 /\ \A s \in 0 .. SIZE - 1 : buf[s] # <<p, n>>
      BY <1>1, <2>2 DEF Numbered
    <3>2. n \in 0 .. MaxTickets - 1
      BY <1>1, <2>2, Mpmc1Assumption DEF TypeOK
    <3>3. <<p, n>> \in Item /\ <<p, n>> # v
      BY <1>2, <3>1, <3>2 DEF Item
    <3> QED
      BY <1>5, <3>1, <3>3
  <2>3. head' <= MaxTickets
    BY <1>1, <1>4 DEF Numbered
  <2> QED
    BY <1>1, <1>4, <2>1, <2>2, <2>3 DEF Numbered
<1> QED
  BY <1>9, <1>10, <1>13, <1>14 DEF IInv

-----------------------------------------------------------------------------
(* The theorems *)

\* Every step is one of the four kinds above.
LEMMA StepKinds ==
  ASSUME Next
  PROVE  \/ \E t \in Thread : TicketStep(t) \/ SlotStep(t)
         \/ \E t \in Producer : WriteVal(t)
         \/ \E t \in Consumer : ReadVal(t)
<1>1. CASE \E t \in Producer : Push(t) \/ TryPush(t) \/ PushStep(t)
  BY <1>1 DEF PushStep, TicketStep, SlotStep, Thread
<1>2. CASE \E t \in Consumer : Pop(t) \/ TryPop(t) \/ PopStep(t)
  BY <1>2 DEF PopStep, TicketStep, SlotStep, Thread
<1> QED
  BY <1>1, <1>2 DEF Next

\* No step breaks the inductive invariant.
LEMMA StepInv ==
  ASSUME IInv, [Next]_vars
  PROVE  IInv'
<1>1. CASE \E t \in Thread : TicketStep(t)
  BY <1>1, TicketStepQuiet, QuietInv
<1>2. CASE \E t \in Thread : SlotStep(t)
  BY <1>2, SlotStepInv
<1>3. CASE \E t \in Producer : WriteVal(t)
  BY <1>3, WriteInv
<1>4. CASE \E t \in Consumer : ReadVal(t)
  BY <1>4, ReadInv
<1>5. CASE UNCHANGED vars
  BY <1>5 DEF vars, IInv, SlotExclusive, TypeOK, Owns, MySlot, Locked, Held,
              Waiting, Spent, Numbered
<1> QED
  BY <1>1, <1>2, <1>3, <1>4, <1>5, StepKinds

\* The state bytes show who owns each slot and whether its item still waits, and
\* no item is stored twice, however the waiting threads of different laps race.
THEOREM Invariance == Spec => []IInv
<1>1. Init => IInv
  BY InitInv
<1>2. IInv /\ [Next]_vars => IInv'
  BY StepInv
<1> QED
  BY <1>1, <1>2, PTL DEF Spec

\* push_direct and pop_direct never let two threads at the element of a slot.
THEOREM SlotSafety == Spec => []SlotExclusive
<1>1. IInv => SlotExclusive
  BY DEF IInv
<1> QED
  BY <1>1, Invariance, PTL

-----------------------------------------------------------------------------
(* Refinement *)

\* A producer about to store its element finds room: each item of the bag has
\* a slot of its own, and the producer's slot holds none of them.
LEMMA RoomForItem ==
  ASSUME IInv, NEW t \in Producer, pc[t] = "write"
  PROVE  Bag!Cardinality(Contents) < CAPACITY
<1> DEFINE S == 0 .. SIZE - 1
           m == MySlot(t)
           T == S \ {m}
           f == [i \in Contents |-> CHOOSE s \in S : buf[s] = i]
<1>1. TypeOK /\ Held /\ t \in Thread
  BY DEF IInv, SlotExclusive, Thread
<1>2. m \in S
  BY <1>1, MySlotRange
<1>3. buf[m] \notin Contents
  BY <1>1, Mpmc1Assumption DEF Held, Spent, Contents
<1>4. \A i \in Contents : \E s \in S : buf[s] = i
  BY <1>1 DEF Contents, TypeOK
<1>5. ASSUME NEW i \in Contents
      PROVE  f[i] \in T /\ buf[f[i]] = i
  <2>1. f[i] \in S /\ buf[f[i]] = i
    BY <1>4
  <2> QED
    BY <1>3, <2>1
<1> HIDE DEF f
<1>6. f \in Injection(Contents, T)
  <2>1. f \in [Contents -> T]
    BY <1>5 DEF f
  <2>2. \A i, j \in Contents : f[i] = f[j] => i = j
    BY <1>5
  <2> QED
    BY <2>1, <2>2 DEF Injection, IsInjective
<1>7. /\ IsFiniteSet(S) /\ Cardinality(S) = SIZE
  BY FS_Interval, Mpmc1Assumption
<1>8. IsFiniteSet(T) /\ Cardinality(T) = SIZE - 1
  BY <1>2, <1>7, FS_RemoveElement
<1>9. IsFiniteSet(Contents) /\ Cardinality(Contents) <= SIZE - 1
  BY <1>6, <1>8, FS_Injection
<1>10. Cardinality(Contents) \in Nat
  BY <1>9, FS_CardinalityType
<1>11. Cardinality(Contents) < CAPACITY
  BY <1>9, <1>10, Mpmc1Assumption DEF CAPACITY
<1>12. Bag!Cardinality(Contents) = Cardinality(Contents)
  BY DEF Bag!Cardinality, Cardinality
<1> QED
  BY <1>11, <1>12

\* Storing the element puts the item into the bag.
LEMMA WritePuts ==
  ASSUME IInv, NEW t \in Producer, WriteVal(t)
  PROVE  Bag!Put(<<t, next[t]>>)
<1> DEFINE m == MySlot(t)
           v == <<t, next[t]>>
<1>0. t \in Thread /\ pc[t] = "write"
  BY DEF Thread, WriteVal, At
<1>1. TypeOK /\ Held
  BY DEF IInv, SlotExclusive
<1>2. m \in DOMAIN buf /\ DOMAIN buf = 0 .. SIZE - 1
  BY <1>0, <1>1, MySlotRange DEF TypeOK
<1>3. /\ v \in Item /\ handed[v] = 0
      /\ \A s \in DOMAIN buf : buf[s] # v
  BY <1>0, <1>2, NewItem
<1>4. /\ buf' = [buf EXCEPT ![m] = v] /\ handed' = handed
      /\ DOMAIN buf' = DOMAIN buf /\ buf'[m] = v
      /\ \A s \in DOMAIN buf : s # m => buf'[s] = buf[s]
  BY <1>2 DEF WriteVal
<1>5. buf[m] \notin Contents
  BY <1>0, <1>1, Mpmc1Assumption DEF Held, Spent, Contents
<1>6. v \notin Contents
  BY <1>3 DEF Contents
<1>7. Contents' = Contents \union {v}
  <2>1. Contents' = {i \in Item : handed[i] = 0 /\ \E s \in DOMAIN buf : buf'[s] = i}
    BY <1>4 DEF Contents
  <2>2. ASSUME NEW i \in Item, handed[i] = 0
        PROVE  (\E s \in DOMAIN buf : buf'[s] = i)
               <=> i = v \/ \E s \in DOMAIN buf : buf[s] = i
    <3>1. buf[m] # i
      BY <1>2, <1>5, <2>2 DEF Contents
    <3> QED
      BY <1>2, <1>4, <3>1
  <2> QED
    BY <1>3, <2>1, <2>2 DEF Contents
<1> QED
  BY <1>0, <1>3, <1>4, <1>6, <1>7, RoomForItem DEF Bag!Put

\* Copying the element takes the item out of the bag.
LEMMA ReadTakes ==
  ASSUME IInv, NEW t \in Consumer, ReadVal(t)
  PROVE  buf[MySlot(t)] \in Item /\ Bag!Take(buf[MySlot(t)])
<1> DEFINE m == MySlot(t)
           v == buf[m]
<1>0. t \in Thread /\ pc[t] = "read"
  BY DEF Thread, ReadVal, At
<1>1. TypeOK /\ Held
  BY DEF IInv, SlotExclusive
<1>2. m \in DOMAIN buf
  BY <1>0, <1>1, MySlotRange DEF TypeOK
<1>3. v \in Item /\ handed[v] = 0
  BY <1>0, <1>1 DEF Held, Waiting
<1>4. handed' = [handed EXCEPT ![v] = @ + 1] /\ buf' = buf
  BY DEF ReadVal, slotVars
<1>5. handed'[v] # 0 /\ \A i \in Item : i # v => handed'[i] = handed[i]
  BY <1>1, <1>3, <1>4 DEF TypeOK
<1>6. v \in Contents
  BY <1>2, <1>3 DEF Contents
<1>7. Contents' = Contents \ {v}
  BY <1>4, <1>5 DEF Contents
<1> QED
  BY <1>3, <1>4, <1>6, <1>7 DEF Bag!Take

\* The other steps leave the bag as it is.
LEMMA StepMaps ==
  ASSUME IInv, [Next]_vars
  PROVE  [Bag!BagNext]_(Bag!bagVars)
<1>1. CASE \E t \in Thread : TicketStep(t)
  <2>1. PICK t \in Thread : TicketStep(t)
    BY <1>1
  <2>2. UNCHANGED <<slotVars, history>>
    BY <2>1, TicketStepQuiet DEF Quiet
  <2> QED
    BY <2>2 DEF Bag!bagVars, Contents, slotVars, history
<1>2. CASE \E t \in Thread : SlotStep(t)
  <2>1. UNCHANGED <<buf, history>>
    BY <1>2 DEF SlotStep, PushSlot, PushPublish, PopSlot, PopPublish
  <2> QED
    BY <2>1 DEF Bag!bagVars, Contents, history
<1>3. CASE \E t \in Producer : WriteVal(t)
  <2>1. PICK t \in Producer : WriteVal(t)
    BY <1>3
  <2>2. <<t, next[t]>> \in Item
    BY <2>1, NewItem DEF WriteVal, At
  <2> QED
    BY <2>1, <2>2, WritePuts DEF Bag!BagNext
<1>4. CASE \E t \in Consumer : ReadVal(t)
  BY <1>4, ReadTakes DEF Bag!BagNext
<1>5. CASE UNCHANGED vars
  BY <1>5 DEF vars, Bag!bagVars, Contents
<1> QED
  BY <1>1, <1>2, <1>3, <1>4, <1>5, StepKinds

\* Every run of the queue is a run of the bounded bag: what a push stored is
\* popped at most once, and never more than SIZE items are in the queue.
THEOREM Refinement == Spec => ImplementsBag
<1>1. Init => Bag!BagInit
  <2>1. ASSUME Init PROVE Contents = {}
    BY <2>1, Mpmc1Assumption DEF Init, Contents
  <2> QED
    BY <2>1 DEF Init, Bag!BagInit
<1>2. IInv /\ [Next]_vars => [Bag!BagNext]_(Bag!bagVars)
  BY StepMaps
<1> QED
  BY <1>1, <1>2, Invariance, PTL DEF Spec, ImplementsBag, Bag!BagSpec

-----------------------------------------------------------------------------
(* Counting tickets and slots *)

\* What moving one element does to the size of a set.
LEMMA OneMoved ==
  ASSUME NEW A, NEW B, NEW x, IsFiniteSet(A), A \ {x} = B \ {x}
  PROVE  /\ IsFiniteSet(B) /\ Cardinality(A) \in Nat /\ Cardinality(B) \in Nat
         /\ (x \in A <=> x \in B) => Cardinality(B) = Cardinality(A)
         /\ x \in A /\ x \notin B => Cardinality(B) = Cardinality(A) - 1
         /\ x \notin A /\ x \in B => Cardinality(B) = Cardinality(A) + 1
<1>1. CASE x \in A <=> x \in B
  <2>1. A = B
    BY <1>1
  <2> QED
    BY <1>1, <2>1, FS_CardinalityType
<1>2. CASE x \in A /\ x \notin B
  <2>1. B = A \ {x}
    BY <1>2
  <2>2. IsFiniteSet(B) /\ Cardinality(B) = Cardinality(A) - 1
    BY <1>2, <2>1, FS_RemoveElement
  <2> QED
    BY <1>2, <2>2, FS_CardinalityType
<1>3. CASE x \notin A /\ x \in B
  <2>1. B = A \union {x}
    BY <1>3
  <2>2. IsFiniteSet(B) /\ Cardinality(B) = Cardinality(A) + 1
    BY <1>3, <2>1, FS_AddElement
  <2> QED
    BY <1>3, <2>2, FS_CardinalityType
<1> QED
  BY <1>1, <1>2, <1>3

\* A thread that goes to label l may join or leave those that wait for a slot.
LEMMA QueuedStep ==
  ASSUME TypeOK, Counted, NEW t \in Thread, NEW l, pc' = [pc EXCEPT ![t] = l]
  PROVE  /\ IsFiniteSet(PushesQueued') /\ IsFiniteSet(PopsQueued')
         /\ Cardinality(PushesQueued) \in Nat /\ Cardinality(PopsQueued) \in Nat
         /\ Cardinality(PushesQueued') =
              Cardinality(PushesQueued) + (IF l = "pushSlot" THEN 1 ELSE 0)
                                        - (IF pc[t] = "pushSlot" THEN 1 ELSE 0)
         /\ Cardinality(PopsQueued') =
              Cardinality(PopsQueued) + (IF l = "popSlot" THEN 1 ELSE 0)
                                      - (IF pc[t] = "popSlot" THEN 1 ELSE 0)
<1> DEFINE A == PushesQueued
           B == PushesQueued'
           C == PopsQueued
           D == PopsQueued'
<1>1. /\ A \ {t} = B \ {t} /\ C \ {t} = D \ {t}
      /\ t \in A <=> pc[t] = "pushSlot"
      /\ t \in B <=> l = "pushSlot"
      /\ t \in C <=> pc[t] = "popSlot"
      /\ t \in D <=> l = "popSlot"
  BY DEF TypeOK, PushesQueued, PopsQueued
<1>2. IsFiniteSet(A) /\ IsFiniteSet(C)
  BY DEF Counted
<1> HIDE DEF A, B, C, D
<1>3. /\ IsFiniteSet(B) /\ Cardinality(A) \in Nat
      /\ Cardinality(B) = Cardinality(A) + (IF t \in B THEN 1 ELSE 0)
                                         - (IF t \in A THEN 1 ELSE 0)
  BY <1>1, <1>2, OneMoved
<1>4. /\ IsFiniteSet(D) /\ Cardinality(C) \in Nat
      /\ Cardinality(D) = Cardinality(C) + (IF t \in D THEN 1 ELSE 0)
                                         - (IF t \in C THEN 1 ELSE 0)
  BY <1>1, <1>2, OneMoved
<1> QED
  BY <1>1, <1>3, <1>4 DEF A, B, C, D

\* A slot whose byte goes from a to b begins or ends to be in use.
LEMMA InUseStep ==
  ASSUME TypeOK, NEW s \in 0 .. SIZE - 1, NEW b, state' = [state EXCEPT ![s] = b]
  PROVE  /\ Cardinality(InUse) \in Nat /\ Cardinality(InUse') \in Nat
         /\ (state[s] \in {"Storing", "Stored"} <=> b \in {"Storing", "Stored"})
              => Cardinality(InUse') = Cardinality(InUse)
         /\ state[s] \in {"Storing", "Stored"} /\ b \notin {"Storing", "Stored"}
              => Cardinality(InUse') = Cardinality(InUse) - 1
         /\ state[s] \notin {"Storing", "Stored"} /\ b \in {"Storing", "Stored"}
              => Cardinality(InUse') = Cardinality(InUse) + 1
<1> DEFINE A == InUse
           B == InUse'
<1>1. /\ A \ {s} = B \ {s}
      /\ s \in A <=> state[s] \in {"Storing", "Stored"}
      /\ s \in B <=> b \in {"Storing", "Stored"}
  BY DEF TypeOK, InUse
<1>2. IsFiniteSet(A)
  <2>1. IsFiniteSet(0 .. SIZE - 1)
    BY Mpmc1Assumption, FS_Interval
  <2>2. A \in SUBSET (0 .. SIZE - 1)
    BY DEF InUse
  <2> HIDE DEF A
  <2> QED
    BY <2>1, <2>2, FS_Subset
<1> HIDE DEF A, B
<1>3. /\ IsFiniteSet(B) /\ Cardinality(A) \in Nat /\ Cardinality(B) \in Nat
      /\ (s \in A <=> s \in B) => Cardinality(B) = Cardinality(A)
      /\ s \in A /\ s \notin B => Cardinality(B) = Cardinality(A) - 1
      /\ s \notin A /\ s \in B => Cardinality(B) = Cardinality(A) + 1
  BY <1>1, <1>2, OneMoved
<1> QED
  BY <1>1, <1>3 DEF A, B

\* A call, or the search for a ticket, draws one ticket or none, and who draws
\* one waits for its slot.
Draws(t, l) ==
  /\ UNCHANGED <<slotVars, history>>
  /\ pc[t] \notin {"pushSlot", "popSlot"} /\ ~Owns(t)
  /\ pc' = [pc EXCEPT ![t] = l] /\ l \notin {"write", "read"}
  /\ \A u \in Thread : u # t => pos'[u] = pos[u]
  /\ \/ l = "pushSlot" /\ t \in Producer /\ pos'[t] = head
          /\ head' = head + 1 /\ tail' = tail
     \/ l = "popSlot" /\ t \in Consumer /\ pos'[t] = tail
          /\ tail' = tail + 1 /\ head' = head
     \/ l \notin {"pushSlot", "popSlot"} /\ UNCHANGED <<head, tail>>
LEMMA TicketStepDraws ==
  ASSUME TypeOK, NEW t \in Thread, TicketStep(t)
  PROVE  \E l : Draws(t, l)
<1> USE DEF At, Goto, SetPos, Owns, Draws
<1>1. pos \in [Thread -> Nat]
  BY DEF TypeOK
<1>2. ASSUME NEW i, pos' = [pos EXCEPT ![t] = i]
      PROVE  pos'[t] = i /\ \A u \in Thread : u # t => pos'[u] = pos[u]
  BY <1>1, <1>2
<1>3. CASE t \in Producer /\ Push(t)
  <2>1. Draws(t, "pushSlot")
    BY <1>2, <1>3 DEF Push
  <2> QED
    BY <2>1
<1>4. CASE t \in Producer /\ TryPush(t)
  <2>1. Draws(t, "tryPushTail")
    BY <1>2, <1>4 DEF TryPush
  <2> QED
    BY <2>1
<1>5. CASE t \in Producer /\ TryPushTail(t)
  <2>1. Draws(t, IF pos[t] - tail >= CAPACITY THEN "idle" ELSE "tryPushCas")
    BY <1>5 DEF TryPushTail
  <2> QED
    BY <2>1
<1>6. CASE t \in Producer /\ TryPushCas(t)
  <2>1. CASE head = pos[t]
    <3>1. Draws(t, "pushSlot")
      BY <1>6, <2>1 DEF TryPushCas
    <3> QED
      BY <3>1
  <2>2. CASE head # pos[t]
    <3>1. Draws(t, "tryPushTail")
      BY <1>2, <1>6, <2>2 DEF TryPushCas
    <3> QED
      BY <3>1
  <2> QED
    BY <2>1, <2>2
<1>7. CASE t \in Consumer /\ Pop(t)
  <2>1. Draws(t, "popSlot")
    BY <1>2, <1>7 DEF Pop
  <2> QED
    BY <2>1
<1>8. CASE t \in Consumer /\ TryPop(t)
  <2>1. Draws(t, "tryPopHead")
    BY <1>2, <1>8 DEF TryPop
  <2> QED
    BY <2>1
<1>9. CASE t \in Consumer /\ TryPopHead(t)
  <2>1. Draws(t, IF head - pos[t] <= 0 THEN "idle" ELSE "tryPopCas")
    BY <1>9 DEF TryPopHead
  <2> QED
    BY <2>1
<1>10. CASE t \in Consumer /\ TryPopCas(t)
  <2>1. CASE tail = pos[t]
    <3>1. Draws(t, "popSlot")
      BY <1>10, <2>1 DEF TryPopCas
    <3> QED
      BY <3>1
  <2>2. CASE tail # pos[t]
    <3>1. Draws(t, "tryPopHead")
      BY <1>2, <1>10, <2>2 DEF TryPopCas
    <3> QED
      BY <3>1
  <2> QED
    BY <2>1, <2>2
<1> QED
  BY <1>3, <1>4, <1>5, <1>6, <1>7, <1>8, <1>9, <1>10 DEF TicketStep

\* The sum of tickets and slots after a step on a ticket.
LEMMA DrawsCounted ==
  ASSUME TypeOK, Counted, NEW t \in Thread, NEW l, Draws(t, l)
  PROVE  Counted'
<1> USE DEF Draws, slotVars, history
<1>1. /\ head \in Nat /\ tail \in Nat
      /\ head - Cardinality(PushesQueued)
           = tail - Cardinality(PopsQueued) + Cardinality(InUse)
  BY DEF Counted, TypeOK
<1>2. InUse' = InUse
  BY DEF InUse
<1>3. Cardinality(InUse) \in Nat
  <2>1. PICK s \in 0 .. SIZE - 1 : TRUE
    BY Mpmc1Assumption
  <2>2. state' = [state EXCEPT ![s] = state[s]]
    BY DEF TypeOK
  <2> QED
    BY <2>1, <2>2, InUseStep
<1>4. /\ IsFiniteSet(PushesQueued') /\ IsFiniteSet(PopsQueued')
      /\ head' - Cardinality(PushesQueued')
           = tail' - Cardinality(PopsQueued') + Cardinality(InUse')
  <2>1. pc' = [pc EXCEPT ![t] = l]
    OBVIOUS
  <2>2. /\ pc[t] # "pushSlot" /\ pc[t] # "popSlot"
        /\ head' = head + (IF l = "pushSlot" THEN 1 ELSE 0)
        /\ tail' = tail + (IF l = "popSlot" THEN 1 ELSE 0)
    BY <1>1
  <2> HIDE DEF Draws
  <2>3. /\ IsFiniteSet(PushesQueued') /\ IsFiniteSet(PopsQueued')
        /\ Cardinality(PushesQueued) \in Nat /\ Cardinality(PopsQueued) \in Nat
        /\ Cardinality(PushesQueued') =
             Cardinality(PushesQueued) + (IF l = "pushSlot" THEN 1 ELSE 0)
                                       - (IF pc[t] = "pushSlot" THEN 1 ELSE 0)
        /\ Cardinality(PopsQueued') =
             Cardinality(PopsQueued) + (IF l = "popSlot" THEN 1 ELSE 0)
                                     - (IF pc[t] = "popSlot" THEN 1 ELSE 0)
    BY <2>1, QueuedStep
  <2> QED
    BY <1>1, <1>2, <1>3, <2>2, <2>3
<1>5. ASSUME NEW s \in 0 .. SIZE - 1, state'[s] = "Storing"
      PROVE  \E u \in Thread : MySlot(u)' = s /\ pc'[u] \in {"write", "pushPublish"}
  <2>1. PICK u \in Thread : MySlot(u) = s /\ pc[u] \in {"write", "pushPublish"}
    BY <1>5 DEF Counted
  <2>2. u # t
    BY <2>1 DEF Owns
  <2>3. MySlot(u)' = MySlot(u) /\ pc'[u] = pc[u]
    BY <2>2 DEF MySlot, TypeOK
  <2> QED
    BY <2>1, <2>3
<1> QED
  BY <1>4, <1>5 DEF Counted

\* The CAS and the stores on a state byte, one by one.
LEMMA SlotStepMarks ==
  ASSUME IInv, NEW t \in Thread, SlotStep(t)
  PROVE  \/ Marks(t, "pushSlot", "write", "Empty", "Storing")
         \/ Marks(t, "pushPublish", "idle", "Storing", "Stored")
         \/ Marks(t, "popSlot", "read", "Stored", "Loading")
         \/ Marks(t, "popPublish", "idle", "Loading", "Empty")
<1> USE DEF At, Goto, SetState, Marks
<1>1. CASE PushSlot(t)
  BY <1>1 DEF PushSlot
<1>2. CASE PushPublish(t)
  BY <1>2 DEF PushPublish, IInv, Locked
<1>3. CASE PopSlot(t)
  BY <1>3 DEF PopSlot
<1>4. CASE PopPublish(t)
  BY <1>4 DEF PopPublish, IInv, Locked
<1> QED
  BY <1>1, <1>2, <1>3, <1>4 DEF SlotStep

\* A push that gets its slot takes it into use, a pop that gets its slot ends
\* that, and the stores that give a slot back leave the sum alone.
LEMMA MarksCounted ==
  ASSUME TypeOK, Counted, NEW t \in Thread, NEW k, NEW l, NEW a, NEW b,
         Marks(t, k, l, a, b),
         \/ k = "pushSlot" /\ l = "write" /\ a = "Empty" /\ b = "Storing"
         \/ k = "pushPublish" /\ l = "idle" /\ a = "Storing" /\ b = "Stored"
         \/ k = "popSlot" /\ l = "read" /\ a = "Stored" /\ b = "Loading"
         \/ k = "popPublish" /\ l = "idle" /\ a = "Loading" /\ b = "Empty"
  PROVE  Counted'
<1>1. /\ head \in Nat /\ tail \in Nat
      /\ head - Cardinality(PushesQueued)
           = tail - Cardinality(PopsQueued) + Cardinality(InUse)
  BY DEF Counted, TypeOK
<1>2. /\ head' = head /\ tail' = tail /\ pc[t] = k /\ state[MySlot(t)] = a
      /\ pc' = [pc EXCEPT ![t] = l] /\ state' = [state EXCEPT ![MySlot(t)] = b]
  BY DEF Marks
<1>3. /\ IsFiniteSet(PushesQueued') /\ IsFiniteSet(PopsQueued')
      /\ Cardinality(PushesQueued) \in Nat /\ Cardinality(PopsQueued) \in Nat
      /\ Cardinality(PushesQueued') =
           Cardinality(PushesQueued) + (IF l = "pushSlot" THEN 1 ELSE 0)
                                     - (IF pc[t] = "pushSlot" THEN 1 ELSE 0)
      /\ Cardinality(PopsQueued') =
           Cardinality(PopsQueued) + (IF l = "popSlot" THEN 1 ELSE 0)
                                   - (IF pc[t] = "popSlot" THEN 1 ELSE 0)
  BY <1>2, QueuedStep
<1>4. MySlot(t) \in 0 .. SIZE - 1
  BY MySlotRange
<1>5. /\ Cardinality(InUse) \in Nat /\ Cardinality(InUse') \in Nat
      /\ (a \in {"Storing", "Stored"} <=> b \in {"Storing", "Stored"})
           => Cardinality(InUse') = Cardinality(InUse)
      /\ a \in {"Storing", "Stored"} /\ b \notin {"Storing", "Stored"}
           => Cardinality(InUse') = Cardinality(InUse) - 1
      /\ a \notin {"Storing", "Stored"} /\ b \in {"Storing", "Stored"}
           => Cardinality(InUse') = Cardinality(InUse) + 1
  BY <1>2, <1>4, InUseStep
<1>6. head' - Cardinality(PushesQueued')
        = tail' - Cardinality(PopsQueued') + Cardinality(InUse')
  BY <1>1, <1>2, <1>3, <1>5
<1>7. ASSUME NEW s \in 0 .. SIZE - 1, state'[s] = "Storing"
      PROVE  \E u \in Thread : MySlot(u)' = s /\ pc'[u] \in {"write", "pushPublish"}
  <2>1. /\ pc'[t] = l /\ state'[MySlot(t)] = b
        /\ \A u \in Thread : MySlot(u)' = MySlot(u) /\ (u # t => pc'[u] = pc[u])
        /\ s # MySlot(t) => state'[s] = state[s]
    BY MarksFrame
  <2>2. CASE s = MySlot(t)
    <3>1. MySlot(t)' = s /\ pc'[t] \in {"write", "pushPublish"}
      BY <1>7, <2>1, <2>2
    <3> QED
      BY <3>1
  <2>3. CASE s # MySlot(t)
    <3>1. PICK u \in Thread : MySlot(u) = s /\ pc[u] \in {"write", "pushPublish"}
      BY <1>7, <2>1, <2>3 DEF Counted
    <3>2. u # t
      BY <2>3, <3>1
    <3>3. MySlot(u)' = s /\ pc'[u] \in {"write", "pushPublish"}
      BY <2>1, <3>1, <3>2
    <3> QED
      BY <3>3
  <2> QED
    BY <2>2, <2>3
<1> QED
  BY <1>3, <1>6, <1>7 DEF Counted

\* Storing or copying an element moves no count.
LEMMA AccessCounted ==
  ASSUME TypeOK, Counted, NEW t \in Thread, UNCHANGED <<head, tail, state, pos>>,
         \/ pc[t] = "write" /\ pc' = [pc EXCEPT ![t] = "pushPublish"]
         \/ pc[t] = "read" /\ pc' = [pc EXCEPT ![t] = "popPublish"]
  PROVE  Counted'
<1>1. PushesQueued' = PushesQueued /\ PopsQueued' = PopsQueued
  BY DEF PushesQueued, PopsQueued, TypeOK
<1>2. InUse' = InUse
  BY DEF InUse
<1>3. ASSUME NEW s \in 0 .. SIZE - 1, state'[s] = "Storing"
      PROVE  \E u \in Thread : MySlot(u)' = s /\ pc'[u] \in {"write", "pushPublish"}
  <2>1. PICK u \in Thread : MySlot(u) = s /\ pc[u] \in {"write", "pushPublish"}
    BY <1>3 DEF Counted
  <2>2. MySlot(u)' = MySlot(u) /\ pc'[u] \in {"write", "pushPublish"}
    BY <2>1 DEF MySlot, TypeOK
  <2> QED
    BY <2>1, <2>2
<1> QED
  BY <1>1, <1>2, <1>3 DEF Counted

\* No step disturbs the sum.
LEMMA CountedNext ==
  ASSUME IInv, Counted, [Next]_vars
  PROVE  Counted'
<1> TypeOK
  BY DEF IInv, SlotExclusive
<1>1. ASSUME NEW t \in Thread, TicketStep(t) PROVE Counted'
  BY <1>1, TicketStepDraws, DrawsCounted
<1>2. ASSUME NEW t \in Thread, SlotStep(t) PROVE Counted'
  BY <1>2, SlotStepMarks, MarksCounted
<1>3. ASSUME NEW t \in Producer, WriteVal(t) PROVE Counted'
  <2>1. /\ t \in Thread /\ UNCHANGED <<head, tail, state, pos>>
        /\ pc[t] = "write" /\ pc' = [pc EXCEPT ![t] = "pushPublish"]
    BY <1>3 DEF WriteVal, At, Goto, slotVars, Thread
  <2> QED
    BY <2>1, AccessCounted
<1>4. ASSUME NEW t \in Consumer, ReadVal(t) PROVE Counted'
  <2>1. /\ t \in Thread /\ UNCHANGED <<head, tail, state, pos>>
        /\ pc[t] = "read" /\ pc' = [pc EXCEPT ![t] = "popPublish"]
    BY <1>4 DEF ReadVal, At, Goto, slotVars, Thread
  <2> QED
    BY <2>1, AccessCounted
<1>5. CASE UNCHANGED vars
  BY <1>5 DEF vars, Counted, PushesQueued, PopsQueued, InUse, MySlot
<1> QED
  BY <1>1, <1>2, <1>3, <1>4, <1>5, StepKinds

\* Tickets and slots in use agree in every state of every run, for every SIZE and
\* any threads: what a call draws it uses.
THEOREM Accounting == Spec => []Counted
<1>1. Init => Counted
  <2> SUFFICES ASSUME Init PROVE Counted
    OBVIOUS
  <2>1. PushesQueued = {} /\ PopsQueued = {} /\ InUse = {}
    BY DEF Init, PushesQueued, PopsQueued, InUse
  <2>2. head = 0 /\ tail = 0 /\ \A s \in 0 .. SIZE - 1 : state[s] # "Storing"
    BY DEF Init
  <2> QED
    BY <2>1, <2>2, FS_EmptySet DEF Counted
<1>2. IInv /\ Counted /\ [Next]_vars => Counted'
  BY CountedNext
<1> QED
  BY <1>1, <1>2, Invariance, PTL DEF Spec

\* When no operation is in flight, size() of mpmc_1.h is the number of stored
\* items, although threads of different laps may have swapped slots.
THEOREM SizeRight == Spec => []SizeAtRest
<1>1. ASSUME TypeOK, Counted, \A t \in Thread : At(t, "idle")
      PROVE  /\ tail <= head
             /\ head - tail = Cardinality({s \in DOMAIN state : state[s] = "Stored"})
  <2>1. PushesQueued = {} /\ PopsQueued = {}
    BY <1>1 DEF PushesQueued, PopsQueued, At
  <2>2. InUse = {s \in DOMAIN state : state[s] = "Stored"}
    BY <1>1 DEF Counted, InUse, At, TypeOK
  <2>3. head \in Nat /\ tail \in Nat /\ Cardinality(InUse) \in Nat
    <3>1. PICK s \in 0 .. SIZE - 1 : TRUE
      BY Mpmc1Assumption
    <3>2. IsFiniteSet(0 .. SIZE - 1) /\ InUse \in SUBSET (0 .. SIZE - 1)
      BY FS_Interval, Mpmc1Assumption DEF InUse
    <3> QED
      BY <1>1, <3>2, FS_Subset, FS_CardinalityType DEF TypeOK
  <2>4. head - 0 = tail - 0 + Cardinality(InUse)
    BY <1>1, <2>1, FS_EmptySet DEF Counted
  <2> QED
    BY <2>2, <2>3, <2>4
<1>2. IInv /\ Counted => SizeAtRest
  BY <1>1 DEF SizeAtRest, IInv, SlotExclusive
<1> QED
  BY <1>2, Invariance, Accounting, PTL

-----------------------------------------------------------------------------
(* Order, as long as one producer and one consumer use the queue *)

\* A thread that only looks for a ticket, draws one or marks a slot leaves items
\* and numbers alone; if the queue has one producer and one consumer after the
\* step it had before, and the ticket is theirs.
LEMMA QuietInTurn ==
  ASSUME TypeOK, NEW p \in Producer, NEW c \in Consumer, NEW t \in Thread, NEW l,
         Draws(t, l), Alone(p, c)', Alone(p, c) => InTurn(p, c)
  PROVE  InTurn(p, c)'
<1> USE DEF Draws, slotVars, history
<1>1. /\ pc'[t] = l /\ \A u \in Thread : u # t => pc'[u] = pc[u]
      /\ p \in Thread /\ c \in Thread
      /\ pc[t] \notin {"pushSlot", "write", "popSlot", "read"}
  BY DEF TypeOK, Owns, Thread
<1>2. Alone(p, c)
  BY <1>1 DEF Alone, Thread
<1>3. InTurn(p, c)
  BY <1>2
<1>4. l = "pushSlot" => t = p
  BY <1>1 DEF Alone
<1>5. l = "popSlot" => t = c
  BY <1>1 DEF Alone
<1>6. /\ head \in Nat /\ tail \in Nat /\ next[p] \in Nat /\ last[c][p] \in Nat
  BY DEF TypeOK
<1>7. /\ head' = next[p] + Busy(p, {"pushSlot", "write"})'
      /\ pc'[p] \in {"pushSlot", "write"} => pos'[p] = next[p]
  <2>1. CASE l = "pushSlot"
    BY <1>1, <1>3, <1>4, <1>6, <2>1 DEF InTurn, Busy
  <2>2. CASE l # "pushSlot"
    <3>1. head' = head /\ (pc'[p] \in {"pushSlot", "write"} <=> pc[p] \in {"pushSlot", "write"})
      BY <1>1, <2>2
    <3>2. pc[p] \in {"pushSlot", "write"} => pos'[p] = pos[p]
      BY <1>1
    <3> QED
      BY <1>3, <3>1, <3>2 DEF InTurn, Busy
  <2> QED
    BY <2>1, <2>2
<1>8. /\ tail' = last[c][p] + Busy(c, {"popSlot", "read"})'
      /\ pc'[c] \in {"popSlot", "read"} => pos'[c] = last[c][p]
  <2>1. CASE l = "popSlot"
    BY <1>1, <1>3, <1>5, <1>6, <2>1 DEF InTurn, Busy
  <2>2. CASE l # "popSlot"
    <3>1. tail' = tail /\ (pc'[c] \in {"popSlot", "read"} <=> pc[c] \in {"popSlot", "read"})
      BY <1>1, <2>2
    <3>2. pc[c] \in {"popSlot", "read"} => pos'[c] = pos[c]
      BY <1>1
    <3> QED
      BY <1>3, <3>1, <3>2 DEF InTurn, Busy
  <2> QED
    BY <2>1, <2>2
<1> QED
  BY <1>3, <1>7, <1>8 DEF InTurn, Slot

\* A thread that gets its slot, or gives it back, has the ticket it had.
LEMMA MarksInTurn ==
  ASSUME TypeOK, NEW p \in Producer, NEW c \in Consumer, NEW t \in Thread,
         NEW k, NEW l, NEW a, NEW b, Marks(t, k, l, a, b),
         k \in {"pushSlot", "write"} <=> l \in {"pushSlot", "write"},
         k \in {"popSlot", "read"} <=> l \in {"popSlot", "read"},
         Alone(p, c)', Alone(p, c) => InTurn(p, c)
  PROVE  InTurn(p, c)'
<1> USE DEF Marks, history
<1>1. \A u \in Thread :
        /\ pc'[u] \in {"pushSlot", "write"} <=> pc[u] \in {"pushSlot", "write"}
        /\ pc'[u] \in {"popSlot", "read"} <=> pc[u] \in {"popSlot", "read"}
  BY DEF TypeOK
<1>2. Alone(p, c)
  BY <1>1 DEF Alone, Thread
<1>3. InTurn(p, c)
  BY <1>2
<1> QED
  BY <1>1, <1>3 DEF InTurn, Busy, Slot, Thread

\* The producer whose turn it is stores the item of its ticket, and no item that
\* waits is in its slot.
LEMMA WriteInTurn ==
  ASSUME IInv, NEW p \in Producer, NEW c \in Consumer, NEW t \in Producer, WriteVal(t),
         Alone(p, c)', Alone(p, c) => InTurn(p, c)
  PROVE  InTurn(p, c)'
<1> TypeOK
  BY DEF IInv, SlotExclusive
<1>1. /\ pc[t] = "write" /\ pc' = [pc EXCEPT ![t] = "pushPublish"]
      /\ next' = [next EXCEPT ![t] = @ + 1]
      /\ buf' = [buf EXCEPT ![MySlot(t)] = <<t, next[t]>>]
      /\ UNCHANGED <<head, tail, pos, last, handed>>
  BY DEF WriteVal, At, Goto
<1>2. /\ next \in [Producer -> Nat] /\ head \in Nat /\ tail \in Nat
      /\ last[c][p] \in Nat /\ t \in Thread /\ p \in Thread /\ c \in Thread
      /\ pc \in [Thread -> {"idle"} \union PushPc \union PopPc]
      /\ buf \in [0 .. SIZE - 1 -> Item \union {None}]
  BY DEF TypeOK, Thread
<1>3. t = p
  <2>1. next'[t] = next[t] + 1 /\ next[t] \in Nat
    BY <1>1, <1>2
  <2> QED
    BY <2>1 DEF Alone
<1>4. /\ pc'[p] = "pushPublish" /\ \A u \in Thread : u # p => pc'[u] = pc[u]
      /\ next'[p] = next[p] + 1 /\ \A q \in Producer : q # p => next'[q] = next[q]
  BY <1>1, <1>2, <1>3
<1>5. Alone(p, c)
  <2>1. ASSUME NEW q \in Producer \ {p}
        PROVE  next[q] = 0 /\ pc[q] \notin {"pushSlot", "write"}
    BY <1>4, <2>1 DEF Alone, Thread
  <2>2. ASSUME NEW d \in Consumer \ {c}
        PROVE  last[d][p] = 0 /\ pc[d] \notin {"popSlot", "read"}
    BY <1>1, <1>3, <1>4, <2>2 DEF Alone, Thread
  <2> QED
    BY <2>1, <2>2 DEF Alone
<1>6. /\ head = next[p] + 1 /\ pos[p] = next[p]
      /\ tail = last[c][p] + Busy(c, {"popSlot", "read"})
      /\ pc[c] \in {"popSlot", "read"} => pos[c] = last[c][p]
      /\ \A n \in 0 .. MaxTickets - 1 : n < last[c][p] <=> handed[<<p, n>>] > 0
      /\ \A n \in last[c][p] .. next[p] - 1 : buf[Slot(n)] = <<p, n>>
  BY <1>1, <1>3, <1>5 DEF InTurn, Busy
<1>7. Busy(p, {"pushSlot", "write"})' = 0
  BY <1>4 DEF Busy
<1>8. /\ Busy(c, {"popSlot", "read"})' = Busy(c, {"popSlot", "read"})
      /\ pc'[c] \in {"popSlot", "read"} => pc[c] \in {"popSlot", "read"}
  BY <1>1, <1>2, <1>3, <1>4 DEF Busy
<1>9. MySlot(p) = Slot(next[p]) /\ Slot(next[p]) \in 0 .. SIZE - 1
  BY <1>2, <1>6, SlotRange DEF MySlot
<1>10. Spent(Slot(next[p])) /\ head <= MaxTickets
  BY <1>1, <1>3, <1>9 DEF IInv, Held, Numbered, Thread
<1>11. ASSUME NEW n \in last[c][p] .. next[p] PROVE buf'[Slot(n)] = <<p, n>>
  <2>1. CASE n = next[p]
    BY <1>1, <1>2, <1>3, <1>9, <2>1
  <2>2. CASE n # next[p]
    <3>1. /\ n \in last[c][p] .. next[p] - 1 /\ n \in 0 .. MaxTickets - 1
          /\ ~(n < last[c][p]) /\ n \in Nat
      BY <1>2, <1>6, <1>10, <2>2, Mpmc1Assumption
    <3>2. buf[Slot(n)] = <<p, n>> /\ ~(handed[<<p, n>>] > 0)
      BY <1>6, <3>1
    <3>3. <<p, n>> \in Item /\ <<p, n>> # None
      BY <3>1, Mpmc1Assumption DEF Item
    <3>4. Slot(n) # Slot(next[p])
      BY <1>10, <3>2, <3>3 DEF Spent
    <3> QED
      BY <1>1, <1>2, <1>3, <1>9, <3>1, <3>2, <3>4, SlotRange
  <2> QED
    BY <2>1, <2>2
<1>12. \A n \in last'[c][p] .. next'[p] - 1 : buf'[Slot(n)] = <<p, n>>
  <2>1. last'[c][p] = last[c][p] /\ next'[p] - 1 = next[p]
    BY <1>1, <1>2, <1>4
  <2> QED
    BY <1>11, <2>1
<1>13. head' = next'[p] + 0
  BY <1>1, <1>2, <1>4, <1>6
<1>14. pc'[p] \notin {"pushSlot", "write"}
  BY <1>4
<1>15. tail' = last'[c][p] + Busy(c, {"popSlot", "read"})'
  BY <1>1, <1>6, <1>8
<1> QED
  BY <1>1, <1>6, <1>7, <1>8, <1>12, <1>13, <1>14, <1>15 DEF InTurn, Slot

\* The consumer whose turn it is reads the item of its ticket.
LEMMA ReadsNext ==
  ASSUME IInv, NEW p \in Producer, NEW c \in Consumer, InTurn(p, c),
         pc[c] = "read", NEW m, buf[MySlot(c)] = <<p, m>>
  PROVE  m = last[c][p] /\ m \in 0 .. MaxTickets - 1
<1> TypeOK
  BY DEF IInv, SlotExclusive
<1>1. /\ next[p] \in Nat /\ last[c][p] \in Nat /\ c \in Thread /\ head \in Nat
      /\ head <= MaxTickets /\ next[p] <= head /\ MaxTickets \in Nat
  BY Mpmc1Assumption DEF TypeOK, Thread, IInv, Numbered
<1>2. Waiting(MySlot(c)) /\ MySlot(c) \in 0 .. SIZE - 1
  BY <1>1, MySlotRange DEF IInv, Held
<1>3. m \in 0 .. MaxTickets - 1 /\ handed[<<p, m>>] = 0
  BY <1>2 DEF Waiting, Item
<1>4. m < next[p]
  <2>1. \A n \in next[p] .. MaxTickets - 1 : buf[MySlot(c)] # <<p, n>>
    BY <1>2 DEF IInv, Numbered
  <2>2. ~(m \in next[p] .. MaxTickets - 1)
    BY <2>1
  <2> QED
    BY <1>1, <1>3, <2>2
<1>5. m >= last[c][p]
  <2>1. ~(m < last[c][p])
    BY <1>3 DEF InTurn
  <2> QED
    BY <1>1, <1>3, <2>1
<1>6. last[c][p] \in last[c][p] .. next[p] - 1
  BY <1>1, <1>3, <1>4, <1>5
<1>7. buf[Slot(last[c][p])] = <<p, last[c][p]>> /\ pos[c] = last[c][p]
  BY <1>6 DEF InTurn
<1> QED
  BY <1>3, <1>7 DEF MySlot

\* That consumer then waits for the next item, and nobody else has read one.
LEMMA ReadInTurn ==
  ASSUME IInv, NEW p \in Producer, NEW c \in Consumer, NEW t \in Consumer, ReadVal(t),
         Alone(p, c)', Alone(p, c) => InTurn(p, c)
  PROVE  InTurn(p, c)'
<1> TypeOK
  BY DEF IInv, SlotExclusive
<1> DEFINE i == buf[MySlot(t)]
<1>1. /\ pc[t] = "read" /\ pc' = [pc EXCEPT ![t] = "popPublish"]
      /\ handed' = [handed EXCEPT ![i] = @ + 1]
      /\ last' = [last EXCEPT ![t][i[1]] = i[2] + 1]
      /\ UNCHANGED <<head, tail, state, buf, pos, next>>
  BY DEF ReadVal, At, Goto, slotVars
<1>2. /\ next \in [Producer -> Nat] /\ head \in Nat /\ tail \in Nat
      /\ last \in [Consumer -> [Producer -> Nat]] /\ handed \in [Item -> Nat]
      /\ t \in Thread /\ p \in Thread /\ c \in Thread
      /\ pc \in [Thread -> {"idle"} \union PushPc \union PopPc]
  BY DEF TypeOK, Thread
<1>3. MySlot(t) \in 0 .. SIZE - 1 /\ i \in Item
  BY <1>1, <1>2, MySlotRange DEF IInv, Held, Waiting
<1>4. PICK q \in Producer, m \in 0 .. MaxTickets - 1 : i = <<q, m>>
  BY <1>3 DEF Item
<1>5. i[1] = q /\ i[2] = m /\ m \in Nat
  BY <1>4
<1>6. q = p
  <2>1. SUFFICES ASSUME q # p PROVE FALSE
    OBVIOUS
  <2>2. next[q] = 0
    BY <1>1, <2>1 DEF Alone
  <2>3. m \in next[q] .. MaxTickets - 1
    BY <2>2
  <2> QED
    BY <1>3, <1>4, <2>3 DEF IInv, Numbered
<1> HIDE DEF i
<1>7. /\ last'[t][p] = m + 1
      /\ \A d \in Consumer : d # t => last'[d][p] = last[d][p]
      /\ pc'[t] = "popPublish" /\ \A u \in Thread : u # t => pc'[u] = pc[u]
  BY <1>1, <1>2, <1>5, <1>6
<1>8. t = c
  BY <1>5, <1>7 DEF Alone
<1>9. Alone(p, c)
  <2>1. ASSUME NEW d \in Producer \ {p}
        PROVE  next[d] = 0 /\ pc[d] \notin {"pushSlot", "write"}
    BY <1>1, <1>7, <2>1 DEF Alone, Thread
  <2>2. ASSUME NEW d \in Consumer \ {c}
        PROVE  last[d][p] = 0 /\ pc[d] \notin {"popSlot", "read"}
    BY <1>7, <1>8, <2>2 DEF Alone, Thread
  <2> QED
    BY <2>1, <2>2 DEF Alone
<1>10. InTurn(p, c)
  BY <1>9
<1>11. buf[MySlot(c)] = <<p, m>>
  BY <1>4, <1>6, <1>8 DEF i
<1>12. m = last[c][p] /\ m \in 0 .. MaxTickets - 1
  BY <1>1, <1>8, <1>10, <1>11, ReadsNext
<1>13. last'[c][p] = last[c][p] + 1 /\ pc'[c] = "popPublish"
  BY <1>7, <1>8, <1>12
<1>14. /\ head = next[p] + Busy(p, {"pushSlot", "write"})
       /\ tail = last[c][p] + 1
       /\ pc[p] \in {"pushSlot", "write"} => pos[p] = next[p]
       /\ \A n \in 0 .. MaxTickets - 1 : n < last[c][p] <=> handed[<<p, n>>] > 0
       /\ \A n \in last[c][p] .. next[p] - 1 : buf[Slot(n)] = <<p, n>>
  BY <1>1, <1>8, <1>10 DEF InTurn, Busy
<1>15. /\ head' = next'[p] + Busy(p, {"pushSlot", "write"})'
       /\ pc'[p] \in {"pushSlot", "write"} => pos'[p] = next'[p]
  BY <1>1, <1>2, <1>7, <1>14 DEF Busy
<1>16. /\ tail' = last'[c][p] + Busy(c, {"popSlot", "read"})'
       /\ pc'[c] \notin {"popSlot", "read"}
  BY <1>1, <1>2, <1>13, <1>14 DEF Busy
<1>17. ASSUME NEW n \in 0 .. MaxTickets - 1
       PROVE  n < last'[c][p] <=> handed'[<<p, n>>] > 0
  <2>1. <<p, n>> \in Item /\ i = <<p, m>> /\ handed[<<p, n>>] \in Nat
    BY <1>2, <1>4, <1>6 DEF Item
  <2>2. CASE n = m
    <3>1. handed'[<<p, n>>] = handed[<<p, n>>] + 1
      BY <1>1, <1>2, <2>1, <2>2
    <3> QED
      BY <1>12, <1>13, <2>1, <2>2, <3>1
  <2>3. CASE n # m
    <3>1. handed'[<<p, n>>] = handed[<<p, n>>]
      BY <1>1, <1>2, <2>1, <2>3
    <3>2. n < last[c][p] <=> handed[<<p, n>>] > 0
      BY <1>14
    <3>3. n < last[c][p] + 1 <=> n < last[c][p]
      BY <1>12, <2>3
    <3> QED
      BY <1>13, <3>1, <3>2, <3>3
  <2> QED
    BY <2>2, <2>3
<1>18. \A n \in last'[c][p] .. next'[p] - 1 : buf'[Slot(n)] = <<p, n>>
  <2>1. \A n \in last[c][p] + 1 .. next[p] - 1 : n \in last[c][p] .. next[p] - 1
    BY <1>2
  <2> QED
    BY <1>1, <1>13, <1>14, <2>1
<1> QED
  BY <1>15, <1>16, <1>17, <1>18 DEF InTurn, Slot

\* No step disturbs the order of one producer and one consumer.
LEMMA InOrderNext ==
  ASSUME IInv, InOrder, [Next]_vars
  PROVE  InOrder'
<1> SUFFICES ASSUME NEW p \in Producer, NEW c \in Consumer, Alone(p, c)'
             PROVE  InTurn(p, c)'
  BY DEF InOrder
<1> TypeOK
  BY DEF IInv, SlotExclusive
<1>1. Alone(p, c) => InTurn(p, c)
  BY DEF InOrder
<1>2. ASSUME NEW t \in Thread, TicketStep(t) PROVE InTurn(p, c)'
  <2>1. PICK l : Draws(t, l)
    BY <1>2, TicketStepDraws
  <2> QED
    BY <1>1, <2>1, QuietInTurn
<1>3. ASSUME NEW t \in Thread, SlotStep(t) PROVE InTurn(p, c)'
  <2>1. CASE Marks(t, "pushSlot", "write", "Empty", "Storing")
    BY <1>1, <2>1, MarksInTurn
  <2>2. CASE Marks(t, "pushPublish", "idle", "Storing", "Stored")
    BY <1>1, <2>2, MarksInTurn
  <2>3. CASE Marks(t, "popSlot", "read", "Stored", "Loading")
    BY <1>1, <2>3, MarksInTurn
  <2>4. CASE Marks(t, "popPublish", "idle", "Loading", "Empty")
    BY <1>1, <2>4, MarksInTurn
  <2> QED
    BY <1>3, <2>1, <2>2, <2>3, <2>4, SlotStepMarks
<1>4. ASSUME NEW t \in Producer, WriteVal(t) PROVE InTurn(p, c)'
  BY <1>1, <1>4, WriteInTurn
<1>5. ASSUME NEW t \in Consumer, ReadVal(t) PROVE InTurn(p, c)'
  BY <1>1, <1>5, ReadInTurn
<1>6. CASE UNCHANGED vars
  <2>1. Alone(p, c)
    BY <1>6 DEF Alone, vars
  <2>2. InTurn(p, c)
    BY <1>1, <2>1
  <2> QED
    BY <1>6, <2>2 DEF InTurn, Busy, Slot, vars
<1> QED
  BY <1>2, <1>3, <1>4, <1>5, <1>6, StepKinds

\* As long as one producer alone has stored items and one consumer alone has taken
\* them, tickets, slots and item numbers keep step, for every SIZE.
THEOREM OrderKept == Spec => []InOrder
<1>1. Init => InOrder
  <2> SUFFICES ASSUME Init, NEW p \in Producer, NEW c \in Consumer
               PROVE  InTurn(p, c)
    BY DEF InOrder
  <2>1. /\ head = 0 /\ tail = 0 /\ next[p] = 0 /\ last[c][p] = 0
        /\ pc[p] = "idle" /\ pc[c] = "idle"
        /\ \A n \in 0 .. MaxTickets - 1 : handed[<<p, n>>] = 0
    BY DEF Init, Thread, Item
  <2>2. \A n \in 0 .. 0 - 1 : FALSE
    OBVIOUS
  <2> QED
    BY <2>1, <2>2 DEF InTurn, Busy
<1>2. IInv /\ InOrder /\ [Next]_vars => InOrder'
  BY InOrderNext
<1> QED
  BY <1>1, <1>2, Invariance, PTL DEF Spec

\* With one producer and one consumer, items are popped in the order of their
\* pushes, as bench/mpmc_1_test.cpp expects.
THEOREM ProducersOrdered == Spec => ProducerOrder
<1>1. ASSUME IInv, InOrder, NEW c \in Consumer, ReadVal(c),
             OnlyUsers(buf[MySlot(c)][1], c)
      PROVE  buf[MySlot(c)][2] = last[c][buf[MySlot(c)][1]]
  <2>1. pc[c] = "read" /\ c \in Thread /\ TypeOK
    BY <1>1 DEF ReadVal, At, Thread, IInv, SlotExclusive
  <2>2. buf[MySlot(c)] \in Item
    BY <1>1, <2>1, MySlotRange DEF IInv, Held, Waiting
  <2>3. PICK p \in Producer, m \in 0 .. MaxTickets - 1 : buf[MySlot(c)] = <<p, m>>
    BY <2>2 DEF Item
  <2>4. OnlyUsers(p, c)
    BY <1>1, <2>3
  <2>5. Alone(p, c)
    BY <2>4 DEF OnlyUsers, Alone, At
  <2>6. InTurn(p, c)
    BY <1>1, <2>5 DEF InOrder
  <2>7. m = last[c][p]
    BY <1>1, <2>1, <2>3, <2>6, ReadsNext
  <2> QED
    BY <2>3, <2>7
<1>2. IInv /\ InOrder =>
        \A c \in Consumer : ReadVal(c) =>
          LET i == buf[MySlot(c)] IN
            OnlyUsers(i[1], c) => i[2] = last[c][i[1]]
  BY <1>1
<1> QED
  BY <1>2, Invariance, OrderKept, PTL DEF ProducerOrder
=============================================================================
