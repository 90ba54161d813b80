--------------------------- MODULE MpmcSeq_proofs ---------------------------
(***************************************************************************)
(* Proofs about MpmcSeq, and JoadMpmc with it, for every SIZE > 1, Value,  *)
(* Producer, Consumer and MaxTickets.                                      *)
(***************************************************************************)
EXTENDS JoadMpmc, Integers, FiniteSetTheorems, TLAPS

-----------------------------------------------------------------------------
(* Facts about i % n *)

\* An index falls into a ring of n slots.
LEMMA ModRange ==
  ASSUME NEW n \in Nat \ {0}, NEW i \in Nat
  PROVE  i % n \in 0 .. n - 1
OBVIOUS

\* A slot number is at most the index it comes from.
LEMMA ModSmall ==
  ASSUME NEW n \in Nat \ {0}, NEW i \in Nat
  PROVE  i % n <= i
<1> DEFINE q == i \div n
<1>1. q \in Nat /\ i = (n * q) + (i % n)
  OBVIOUS
<1> HIDE DEF q
<1>2. n * q >= 0
  BY <1>1
<1> QED
  BY <1>1, <1>2

\* Indices less than a lap apart have different slots.
LEMMA ModInjective ==
  ASSUME NEW n \in Nat \ {0}, NEW i \in Nat, NEW j \in Nat, i < j, j < i + n
  PROVE  i % n # j % n
<1> DEFINE a == i \div n
           b == j \div n
<1>1. /\ a \in Int /\ b \in Int
      /\ i = (n * a) + (i % n)
      /\ j = (n * b) + (j % n)
  OBVIOUS
<1> HIDE DEF a, b
<1>2. SUFFICES ASSUME i % n = j % n PROVE FALSE
  OBVIOUS
<1>3. j - i = n * (b - a)
  BY <1>1, <1>2
<1>4. CASE b - a <= 0
  BY <1>1, <1>3, <1>4
<1>5. CASE b - a >= 1
  BY <1>1, <1>3, <1>5
<1> QED
  BY <1>1, <1>4, <1>5

\* An index and the one a lap later share a slot.
LEMMA ModLap ==
  ASSUME NEW n \in Nat \ {0}, NEW i \in Nat
  PROVE  i % n = (i + n) % n
<1> DEFINE a == i \div n
           b == (i + n) \div n
<1>1. /\ a \in Int /\ b \in Int
      /\ i = (n * a) + (i % n) /\ i % n \in 0 .. n - 1
      /\ i + n = (n * b) + ((i + n) % n) /\ (i + n) % n \in 0 .. n - 1
  OBVIOUS
<1> HIDE DEF a, b
<1>2. (i % n) - ((i + n) % n) = n * (b - a - 1)
  BY <1>1
<1>3. ~(b - a - 1 >= 1) /\ ~(b - a - 1 <= -1)
  BY <1>1, <1>2
<1>4. n * (b - a - 1) = 0
  BY <1>1, <1>3
<1>5. i % n \in Int /\ (i + n) % n \in Int
  BY <1>1
<1> QED
  BY <1>2, <1>4, <1>5

\* A table of rows with n cells each: cell c of row r has number (n * r) + c, and
\* the number tells row and cell.
LEMMA CellNumber ==
  ASSUME NEW n \in Nat \ {0}, NEW r \in Nat, NEW c \in 0 .. n - 1
  PROVE  ((n * r) + c) \div n = r /\ ((n * r) + c) % n = c
<1> DEFINE x == (n * r) + c
           q == x \div n
           d == x % n
<1>0. x \in Nat
  OBVIOUS
<1>1. q \in Int /\ d \in 0 .. n - 1 /\ x = (n * q) + d
  BY <1>0
<1> HIDE DEF q, d
<1>2. c - d = n * (q - r)
  BY <1>1
<1>3. ~(q - r >= 1) /\ ~(q - r <= -1)
  BY <1>1, <1>2
<1>4. q = r
  BY <1>1, <1>3
<1>5. d = c
  BY <1>1, <1>2, <1>4
<1> QED
  BY <1>4, <1>5 DEF q, d

-----------------------------------------------------------------------------

\* A ticket has a slot.
LEMMA SlotRange ==
  ASSUME NEW i \in Nat
  PROVE  Slot(i) \in 0 .. SIZE - 1
BY MpmcSeqAssumption, ModRange DEF Slot

\* Tickets less than a lap apart have different slots.
LEMMA SlotInjective ==
  ASSUME NEW i \in Nat, NEW j \in Nat, i < j, j < i + SIZE
  PROVE  Slot(i) # Slot(j)
BY MpmcSeqAssumption, ModInjective DEF Slot

\* A ticket that has stored or taken its value is told from one that has not.
LEMMA NotEmpty == ASSUME NEW x PROVE <<x>> # <<>>
OBVIOUS

\* With more than one slot, neighbouring tickets have different slots.
LEMMA NextSlot ==
  ASSUME SIZE > 1, NEW i \in Nat
  PROVE  Slot(i) # Slot(i + 1)
BY SlotInjective, MpmcSeqAssumption

\* The invariant gives every owner its slot alone.
LEMMA OwnersApart == SIZE > 1 /\ IInv => SlotExclusive
<1> SUFFICES ASSUME SIZE > 1, IInv,
                    NEW t \in Thread, NEW u \in Thread, t # u,
                    Owns(t), Owns(u), Slot(pos[t]) = Slot(pos[u])
             PROVE  FALSE
  BY DEF SlotExclusive
<1>1. pos[t] \in Nat /\ pos[u] \in Nat
  BY DEF IInv, TypeOK
<1>2. seq[Slot(pos[t])] = pos[t] \/ seq[Slot(pos[t])] = pos[t] + 1
  BY DEF IInv, SlotsOwned, SeqSeen, Owns
<1>3. seq[Slot(pos[u])] = pos[u] \/ seq[Slot(pos[u])] = pos[u] + 1
  BY DEF IInv, SlotsOwned, SeqSeen, Owns
<1>4. pos[t] = pos[u]
  BY <1>1, <1>2, <1>3, NextSlot
<1>5. \/ HoldsPush(t) /\ HoldsPush(u)
      \/ HoldsPop(t) /\ HoldsPop(u)
  BY <1>1, <1>4 DEF IInv, SlotsOwned, SeqSeen, Owns, HoldsPush, HoldsPop
<1> QED
  BY <1>4, <1>5 DEF IInv, TicketsHeld

\* A thread whose CAS would succeed looks at a slot no owner has.
Winning(u) == \/ At(u, "tryPushCas") /\ head = pos[u]
              \/ At(u, "tryPopCas") /\ tail = pos[u]
LEMMA CasApart ==
  ASSUME SIZE > 1, IInv, NEW t \in Thread, NEW u \in Thread,
         Owns(t), Winning(u)
  PROVE  Slot(pos[t]) # Slot(pos[u])
<1> SUFFICES ASSUME Slot(pos[t]) = Slot(pos[u]) PROVE FALSE
  OBVIOUS
<1>1. pos[t] \in Nat /\ pos[u] \in Nat
  BY DEF IInv, TypeOK
<1>2. pos[t] # pos[u] + 1 /\ pos[u] # pos[t] + 1
  BY <1>1, NextSlot
<1>3. HoldsPush(t) => pos[t] < head
  BY DEF IInv, TicketsHeld
<1>4. HoldsPop(t) => pos[t] < tail
  BY DEF IInv, TicketsHeld
<1> QED
  BY <1>1, <1>2, <1>3, <1>4
  DEF IInv, SlotsOwned, SeqSeen, Owns, Winning, At, HoldsPush, HoldsPop

-----------------------------------------------------------------------------

\* A push stores under its own ticket, into a slot whose last item is taken.
LEMMA WriteIsPut ==
  ASSUME SIZE > 1, IInv, NEW t \in Thread, WriteVal(t)
  PROVE  Tickets!Put(pos[t], arg[t]) /\ pos[t] \in Ticket /\ arg[t] \in Value
<1> USE MpmcSeqAssumption
<1>1. /\ pos[t] \in Nat /\ At(t, "write")
      /\ stored \in [Ticket -> Seq(Value)] /\ seq[Slot(pos[t])] = pos[t]
  BY DEF IInv, TypeOK, WriteVal, SlotsOwned, At, SeqSeen
<1>2. pos[t] \in Ticket /\ arg[t] \in Value
  BY <1>1 DEF IInv, TypeOK, TicketsHeld, At, HoldsPush, PushPc, Ticket
<1>3. stored[pos[t]] = <<>>
  <2>1. ~Publishing(pos[t], "pushPublish")
    BY <1>1 DEF IInv, TicketsHeld, Publishing, HoldsPush, At
  <2> QED
    BY <1>1, <1>2, <2>1 DEF IInv, Recorded, StoredAt
<1>4. ASSUME pos[t] >= CAPACITY PROVE taken[pos[t] - CAPACITY] # <<>>
  <2> DEFINE k == pos[t] - SIZE
  <2>1. k \in Ticket /\ k \in Nat /\ pos[t] = k + SIZE
    BY <1>1, <1>2, <1>4 DEF Ticket, CAPACITY
  <2>2. Slot(k) = Slot(pos[t])
    BY <2>1, ModLap DEF Slot
  <2>3. seq[Slot(k)] > k + 1
    BY <1>1, <2>1, <2>2
  <2> QED
    BY <2>1, <2>3 DEF IInv, Recorded, TakenAt, CAPACITY
<1>5. stored' = [stored EXCEPT ![pos[t]] = <<arg[t]>>] /\ taken' = taken
  BY <1>1, <1>2, <1>3 DEF WriteVal
<1> QED
  BY <1>2, <1>3, <1>4, <1>5 DEF Tickets!Put

\* A pop takes what was stored under its ticket, once.
LEMMA ReadIsTake ==
  ASSUME SIZE > 1, IInv, NEW t \in Thread, ReadVal(t)
  PROVE  Tickets!Take(pos[t]) /\ pos[t] \in Ticket
<1> USE MpmcSeqAssumption
<1>1. /\ pos[t] \in Nat /\ At(t, "read")
      /\ taken \in [Ticket -> Seq(Value)] /\ seq[Slot(pos[t])] = pos[t] + 1
  BY DEF IInv, TypeOK, ReadVal, SlotsOwned, At, SeqSeen
<1>2. pos[t] \in Ticket
  BY <1>1 DEF IInv, TypeOK, TicketsHeld, At, HoldsPop, Ticket
<1>3. taken[pos[t]] = <<>>
  <2>1. ~Publishing(pos[t], "popPublish")
    BY <1>1 DEF IInv, TicketsHeld, Publishing, HoldsPop, At
  <2> QED
    BY <1>1, <1>2, <2>1 DEF IInv, Recorded, TakenAt
<1>4. stored[pos[t]] = <<val[Slot(pos[t])]>>
  BY <1>1, <1>2 DEF IInv, Recorded, ValueAt
<1>5. taken' = [taken EXCEPT ![pos[t]] = <<val[Slot(pos[t])]>>] /\ stored' = stored
  BY <1>1, <1>2, <1>3 DEF ReadVal
<1> QED
  BY <1>2, <1>3, <1>4, <1>5, NotEmpty DEF Tickets!Take

-----------------------------------------------------------------------------

\* The fresh queue satisfies the inductive invariant.
LEMMA InitInv == SIZE > 1 /\ Init => IInv
<1> SUFFICES ASSUME SIZE > 1, Init PROVE IInv
  OBVIOUS
<1> USE MpmcSeqAssumption DEF Init
<1>1. TypeOK
  BY DEF TypeOK, Ticket
<1>2. TicketsHeld /\ SlotsOwned
  BY DEF TicketsHeld, SlotsOwned, HoldsPush, HoldsPop, PushPc, At
<1>3. Recorded
  <2> USE DEF Recorded, StoredAt, TakenAt, ValueAt, Publishing
  <2>1. ASSUME NEW k \in Ticket
        PROVE  /\ seq[Slot(k)] \in Nat /\ k \in Nat /\ seq[Slot(k)] <= k
               /\ stored[k] = <<>> /\ taken[k] = <<>>
    <3>1. k \in Nat
      BY DEF Ticket
    <3>2. k % SIZE <= k
      BY <3>1, ModSmall
    <3> QED
      BY <3>1, <3>2, SlotRange DEF Slot
  <2>2. \A t \in Thread : ~At(t, "pushPublish") /\ ~At(t, "popPublish")
    BY DEF At
  <2>3. ASSUME NEW k \in Ticket
        PROVE  ~(seq[Slot(k)] > k) /\ ~(seq[Slot(k)] > k + 1)
               /\ seq[Slot(k)] # k + 1
    BY <2>1
  <2> QED
    BY <2>1, <2>2, <2>3
<1> QED
  BY <1>1, <1>2, <1>3 DEF IInv

-----------------------------------------------------------------------------

\* Thread u keeps its place and ticket, or is not about to publish, neither
\* before nor after the step.
StaysOrQuiet(u) ==
  \/ pc'[u] = pc[u] /\ pos'[u] = pos[u]
  \/ /\ pc[u] # "pushPublish" /\ pc[u] # "popPublish"
     /\ pc'[u] # "pushPublish" /\ pc'[u] # "popPublish"

\* Steps that touch no slot and begin or end no publication leave the record.
LEMMA RecordedFrame ==
  ASSUME Recorded, UNCHANGED <<seq, val, stored, taken>>,
         \A u \in Thread : StaysOrQuiet(u)
  PROVE  Recorded'
<1>1. ASSUME NEW k \in Ticket
      PROVE  /\ Publishing(k, "pushPublish")' <=> Publishing(k, "pushPublish")
             /\ Publishing(k, "popPublish")' <=> Publishing(k, "popPublish")
  BY DEF StaysOrQuiet, Publishing, At
<1> QED
  BY <1>1 DEF Recorded, StoredAt, TakenAt, ValueAt

\* Every step of every thread preserves the inductive invariant.
LEMMA NextInv == SIZE > 1 /\ IInv /\ [Next]_vars => IInv'
<1> SUFFICES ASSUME SIZE > 1, IInv, [Next]_vars PROVE IInv'
  OBVIOUS
<1> USE MpmcSeqAssumption DEF IInv, TypeOK, Goto, At, SeqSeen, CAPACITY, Thread
<1>0. /\ \A t \in Thread : pos[t] \in Nat /\ Slot(pos[t]) \in 0 .. SIZE - 1
      /\ \A k \in Ticket : k \in Nat /\ Slot(k) \in 0 .. SIZE - 1
  <2>1. \A t \in Thread : pos[t] \in Nat
    OBVIOUS
  <2>2. \A k \in Ticket : k \in Nat
    BY DEF Ticket
  <2> QED
    BY <2>1, <2>2, SlotRange
<1>a. SlotExclusive
  BY OwnersApart
<1>b. \A t, u \in Thread : Owns(t) /\ Winning(u) => Slot(pos[t]) # Slot(pos[u])
  BY CasApart
<1>c. ASSUME NEW i \in Nat, NEW j \in Nat, Slot(i) = Slot(j)
      PROVE  i = j \/ i + SIZE <= j \/ j + SIZE <= i
  BY <1>c, SlotInjective
<1>1. ASSUME NEW t \in Producer, NEW v \in Value, Push(t, v)
      PROVE  IInv'
  <2> USE <1>1 DEF Push
  <2>1. TypeOK'
    <3>1. pc' \in [Thread -> {"idle"} \union PushPc \union PopPc]
      BY DEF PushPc, PopPc
    <3> QED
      BY <3>1
  <2>2. TicketsHeld'
    BY DEF TicketsHeld, HoldsPush, HoldsPop, PushPc
  <2>3. SlotsOwned'
    BY DEF SlotsOwned, TicketsHeld
  <2>4. Recorded'
    <3>1. \A u \in Thread : StaysOrQuiet(u)
      BY DEF StaysOrQuiet
    <3> QED
      BY <3>1, RecordedFrame
  <2> QED
    BY <2>1, <2>2, <2>3, <2>4 DEF IInv
<1>2. ASSUME NEW t \in Producer, NEW v \in Value, TryPush(t, v)
      PROVE  IInv'
  <2> USE <1>2 DEF TryPush
  <2>1. TypeOK'
    <3>1. pc' \in [Thread -> {"idle"} \union PushPc \union PopPc]
      BY DEF PushPc, PopPc
    <3> QED
      BY <3>1
  <2>2. TicketsHeld'
    BY DEF TicketsHeld, HoldsPush, HoldsPop, PushPc
  <2>3. SlotsOwned'
    BY DEF SlotsOwned
  <2>4. Recorded'
    <3>1. \A u \in Thread : StaysOrQuiet(u)
      BY DEF StaysOrQuiet
    <3> QED
      BY <3>1, RecordedFrame
  <2> QED
    BY <2>1, <2>2, <2>3, <2>4 DEF IInv
<1>3. ASSUME NEW t \in Consumer, Pop(t)
      PROVE  IInv'
  <2> USE <1>3 DEF Pop
  <2>1. TypeOK'
    <3>1. pc' \in [Thread -> {"idle"} \union PushPc \union PopPc]
      BY DEF PushPc, PopPc
    <3> QED
      BY <3>1
  <2>2. TicketsHeld'
    BY DEF TicketsHeld, HoldsPush, HoldsPop, PushPc
  <2>3. SlotsOwned'
    BY DEF SlotsOwned, TicketsHeld
  <2>4. Recorded'
    <3>1. \A u \in Thread : StaysOrQuiet(u)
      BY DEF StaysOrQuiet
    <3> QED
      BY <3>1, RecordedFrame
  <2> QED
    BY <2>1, <2>2, <2>3, <2>4 DEF IInv
<1>4. ASSUME NEW t \in Consumer, TryPop(t)
      PROVE  IInv'
  <2> USE <1>4 DEF TryPop
  <2>1. TypeOK'
    <3>1. pc' \in [Thread -> {"idle"} \union PushPc \union PopPc]
      BY DEF PushPc, PopPc
    <3> QED
      BY <3>1
  <2>2. TicketsHeld'
    BY DEF TicketsHeld, HoldsPush, HoldsPop, PushPc
  <2>3. SlotsOwned'
    BY DEF SlotsOwned
  <2>4. Recorded'
    <3>1. \A u \in Thread : StaysOrQuiet(u)
      BY DEF StaysOrQuiet
    <3> QED
      BY <3>1, RecordedFrame
  <2> QED
    BY <2>1, <2>2, <2>3, <2>4 DEF IInv
<1>5. ASSUME NEW t \in Thread, PushWait(t)
      PROVE  IInv'
  <2> USE <1>5 DEF PushWait
  <2>1. TypeOK'
    <3>1. pc' \in [Thread -> {"idle"} \union PushPc \union PopPc]
      BY DEF PushPc, PopPc
    <3> QED
      BY <3>1
  <2>2. TicketsHeld'
    BY DEF TicketsHeld, HoldsPush, HoldsPop, PushPc
  <2>3. SlotsOwned'
    BY DEF SlotsOwned
  <2>4. Recorded'
    <3>1. \A u \in Thread : StaysOrQuiet(u)
      BY DEF StaysOrQuiet
    <3> QED
      BY <3>1, RecordedFrame
  <2> QED
    BY <2>1, <2>2, <2>3, <2>4 DEF IInv
<1>6. ASSUME NEW t \in Thread, WriteVal(t)
      PROVE  IInv'
  <2> USE <1>6 DEF WriteVal
  <2>0. pos[t] \in Ticket /\ arg[t] \in Value
    BY DEF TicketsHeld, HoldsPush, PushPc, Ticket
  <2>1. TypeOK'
    <3>1. Append(stored[pos[t]], arg[t]) \in Seq(Value)
      BY <2>0
    <3>2. stored' \in [Ticket -> Seq(Value)]
      BY <2>0, <3>1
    <3>3. pc' \in [Thread -> {"idle"} \union PushPc \union PopPc]
      BY DEF PushPc, PopPc
    <3> QED
      BY <1>0, <2>0, <3>2, <3>3
  <2>2. TicketsHeld'
    BY DEF TicketsHeld, HoldsPush, HoldsPop, PushPc
  <2>3. SlotsOwned'
    BY DEF SlotsOwned
  <2>4. Recorded'
    <3>2. stored'[pos[t]] = <<arg[t]>> /\ val'[Slot(pos[t])] = arg[t]
      <4>1. Tickets!Put(pos[t], arg[t])
        BY WriteIsPut
      <4> QED
        BY <1>0, <2>0, <4>1 DEF Tickets!Put
    <3>3. StoredAt(pos[t])' /\ TakenAt(pos[t])' /\ ValueAt(pos[t])'
      <4>1. /\ Publishing(pos[t], "pushPublish")'
            /\ Publishing(pos[t], "popPublish")' <=> Publishing(pos[t], "popPublish")
        BY DEF Publishing
      <4>2. stored'[pos[t]] # <<>>
        BY <3>2, NotEmpty
      <4>3. TakenAt(pos[t])
        BY <2>0 DEF Recorded
      <4>4. TakenAt(pos[t])'
        BY <4>1, <4>3 DEF TakenAt
      <4> QED
        BY <3>2, <4>1, <4>2, <4>4 DEF StoredAt, ValueAt
    <3>4. ASSUME NEW j \in Ticket, j # pos[t]
          PROVE  StoredAt(j)' /\ TakenAt(j)' /\ ValueAt(j)'
      <4>1. stored'[j] = stored[j] /\ taken'[j] = taken[j]
        BY <3>4
      <4>2. /\ Publishing(j, "pushPublish")' <=> Publishing(j, "pushPublish")
            /\ Publishing(j, "popPublish")' <=> Publishing(j, "popPublish")
        BY <3>4 DEF Publishing
      <4>3. StoredAt(j)' /\ TakenAt(j)'
        BY <4>1, <4>2 DEF Recorded, StoredAt, TakenAt
      <4>4. CASE Slot(j) # Slot(pos[t])
        <5>1. val'[Slot(j)] = val[Slot(j)]
          BY <1>0, <4>4
        <5>2. ValueAt(j)
          BY DEF Recorded
        <5>3. seq'[Slot(j)] = seq[Slot(j)]
          OBVIOUS
        <5> QED
          BY <4>1, <4>2, <4>3, <5>1, <5>2, <5>3 DEF ValueAt
      <4>5. CASE Slot(j) = Slot(pos[t])
        <5>1. j + 1 # pos[t]
          BY <1>0, <4>5, NextSlot
        <5>2. seq[Slot(j)] # j + 1
          BY <1>0, <4>5, <5>1 DEF SlotsOwned
        <5>3. ~Publishing(j, "pushPublish")
          BY <1>a, <3>4, <4>5 DEF Publishing, SlotExclusive, Owns
        <5>4. seq'[Slot(j)] = seq[Slot(j)]
          OBVIOUS
        <5> QED
          BY <4>2, <4>3, <5>2, <5>3, <5>4 DEF ValueAt
      <4> QED
        BY <4>3, <4>4, <4>5
    <3> QED
      BY <3>3, <3>4 DEF Recorded
  <2> QED
    BY <2>1, <2>2, <2>3, <2>4 DEF IInv
<1>7. ASSUME NEW t \in Thread, PushPublish(t)
      PROVE  IInv'
  <2> USE <1>7 DEF PushPublish
  <2>0. /\ pos[t] \in Ticket /\ Owns(t)
        /\ seq[Slot(pos[t])] = pos[t] /\ seq'[Slot(pos[t])] = pos[t] + 1
    <3>1. pos[t] \in Ticket /\ Owns(t)
      BY <1>0 DEF TicketsHeld, HoldsPush, HoldsPop, Ticket, Owns
    <3>2. seq[Slot(pos[t])] = pos[t]
      BY DEF SlotsOwned
    <3>3. seq'[Slot(pos[t])] = pos[t] + 1
      BY <1>0
    <3> QED
      BY <3>1, <3>2, <3>3
  <2>1. TypeOK'
    <3>1. seq' \in [0 .. SIZE - 1 -> Nat]
      BY <1>0
    <3>2. pc' \in [Thread -> {"idle"} \union PushPc \union PopPc]
      BY DEF PushPc, PopPc
    <3> QED
      BY <3>1, <3>2
  <2>2. TicketsHeld'
    BY DEF TicketsHeld, HoldsPush, HoldsPop, PushPc
  <2>3. SlotsOwned'
    <3>1. ASSUME NEW u \in Thread, u # t, Owns(u) \/ Winning(u)
          PROVE  seq'[Slot(pos[u])] = seq[Slot(pos[u])]
      BY <1>0, <1>a, <1>b, <2>0, <3>1 DEF SlotExclusive
    <3> QED
      BY <3>1 DEF SlotsOwned, Owns, Winning
  <2>4. Recorded'
    <3> SUFFICES ASSUME NEW j \in Ticket
                 PROVE  StoredAt(j)' /\ TakenAt(j)' /\ ValueAt(j)'
      BY DEF Recorded
    <3>1. StoredAt(j) /\ TakenAt(j) /\ ValueAt(j) /\ j \in Nat
      BY <1>0 DEF Recorded
    <3>2. CASE Slot(j) # Slot(pos[t])
      <4>1. seq'[Slot(j)] = seq[Slot(j)]
        BY <1>0, <3>2
      <4>2. /\ Publishing(j, "pushPublish")' <=> Publishing(j, "pushPublish")
            /\ Publishing(j, "popPublish")' <=> Publishing(j, "popPublish")
        BY <3>2 DEF Publishing
      <4> QED
        BY <3>1, <4>1, <4>2 DEF StoredAt, TakenAt, ValueAt
    <3>3. CASE Slot(j) = Slot(pos[t])
      <4>1. j = pos[t] \/ j + SIZE <= pos[t] \/ pos[t] + SIZE <= j
        BY <1>0, <1>c, <3>1, <3>3
      <4>2. /\ Publishing(j, "pushPublish") <=> j = pos[t]
            /\ ~Publishing(j, "popPublish")
        BY <1>a, <2>0, <3>3 DEF Publishing, SlotExclusive, Owns
      <4>3. /\ ~Publishing(j, "pushPublish")'
            /\ ~Publishing(j, "popPublish")'
        BY <1>a, <2>0, <3>3 DEF Publishing, SlotExclusive, Owns
      <4>4. StoredAt(j)' /\ TakenAt(j)'
        <5>1. /\ seq'[Slot(j)] > j <=> seq[Slot(j)] > j \/ j = pos[t]
              /\ seq'[Slot(j)] > j + 1 <=> seq[Slot(j)] > j + 1
          <6>1. /\ seq[Slot(j)] = pos[t] /\ seq'[Slot(j)] = pos[t] + 1
                /\ pos[t] \in Nat /\ j \in Nat
            BY <1>0, <2>0, <3>1, <3>3
          <6> QED
            BY <4>1, <6>1
        <5>2. stored' = stored /\ taken' = taken
          OBVIOUS
        <5>3. StoredAt(j)'
          BY <3>1, <4>2, <4>3, <5>1, <5>2 DEF StoredAt
        <5>4. TakenAt(j)'
          BY <3>1, <4>2, <4>3, <5>1, <5>2 DEF TakenAt
        <5> QED
          BY <5>3, <5>4
      <4>5. ValueAt(j)'
        BY <1>0, <2>0, <3>1, <3>3, <4>1, <4>2, <4>3 DEF ValueAt
      <4> QED
        BY <4>4, <4>5
    <3> QED
      BY <3>2, <3>3
  <2> QED
    BY <2>1, <2>2, <2>3, <2>4 DEF IInv
<1>8. ASSUME NEW t \in Thread, TryPushHead(t)
      PROVE  IInv'
  <2> USE <1>8 DEF TryPushHead
  <2>1. TypeOK'
    <3>1. pc' \in [Thread -> {"idle"} \union PushPc \union PopPc]
      BY DEF PushPc, PopPc
    <3> QED
      BY <3>1
  <2>2. TicketsHeld'
    BY DEF TicketsHeld, HoldsPush, HoldsPop, PushPc
  <2>3. SlotsOwned'
    BY DEF SlotsOwned
  <2>4. Recorded'
    <3>1. \A u \in Thread : StaysOrQuiet(u)
      BY DEF StaysOrQuiet
    <3> QED
      BY <3>1, RecordedFrame
  <2> QED
    BY <2>1, <2>2, <2>3, <2>4 DEF IInv
<1>9. ASSUME NEW t \in Thread, TryPushFull(t)
      PROVE  IInv'
  <2> USE <1>9 DEF TryPushFull
  <2>1. TypeOK'
    <3>1. pc' \in [Thread -> {"idle"} \union PushPc \union PopPc]
      BY DEF PushPc, PopPc
    <3> QED
      BY <3>1
  <2>2. TicketsHeld'
    BY DEF TicketsHeld, HoldsPush, HoldsPop, PushPc
  <2>3. SlotsOwned'
    BY DEF SlotsOwned
  <2>4. Recorded'
    <3>1. \A u \in Thread : StaysOrQuiet(u)
      BY DEF StaysOrQuiet
    <3> QED
      BY <3>1, RecordedFrame
  <2> QED
    BY <2>1, <2>2, <2>3, <2>4 DEF IInv
<1>10. ASSUME NEW t \in Thread, TryPushSeq(t)
      PROVE  IInv'
  <2> USE <1>10 DEF TryPushSeq
  <2>1. TypeOK'
    <3>1. pc' \in [Thread -> {"idle"} \union PushPc \union PopPc]
      BY DEF PushPc, PopPc
    <3> QED
      BY <3>1
  <2>2. TicketsHeld'
    BY DEF TicketsHeld, HoldsPush, HoldsPop, PushPc
  <2>3. SlotsOwned'
    BY DEF SlotsOwned
  <2>4. Recorded'
    <3>1. \A u \in Thread : StaysOrQuiet(u)
      BY DEF StaysOrQuiet
    <3> QED
      BY <3>1, RecordedFrame
  <2> QED
    BY <2>1, <2>2, <2>3, <2>4 DEF IInv
<1>11. ASSUME NEW t \in Thread, TryPushCas(t)
      PROVE  IInv'
  <2> USE <1>11 DEF TryPushCas
  <2>1. TypeOK'
    <3>1. head' \in Nat
      OBVIOUS
    <3>2. pc' = [pc EXCEPT ![t] = "write"] \/ pc' = [pc EXCEPT ![t] = "tryPush"]
      OBVIOUS
    <3> QED
      BY <3>1, <3>2 DEF TypeOK, PushPc, PopPc
  <2>2. TicketsHeld'
    <3>1. CASE head = pos[t]
      <4> USE DEF TicketsHeld, HoldsPush, HoldsPop, PushPc
      <4>1. head' = pos[t] + 1 /\ pos[t] + 1 <= MaxTickets
        BY <1>0, <3>1
      <4>2. \A u \in Thread : u # t /\ pos[u] = pos[t] => ~HoldsPush(u)
        BY <1>0, <3>1
      <4>3. /\ tail' = tail /\ pos' = pos /\ arg' = arg
            /\ pc' = [pc EXCEPT ![t] = "write"]
        BY <3>1
      <4>4. ASSUME NEW u \in Thread
            PROVE  /\ HoldsPop(u)' <=> HoldsPop(u)
                   /\ HoldsPush(u)' <=> HoldsPush(u) \/ u = t
        BY <4>3
      <4>5. \A u \in Thread :
              /\ HoldsPush(u)' => pos'[u] < head'
              /\ HoldsPop(u)' => pos'[u] < tail'
        BY <1>0, <3>1, <4>1, <4>3, <4>4
      <4>6. \A u, w \in Thread : u # w /\ pos'[u] = pos'[w] =>
              ~(HoldsPush(u)' /\ HoldsPush(w)') /\ ~(HoldsPop(u)' /\ HoldsPop(w)')
        BY <1>0, <3>1, <4>2, <4>3, <4>4
      <4>7. \A u \in Thread :
              /\ pc'[u] \in {"tryPushSeq", "tryPushCas"} => pos'[u] <= head'
              /\ pc'[u] \in {"tryPopSeq", "tryPopCas"} => pos'[u] <= tail'
              /\ pc'[u] \in PushPc => arg'[u] \in Value
        BY <1>0, <3>1, <4>1, <4>3
      <4> QED
        BY <4>1, <4>5, <4>6, <4>7
    <3>2. CASE head # pos[t]
      <4>1. head' = head /\ pos' = pos /\ arg' = arg /\ tail' = tail
        BY <3>2
      <4>2. pc' = [pc EXCEPT ![t] = "tryPush"]
        BY <3>2
      <4>3. \A u \in Thread : (HoldsPush(u)' => HoldsPush(u))
                             /\ (HoldsPop(u)' => HoldsPop(u))
        BY <4>2 DEF HoldsPush, HoldsPop
      <4> QED
        BY <4>1, <4>2, <4>3 DEF TicketsHeld, PushPc
    <3> QED
      BY <3>1, <3>2
  <2>3. SlotsOwned'
    <3>1. CASE head = pos[t]
      <4>1. head' = head + 1 /\ pc' = [pc EXCEPT ![t] = "write"]
        BY <3>1
      <4>2. ASSUME NEW u \in Thread, At(u, "tryPushCas") PROVE head' # pos[u]
        BY <4>1, <4>2 DEF TicketsHeld
      <4> QED
        BY <3>1, <4>1, <4>2 DEF SlotsOwned
    <3>2. CASE head # pos[t]
      BY <3>2 DEF SlotsOwned
    <3> QED
      BY <3>1, <3>2
  <2>4. Recorded'
    <3>1. \A u \in Thread : StaysOrQuiet(u)
      BY DEF StaysOrQuiet
    <3> QED
      BY <3>1, RecordedFrame
  <2> QED
    BY <2>1, <2>2, <2>3, <2>4 DEF IInv
<1>12. ASSUME NEW t \in Thread, PopWait(t)
      PROVE  IInv'
  <2> USE <1>12 DEF PopWait
  <2>1. TypeOK'
    <3>1. pc' \in [Thread -> {"idle"} \union PushPc \union PopPc]
      BY DEF PushPc, PopPc
    <3> QED
      BY <3>1
  <2>2. TicketsHeld'
    BY DEF TicketsHeld, HoldsPush, HoldsPop, PushPc
  <2>3. SlotsOwned'
    BY DEF SlotsOwned
  <2>4. Recorded'
    <3>1. \A u \in Thread : StaysOrQuiet(u)
      BY DEF StaysOrQuiet
    <3> QED
      BY <3>1, RecordedFrame
  <2> QED
    BY <2>1, <2>2, <2>3, <2>4 DEF IInv
<1>13. ASSUME NEW t \in Thread, ReadVal(t)
      PROVE  IInv'
  <2> USE <1>13 DEF ReadVal
  <2>0. pos[t] \in Ticket
    BY DEF TicketsHeld, HoldsPop, Ticket
  <2>1. TypeOK'
    <3>1. stored[pos[t]] = <<val[Slot(pos[t])]>>
      BY <2>0 DEF Recorded, ValueAt, SlotsOwned
    <3>2. val[Slot(pos[t])] \in Value
      <4>1. <<val[Slot(pos[t])]>> \in Seq(Value)
        BY <2>0, <3>1
      <4> QED
        BY <4>1
    <3>3. Append(taken[pos[t]], val[Slot(pos[t])]) \in Seq(Value)
      BY <2>0, <3>2
    <3>4. taken' \in [Ticket -> Seq(Value)]
      BY <2>0, <3>3
    <3>5. pc' \in [Thread -> {"idle"} \union PushPc \union PopPc]
      BY DEF PushPc, PopPc
    <3> QED
      BY <1>0, <2>0, <3>4, <3>5
  <2>2. TicketsHeld'
    BY DEF TicketsHeld, HoldsPush, HoldsPop, PushPc
  <2>3. SlotsOwned'
    BY DEF SlotsOwned
  <2>4. Recorded'
    <3>2. taken'[pos[t]] = <<val[Slot(pos[t])]>>
      <4>1. Tickets!Take(pos[t])
        BY ReadIsTake
      <4>2. stored[pos[t]] = <<val[Slot(pos[t])]>>
        BY <2>0 DEF Recorded, ValueAt, SlotsOwned
      <4> QED
        BY <2>0, <4>1, <4>2 DEF Tickets!Take
    <3>3. StoredAt(pos[t])' /\ TakenAt(pos[t])' /\ ValueAt(pos[t])'
      <4>1. /\ Publishing(pos[t], "popPublish")'
            /\ Publishing(pos[t], "pushPublish")' <=> Publishing(pos[t], "pushPublish")
        BY DEF Publishing
      <4>2. taken'[pos[t]] # <<>>
        BY <3>2, NotEmpty
      <4>3. StoredAt(pos[t]) /\ ValueAt(pos[t])
        BY <2>0 DEF Recorded
      <4> QED
        BY <4>1, <4>2, <4>3 DEF StoredAt, TakenAt, ValueAt
    <3>4. ASSUME NEW j \in Ticket, j # pos[t]
          PROVE  StoredAt(j)' /\ TakenAt(j)' /\ ValueAt(j)'
      <4>1. stored'[j] = stored[j] /\ taken'[j] = taken[j]
        BY <3>4
      <4>2. /\ Publishing(j, "pushPublish")' <=> Publishing(j, "pushPublish")
            /\ Publishing(j, "popPublish")' <=> Publishing(j, "popPublish")
        BY <3>4 DEF Publishing
      <4> QED
        BY <4>1, <4>2 DEF Recorded, StoredAt, TakenAt, ValueAt
    <3> QED
      BY <3>3, <3>4 DEF Recorded
  <2> QED
    BY <2>1, <2>2, <2>3, <2>4 DEF IInv
<1>14. ASSUME NEW t \in Thread, PopPublish(t)
      PROVE  IInv'
  <2> USE <1>14 DEF PopPublish
  <2>0. /\ pos[t] \in Ticket /\ Owns(t)
        /\ seq[Slot(pos[t])] = pos[t] + 1 /\ seq'[Slot(pos[t])] = pos[t] + SIZE
    <3>1. pos[t] \in Ticket /\ Owns(t)
      BY <1>0 DEF TicketsHeld, HoldsPush, HoldsPop, Ticket, Owns
    <3>2. seq[Slot(pos[t])] = pos[t] + 1
      BY DEF SlotsOwned
    <3>3. seq'[Slot(pos[t])] = pos[t] + SIZE
      BY <1>0
    <3> QED
      BY <3>1, <3>2, <3>3
  <2>1. TypeOK'
    <3>1. seq' \in [0 .. SIZE - 1 -> Nat]
      BY <1>0
    <3>2. pc' \in [Thread -> {"idle"} \union PushPc \union PopPc]
      BY DEF PushPc, PopPc
    <3> QED
      BY <3>1, <3>2
  <2>2. TicketsHeld'
    BY DEF TicketsHeld, HoldsPush, HoldsPop, PushPc
  <2>3. SlotsOwned'
    <3>1. ASSUME NEW u \in Thread, u # t, Owns(u) \/ Winning(u)
          PROVE  seq'[Slot(pos[u])] = seq[Slot(pos[u])]
      BY <1>0, <1>a, <1>b, <2>0, <3>1 DEF SlotExclusive
    <3> QED
      BY <3>1 DEF SlotsOwned, Owns, Winning
  <2>4. Recorded'
    <3> SUFFICES ASSUME NEW j \in Ticket
                 PROVE  StoredAt(j)' /\ TakenAt(j)' /\ ValueAt(j)'
      BY DEF Recorded
    <3>1. StoredAt(j) /\ TakenAt(j) /\ ValueAt(j) /\ j \in Nat
      BY <1>0 DEF Recorded
    <3>2. CASE Slot(j) # Slot(pos[t])
      <4>1. seq'[Slot(j)] = seq[Slot(j)]
        BY <1>0, <3>2
      <4>2. /\ Publishing(j, "pushPublish")' <=> Publishing(j, "pushPublish")
            /\ Publishing(j, "popPublish")' <=> Publishing(j, "popPublish")
        BY <3>2 DEF Publishing
      <4> QED
        BY <3>1, <4>1, <4>2 DEF StoredAt, TakenAt, ValueAt
    <3>3. CASE Slot(j) = Slot(pos[t])
      <4>1. j = pos[t] \/ j + SIZE <= pos[t] \/ pos[t] + SIZE <= j
        BY <1>0, <1>c, <3>1, <3>3
      <4>2. /\ Publishing(j, "popPublish") <=> j = pos[t]
            /\ ~Publishing(j, "pushPublish")
        BY <1>a, <2>0, <3>3 DEF Publishing, SlotExclusive, Owns
      <4>3. /\ ~Publishing(j, "pushPublish")'
            /\ ~Publishing(j, "popPublish")'
        BY <1>a, <2>0, <3>3 DEF Publishing, SlotExclusive, Owns
      <4>4. StoredAt(j)' /\ TakenAt(j)'
        <5>1. /\ seq'[Slot(j)] > j <=> seq[Slot(j)] > j
              /\ seq'[Slot(j)] > j + 1 <=> seq[Slot(j)] > j + 1 \/ j = pos[t]
          <6>1. /\ seq[Slot(j)] = pos[t] + 1 /\ seq'[Slot(j)] = pos[t] + SIZE
                /\ pos[t] \in Nat /\ j \in Nat
            BY <1>0, <2>0, <3>1, <3>3
          <6> QED
            BY <4>1, <6>1
        <5>2. stored' = stored /\ taken' = taken
          OBVIOUS
        <5>3. StoredAt(j)'
          BY <3>1, <4>2, <4>3, <5>1, <5>2 DEF StoredAt
        <5>4. TakenAt(j)'
          BY <3>1, <4>2, <4>3, <5>1, <5>2 DEF TakenAt
        <5> QED
          BY <5>3, <5>4
      <4>5. ValueAt(j)'
        BY <1>0, <2>0, <3>1, <3>3, <4>1, <4>2, <4>3 DEF ValueAt
      <4> QED
        BY <4>4, <4>5
    <3> QED
      BY <3>2, <3>3
  <2> QED
    BY <2>1, <2>2, <2>3, <2>4 DEF IInv
<1>15. ASSUME NEW t \in Thread, TryPopTail(t)
      PROVE  IInv'
  <2> USE <1>15 DEF TryPopTail
  <2>1. TypeOK'
    <3>1. pc' \in [Thread -> {"idle"} \union PushPc \union PopPc]
      BY DEF PushPc, PopPc
    <3> QED
      BY <3>1
  <2>2. TicketsHeld'
    BY DEF TicketsHeld, HoldsPush, HoldsPop, PushPc
  <2>3. SlotsOwned'
    BY DEF SlotsOwned
  <2>4. Recorded'
    <3>1. \A u \in Thread : StaysOrQuiet(u)
      BY DEF StaysOrQuiet
    <3> QED
      BY <3>1, RecordedFrame
  <2> QED
    BY <2>1, <2>2, <2>3, <2>4 DEF IInv
<1>16. ASSUME NEW t \in Thread, TryPopEmpty(t)
      PROVE  IInv'
  <2> USE <1>16 DEF TryPopEmpty
  <2>1. TypeOK'
    <3>1. pc' \in [Thread -> {"idle"} \union PushPc \union PopPc]
      BY DEF PushPc, PopPc
    <3> QED
      BY <3>1
  <2>2. TicketsHeld'
    BY DEF TicketsHeld, HoldsPush, HoldsPop, PushPc
  <2>3. SlotsOwned'
    BY DEF SlotsOwned
  <2>4. Recorded'
    <3>1. \A u \in Thread : StaysOrQuiet(u)
      BY DEF StaysOrQuiet
    <3> QED
      BY <3>1, RecordedFrame
  <2> QED
    BY <2>1, <2>2, <2>3, <2>4 DEF IInv
<1>17. ASSUME NEW t \in Thread, TryPopSeq(t)
      PROVE  IInv'
  <2> USE <1>17 DEF TryPopSeq
  <2>1. TypeOK'
    <3>1. pc' \in [Thread -> {"idle"} \union PushPc \union PopPc]
      BY DEF PushPc, PopPc
    <3> QED
      BY <3>1
  <2>2. TicketsHeld'
    BY DEF TicketsHeld, HoldsPush, HoldsPop, PushPc
  <2>3. SlotsOwned'
    BY DEF SlotsOwned
  <2>4. Recorded'
    <3>1. \A u \in Thread : StaysOrQuiet(u)
      BY DEF StaysOrQuiet
    <3> QED
      BY <3>1, RecordedFrame
  <2> QED
    BY <2>1, <2>2, <2>3, <2>4 DEF IInv
<1>18. ASSUME NEW t \in Thread, TryPopCas(t)
      PROVE  IInv'
  <2> USE <1>18 DEF TryPopCas
  <2>1. TypeOK'
    <3>1. tail' \in Nat
      OBVIOUS
    <3>2. pc' = [pc EXCEPT ![t] = "read"] \/ pc' = [pc EXCEPT ![t] = "tryPop"]
      OBVIOUS
    <3> QED
      BY <3>1, <3>2 DEF TypeOK, PushPc, PopPc
  <2>2. TicketsHeld'
    <3>1. CASE tail = pos[t]
      <4> USE DEF TicketsHeld, HoldsPush, HoldsPop, PushPc
      <4>1. tail' = pos[t] + 1 /\ pos[t] + 1 <= MaxTickets
        BY <1>0, <3>1
      <4>2. \A u \in Thread : u # t /\ pos[u] = pos[t] => ~HoldsPop(u)
        BY <1>0, <3>1
      <4>3. /\ head' = head /\ pos' = pos /\ arg' = arg
            /\ pc' = [pc EXCEPT ![t] = "read"]
        BY <3>1
      <4>4. ASSUME NEW u \in Thread
            PROVE  /\ HoldsPush(u)' <=> HoldsPush(u)
                   /\ HoldsPop(u)' <=> HoldsPop(u) \/ u = t
        BY <4>3
      <4>5. \A u \in Thread :
              /\ HoldsPush(u)' => pos'[u] < head'
              /\ HoldsPop(u)' => pos'[u] < tail'
        BY <1>0, <3>1, <4>1, <4>3, <4>4
      <4>6. \A u, w \in Thread : u # w /\ pos'[u] = pos'[w] =>
              ~(HoldsPush(u)' /\ HoldsPush(w)') /\ ~(HoldsPop(u)' /\ HoldsPop(w)')
        BY <1>0, <3>1, <4>2, <4>3, <4>4
      <4>7. \A u \in Thread :
              /\ pc'[u] \in {"tryPushSeq", "tryPushCas"} => pos'[u] <= head'
              /\ pc'[u] \in {"tryPopSeq", "tryPopCas"} => pos'[u] <= tail'
              /\ pc'[u] \in PushPc => arg'[u] \in Value
        BY <1>0, <3>1, <4>1, <4>3
      <4> QED
        BY <4>1, <4>5, <4>6, <4>7
    <3>2. CASE tail # pos[t]
      BY <3>2 DEF TicketsHeld, HoldsPush, HoldsPop, PushPc
    <3> QED
      BY <3>1, <3>2
  <2>3. SlotsOwned'
    <3>1. CASE tail = pos[t]
      <4>1. tail' = tail + 1 /\ pc' = [pc EXCEPT ![t] = "read"]
        BY <3>1
      <4>2. ASSUME NEW u \in Thread, At(u, "tryPopCas") PROVE tail' # pos[u]
        BY <4>1, <4>2 DEF TicketsHeld
      <4> QED
        BY <3>1, <4>1, <4>2 DEF SlotsOwned
    <3>2. CASE tail # pos[t]
      BY <3>2 DEF SlotsOwned
    <3> QED
      BY <3>1, <3>2
  <2>4. Recorded'
    <3>1. \A u \in Thread : StaysOrQuiet(u)
      BY DEF StaysOrQuiet
    <3> QED
      BY <3>1, RecordedFrame
  <2> QED
    BY <2>1, <2>2, <2>3, <2>4 DEF IInv
<1>19. CASE UNCHANGED vars
  BY <1>19 DEF vars, TicketsHeld, SlotsOwned, Recorded, StoredAt, TakenAt, ValueAt,
          Publishing, HoldsPush, HoldsPop
<1> QED
  BY <1>1, <1>2, <1>3, <1>4, <1>5, <1>6, <1>7, <1>8, <1>9, <1>10, <1>11, <1>12, <1>13, <1>14, <1>15, <1>16, <1>17, <1>18, <1>19 DEF Next, PushStep, PopStep

\* For every number of producers, consumers and tickets and every capacity of
\* at least two, tickets, sequence numbers and slots agree after every step.
THEOREM Invariance == ASSUME SIZE > 1 PROVE Spec => []IInv
<1>1. Init => IInv
  BY InitInv
<1>2. IInv /\ [Next]_vars => IInv'
  BY NextInv
<1> QED
  BY <1>1, <1>2, PTL DEF Spec

\* The state of LockFreeQueueMpmcSeq keeps its types.
THEOREM TypeCorrect == ASSUME SIZE > 1 PROVE Spec => []TypeOK
<1>1. IInv => TypeOK
  BY DEF IInv
<1> QED
  BY <1>1, Invariance, PTL

\* No two threads ever construct, move or destroy in one slot at a time,
\* whichever of push, try_emplace, pop and try_pop they run and on whatever
\* lap of the ring.
THEOREM SlotSafety == ASSUME SIZE > 1 PROVE Spec => []SlotExclusive
<1>1. IInv => SlotExclusive
  BY OwnersApart
<1> QED
  BY <1>1, Invariance, PTL

-----------------------------------------------------------------------------

\* Every step of the queue is a step of the ticket queue or leaves it as it is.
LEMMA TicketStep ==
  SIZE > 1 /\ IInv /\ [Next]_vars => [Tickets!TicketNext]_(Tickets!ticketVars)
<1> SUFFICES ASSUME SIZE > 1, IInv, [Next]_vars
             PROVE  Tickets!TicketNext \/ UNCHANGED <<stored, taken>>
  BY DEF Tickets!ticketVars
<1>1. ASSUME NEW t \in Thread, WriteVal(t) PROVE Tickets!TicketNext
  BY <1>1, WriteIsPut DEF Tickets!TicketNext
<1>2. ASSUME NEW t \in Thread, ReadVal(t) PROVE Tickets!TicketNext
  BY <1>2, ReadIsTake DEF Tickets!TicketNext
<1>3. ASSUME NEW t \in Producer, NEW v \in Value, Push(t, v) \/ TryPush(t, v)
      PROVE  UNCHANGED <<stored, taken>>
  BY <1>3 DEF Push, TryPush
<1>4. ASSUME NEW t \in Consumer, Pop(t) \/ TryPop(t)
      PROVE  UNCHANGED <<stored, taken>>
  BY <1>4 DEF Pop, TryPop
<1>5. ASSUME NEW t \in Thread, PushStep(t), ~WriteVal(t)
      PROVE  UNCHANGED <<stored, taken>>
  BY <1>5 DEF PushStep, PushWait, PushPublish, TryPushHead, TryPushFull,
              TryPushSeq, TryPushCas
<1>6. ASSUME NEW t \in Thread, PopStep(t), ~ReadVal(t)
      PROVE  UNCHANGED <<stored, taken>>
  BY <1>6 DEF PopStep, PopWait, PopPublish, TryPopTail, TryPopEmpty,
              TryPopSeq, TryPopCas
<1>7. CASE UNCHANGED vars
  BY <1>7 DEF vars
<1> QED
  BY <1>1, <1>2, <1>3, <1>4, <1>5, <1>6, <1>7 DEF Next, Thread

\* Every run of the queue is a run of the ticket queue: pop number k returns
\* what push number k stored, each exactly once, whatever the interleaving.
THEOREM Refinement == ASSUME SIZE > 1 PROVE Spec => ImplementsTickets
<1>1. Init => Tickets!TicketInit
  BY DEF Init, Tickets!TicketInit
<1>2. IInv /\ [Next]_vars => [Tickets!TicketNext]_(Tickets!ticketVars)
  BY TicketStep
<1> QED
  BY <1>1, <1>2, Invariance, PTL DEF Spec, ImplementsTickets, Tickets!TicketSpec

-----------------------------------------------------------------------------
(* Every ticket drawn is used *)

\* A step that draws and uses no push ticket leaves their use as it is.
HoldsOn(t, pcs) == /\ pc[t] \in pcs <=> pc'[t] \in pcs
                   /\ pc[t] \in pcs => pos'[t] = pos[t]
LEMMA PushUsedFrame ==
  ASSUME NEW k \in Ticket, PushUsed(k), head' = head, stored' = stored,
         \A u \in Thread : HoldsOn(u, {"pushWait", "write"})
  PROVE  PushUsed(k)'
BY DEF PushUsed, Holding, HoldsOn

\* The same for pop tickets.
LEMMA PopUsedFrame ==
  ASSUME NEW k \in Ticket, PopUsed(k), tail' = tail, taken' = taken,
         \A u \in Thread : HoldsOn(u, {"popWait", "read"})
  PROVE  PopUsed(k)'
BY DEF PopUsed, Holding, HoldsOn

\* The fresh queue has used no ticket.
LEMMA InitAccounted == SIZE > 1 /\ Init => Accounted
<1> SUFFICES ASSUME SIZE > 1, Init PROVE Accounted
  OBVIOUS
<1>1. IInv
  BY InitInv
<1>2. TicketsUsed
  BY DEF Init, TicketsUsed, PushUsed, PopUsed, Holding, Ticket
<1>3. NumbersInStep
  <2>1. ASSUME NEW s \in 0 .. SIZE - 1 PROVE Slot(seq[s]) = s
    <3>1. s = (SIZE * 0) + s
      BY MpmcSeqAssumption
    <3>2. ((SIZE * 0) + s) % SIZE = s
      BY MpmcSeqAssumption, CellNumber
    <3> QED
      BY <3>1, <3>2 DEF Init, Slot
  <2> QED
    BY <2>1 DEF NumbersInStep
<1> QED
  BY <1>1, <1>2, <1>3 DEF Accounted

\* A push ticket is drawn by the thread that holds it afterwards, and given up
\* by the thread that stores under it.
LEMMA PushUsedNext ==
  ASSUME SIZE > 1, IInv, TicketsUsed, [Next]_vars, NEW k \in Ticket
  PROVE  PushUsed(k)'
<1> USE DEF IInv, TypeOK, Goto, At, Thread
<1>0. PushUsed(k) /\ k \in Nat /\ head \in Nat
  BY DEF TicketsUsed, Ticket
<1>1. ASSUME NEW t \in Thread, pc[t] \notin {"pushWait", "write"},
             head' = head + 1, stored' = stored, pos'[t] = head,
             pc' = [pc EXCEPT ![t] = "pushWait"] \/ pc' = [pc EXCEPT ![t] = "write"],
             \A u \in Thread \ {t} : pos'[u] = pos[u]
      PROVE  PushUsed(k)'
  <2>1. CASE k = head
    <3>1. pc'[t] \in {"pushWait", "write"} /\ pos'[t] = k /\ k < head'
      BY <1>0, <1>1, <2>1
    <3> QED
      BY <3>1 DEF PushUsed, Holding
  <2>2. CASE k # head
    <3>1. Holding(k, {"pushWait", "write"})' <=> Holding(k, {"pushWait", "write"})
      BY <1>0, <1>1, <2>2 DEF Holding
    <3>2. k < head' <=> k < head
      BY <1>0, <1>1, <2>2
    <3> QED
      BY <1>0, <1>1, <3>1, <3>2 DEF PushUsed
  <2> QED
    BY <2>1, <2>2
<1>2. ASSUME NEW t \in Thread, WriteVal(t) PROVE PushUsed(k)'
  <2> USE <1>2 DEF WriteVal
  <2>1. pos[t] \in Ticket /\ pos[t] < head
    BY WriteIsPut DEF TicketsHeld, HoldsPush
  <2>2. stored'[pos[t]] # <<>>
    <3>1. stored' = [stored EXCEPT ![pos[t]] = <<arg[t]>>]
      BY WriteIsPut DEF Tickets!Put
    <3>2. stored'[pos[t]] = <<arg[t]>>
      BY <2>1, <3>1
    <3> QED
      BY <3>2, NotEmpty
  <2>3. CASE k = pos[t]
    BY <1>0, <2>1, <2>2, <2>3 DEF PushUsed
  <2>4. CASE k # pos[t]
    <3>1. Holding(k, {"pushWait", "write"})' <=> Holding(k, {"pushWait", "write"})
      BY <2>4 DEF Holding
    <3>2. stored'[k] = stored[k]
      BY <2>4
    <3> QED
      BY <1>0, <3>1, <3>2 DEF PushUsed
  <2> QED
    BY <2>3, <2>4
<1>3. ASSUME NEW t \in Thread, NEW v \in Value, Push(t, v) PROVE PushUsed(k)'
  BY <1>1, <1>3 DEF Push
<1>4. ASSUME NEW t \in Thread, TryPushCas(t) PROVE PushUsed(k)'
  <2>1. CASE head = pos[t]
    BY <1>1, <1>4, <2>1 DEF TryPushCas
  <2>2. CASE head # pos[t]
    <3>1. \A u \in Thread : HoldsOn(u, {"pushWait", "write"})
      BY <1>4, <2>2 DEF TryPushCas, HoldsOn
    <3> QED
      BY <1>0, <1>4, <2>2, <3>1, PushUsedFrame DEF TryPushCas
  <2> QED
    BY <2>1, <2>2
<1>5. ASSUME head' = head, stored' = stored,
             \A u \in Thread : HoldsOn(u, {"pushWait", "write"})
      PROVE  PushUsed(k)'
  BY <1>0, <1>5, PushUsedFrame
<1>6. ASSUME NEW t \in Thread, NEW v \in Value, TryPush(t, v) PROVE PushUsed(k)'
  BY <1>5, <1>6 DEF TryPush, HoldsOn
<1>7. ASSUME NEW t \in Thread, PushWait(t) \/ PushPublish(t) PROVE PushUsed(k)'
  BY <1>5, <1>7 DEF PushWait, PushPublish, HoldsOn
<1>8. ASSUME NEW t \in Thread, TryPushHead(t) \/ TryPushFull(t) \/ TryPushSeq(t)
      PROVE  PushUsed(k)'
  BY <1>5, <1>8 DEF TryPushHead, TryPushFull, TryPushSeq, HoldsOn
<1>9. ASSUME NEW t \in Thread, Pop(t) \/ TryPop(t) \/ PopWait(t) \/ ReadVal(t)
      PROVE  PushUsed(k)'
  BY <1>5, <1>9 DEF Pop, TryPop, PopWait, ReadVal, HoldsOn
<1>10. ASSUME NEW t \in Thread, PopPublish(t) \/ TryPopTail(t) \/ TryPopEmpty(t)
       PROVE  PushUsed(k)'
  BY <1>5, <1>10 DEF PopPublish, TryPopTail, TryPopEmpty, HoldsOn
<1>11. ASSUME NEW t \in Thread, TryPopSeq(t) \/ TryPopCas(t) PROVE PushUsed(k)'
  BY <1>5, <1>11 DEF TryPopSeq, TryPopCas, HoldsOn
<1>12. CASE UNCHANGED vars
  BY <1>5, <1>12 DEF vars, HoldsOn
<1> QED
  BY <1>2, <1>3, <1>4, <1>6, <1>7, <1>8, <1>9, <1>10, <1>11, <1>12
  DEF Next, PushStep, PopStep

\* The same of pop tickets.
LEMMA PopUsedNext ==
  ASSUME SIZE > 1, IInv, TicketsUsed, [Next]_vars, NEW k \in Ticket
  PROVE  PopUsed(k)'
<1> USE DEF IInv, TypeOK, Goto, At, Thread
<1>0. PopUsed(k) /\ k \in Nat /\ tail \in Nat
  BY DEF TicketsUsed, Ticket
<1>1. ASSUME NEW t \in Thread, pc[t] \notin {"popWait", "read"},
             tail' = tail + 1, taken' = taken, pos'[t] = tail,
             pc' = [pc EXCEPT ![t] = "popWait"] \/ pc' = [pc EXCEPT ![t] = "read"],
             \A u \in Thread \ {t} : pos'[u] = pos[u]
      PROVE  PopUsed(k)'
  <2>1. CASE k = tail
    <3>1. pc'[t] \in {"popWait", "read"} /\ pos'[t] = k /\ k < tail'
      BY <1>0, <1>1, <2>1
    <3> QED
      BY <3>1 DEF PopUsed, Holding
  <2>2. CASE k # tail
    <3>1. Holding(k, {"popWait", "read"})' <=> Holding(k, {"popWait", "read"})
      BY <1>0, <1>1, <2>2 DEF Holding
    <3>2. k < tail' <=> k < tail
      BY <1>0, <1>1, <2>2
    <3> QED
      BY <1>0, <1>1, <3>1, <3>2 DEF PopUsed
  <2> QED
    BY <2>1, <2>2
<1>2. ASSUME NEW t \in Thread, ReadVal(t) PROVE PopUsed(k)'
  <2> USE <1>2 DEF ReadVal
  <2>1. pos[t] \in Ticket /\ pos[t] < tail
    BY ReadIsTake DEF TicketsHeld, HoldsPop
  <2>2. taken'[pos[t]] # <<>>
    BY <2>1, ReadIsTake DEF Tickets!Take
  <2>3. CASE k = pos[t]
    BY <1>0, <2>1, <2>2, <2>3 DEF PopUsed
  <2>4. CASE k # pos[t]
    <3>1. Holding(k, {"popWait", "read"})' <=> Holding(k, {"popWait", "read"})
      BY <2>4 DEF Holding
    <3>2. taken'[k] = taken[k]
      BY <2>4
    <3> QED
      BY <1>0, <3>1, <3>2 DEF PopUsed
  <2> QED
    BY <2>3, <2>4
<1>3. ASSUME NEW t \in Thread, Pop(t) PROVE PopUsed(k)'
  BY <1>1, <1>3 DEF Pop
<1>4. ASSUME NEW t \in Thread, TryPopCas(t) PROVE PopUsed(k)'
  <2>1. CASE tail = pos[t]
    BY <1>1, <1>4, <2>1 DEF TryPopCas
  <2>2. CASE tail # pos[t]
    <3>1. \A u \in Thread : HoldsOn(u, {"popWait", "read"})
      BY <1>4, <2>2 DEF TryPopCas, HoldsOn
    <3> QED
      BY <1>0, <1>4, <2>2, <3>1, PopUsedFrame DEF TryPopCas
  <2> QED
    BY <2>1, <2>2
<1>5. ASSUME tail' = tail, taken' = taken,
             \A u \in Thread : HoldsOn(u, {"popWait", "read"})
      PROVE  PopUsed(k)'
  BY <1>0, <1>5, PopUsedFrame
<1>6. ASSUME NEW t \in Thread, TryPop(t) PROVE PopUsed(k)'
  BY <1>5, <1>6 DEF TryPop, HoldsOn
<1>7. ASSUME NEW t \in Thread, PopWait(t) \/ PopPublish(t) PROVE PopUsed(k)'
  BY <1>5, <1>7 DEF PopWait, PopPublish, HoldsOn
<1>8. ASSUME NEW t \in Thread, TryPopTail(t) \/ TryPopEmpty(t) \/ TryPopSeq(t)
      PROVE  PopUsed(k)'
  BY <1>5, <1>8 DEF TryPopTail, TryPopEmpty, TryPopSeq, HoldsOn
<1>9. ASSUME NEW t \in Thread, NEW v \in Value, Push(t, v) \/ TryPush(t, v)
      PROVE  PopUsed(k)'
  BY <1>5, <1>9 DEF Push, TryPush, HoldsOn
<1>10. ASSUME NEW t \in Thread, PushWait(t) \/ WriteVal(t) \/ PushPublish(t)
       PROVE  PopUsed(k)'
  BY <1>5, <1>10 DEF PushWait, WriteVal, PushPublish, HoldsOn
<1>11. ASSUME NEW t \in Thread, TryPushHead(t) \/ TryPushFull(t)
       PROVE  PopUsed(k)'
  BY <1>5, <1>11 DEF TryPushHead, TryPushFull, HoldsOn
<1>12. ASSUME NEW t \in Thread, TryPushSeq(t) \/ TryPushCas(t) PROVE PopUsed(k)'
  BY <1>5, <1>12 DEF TryPushSeq, TryPushCas, HoldsOn
<1>13. CASE UNCHANGED vars
  BY <1>5, <1>13 DEF vars, HoldsOn
<1> QED
  BY <1>2, <1>3, <1>4, <1>6, <1>7, <1>8, <1>9, <1>10, <1>11, <1>12, <1>13
  DEF Next, PushStep, PopStep

\* A slot's number moves from a ticket of the slot to the next number and on to
\* the slot's next ticket.
LEMMA NumbersNext ==
  ASSUME SIZE > 1, IInv, NumbersInStep, [Next]_vars
  PROVE  NumbersInStep'
<1> USE DEF IInv, TypeOK
<1>1. ASSUME NEW t \in Thread, NEW i \in Nat, i = pos[t],
             \/ seq' = [seq EXCEPT ![Slot(i)] = i + 1]
             \/ seq' = [seq EXCEPT ![Slot(i)] = i + SIZE]
      PROVE  NumbersInStep'
  <2>1. Slot(i) \in 0 .. SIZE - 1 /\ Slot(i + SIZE) = Slot(i)
    BY <1>1, SlotRange, MpmcSeqAssumption, ModLap DEF Slot
  <2>2. ASSUME NEW s \in 0 .. SIZE - 1
        PROVE  Slot(seq'[s]) = s \/ (seq'[s] > 0 /\ Slot(seq'[s] - 1) = s)
    <3>1. CASE s = Slot(i)
      <4>1. seq'[s] = i + 1 \/ seq'[s] = i + SIZE
        BY <1>1, <2>1, <3>1
      <4>2. (i + 1) - 1 = i /\ i + 1 > 0
        BY <1>1
      <4> QED
        BY <2>1, <3>1, <4>1, <4>2
    <3>2. CASE s # Slot(i)
      BY <1>1, <3>2 DEF NumbersInStep
    <3> QED
      BY <3>1, <3>2
  <2> QED
    BY <2>2 DEF NumbersInStep, Slot
<1>2. ASSUME NEW t \in Thread, PushPublish(t) \/ PopPublish(t)
      PROVE  NumbersInStep'
  BY <1>1, <1>2 DEF PushPublish, PopPublish, CAPACITY
<1>3. ASSUME seq' = seq PROVE NumbersInStep'
  BY <1>3 DEF NumbersInStep, Slot
<1>4. ASSUME NEW t \in Producer, NEW v \in Value,
             Push(t, v) \/ TryPush(t, v)
      PROVE  NumbersInStep'
  BY <1>3, <1>4 DEF Push, TryPush
<1>5. ASSUME NEW t \in Consumer, Pop(t) \/ TryPop(t) PROVE NumbersInStep'
  BY <1>3, <1>5 DEF Pop, TryPop
<1>6. ASSUME NEW t \in Thread, PushStep(t), ~PushPublish(t)
      PROVE  NumbersInStep'
  BY <1>3, <1>6 DEF PushStep, PushWait, WriteVal, TryPushHead, TryPushFull,
                    TryPushSeq, TryPushCas
<1>7. ASSUME NEW t \in Thread, PopStep(t), ~PopPublish(t)
      PROVE  NumbersInStep'
  BY <1>3, <1>7 DEF PopStep, PopWait, ReadVal, TryPopTail, TryPopEmpty,
                    TryPopSeq, TryPopCas
<1>8. CASE UNCHANGED vars
  BY <1>3, <1>8 DEF vars
<1> QED
  BY <1>2, <1>4, <1>5, <1>6, <1>7, <1>8 DEF Next, Thread

\* Tickets and their use agree after every step, for every capacity of at least
\* two: what a call draws it uses, and no ticket is used that was not drawn.
THEOREM Accounting == ASSUME SIZE > 1 PROVE Spec => []Accounted
<1>1. Init => Accounted
  BY InitAccounted
<1>2. Accounted /\ [Next]_vars => Accounted'
  <2> SUFFICES ASSUME Accounted, [Next]_vars PROVE Accounted'
    OBVIOUS
  <2>1. \A k \in Ticket : PushUsed(k)' /\ PopUsed(k)'
    BY PushUsedNext, PopUsedNext DEF Accounted
  <2>2. TicketsUsed'
    BY <2>1 DEF TicketsUsed
  <2> QED
    BY <2>2, NextInv, NumbersNext DEF Accounted
<1> QED
  BY <1>1, <1>2, PTL DEF Spec

-----------------------------------------------------------------------------
(* What try_emplace, try_pop and size() may rely on *)

\* While no push is in flight, the tickets drawn are those stored, and the
\* sequence numbers show them.
LEMMA PushesQuiet ==
  ASSUME Accounted, \A t \in Thread : pc[t] \notin PushPc, NEW k \in Ticket
  PROVE  k < head <=> seq[Slot(k)] > k
<1>1. ~Holding(k, {"pushWait", "write"}) /\ ~Publishing(k, "pushPublish")
  BY DEF Holding, Publishing, At, PushPc
<1> QED
  BY <1>1 DEF Accounted, TicketsUsed, PushUsed, IInv, Recorded, StoredAt

\* The same for pops.
LEMMA PopsQuiet ==
  ASSUME Accounted, \A t \in Thread : pc[t] \notin PopPc, NEW k \in Ticket
  PROVE  k < tail <=> seq[Slot(k)] > k + 1
<1>1. ~Holding(k, {"popWait", "read"}) /\ ~Publishing(k, "popPublish")
  BY DEF Holding, Publishing, At, PopPc
<1> QED
  BY <1>1 DEF Accounted, TicketsUsed, PopUsed, IInv, Recorded, TakenAt

\* At most a lap of consecutive tickets takes as many slots.
LEMMA SlotsOfTickets ==
  ASSUME NEW a \in Nat, NEW b \in Nat, a <= b, b <= a + SIZE
  PROVE  Cardinality({s \in 0 .. SIZE - 1 : \E k \in a .. b - 1 : s = Slot(k)})
           = b - a
<1> DEFINE T == {s \in 0 .. SIZE - 1 : \E k \in a .. b - 1 : s = Slot(k)}
           f == [k \in a .. b - 1 |-> Slot(k)]
<1>1. ASSUME NEW k \in a .. b - 1 PROVE k \in Nat /\ Slot(k) \in 0 .. SIZE - 1
  BY SlotRange
<1>2. ASSUME NEW j \in a .. b - 1, NEW k \in a .. b - 1, Slot(j) = Slot(k)
      PROVE  j = k
  <2>1. ASSUME NEW x \in a .. b - 1, NEW y \in a .. b - 1, x < y
        PROVE  Slot(x) # Slot(y)
    <3>1. x \in Nat /\ y \in Nat /\ y < x + SIZE
      BY <2>1, MpmcSeqAssumption
    <3> QED
      BY <2>1, <3>1, SlotInjective
  <2>2. j < k \/ k < j \/ j = k
    BY <1>1
  <2> QED
    BY <1>2, <2>1, <2>2
<1>3. f \in Surjection(a .. b - 1, T)
  BY <1>1 DEF Surjection
<1>4. f \in Injection(a .. b - 1, T)
  BY <1>1, <1>2 DEF Injection, IsInjective
<1>5. IsFiniteSet(a .. b - 1) /\ Cardinality(a .. b - 1) = b - a
  <2> DEFINE c == b - 1
  <2>1. a \in Int /\ c \in Int /\ (IF a > c THEN 0 ELSE c - a + 1) = b - a
    OBVIOUS
  <2> HIDE DEF c
  <2>2. IsFiniteSet(a .. c) /\ Cardinality(a .. c) = b - a
    BY <2>1, FS_Interval
  <2> QED
    BY <2>2 DEF c
<1> HIDE DEF T, f
<1>6. Cardinality(T) = Cardinality(a .. b - 1)
  BY <1>3, <1>4, <1>5, FS_Surjection
<1> QED
  BY <1>5, <1>6 DEF T

\* At rest the tickets between the two counters are a lap at most, and each
\* shows in its slot.
LEMMA InvSizeAtRest == SIZE > 1 /\ Accounted => SizeAtRest
<1> SUFFICES ASSUME SIZE > 1, Accounted, \A t \in Thread : At(t, "idle")
             PROVE  /\ tail <= head
                    /\ head - tail =
                         Cardinality({s \in 0 .. SIZE - 1 :
                           \E k \in tail .. head - 1 : s = Slot(k)
                                                      /\ seq[s] = k + 1})
  BY DEF SizeAtRest
<1> USE MpmcSeqAssumption
<1>1. /\ head \in Nat /\ tail \in Nat
      /\ head <= MaxTickets /\ tail <= MaxTickets
      /\ seq \in [0 .. SIZE - 1 -> Nat]
  BY DEF Accounted, IInv, TypeOK, TicketsHeld
<1>2. ASSUME NEW k \in Ticket
      PROVE  /\ k \in Nat /\ seq[Slot(k)] \in Nat
             /\ k < head <=> seq[Slot(k)] > k
             /\ k < tail <=> seq[Slot(k)] > k + 1
  <2>1. \A t \in Thread : pc[t] \notin PushPc /\ pc[t] \notin PopPc
    BY DEF At, PushPc, PopPc
  <2>2. k \in Nat
    BY DEF Ticket
  <2>3. Slot(k) \in 0 .. SIZE - 1
    BY <2>2, SlotRange
  <2> QED
    BY <1>1, <2>1, <2>2, <2>3, PushesQuiet, PopsQuiet
<1>3. tail <= head
  <2>1. SUFFICES ASSUME head < tail PROVE FALSE
    BY <1>1
  <2>2. head \in Ticket
    BY <1>1, <2>1 DEF Ticket
  <2> QED
    BY <1>1, <1>2, <2>1, <2>2
<1>4. head <= tail + SIZE
  <2>1. SUFFICES ASSUME tail + SIZE < head PROVE FALSE
    BY <1>1
  <2>2. tail \in Ticket /\ tail + SIZE \in Ticket
    BY <1>1, <2>1 DEF Ticket
  <2>3. Slot(tail) = Slot(tail + SIZE)
    BY <1>1, ModLap DEF Slot
  <2> QED
    BY <1>1, <1>2, <2>1, <2>2, <2>3
<1>5. ASSUME NEW k \in tail .. head - 1 PROVE seq[Slot(k)] = k + 1
  <2>1. k \in Ticket /\ k < head /\ ~(k < tail)
    BY <1>1 DEF Ticket
  <2> QED
    BY <1>2, <2>1
<1>6. {s \in 0 .. SIZE - 1 : \E k \in tail .. head - 1 :
                               s = Slot(k) /\ seq[s] = k + 1}
        = {s \in 0 .. SIZE - 1 : \E k \in tail .. head - 1 : s = Slot(k)}
  BY <1>5
<1> QED
  BY <1>1, <1>3, <1>4, <1>6, SlotsOfTickets

\* size() of a queue at rest is the number of items that can be popped: a
\* failed try_emplace or try_pop used up no ticket.
THEOREM SizeRight == ASSUME SIZE > 1 PROVE Spec => []SizeAtRest
<1>1. Accounted => SizeAtRest
  BY InvSizeAtRest
<1> QED
  BY <1>1, Accounting, PTL

\* A slot whose number is behind a push's ticket waits for the pop a lap before.
LEMMA FullMeansFull ==
  ASSUME SIZE > 1, Accounted, NEW t \in Thread, TryPushFull(t),
         \A u \in Thread : pc[u] \notin PopPc
  PROVE  head >= tail + CAPACITY
<1> USE MpmcSeqAssumption
<1>1. /\ head \in Nat /\ tail \in Nat /\ head <= MaxTickets /\ pos[t] \in Nat
      /\ pos[t] <= head /\ seq[Slot(pos[t])] < pos[t]
      /\ seq \in [0 .. SIZE - 1 -> Nat]
  BY DEF Accounted, IInv, TypeOK, TicketsHeld, TryPushFull, At, SeqSeen
<1>2. PICK k \in Nat : /\ Slot(k) = Slot(pos[t])
                       /\ seq[Slot(pos[t])] = k \/ seq[Slot(pos[t])] = k + 1
  <2>1. Slot(pos[t]) \in 0 .. SIZE - 1
    BY <1>1, SlotRange
  <2>2. seq[Slot(pos[t])] \in Nat
    BY <1>1, <2>1
  <2>3. CASE Slot(seq[Slot(pos[t])]) = Slot(pos[t])
    BY <2>2, <2>3
  <2>4. CASE /\ seq[Slot(pos[t])] > 0
             /\ Slot(seq[Slot(pos[t])] - 1) = Slot(pos[t])
    <3>1. /\ seq[Slot(pos[t])] - 1 \in Nat
          /\ seq[Slot(pos[t])] = (seq[Slot(pos[t])] - 1) + 1
      BY <2>2, <2>4
    <3> QED
      BY <2>4, <3>1
  <2> QED
    BY <2>1, <2>3, <2>4 DEF Accounted, NumbersInStep
<1>3. k + SIZE <= pos[t]
  <2>1. k < pos[t]
    BY <1>1, <1>2
  <2> QED
    BY <1>1, <1>2, <2>1, SlotInjective
<1> DEFINE j == pos[t] - SIZE
<1>4. j \in Ticket /\ j \in Nat /\ k <= j /\ j + SIZE = pos[t]
  <2>1. \A p, n \in Nat : n > 1 /\ k + n <= p =>
          p - n \in Nat /\ k <= p - n /\ (p - n) + n = p /\ p - n < p
    OBVIOUS
  <2>2. SIZE \in Nat /\ MaxTickets \in Nat
    OBVIOUS
  <2>3. j \in Nat /\ k <= j /\ j + SIZE = pos[t] /\ j < pos[t]
    BY <1>1, <1>3, <2>1, <2>2
  <2>4. j < MaxTickets
    <3> HIDE DEF j
    <3> QED
      BY <1>1, <2>2, <2>3
  <2> HIDE DEF j
  <2> QED
    BY <2>2, <2>3, <2>4 DEF Ticket
<1> HIDE DEF j
<1>5. Slot(j) = Slot(pos[t])
  BY <1>4, ModLap DEF Slot
<1>6. ~(seq[Slot(j)] > j + 1)
  BY <1>1, <1>2, <1>4, <1>5
<1>7. ~(j < tail)
  BY <1>4, <1>6, PopsQuiet
<1> QED
  BY <1>1, <1>4, <1>7 DEF CAPACITY

\* A slot whose number is behind a pop's ticket waits for the push.
LEMMA EmptyMeansEmpty ==
  ASSUME Accounted, NEW t \in Thread, TryPopEmpty(t),
         \A u \in Thread : pc[u] \notin PushPc
  PROVE  tail >= head
<1> USE MpmcSeqAssumption
<1>1. /\ head \in Nat /\ tail \in Nat /\ head <= MaxTickets /\ pos[t] \in Nat
      /\ pos[t] <= tail /\ seq[Slot(pos[t])] < pos[t] + 1
      /\ seq \in [0 .. SIZE - 1 -> Nat]
  BY DEF Accounted, IInv, TypeOK, TicketsHeld, TryPopEmpty, At, SeqSeen
<1>2. CASE pos[t] \in Ticket
  <2>1. Slot(pos[t]) \in 0 .. SIZE - 1
    BY <1>1, SlotRange
  <2>2. ~(seq[Slot(pos[t])] > pos[t])
    BY <1>1, <2>1
  <2> QED
    BY <1>1, <1>2, <2>2, PushesQuiet
<1>3. CASE pos[t] \notin Ticket
  BY <1>1, <1>3 DEF Ticket
<1> QED
  BY <1>2, <1>3

\* try_emplace returns false only when the queue is full, unless a pop is in
\* flight; try_pop returns false only when it is empty, unless a push is.
THEOREM HonestFailures == ASSUME SIZE > 1 PROVE Spec => TryFailsHonestly
<1>1. Accounted =>
        /\ \A t \in Producer :
             TryPushFull(t) /\ ~InFlight(Thread, PopPc) => head >= tail + CAPACITY
        /\ \A t \in Consumer :
             TryPopEmpty(t) /\ ~InFlight(Thread, PushPc) => tail >= head
  BY FullMeansFull, EmptyMeansEmpty DEF InFlight, Thread
<1> QED
  BY <1>1, Accounting, PTL DEF TryFailsHonestly

\* Two items that wait to be popped are in different slots.
LEMMA WaitingApart ==
  ASSUME SIZE > 1, IInv, NEW i \in Ticket, NEW k \in Ticket, i < k,
         stored[i] # <<>>, taken[i] = <<>>, stored[k] # <<>>, taken[k] = <<>>
  PROVE  Slot(i) # Slot(k)
<1> USE MpmcSeqAssumption
<1>1. i \in Nat /\ k \in Nat
  BY DEF Ticket
<1>2. SUFFICES ASSUME Slot(i) = Slot(k) PROVE FALSE
  OBVIOUS
<1>3. i + SIZE <= k
  BY <1>1, <1>2, SlotInjective
<1>4. Slot(k) \in 0 .. SIZE - 1 /\ seq \in [0 .. SIZE - 1 -> Nat]
  BY <1>1, SlotRange DEF IInv, TypeOK
<1>5. seq[Slot(k)] >= k
  <2>1. CASE seq[Slot(k)] > k
    BY <1>1, <1>4, <2>1
  <2>2. CASE Publishing(k, "pushPublish")
    <3>1. seq[Slot(k)] = k
      BY <2>2 DEF Publishing, At, IInv, SlotsOwned, SeqSeen
    <3> QED
      BY <1>1, <3>1
  <2> QED
    BY <1>1, <2>1, <2>2 DEF IInv, Recorded, StoredAt
<1>6. seq[Slot(i)] > i + 1
  BY <1>1, <1>2, <1>3, <1>4, <1>5
<1> QED
  BY <1>1, <1>6 DEF IInv, Recorded, TakenAt

\* With two slots or more the queue never holds more items than its capacity;
\* with one it can.
THEOREM CapacityKept == ASSUME SIZE > 1 PROVE Spec => []AtMostCapacity
<1>1. IInv => AtMostCapacity
  <2> SUFFICES ASSUME IInv PROVE AtMostCapacity
    OBVIOUS
  <2> USE MpmcSeqAssumption
  <2> DEFINE W == {k \in Ticket : stored[k] # <<>> /\ taken[k] = <<>>}
             f == [k \in W |-> Slot(k)]
  <2>1. ASSUME NEW i \in W, NEW k \in W, i < k PROVE Slot(i) # Slot(k)
    BY <2>1, WaitingApart
  <2>2. f \in Injection(W, 0 .. SIZE - 1)
    <3>1. ASSUME NEW k \in W PROVE k \in Nat /\ Slot(k) \in 0 .. SIZE - 1
      BY SlotRange DEF Ticket
    <3>2. ASSUME NEW i \in W, NEW k \in W, Slot(i) = Slot(k) PROVE i = k
      <4>1. i < k \/ k < i \/ i = k
        BY <3>1
      <4> QED
        BY <2>1, <3>2, <4>1
    <3> HIDE DEF W
    <3> QED
      BY <3>1, <3>2 DEF Injection, IsInjective
  <2>3. IsFiniteSet(0 .. SIZE - 1) /\ Cardinality(0 .. SIZE - 1) = SIZE
    <3>1. /\ SIZE - 1 \in Int /\ 0 \in Int
          /\ (IF 0 > SIZE - 1 THEN 0 ELSE ((SIZE - 1) - 0) + 1) = SIZE
      OBVIOUS
    <3> QED
      BY <3>1, FS_Interval
  <2> HIDE DEF f, W
  <2>4. Cardinality(W) <= SIZE
    BY <2>2, <2>3, FS_Injection
  <2> QED
    BY <2>4 DEF AtMostCapacity, CAPACITY, W
<1> QED
  BY <1>1, Invariance, PTL

-----------------------------------------------------------------------------
(* The queue whose cells own their elements *)

\* Who is inside a push or a pop may be.
SidesKept == \A t \in Thread : /\ pc[t] \in PushPc => t \in Producer
                               /\ pc[t] \in PopPc => t \in Consumer

\* joad's queue takes the steps of the sequence-numbered one, on the same sides.
LEMMA JoadSteps ==
  SIZE > 1 /\ IInv /\ SidesKept /\ [JoadNext]_joadVars => [Next]_vars /\ SidesKept'
<1> SUFFICES ASSUME SIZE > 1, IInv, SidesKept, [JoadNext]_joadVars
             PROVE  [Next]_vars /\ SidesKept'
  OBVIOUS
<1>0. pc \in [Thread -> {"idle"} \union PushPc \union PopPc]
  BY DEF IInv, TypeOK
<1>1. CASE UNCHANGED vars
  BY <1>1 DEF vars, SidesKept
<1>2. ASSUME NEW t \in Producer,
             \/ \E v \in Value : Push(t, v) \/ TryPush(t, v)
             \/ PushStep(t)
      PROVE  Next /\ SidesKept'
  <2>1. Next
    BY <1>2 DEF Next
  <2>2. \E l \in {"idle"} \union PushPc : pc' = [pc EXCEPT ![t] = l]
    BY <1>2
    DEF Push, TryPush, PushStep, PushWait, WriteVal, PushPublish, TryPushHead, TryPushFull,
        TryPushSeq, TryPushCas, Goto, PushPc
  <2>3. \A l \in {"idle"} \union PushPc : l \notin PopPc
    BY DEF PushPc, PopPc
  <2> QED
    BY <1>0, <2>1, <2>2, <2>3 DEF SidesKept, Thread
<1>3. ASSUME NEW t \in Consumer, Pop(t) \/ TryPop(t) \/ PopStep(t)
      PROVE  Next /\ SidesKept'
  <2>1. Next
    BY <1>3 DEF Next
  <2>2. \E l \in {"idle"} \union PopPc : pc' = [pc EXCEPT ![t] = l]
    BY <1>3
    DEF Pop, TryPop, PopStep, PopWait, ReadVal, PopPublish, TryPopTail, TryPopEmpty,
        TryPopSeq, TryPopCas, Goto, PopPc
  <2>3. \A l \in {"idle"} \union PopPc : l \notin PushPc
    BY DEF PushPc, PopPc
  <2> QED
    BY <1>0, <2>1, <2>2, <2>3 DEF SidesKept, Thread
<1>4. ASSUME NEW t \in Thread, PushStep(t)
      PROVE  t \in Producer
  BY <1>4
  DEF SidesKept, PushStep, PushWait, WriteVal, PushPublish, TryPushHead, TryPushFull,
      TryPushSeq, TryPushCas, At, PushPc
<1>5. ASSUME NEW t \in Thread, PopStep(t)
      PROVE  t \in Consumer
  BY <1>5
  DEF SidesKept, PopStep, PopWait, ReadVal, PopPublish, TryPopTail, TryPopEmpty,
      TryPopSeq, TryPopCas, At, PopPc
<1>6. ASSUME NEW t \in Thread, JoadStep(t)
      PROVE  PushStep(t) \/ PopStep(t)
  BY <1>6 DEF JoadStep, Claim, Emplace, Take, PushStep, PopStep
<1>7. ASSUME NEW t \in Thread, Calls(t)
      PROVE  Next /\ SidesKept'
  BY <1>2, <1>3, <1>7 DEF Calls
<1>8. CASE Destroy
  BY <1>1, <1>8 DEF Destroy
<1> QED
  BY <1>1, <1>2, <1>3, <1>4, <1>5, <1>6, <1>7, <1>8 DEF JoadNext, joadVars

\* joad's queue implements the sequence-numbered queue, and so whatever holds of
\* the one holds of the other: slots are exclusive, pop k returns what push k
\* stored, size() is right at rest, failures are honest.
THEOREM JoadRefinement == ASSUME SIZE > 1 PROVE JoadSpec => Spec
<1>1. JoadInit => Init /\ IInv /\ SidesKept
  <2>1. JoadInit => Init
    BY DEF JoadInit
  <2>2. Init => SidesKept
    BY DEF Init, SidesKept, PushPc, PopPc
  <2> QED
    BY <2>1, <2>2, InitInv
<1>2. IInv /\ SidesKept /\ [JoadNext]_joadVars => [Next]_vars /\ IInv' /\ SidesKept'
  BY JoadSteps, NextInv
<1> QED
  BY <1>1, <1>2, PTL DEF JoadSpec, Spec

-----------------------------------------------------------------------------
(* Objects in the cells *)

\* A cell of the open queue holds an object exactly if an item waits in it; the
\* destroyed queue holds none.
Owned ==
  /\ open \in BOOLEAN /\ live \in [Cells -> BOOLEAN] /\ constructed = live
  /\ \A s \in Cells : live[s] <=> open /\ Waiting(s) # {}

\* An item that waits is the only one in its cell, so Owned is what LiveCells says.
LEMMA OwnedMeansLive == SIZE > 1 /\ IInv /\ Owned => LiveCells
<1> SUFFICES ASSUME SIZE > 1, IInv, Owned
             PROVE  \A s \in Cells :
                      IF open /\ live[s] THEN Cardinality(Waiting(s)) = 1
                      ELSE ~live[s] /\ (open => Waiting(s) = {})
  BY DEF LiveCells, Owned
<1> TAKE s \in Cells
<1>1. CASE open /\ live[s]
  <2>1. PICK i \in Waiting(s) : TRUE
    BY <1>1 DEF Owned
  <2>2. ASSUME NEW k \in Waiting(s) PROVE k = i
    <3>1. i < k \/ k < i \/ i = k
      BY MpmcSeqAssumption DEF Waiting, Ticket
    <3> QED
      BY <3>1, WaitingApart DEF Waiting
  <2>3. Waiting(s) = {i}
    BY <2>1, <2>2
  <2> QED
    BY <1>1, <2>3, FS_Singleton
<1>2. CASE ~(open /\ live[s])
  BY <1>2 DEF Owned
<1> QED
  BY <1>1, <1>2

\* A store and a copy change what waits in their own cell only: after the store an
\* item waits there, after the copy none.
LEMMA WaitingNext ==
  ASSUME SIZE > 1, IInv, IInv', NEW t \in Thread, NEW s \in Cells
  PROVE  /\ WriteVal(t) => (Waiting(s)' # {} <=> Waiting(s) # {} \/ s = Slot(pos[t]))
         /\ ReadVal(t) => (Waiting(s)' # {} <=> Waiting(s) # {} /\ s # Slot(pos[t]))
<1> USE MpmcSeqAssumption
<1>0. stored \in [Ticket -> Seq(Value)] /\ taken \in [Ticket -> Seq(Value)]
  BY DEF IInv, TypeOK
<1>1. ASSUME WriteVal(t)
      PROVE  Waiting(s)' # {} <=> Waiting(s) # {} \/ s = Slot(pos[t])
  <2>1. /\ pos[t] \in Ticket /\ stored[pos[t]] = <<>> /\ taken' = taken
        /\ stored' = [stored EXCEPT ![pos[t]] = <<arg[t]>>]
    BY <1>1, WriteIsPut DEF Tickets!Put
  <2>2. taken[pos[t]] = <<>>
    <3>1. pc[t] = "write" /\ seq[Slot(pos[t])] = pos[t] /\ pos[t] \in Nat
      BY <1>1, <2>1 DEF WriteVal, At, IInv, SlotsOwned, SeqSeen, TypeOK
    <3>2. ~Publishing(pos[t], "popPublish")
      <4>1. ASSUME NEW u \in Thread, At(u, "popPublish"), pos[u] = pos[t]
            PROVE  FALSE
        <5>1. seq[Slot(pos[t])] = pos[t] + 1
          BY <4>1 DEF IInv, SlotsOwned, SeqSeen, At
        <5> QED
          BY <3>1, <5>1
      <4> QED
        BY <4>1 DEF Publishing
    <3> QED
      BY <2>1, <3>1, <3>2 DEF IInv, Recorded, TakenAt
  <2>3. \A k \in Ticket : k # pos[t] => stored'[k] = stored[k]
    BY <1>0, <2>1
  <2>4. stored'[pos[t]] # <<>>
    BY <1>0, <2>1, NotEmpty
  <2> QED
    BY <2>1, <2>2, <2>3, <2>4 DEF Waiting
<1>2. ASSUME ReadVal(t)
      PROVE  Waiting(s)' # {} <=> Waiting(s) # {} /\ s # Slot(pos[t])
  <2>1. /\ pos[t] \in Ticket /\ stored[pos[t]] # <<>> /\ taken[pos[t]] = <<>>
        /\ stored' = stored /\ taken' = [taken EXCEPT ![pos[t]] = stored[pos[t]]]
    BY <1>2, ReadIsTake DEF Tickets!Take
  <2>2. \A k \in Ticket : k # pos[t] => taken'[k] = taken[k]
    BY <1>0, <2>1
  <2>3. taken'[pos[t]] # <<>>
    BY <1>0, <2>1
  <2>4. ASSUME NEW k \in Ticket, k # pos[t], Slot(k) = Slot(pos[t]), stored[k] # <<>>
        PROVE  taken[k] # <<>>
    <3>1. k < pos[t] \/ pos[t] < k
      BY <2>1, <2>4 DEF Ticket
    <3> QED
      BY <2>1, <2>4, <3>1, WaitingApart
  <2> QED
    BY <2>1, <2>2, <2>3, <2>4 DEF Waiting
<1> QED
  BY <1>1, <1>2

\* Objects are constructed and destroyed with the items.
LEMMA OwnedNext ==
  SIZE > 1 /\ IInv /\ IInv' /\ Owned /\ [JoadNext]_joadVars => Owned'
<1> SUFFICES ASSUME SIZE > 1, IInv, IInv', Owned, [JoadNext]_joadVars
             PROVE  Owned'
  OBVIOUS
<1>0. open \in BOOLEAN /\ live \in [Cells -> BOOLEAN] /\ constructed = live
  BY DEF Owned
<1>1. ASSUME UNCHANGED <<live, constructed, open, stored, taken>>
      PROVE  Owned'
  BY <1>1 DEF Owned, Waiting, Cells, Ticket, Slot
<1>2. ASSUME NEW t \in Thread, WriteVal(t), open' = open, open,
             live' = [live EXCEPT ![Slot(pos[t])] = TRUE],
             constructed' = [constructed EXCEPT ![Slot(pos[t])] = TRUE]
      PROVE  Owned'
  <2>1. ASSUME NEW s \in Cells
        PROVE  live'[s] <=> open /\ Waiting(s)' # {}
    <3>1. Waiting(s)' # {} <=> Waiting(s) # {} \/ s = Slot(pos[t])
      BY <1>2, WaitingNext
    <3>2. live'[s] <=> live[s] \/ s = Slot(pos[t])
      BY <1>0, <1>2
    <3> QED
      BY <1>2, <3>1, <3>2 DEF Owned
  <2>2. live' \in [Cells -> BOOLEAN] /\ constructed' = live'
    BY <1>0, <1>2
  <2> QED
    BY <1>0, <1>2, <2>1, <2>2 DEF Owned
<1>3. ASSUME NEW t \in Thread, ReadVal(t), open' = open, open,
             live' = [live EXCEPT ![Slot(pos[t])] = FALSE],
             constructed' = [constructed EXCEPT ![Slot(pos[t])] = FALSE]
      PROVE  Owned'
  <2>1. ASSUME NEW s \in Cells
        PROVE  live'[s] <=> open /\ Waiting(s)' # {}
    <3>1. Waiting(s)' # {} <=> Waiting(s) # {} /\ s # Slot(pos[t])
      BY <1>3, WaitingNext
    <3>2. live'[s] <=> live[s] /\ s # Slot(pos[t])
      BY <1>0, <1>3
    <3> QED
      BY <1>3, <3>1, <3>2 DEF Owned
  <2>2. live' \in [Cells -> BOOLEAN] /\ constructed' = live'
    BY <1>0, <1>3
  <2> QED
    BY <1>0, <1>3, <2>1, <2>2 DEF Owned
<1>4. CASE Destroy
  <2>1. open' = FALSE
    BY <1>4 DEF Destroy
  <2>2. live' = [s \in Cells |-> FALSE] /\ constructed' = [s \in Cells |-> FALSE]
    BY <1>0, <1>4 DEF Destroy
  <2> QED
    BY <2>1, <2>2 DEF Owned
<1>5. ASSUME NEW t \in Thread, Calls(t)
      PROVE  Owned'
  BY <1>1, <1>5 DEF Calls, Push, TryPush, Pop, TryPop
<1>6. ASSUME NEW t \in Thread, open, JoadStep(t)
      PROVE  Owned'
  <2>1. CASE Claim(t)
    BY <1>1, <2>1
    DEF Claim, PushWait, TryPushHead, TryPushFull, TryPushSeq, TryPushCas, PopWait,
        TryPopTail, TryPopEmpty, TryPopSeq, TryPopCas
  <2>2. CASE Emplace(t)
    BY <1>1, <1>2, <1>6, <2>2 DEF Emplace, PushPublish
  <2>3. CASE Take(t)
    BY <1>1, <1>3, <1>6, <2>3 DEF Take, PopPublish
  <2> QED
    BY <1>6, <2>1, <2>2, <2>3 DEF JoadStep
<1>7. CASE UNCHANGED joadVars
  BY <1>1, <1>7 DEF joadVars, vars
<1> QED
  BY <1>4, <1>5, <1>6, <1>7 DEF JoadNext

\* In joad's queue no emplace constructs over a live object, no pop destroys a dead
\* one, and the destructor leaves none behind.
THEOREM CellsLive == ASSUME SIZE > 1 PROVE JoadSpec => []LiveCells
<1>1. JoadInit => Owned
  BY DEF JoadInit, Init, Owned, Waiting, Cells
<1>2. IInv /\ IInv' /\ Owned /\ [JoadNext]_joadVars => Owned'
  BY OwnedNext
<1>3. IInv /\ Owned => LiveCells
  BY OwnedMeansLive
<1>4. JoadSpec => []IInv
  BY JoadRefinement, Invariance, PTL
<1> QED
  BY <1>1, <1>2, <1>3, <1>4, PTL DEF JoadSpec
=============================================================================
