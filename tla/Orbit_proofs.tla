---------------------------- MODULE Orbit_proofs ----------------------------
(***************************************************************************)
(* Proofs about Orbit for every size, number of threads and tickets, with  *)
(* and without helping: the inductive invariant IInv, that slots are owned *)
(* by one thread at a time, that answers are honest, and that the queue    *)
(* implements TicketQueue.                                                 *)
(***************************************************************************)
EXTENDS Orbit, TLAPS

-----------------------------------------------------------------------------
(* Facts about i % n *)

\* An index falls into a ring of n slots.
LEMMA ModRange ==
  ASSUME NEW n \in Nat \ {0}, NEW i \in Nat
  PROVE  i % n \in 0 .. n - 1
OBVIOUS

\* A table of rows with n cells each: cell c of row r has number (n * r) + c, and
\* the number tells row and cell.
LEMMA CellNumber ==
  ASSUME NEW n \in Nat \ {0}, NEW r \in Nat, NEW c \in 0 .. n - 1
  PROVE  ((n * r) + c) \div n = r /\ ((n * r) + c) % n = c
<1> DEFINE x == (n * r) + c
           q == x \div n
           d == x % n
<1>0. x \in Nat
  OBVIOUS
<1>1. q \in Int /\ d \in 0 .. n - 1 /\ x = (n * q) + d
  BY <1>0
<1> HIDE DEF q, d
<1>2. c - d = n * (q - r)
  BY <1>1
<1>3. ~(q - r >= 1) /\ ~(q - r <= -1)
  BY <1>1, <1>2
<1>4. q = r
  BY <1>1, <1>3
<1>5. d = c
  BY <1>1, <1>2, <1>4
<1> QED
  BY <1>4, <1>5 DEF q, d

\* Rows above it do not change the cell of a number.
LEMMA ModRows ==
  ASSUME NEW n \in Nat \ {0}, NEW a \in Nat, NEW b \in Nat
  PROVE  ((n * a) + b) % n = b % n
<1> DEFINE q == b \div n
           c == b % n
<1>1. q \in Nat /\ c \in 0 .. n - 1 /\ b = (n * q) + c
  OBVIOUS
<1> HIDE DEF q, c
<1>2. (n * a) + b = (n * (a + q)) + c /\ a + q \in Nat
  BY <1>1
<1>3. ((n * (a + q)) + c) % n = c
  BY <1>1, <1>2, CellNumber
<1> QED
  BY <1>2, <1>3 DEF c

\* A factor may be reduced before the product is.
LEMMA ModTimes ==
  ASSUME NEW n \in Nat \ {0}, NEW m \in Nat, NEW i \in Nat
  PROVE  (m * (i % n)) % n = (m * i) % n
<1> DEFINE a == i \div n
           c == i % n
<1>1. a \in Nat /\ c \in 0 .. n - 1 /\ i = (n * a) + c
  OBVIOUS
<1> HIDE DEF a, c
<1>2. m * i = (n * (m * a)) + (m * c) /\ m * a \in Nat /\ m * c \in Nat
  BY <1>1
<1>3. ((n * (m * a)) + (m * c)) % n = (m * c) % n
  BY <1>2, ModRows
<1> QED
  BY <1>2, <1>3 DEF c

\* A step with an inverse u modulo n can be taken back.
LEMMA ModInverse ==
  ASSUME NEW n \in Nat \ {0}, NEW d \in Nat, NEW u \in Nat,
         (d * u) % n = 1 % n
  PROVE  \A i \in Nat : (u * (i * d)) % n = i % n
<1> SUFFICES ASSUME NEW i \in Nat PROVE (u * (i * d)) % n = i % n
  OBVIOUS
<1> DEFINE p == d * u
<1>1. p \in Nat
  OBVIOUS
<1>2. u * (i * d) = i * p
  OBVIOUS
<1> HIDE DEF p
<1>3. (i * (p % n)) % n = (i * p) % n
  BY <1>1, ModTimes
<1>4. (i * (1 % n)) % n = (i * 1) % n
  BY ModTimes
<1>5. p % n = 1 % n
  BY DEF p
<1> QED
  BY <1>1, <1>2, <1>3, <1>4, <1>5

-----------------------------------------------------------------------------
(* Slots *)

\* An index has a slot.
LEMMA SlotRange == ASSUME NEW k \in Nat PROVE Slot(k) \in Slots
<1>1. k * STEP \in Nat /\ SIZE \in Nat \ {0}
  BY OrbitAssumption
<1> QED
  BY <1>1, ModRange DEF Slot, Slots

\* Laps and positions within a lap are numbers.
LEMMA LapNat == ASSUME NEW k \in Nat PROVE k \div SIZE \in Nat
BY OrbitAssumption

\* The step of the slots can be taken back.
LEMMA StepInverse ==
  \E u \in Nat : \A i \in Nat : /\ (u * (i * STEP)) % SIZE = i % SIZE
                                /\ (STEP * (i * u)) % SIZE = i % SIZE
<1>1. PICK u \in 0 .. SIZE - 1 : (STEP * u) % SIZE = 1 % SIZE
  BY OrbitAssumption
<1>2. SIZE \in Nat \ {0} /\ STEP \in Nat /\ u \in Nat
  BY <1>1, OrbitAssumption
<1>3. (u * STEP) % SIZE = 1 % SIZE
  BY <1>1, <1>2
<1>4. \A i \in Nat : (u * (i * STEP)) % SIZE = i % SIZE
  BY <1>1, <1>2, ModInverse, Zenon
<1>5. \A i \in Nat : (STEP * (i * u)) % SIZE = i % SIZE
  BY <1>2, <1>3, ModInverse, Zenon
<1> QED
  BY <1>2, <1>4, <1>5, Zenon

\* Within a lap, different indices have different slots.
LEMMA SlotLap ==
  ASSUME NEW j \in Nat, NEW k \in Nat, j \div SIZE = k \div SIZE, Slot(j) = Slot(k)
  PROVE  j = k
<1>1. PICK u \in Nat : \A i \in Nat : (u * (i * STEP)) % SIZE = i % SIZE
  BY StepInverse
<1>2. SIZE \in Nat \ {0} /\ STEP \in Nat
  BY OrbitAssumption
<1>3. ASSUME NEW i \in Nat
      PROVE  (u * Slot(i)) % SIZE = i % SIZE
  <2>1. i * STEP \in Nat
    BY <1>2
  <2>2. (u * ((i * STEP) % SIZE)) % SIZE = (u * (i * STEP)) % SIZE
    BY <1>2, <2>1, ModTimes
  <2> QED
    BY <1>1, <2>2 DEF Slot
<1>4. j % SIZE = k % SIZE
  BY <1>3
<1>5. \A n \in Nat \ {0}, i \in Nat : i = n * (i \div n) + (i % n)
  OBVIOUS
<1> QED
  BY <1>2, <1>4, <1>5

\* Each slot has an index in each lap.
LEMMA SlotOnto ==
  ASSUME NEW s \in Slots, NEW m \in Nat
  PROVE  \E k \in Nat : k \div SIZE = m /\ Slot(k) = s
<1>1. PICK u \in Nat : \A i \in Nat : (STEP * (i * u)) % SIZE = i % SIZE
  BY StepInverse
<1>2. SIZE \in Nat \ {0} /\ STEP \in Nat /\ s \in Nat /\ s < SIZE
  BY OrbitAssumption DEF Slots
<1> DEFINE x == s * u
           r == x % SIZE
           k == (SIZE * m) + r
<1>3. x \in Nat
  BY <1>2
<1>4. (STEP * x) % SIZE = s % SIZE
  BY <1>1, <1>2, Zenon
<1> HIDE DEF x
<1>5. r \in 0 .. SIZE - 1
  BY <1>2, <1>3, ModRange
<1>6. (STEP * r) % SIZE = (STEP * x) % SIZE
  BY <1>2, <1>3, ModTimes
<1> HIDE DEF r
<1>7. s % SIZE = s
  BY <1>2
<1>8. k \in Nat /\ k * STEP = (SIZE * (m * STEP)) + (STEP * r)
      /\ m * STEP \in Nat /\ STEP * r \in Nat
  BY <1>2, <1>5
<1>9. ((SIZE * (m * STEP)) + (STEP * r)) % SIZE = (STEP * r) % SIZE
  BY <1>2, <1>8, ModRows
<1>10. Slot(k) = s
  BY <1>4, <1>6, <1>7, <1>8, <1>9 DEF Slot
<1>11. k \div SIZE = m
  BY <1>2, <1>5, CellNumber
<1> QED
  BY <1>8, <1>10, <1>11

\* A lap later an index is back at its slot.
LEMMA SlotNextLap ==
  ASSUME NEW k \in Nat
  PROVE  Slot(k + SIZE) = Slot(k) /\ (k + SIZE) \div SIZE = (k \div SIZE) + 1
<1>1. SIZE \in Nat \ {0} /\ STEP \in Nat
  BY OrbitAssumption
<1>2. (k + SIZE) * STEP = (SIZE * STEP) + (k * STEP) /\ k * STEP \in Nat
  BY <1>1
<1>3. ((SIZE * STEP) + (k * STEP)) % SIZE = (k * STEP) % SIZE
  BY <1>1, <1>2, ModRows
<1> DEFINE a == k \div SIZE
           c == k % SIZE
<1>4. a \in Nat /\ c \in 0 .. SIZE - 1 /\ k = (SIZE * a) + c
  BY <1>1
<1> HIDE DEF a, c
<1>5. k + SIZE = (SIZE * (a + 1)) + c
  BY <1>1, <1>4
<1>6. ((SIZE * (a + 1)) + c) \div SIZE = a + 1
  BY <1>1, <1>4, CellNumber
<1> QED
  BY <1>2, <1>3, <1>5, <1>6 DEF Slot, a

-----------------------------------------------------------------------------
(* The inductive invariant: facts about a state *)

\* The types of what the proofs speak of.
LEMMA Basics ==
  ASSUME TypeOK
  PROVE  /\ back \in Nat /\ front \in Nat
         /\ \A s \in Slots : /\ Age(s) \in Int /\ states[s][1] \in Nat
                             /\ states[s][2] \in Phase
                             /\ states[s] = <<states[s][1], states[s][2]>>
         /\ \A k \in Nat : Slot(k) \in Slots /\ k \div SIZE \in Nat
         /\ \A t \in Thread : /\ pos[t] \in Nat /\ End(t) \in Nat
                              /\ MySlot(t) \in Slots /\ Cycle(t) \in Nat
                              /\ pos[t] \div SIZE \in Nat
                              /\ Cycle(t) - 1 = pos[t] \div SIZE
<1>1. \A k \in Nat : Slot(k) \in Slots /\ k \div SIZE \in Nat
  BY SlotRange, LapNat
<1>2. \A s \in Slots : states[s] \in Nat \X Phase
  BY DEF TypeOK
<1>3. \A s \in Slots : /\ states[s][1] \in Nat /\ states[s][2] \in Phase
                       /\ states[s] = <<states[s][1], states[s][2]>>
  BY <1>2
<1>4. \A s \in Slots : Age(s) \in Int
  BY <1>3 DEF Age, Changes
<1>5. \A t \in Thread : pos[t] \in Nat /\ End(t) \in Nat
  BY DEF TypeOK, End
<1>6. \A t \in Thread : /\ MySlot(t) \in Slots /\ pos[t] \div SIZE \in Nat
                         /\ Cycle(t) = (pos[t] \div SIZE) + 1
  BY <1>1, <1>5 DEF MySlot, Cycle
<1>7. back \in Nat /\ front \in Nat
  BY DEF TypeOK
<1>8. \A t \in Thread : Cycle(t) \in Nat /\ Cycle(t) - 1 = pos[t] \div SIZE
  BY <1>6
<1> QED
  BY <1>1, <1>3, <1>4, <1>5, <1>6, <1>7, <1>8, Zenon

\* The age of a slot whose owner has not released it.
LEMMA OwnedAge ==
  ASSUME SlotOwned, NEW t \in Thread, Owns(t)
  PROVE  Age(MySlot(t)) = 4 * (pos[t] \div SIZE) + (IF Pushes(t) THEN 1 ELSE 3)
<1>1. states[MySlot(t)] = Desired(t)
  BY DEF SlotOwned
<1>2. Cycle(t) = (pos[t] \div SIZE) + 1 /\ pos[t] \div SIZE \in Nat
  BY Basics DEF SlotOwned, Cycle
<1> QED
  BY <1>1, <1>2 DEF Age, Changes, Desired

\* A slot ready to be claimed has no owner, and the claim is for the end of the queue.
LEMMA ReadySlot ==
  ASSUME IInv, NEW t \in Thread, states[MySlot(t)] = Expected(t)
  PROVE  /\ Age(MySlot(t)) = 4 * (pos[t] \div SIZE) + (IF Pushes(t) THEN 0 ELSE 2)
         /\ states[MySlot(t)][2] \in {"EMPTY", "FULL"}
         /\ \A u \in Thread : Owns(u) => MySlot(u) # MySlot(t)
         /\ End(t) = pos[t]
<1>1. /\ SlotOwned /\ TypeOK /\ EndsRight /\ pos[t] <= End(t)
      /\ pos[t] \in Nat /\ End(t) \in Nat /\ pos[t] \div SIZE \in Nat
      /\ Cycle(t) = (pos[t] \div SIZE) + 1
  BY Basics DEF IInv, SlotOwned, PositionsRight, Cycle
<1>2. states[MySlot(t)][2] \in {"EMPTY", "FULL"}
  BY DEF Expected
<1>3. Age(MySlot(t)) = 4 * (pos[t] \div SIZE) + (IF Pushes(t) THEN 0 ELSE 2)
  BY <1>1 DEF Age, Changes, Expected
<1>4. \A u \in Thread : Owns(u) => MySlot(u) # MySlot(t)
  <2>1. \A u \in Thread : Owns(u) => states[MySlot(u)][2] \in {"READING", "WRITING"}
    BY <1>1 DEF SlotOwned, Desired
  <2> QED
    BY <1>2, <2>1
<1>5. End(t) = pos[t]
  <2>1. CASE Pushes(t)
    <3>1. ~PushBegun(pos[t])
      BY <1>1, <1>3, <2>1 DEF PushBegun, Reached, MySlot
    <3> QED
      BY <1>1, <2>1, <3>1 DEF EndsRight, End
  <2>2. CASE ~Pushes(t)
    <3>1. ~PopBegun(pos[t])
      BY <1>1, <1>3, <2>2 DEF PopBegun, Reached, MySlot
    <3> QED
      BY <1>1, <2>2, <3>1 DEF EndsRight, End
  <2> QED
    BY <2>1, <2>2
<1> QED
  BY <1>2, <1>3, <1>4, <1>5

\* What the thread that moves an end knows: the operation has begun.
LEMMA OwnerBegun ==
  ASSUME SlotOwned, NEW t \in Thread, Owns(t)
  PROVE  IF Pushes(t) THEN PushBegun(pos[t]) ELSE PopBegun(pos[t])
<1>1. Age(MySlot(t)) = 4 * (pos[t] \div SIZE) + (IF Pushes(t) THEN 1 ELSE 3)
  BY OwnedAge
<1>2. pos[t] \div SIZE \in Nat
  BY Basics DEF SlotOwned
<1> QED
  BY <1>1, <1>2 DEF PushBegun, PopBegun, Reached, MySlot

\* The invariant holds in the initial states.
LEMMA InitInv == Init => IInv
<1> SUFFICES ASSUME Init PROVE IInv
  OBVIOUS
<1> USE DEF Init
<1>1. TypeOK
  <2>1. states \in [Slots -> Nat \X Phase]
    BY DEF Phase
  <2>2. stored \in [Ticket -> Seq(Ticket)] /\ taken \in [Ticket -> Seq(Ticket)]
    OBVIOUS
  <2> QED
    BY <2>1, <2>2 DEF TypeOK
<1>2. \A s \in Slots : states[s][2] = "EMPTY" /\ Age(s) = 0
  BY DEF Age, Changes
<1>3. \A k \in Nat : Slot(k) \in Slots /\ k \div SIZE \in Nat
  BY SlotRange, LapNat
<1>4. ASSUME NEW k \in Nat
      PROVE  ~PushBegun(k) /\ ~PushDone(k) /\ ~PopBegun(k) /\ ~PopDone(k)
  <2> DEFINE lap == k \div SIZE
  <2>1. Age(Slot(k)) = 0 /\ lap \in Nat
    BY <1>2, <1>3, Zenon
  <2> SUFFICES ~(0 > 4 * lap) /\ ~(0 > 4 * lap + 1) /\ ~(0 > 4 * lap + 2)
               /\ ~(0 > 4 * lap + 3)
    BY <2>1 DEF PushBegun, PushDone, PopBegun, PopDone, Reached
  <2> HIDE DEF lap
  <2> QED
    BY <2>1
<1>5. SlotOwned
  BY <1>1 DEF SlotOwned, Owns
<1>6. AgesRight
  BY <1>2 DEF AgesRight
<1>7. PositionsRight
  BY DEF PositionsRight, Owns, At, End
<1>8. EndsRight
  BY <1>4 DEF EndsRight, Moving, At
<1>9. Recorded
  BY <1>4 DEF Recorded, Wrote, Took, Releasing, At, Ticket
<1> QED
  BY <1>5, <1>6, <1>7, <1>8, <1>9 DEF IInv

-----------------------------------------------------------------------------
(* Steps of a thread that owns no slot *)

\* Such a step leaves the queue alone and lets the thread remember a new index.
Quiet(t) ==
  /\ UNCHANGED <<helping, back, front, states, elem, history>>
  /\ ~Owns(t) /\ ~Owns(t)'
  /\ \A u \in Thread \ {t} : pc'[u] = pc[u] /\ pos'[u] = pos[u] /\ op'[u] = op[u]
  /\ pos'[t] <= End(t)'
  /\ pc'[t] = "help" =>
       helping /\ IF Pushes(t)' THEN PushBegun(pos'[t]) ELSE PopBegun(pos'[t])

\* What depends on slots and owners is as before.
LEMMA QuietInv ==
  ASSUME IInv, NEW t \in Thread, TypeOK', Quiet(t)
  PROVE  IInv'
<1> USE DEF Quiet
<1>0. /\ states' = states /\ back' = back /\ front' = front /\ helping' = helping
      /\ elem' = elem /\ stored' = stored /\ taken' = taken
  BY DEF history
<1>1. ~Owns(t) /\ pc'[t] \notin {"move", "access", "release"}
  BY DEF Owns
<1>2. \A u \in Thread \ {t} : pc'[u] = pc[u] /\ pos'[u] = pos[u] /\ op'[u] = op[u]
  OBVIOUS
<1>3. SlotOwned'
  <2>1. ASSUME NEW u \in Thread, Owns(u)'
        PROVE  Owns(u) /\ MySlot(u)' = MySlot(u) /\ Desired(u)' = Desired(u)
    BY <1>1, <1>2, <2>1 DEF Owns, MySlot, Desired, Pushes, Cycle
  <2>2. ASSUME NEW u \in Thread, Owns(u)'
        PROVE  states'[MySlot(u)'] = Desired(u)'
    BY <1>0, <2>1, <2>2 DEF IInv, SlotOwned
  <2>3. ASSUME NEW u \in Thread, NEW w \in Thread, u # w, Owns(u)', Owns(w)'
        PROVE  MySlot(u)' # MySlot(w)'
    BY <2>1, <2>3 DEF IInv, SlotOwned
  <2> QED
    BY <2>2, <2>3 DEF SlotOwned
<1> USE DEF Owns, Pushes, MySlot, At, Age
<1>4. AgesRight'
  BY <1>0, <1>1, <1>2 DEF IInv, AgesRight
<1> USE DEF PushBegun, PopBegun, PushDone, PopDone, Reached
<1>5. PositionsRight'
  <2>1. ASSUME NEW u \in Thread \ {t}
        PROVE  /\ pos'[u] <= End(u)'
               /\ pc'[u] \in {"move", "access", "release"} => pos'[u] \in Ticket
               /\ pc'[u] = "help" =>
                    helping' /\ IF Back(op'[u]) THEN PushBegun(pos[u])' ELSE PopBegun(pos[u])'
               /\ pc'[u] = "move" /\ ~helping' => End(u)' = pos'[u]
    BY <1>0, <1>2 DEF IInv, PositionsRight, End
  <2>2. pc'[t] = "help" =>
          helping' /\ IF Back(op'[t]) THEN PushBegun(pos'[t]) ELSE PopBegun(pos'[t])
    BY <1>0
  <2> QED
    BY <1>0, <1>1, <1>2, <2>1, <2>2 DEF PositionsRight, End
<1>6. EndsRight'
  BY <1>0, <1>1, <1>2 DEF IInv, EndsRight, Moving
<1>7. Recorded'
  BY <1>0, <1>1, <1>2 DEF IInv, Recorded, Wrote, Took, Releasing, Ticket
<1> QED
  BY <1>3, <1>4, <1>5, <1>6, <1>7 DEF IInv

\* The call.
LEMMA CallInv ==
  ASSUME IInv, NEW t \in Thread, NEW o \in Op, Call(t, o)
  PROVE  IInv'
<1> USE DEF Call, At, Goto
<1>1. pc'[t] \in {"compare", "claim"} /\ pc[t] = "idle"
  BY DEF IInv, SlotOwned, TypeOK
<1>2. TypeOK'
  <2>1. pos' \in [Thread -> Nat] /\ op' \in [Thread -> Op \union {"none"}]
    BY DEF IInv, SlotOwned, TypeOK
  <2> QED
    BY <1>1, <2>1 DEF IInv, SlotOwned, TypeOK, history
<1>3. pos'[t] <= End(t)'
  BY DEF IInv, SlotOwned, TypeOK, End, Pushes
<1>4. Quiet(t)
  BY <1>1, <1>3 DEF Quiet, Owns, IInv, SlotOwned, TypeOK
<1> QED
  BY <1>2, <1>4, QuietInv

\* The load before another attempt.
LEMMA LoadEndInv ==
  ASSUME IInv, NEW t \in Thread, LoadEnd(t)
  PROVE  IInv'
<1> USE DEF LoadEnd, At, Goto
<1>1. pc'[t] = "claim" /\ pc[t] = "load"
  BY DEF IInv, SlotOwned, TypeOK
<1>2. TypeOK'
  <2>1. pos' \in [Thread -> Nat]
    BY DEF IInv, SlotOwned, TypeOK, End
  <2> QED
    BY <1>1, <2>1 DEF IInv, SlotOwned, TypeOK, history
<1>3. pos'[t] <= End(t)'
  BY DEF IInv, SlotOwned, TypeOK, End, Pushes
<1>4. Quiet(t)
  BY <1>1, <1>3 DEF Quiet, Owns, IInv, SlotOwned, TypeOK
<1> QED
  BY <1>2, <1>4, QuietInv

\* A thread that returns forgets its index.
LEMMA ReturnIsQuiet ==
  ASSUME IInv, NEW t \in Thread, ~Owns(t), Return(t),
         UNCHANGED <<helping, back, front, states, elem, history>>
  PROVE  IInv'
<1> USE DEF Return, Goto
<1>1. pc'[t] = "idle" /\ pos'[t] = 0
  BY DEF IInv, SlotOwned, TypeOK
<1>2. TypeOK'
  BY <1>1 DEF IInv, SlotOwned, TypeOK, history
<1>3. pos'[t] <= End(t)'
  BY <1>1 DEF IInv, SlotOwned, TypeOK, End
<1>4. Quiet(t)
  BY <1>1, <1>3 DEF Quiet, Owns, IInv, SlotOwned, TypeOK
<1> QED
  BY <1>2, <1>4, QuietInv

\* The comparison of was_empty and was_full.
LEMMA CompareInv ==
  ASSUME IInv, NEW t \in Thread, Compare(t)
  PROVE  IInv'
<1>1. ~Owns(t)
  BY DEF Compare, At, Owns
<1> QED
  BY <1>1, ReturnIsQuiet DEF Compare

\* A claim that fails: the thread helps only where the slot has been claimed.
LEMMA ClaimFailsInv ==
  ASSUME IInv, NEW t \in Thread, ClaimFails(t)
  PROVE  IInv'
<1> USE DEF ClaimFails
<1>1. pc[t] = "claim" /\ ~Owns(t)
  BY DEF At, Owns
<1>2. CASE MayFail(t) /\ LapBehind(t)
  BY <1>1, <1>2, ReturnIsQuiet
<1>3. CASE ~(MayFail(t) /\ LapBehind(t))
  <2>1. /\ Goto(t, IF helping /\ states[MySlot(t)] = Desired(t) THEN "help" ELSE "load")
        /\ op' = op /\ pos' = pos
    BY <1>3
  <2>2. pc'[t] \in {"help", "load"}
        /\ (pc'[t] = "help" => helping /\ states[MySlot(t)] = Desired(t))
    BY <2>1 DEF Goto, IInv, SlotOwned, TypeOK
  <2>3. TypeOK'
    BY <2>1, <2>2 DEF Goto, IInv, SlotOwned, TypeOK, history
  <2>4. states[MySlot(t)] = Desired(t) =>
          IF Pushes(t) THEN PushBegun(pos[t]) ELSE PopBegun(pos[t])
    <3>1. Cycle(t) = (pos[t] \div SIZE) + 1 /\ pos[t] \div SIZE \in Nat
      BY Basics DEF IInv, SlotOwned, Cycle
    <3>2. states[MySlot(t)] = Desired(t) =>
            Age(MySlot(t)) = 4 * (pos[t] \div SIZE) + (IF Pushes(t) THEN 1 ELSE 3)
      BY <3>1 DEF Age, Changes, Desired
    <3> QED
      BY <3>1, <3>2 DEF PushBegun, PopBegun, Reached, MySlot
  <2>5. pos'[t] <= End(t)'
    BY <2>1 DEF IInv, PositionsRight, End, Pushes
  <2>6. Quiet(t)
    BY <1>1, <2>1, <2>2, <2>4, <2>5 DEF Quiet, Owns, Goto, Pushes, IInv, SlotOwned, TypeOK
  <2> QED
    BY <2>3, <2>6, QuietInv
<1> QED
  BY <1>2, <1>3

-----------------------------------------------------------------------------
(* Changes of a slot *)

\* When a slot goes through the change after the c-th of the lap of index p, this is
\* the only change that any index sees happen.
LEMMA Advance ==
  ASSUME TypeOK, NEW t \in Thread, NEW c \in 0 .. 3,
         Age(MySlot(t)) = 4 * (pos[t] \div SIZE) + c,
         Changes(states'[MySlot(t)]) = Age(MySlot(t)) + 1,
         \A s \in Slots : s # MySlot(t) => states'[s] = states[s],
         NEW k \in Nat, NEW d \in 0 .. 3
  PROVE  Reached(k, d)' <=> Reached(k, d) \/ (k = pos[t] /\ d = c)
<1> DEFINE l == k \div SIZE
           m == pos[t] \div SIZE
<1>1. l \in Nat /\ m \in Nat /\ pos[t] \in Nat /\ Slot(k) \in Slots
  BY Basics
<1>2. CASE Slot(k) # MySlot(t)
  BY <1>1, <1>2 DEF Reached, Age, MySlot
<1>3. CASE Slot(k) = MySlot(t)
  <2>1. l = m => k = pos[t]
    BY <1>1, <1>3, SlotLap DEF MySlot
  <2>2. k = pos[t] => l = m
    OBVIOUS
  <2> HIDE DEF l, m
  <2>3. Reached(k, d) <=> 4 * m + c > 4 * l + d
    BY <1>3 DEF Reached, l, m
  <2>4. Reached(k, d)' <=> 4 * m + c + 1 > 4 * l + d
    BY <1>3 DEF Reached, l, m, Age
  <2>5. 4 * m + c + 1 > 4 * l + d <=> 4 * m + c > 4 * l + d \/ (m = l /\ c = d)
    BY <1>1
  <2> QED
    BY <2>1, <2>2, <2>3, <2>4, <2>5
<1> QED
  BY <1>2, <1>3

\* A claim: the thread becomes the only owner of the slot.
LEMMA ClaimInv ==
  ASSUME IInv, NEW t \in Thread, Claim(t)
  PROVE  IInv'
<1> DEFINE s == MySlot(t)
           c == IF Pushes(t) THEN 0 ELSE 2
<1> USE DEF Claim
<1>1. /\ SlotOwned /\ TypeOK /\ AgesRight /\ PositionsRight /\ EndsRight /\ Recorded
      /\ states[s] = Expected(t)
  BY DEF IInv, SlotOwned
<1>2. /\ helping' = helping /\ back' = back /\ front' = front /\ elem' = elem
      /\ op' = op /\ pos' = pos /\ stored' = stored /\ taken' = taken
      /\ pos[t] < MaxTickets /\ pc[t] = "claim"
  BY DEF history, At
<1>3. /\ pc' = [pc EXCEPT ![t] = "move"]
      /\ pc'[t] = "move" /\ \A u \in Thread \ {t} : pc'[u] = pc[u]
  BY <1>1 DEF Goto, TypeOK
<1>4. /\ Age(s) = 4 * (pos[t] \div SIZE) + c
      /\ states[s][2] \in {"EMPTY", "FULL"}
      /\ \A u \in Thread : Owns(u) => MySlot(u) # s
      /\ End(t) = pos[t]
  BY <1>1, ReadySlot
<1>5. /\ s \in Slots /\ pos[t] \in Nat /\ pos[t] \div SIZE \in Nat
      /\ Cycle(t) = (pos[t] \div SIZE) + 1
      /\ \A q \in Slots : Age(q) \in Int
  BY <1>1, Basics DEF Cycle
<1>6. /\ states'[s] = Desired(t)
      /\ \A q \in Slots : q # s => states'[q] = states[q]
  BY <1>1, <1>5 DEF TypeOK
<1>7. Changes(states'[s]) = Age(s) + 1
  BY <1>4, <1>5, <1>6 DEF Desired, Changes
<1>8. Age(s) >= 0
  BY <1>1, <1>5 DEF AgesRight
<1>9. ASSUME NEW k \in Nat, NEW d \in 0 .. 3
      PROVE  Reached(k, d)' <=> Reached(k, d) \/ (k = pos[t] /\ d = c)
  BY <1>1, <1>4, <1>6, <1>7, Advance
<1> HIDE DEF s, Claim
<1>10. TypeOK'
  <2>1. Desired(t) \in Nat \X Phase
    BY <1>5 DEF Desired, Phase
  <2>2. states' = [states EXCEPT ![MySlot(t)] = Desired(t)]
    BY DEF Claim
  <2> QED
    BY <1>1, <1>2, <1>3, <2>1, <2>2 DEF TypeOK
<1>11. SlotOwned'
  <2>1. ASSUME NEW u \in Thread, Owns(u)'
        PROVE  states'[MySlot(u)'] = Desired(u)'
    <3>1. MySlot(u)' = MySlot(u) /\ Desired(u)' = Desired(u)
      BY <1>2 DEF MySlot, Desired, Pushes, Cycle
    <3>2. CASE u = t
      BY <1>6, <3>1, <3>2 DEF s
    <3>3. CASE u # t
      <4>1. Owns(u)
        BY <1>3, <2>1, <3>3 DEF Owns
      <4> QED
        BY <1>1, <1>4, <1>6, <3>1, <4>1, Basics DEF SlotOwned
    <3> QED
      BY <3>2, <3>3
  <2>2. ASSUME NEW u \in Thread, NEW w \in Thread, u # w, Owns(u)', Owns(w)'
        PROVE  MySlot(u)' # MySlot(w)'
    <3>1. MySlot(u)' = MySlot(u) /\ MySlot(w)' = MySlot(w)
      BY <1>2 DEF MySlot
    <3>2. (u # t => Owns(u)) /\ (w # t => Owns(w))
      BY <1>3, <2>2 DEF Owns
    <3> QED
      BY <1>1, <1>4, <2>2, <3>1, <3>2 DEF SlotOwned, s
  <2> QED
    BY <1>10, <2>1, <2>2 DEF SlotOwned
<1>12. AgesRight'
  <2>1. ASSUME NEW q \in Slots
        PROVE  Changes(states'[q]) >= 0
    BY <1>1, <1>5, <1>6, <1>7, <1>8 DEF AgesRight, Age
  <2>2. ASSUME NEW q \in Slots, states'[q][2] = "READING"
        PROVE  \E u \in Thread : pc'[u] \in {"move", "access", "release"}
                                 /\ ~Back(op'[u]) /\ Slot(pos'[u]) = q
    <3>1. CASE q = s
      <4>1. ~Pushes(t)
        BY <1>6, <2>2, <3>1 DEF Desired
      <4> QED
        BY <1>2, <1>3, <3>1, <4>1 DEF s, MySlot, Pushes
    <3>2. CASE q # s
      <4>1. PICK u \in Thread : Owns(u) /\ ~Pushes(u) /\ MySlot(u) = q
        BY <1>1, <1>6, <2>2, <3>2 DEF AgesRight
      <4> QED
        BY <1>2, <1>3, <4>1 DEF Owns, Pushes, MySlot
    <3> QED
      BY <3>1, <3>2
  <2> QED
    BY <2>1, <2>2 DEF AgesRight, Age, Owns, Pushes, MySlot
<1>13. PositionsRight'
  <2>1. ASSUME NEW u \in Thread
        PROVE  /\ pos'[u] <= End(u)'
               /\ Owns(u)' => pos'[u] \in Ticket
               /\ pc'[u] = "move" /\ ~helping' => End(u)' = pos'[u]
    <3>1. End(u)' = End(u)
      BY <1>2 DEF End, Pushes
    <3>2. u # t => (Owns(u)' <=> Owns(u))
      BY <1>3 DEF Owns
    <3>3. pos[t] \in Ticket
      BY <1>2, <1>5, OrbitAssumption DEF Ticket
    <3> QED
      BY <1>1, <1>2, <1>3, <1>4, <3>1, <3>2, <3>3 DEF PositionsRight, At
  <2>2. ASSUME NEW u \in Thread, pc'[u] = "help", NEW k \in Nat, k = pos[u]
        PROVE  helping /\ IF Back(op[u]) THEN Reached(k, 0)' ELSE Reached(k, 2)'
    <3>1. helping /\ IF Back(op[u]) THEN Reached(k, 0) ELSE Reached(k, 2)
      BY <1>1, <1>2, <1>3, <2>2 DEF PositionsRight, At, Pushes, PushBegun, PopBegun
    <3>2. (Reached(k, 0) => Reached(k, 0)') /\ (Reached(k, 2) => Reached(k, 2)')
      BY <1>9
    <3> QED
      BY <3>1, <3>2
  <2>3. \A u \in Thread : pos[u] \in Nat
    BY <1>1 DEF TypeOK
  <2> QED
    BY <1>2, <2>1, <2>2, <2>3 DEF Pushes, PositionsRight, At, PushBegun, PopBegun, Reached, Age
<1>14. EndsRight'
  <2>1. ASSUME NEW k \in Nat
        PROVE  /\ Reached(k, 0)' <=>
                    k < back \/ (k = back /\ \E u \in Thread : /\ pc'[u] = "move"
                                                               /\ pos[u] = k /\ Back(op[u]))
               /\ Reached(k, 2)' <=>
                    k < front \/ (k = front /\ \E u \in Thread : /\ pc'[u] = "move"
                                                                 /\ pos[u] = k /\ ~Back(op[u]))
    <3>1. /\ Reached(k, 0)' <=> Reached(k, 0) \/ (k = pos[t] /\ c = 0)
          /\ Reached(k, 2)' <=> Reached(k, 2) \/ (k = pos[t] /\ c = 2)
      BY <1>9
    <3>2. /\ Reached(k, 0) <=>
               k < back \/ (k = back /\ \E u \in Thread : /\ pc[u] = "move"
                                                          /\ pos[u] = k /\ Back(op[u]))
          /\ Reached(k, 2) <=>
               k < front \/ (k = front /\ \E u \in Thread : /\ pc[u] = "move"
                                                            /\ pos[u] = k /\ ~Back(op[u]))
      BY <1>1 DEF EndsRight, PushBegun, PopBegun, Moving, At, Pushes
    <3>3. (c = 0 <=> Back(op[t])) /\ (c = 2 <=> ~Back(op[t]))
      BY DEF Pushes
    <3>4. (Back(op[t]) => pos[t] = back) /\ (~Back(op[t]) => pos[t] = front)
      BY <1>4 DEF End, Pushes
    <3>5. /\ (\E u \in Thread : pc'[u] = "move" /\ pos[u] = k /\ Back(op[u])) <=>
               \/ \E u \in Thread : pc[u] = "move" /\ pos[u] = k /\ Back(op[u])
               \/ pos[t] = k /\ Back(op[t])
          /\ (\E u \in Thread : pc'[u] = "move" /\ pos[u] = k /\ ~Back(op[u])) <=>
               \/ \E u \in Thread : pc[u] = "move" /\ pos[u] = k /\ ~Back(op[u])
               \/ pos[t] = k /\ ~Back(op[t])
      BY <1>2, <1>3
    <3> QED
      BY <3>1, <3>2, <3>3, <3>4, <3>5
  <2> QED
    BY <1>2, <2>1 DEF EndsRight, PushBegun, PopBegun, Moving, At, Pushes, Reached, Age
<1>15. Recorded'
  <2>1. ASSUME NEW k \in Nat
        PROVE  (Reached(k, 1)' <=> Reached(k, 1)) /\ (Reached(k, 3)' <=> Reached(k, 3))
    BY <1>9
  <2>2. \A u \in Thread : pc'[u] = "release" <=> pc[u] = "release"
    BY <1>2, <1>3
  <2>3. Ticket \subseteq Nat
    BY OrbitAssumption DEF Ticket
  <2> QED
    BY <1>1, <1>2, <2>1, <2>2, <2>3
    DEF Recorded, Wrote, Took, Releasing, At, Pushes, PushDone, PopDone, Reached, Age
<1> QED
  BY <1>11, <1>12, <1>13, <1>14, <1>15 DEF IInv

\* The release: the slot is free for the other end.
LEMMA ReleaseInv ==
  ASSUME IInv, NEW t \in Thread, Release(t)
  PROVE  IInv'
<1> DEFINE s == MySlot(t)
           c == IF Pushes(t) THEN 1 ELSE 3
<1> USE DEF Release
<1>1. /\ SlotOwned /\ TypeOK /\ AgesRight /\ PositionsRight /\ EndsRight /\ Recorded
      /\ pc[t] = "release" /\ Owns(t)
  BY DEF IInv, SlotOwned, At, Owns
<1>2. /\ helping' = helping /\ back' = back /\ front' = front /\ elem' = elem
      /\ stored' = stored /\ taken' = taken
  BY DEF history
<1>3. /\ pc'[t] = "idle" /\ pos'[t] = 0 /\ op'[t] = "none"
      /\ \A u \in Thread \ {t} : pc'[u] = pc[u] /\ pos'[u] = pos[u] /\ op'[u] = op[u]
  BY <1>1 DEF Return, Goto, TypeOK
<1>4. Age(s) = 4 * (pos[t] \div SIZE) + c /\ states[s] = Desired(t)
  BY <1>1, OwnedAge DEF SlotOwned
<1>5. /\ s \in Slots /\ pos[t] \in Nat /\ pos[t] \div SIZE \in Nat
      /\ Cycle(t) = (pos[t] \div SIZE) + 1
      /\ \A q \in Slots : Age(q) \in Int
  BY <1>1, Basics DEF Cycle
<1>6. /\ states'[s] = Released(t)
      /\ \A q \in Slots : q # s => states'[q] = states[q]
  BY <1>1, <1>5 DEF TypeOK
<1>7. Changes(states'[s]) = Age(s) + 1
  BY <1>4, <1>5, <1>6 DEF Released, Changes
<1>8. Age(s) >= 0
  BY <1>1, <1>5 DEF AgesRight
<1>9. ASSUME NEW k \in Nat, NEW d \in 0 .. 3
      PROVE  Reached(k, d)' <=> Reached(k, d) \/ (k = pos[t] /\ d = c)
  BY <1>1, <1>4, <1>6, <1>7, Advance
<1>10. TypeOK'
  <2>1. Released(t) \in Nat \X Phase
    BY <1>5 DEF Released, Phase
  <2>2. states' \in [Slots -> Nat \X Phase]
    BY <1>1, <2>1 DEF TypeOK
  <2>3. /\ pc' = [pc EXCEPT ![t] = "idle"] /\ pos' = [pos EXCEPT ![t] = 0]
        /\ op' = [op EXCEPT ![t] = "none"]
    BY DEF Return, Goto
  <2> HIDE DEF Release
  <2> QED
    BY <1>1, <1>2, <2>2, <2>3 DEF TypeOK
<1> HIDE DEF s, Release
<1>11. SlotOwned'
  <2>1. ASSUME NEW u \in Thread, Owns(u)'
        PROVE  u # t /\ Owns(u) /\ MySlot(u)' = MySlot(u) /\ Desired(u)' = Desired(u)
    BY <1>3, <2>1 DEF MySlot, Desired, Pushes, Cycle, Owns
  <2>2. ASSUME NEW u \in Thread, Owns(u)'
        PROVE  states'[MySlot(u)'] = Desired(u)'
    <3>1. MySlot(u) # s /\ MySlot(u) \in Slots /\ states[MySlot(u)] = Desired(u)
      BY <1>1, <2>1, <2>2, Basics DEF SlotOwned, s
    <3> QED
      BY <1>6, <2>1, <2>2, <3>1
  <2>3. ASSUME NEW u \in Thread, NEW w \in Thread, u # w, Owns(u)', Owns(w)'
        PROVE  MySlot(u)' # MySlot(w)'
    BY <1>1, <2>1, <2>3 DEF SlotOwned
  <2> QED
    BY <1>10, <2>2, <2>3 DEF SlotOwned
<1>12. AgesRight'
  <2>1. ASSUME NEW q \in Slots
        PROVE  Changes(states'[q]) >= 0
    BY <1>1, <1>5, <1>6, <1>7, <1>8 DEF AgesRight, Age
  <2>2. ASSUME NEW q \in Slots, states'[q][2] = "READING"
        PROVE  \E u \in Thread : pc'[u] \in {"move", "access", "release"}
                                 /\ ~Back(op'[u]) /\ Slot(pos'[u]) = q
    <3>1. q # s
      BY <1>6, <2>2 DEF Released
    <3>2. PICK u \in Thread : Owns(u) /\ ~Pushes(u) /\ MySlot(u) = q
      BY <1>1, <1>6, <2>2, <3>1 DEF AgesRight
    <3> QED
      BY <1>3, <3>1, <3>2 DEF Owns, Pushes, MySlot, s
  <2> QED
    BY <2>1, <2>2 DEF AgesRight, Age, Owns, Pushes, MySlot
<1>13. PositionsRight'
  <2>1. ASSUME NEW u \in Thread
        PROVE  /\ pos'[u] <= End(u)'
               /\ Owns(u)' => pos'[u] \in Ticket
               /\ pc'[u] = "move" /\ ~helping' => End(u)' = pos'[u]
    <3>1. CASE u = t
      BY <1>1, <1>2, <1>3, <3>1 DEF End, Owns, TypeOK
    <3>2. CASE u # t
      <4>1. /\ End(u)' = End(u) /\ (Owns(u)' <=> Owns(u))
            /\ pc'[u] = pc[u] /\ pos'[u] = pos[u]
        BY <1>2, <1>3, <3>2 DEF End, Pushes, Owns
      <4> QED
        BY <1>1, <1>2, <4>1 DEF PositionsRight, At
    <3> QED
      BY <3>1, <3>2
  <2>2. ASSUME NEW u \in Thread, pc'[u] = "help", NEW k \in Nat, k = pos'[u]
        PROVE  helping /\ IF Back(op'[u]) THEN Reached(k, 0)' ELSE Reached(k, 2)'
    <3>1. u # t /\ pos'[u] = pos[u] /\ op'[u] = op[u]
      BY <1>3, <2>2
    <3>2. helping /\ IF Back(op[u]) THEN Reached(k, 0) ELSE Reached(k, 2)
      BY <1>1, <1>3, <2>2, <3>1 DEF PositionsRight, At, Pushes, PushBegun, PopBegun
    <3>3. (Reached(k, 0) => Reached(k, 0)') /\ (Reached(k, 2) => Reached(k, 2)')
      BY <1>9
    <3> QED
      BY <3>1, <3>2, <3>3
  <2>3. \A u \in Thread : pos'[u] \in Nat
    BY <1>10 DEF TypeOK
  <2> QED
    BY <1>2, <2>1, <2>2, <2>3 DEF Pushes, PositionsRight, At, PushBegun, PopBegun, Reached, Age
<1>14. EndsRight'
  <2>1. ASSUME NEW k \in Nat
        PROVE  (Reached(k, 0)' <=> Reached(k, 0)) /\ (Reached(k, 2)' <=> Reached(k, 2))
    BY <1>9
  <2>2. \A u \in Thread : /\ pc'[u] = "move" <=> pc[u] = "move"
                          /\ pc[u] = "move" => pos'[u] = pos[u] /\ op'[u] = op[u]
    BY <1>1, <1>3
  <2> QED
    BY <1>1, <1>2, <2>1, <2>2
    DEF EndsRight, PushBegun, PopBegun, Moving, At, Pushes, Reached, Age
<1>15. Recorded'
  <2>1. ASSUME NEW k \in Ticket
        PROVE  /\ stored[k] # <<>> <=>
                    Reached(k, 1)' \/ \E u \in Thread : /\ pc'[u] = "release"
                                                        /\ pos'[u] = k /\ Back(op'[u])
               /\ taken[k] # <<>> <=>
                    Reached(k, 3)' \/ \E u \in Thread : /\ pc'[u] = "release"
                                                        /\ pos'[u] = k /\ ~Back(op'[u])
               /\ stored[k] # <<>> /\ ~Reached(k, 3)' =>
                    stored[k] = <<k>> /\ elem[Slot(k)] = k
    <3>1. /\ Reached(k, 1)' <=> Reached(k, 1) \/ (k = pos[t] /\ c = 1)
          /\ Reached(k, 3)' <=> Reached(k, 3) \/ (k = pos[t] /\ c = 3)
      BY <1>9, OrbitAssumption DEF Ticket
    <3>2. /\ stored[k] # <<>> <=>
               Reached(k, 1) \/ \E u \in Thread : /\ pc[u] = "release"
                                                  /\ pos[u] = k /\ Back(op[u])
          /\ taken[k] # <<>> <=>
               Reached(k, 3) \/ \E u \in Thread : /\ pc[u] = "release"
                                                  /\ pos[u] = k /\ ~Back(op[u])
          /\ stored[k] # <<>> /\ ~Reached(k, 3) =>
               stored[k] = <<k>> /\ elem[Slot(k)] = k
      BY <1>1 DEF Recorded, Wrote, Took, PushDone, PopDone, Releasing, At, Pushes
    <3>3. (c = 1 <=> Back(op[t])) /\ (c = 3 <=> ~Back(op[t]))
      BY DEF Pushes
    <3>4. /\ (\E u \in Thread : pc[u] = "release" /\ pos[u] = k /\ Back(op[u])) <=>
               \/ \E u \in Thread : pc'[u] = "release" /\ pos'[u] = k /\ Back(op'[u])
               \/ pos[t] = k /\ Back(op[t])
          /\ (\E u \in Thread : pc[u] = "release" /\ pos[u] = k /\ ~Back(op[u])) <=>
               \/ \E u \in Thread : pc'[u] = "release" /\ pos'[u] = k /\ ~Back(op'[u])
               \/ pos[t] = k /\ ~Back(op[t])
      BY <1>1, <1>3
    <3> QED
      BY <3>1, <3>2, <3>3, <3>4
  <2> QED
    BY <1>2, <2>1
    DEF Recorded, Wrote, Took, Releasing, At, Pushes, PushDone, PopDone, Reached, Age
<1> QED
  BY <1>11, <1>12, <1>13, <1>14, <1>15 DEF IInv

-----------------------------------------------------------------------------
(* Moves of an end, and the access to the element *)

\* An end moves on, or has been moved already, by a thread that knows the
\* operation to have begun.
LEMMA EndStepInv ==
  ASSUME IInv, NEW t \in Thread,
         \/ pc[t] = "help" /\ pc' = [pc EXCEPT ![t] = "load"]
         \/ pc[t] = "move" /\ pc' = [pc EXCEPT ![t] = "access"],
         CasEnd(t),
         UNCHANGED <<helping, states, elem, op, pos, history>>
  PROVE  IInv'
<1>1. /\ SlotOwned /\ TypeOK /\ AgesRight /\ PositionsRight /\ EndsRight /\ Recorded
      /\ back \in Nat /\ front \in Nat /\ \A u \in Thread : pos[u] \in Nat
  BY Basics DEF IInv, SlotOwned
<1>2. /\ helping' = helping /\ states' = states /\ elem' = elem
      /\ op' = op /\ pos' = pos /\ stored' = stored /\ taken' = taken
  BY DEF history
<1>3. /\ (pc[t] = "help" /\ pc'[t] = "load") \/ (pc[t] = "move" /\ pc'[t] = "access")
      /\ \A u \in Thread \ {t} : pc'[u] = pc[u]
  BY <1>1 DEF TypeOK
<1>4. /\ back' = IF Pushes(t) /\ back = pos[t] THEN back + 1 ELSE back
      /\ front' = IF ~Pushes(t) /\ front = pos[t] THEN front + 1 ELSE front
  BY DEF CasEnd, SetEnd, End
<1>5. IF Pushes(t) THEN Reached(pos[t], 0) ELSE Reached(pos[t], 2)
  <2>1. CASE pc[t] = "move"
    BY <1>1, <2>1, OwnerBegun DEF Owns, PushBegun, PopBegun
  <2>2. CASE pc[t] = "help"
    BY <1>1, <2>2 DEF PositionsRight, At, PushBegun, PopBegun
  <2> QED
    BY <1>3, <2>1, <2>2
<1>6. TypeOK'
  <2>1. back' \in Nat /\ front' \in Nat
    BY <1>1, <1>4
  <2>2. pc' \in [Thread -> {"idle", "load", "claim", "help", "move", "access",
                           "release", "compare"}]
    BY <1>1 DEF TypeOK
  <2> QED
    BY <1>1, <1>2, <2>1, <2>2 DEF TypeOK
<1>7. \A u \in Thread : Owns(u)' <=> Owns(u)
  BY <1>3 DEF Owns
<1>8. SlotOwned'
  <2>1. ASSUME NEW u \in Thread, Owns(u)'
        PROVE  Owns(u) /\ MySlot(u)' = MySlot(u) /\ Desired(u)' = Desired(u)
    BY <1>2, <1>7, <2>1 DEF MySlot, Desired, Pushes, Cycle
  <2> QED
    BY <1>1, <1>2, <1>6, <2>1 DEF SlotOwned
<1>9. AgesRight'
  <2>1. \A u \in Thread : pc'[u] \in {"move", "access", "release"}
                          <=> pc[u] \in {"move", "access", "release"}
    BY <1>3
  <2> QED
    BY <1>1, <1>2, <2>1 DEF AgesRight, Age, Owns, Pushes, MySlot
<1>10. PositionsRight'
  <2>1. ASSUME NEW u \in Thread
        PROVE  /\ pos[u] <= End(u)'
               /\ pc'[u] \in {"move", "access", "release"} => pos[u] \in Ticket
               /\ pc'[u] = "help" =>
                    helping /\ IF Back(op[u]) THEN Reached(pos[u], 0)
                                              ELSE Reached(pos[u], 2)
    BY <1>1, <1>2, <1>3, <1>4
    DEF PositionsRight, At, Owns, End, Pushes, PushBegun, PopBegun
  <2>2. ASSUME NEW u \in Thread, pc'[u] = "move", ~helping
        PROVE  End(u)' = pos[u]
    <3>1. u # t /\ pc[u] = "move" /\ End(u) = pos[u]
      BY <1>1, <1>3, <2>2 DEF PositionsRight, At
    <3>2. pc[t] = "move"
      BY <1>1, <1>3, <2>2 DEF PositionsRight, At
    <3>3. End(t) = pos[t] /\ MySlot(u) # MySlot(t)
      BY <1>1, <2>2, <3>1, <3>2 DEF PositionsRight, At, SlotOwned, Owns
    <3>4. ~(Pushes(u) <=> Pushes(t))
      BY <3>1, <3>3 DEF End, MySlot
    <3> QED
      BY <1>2, <1>4, <3>1, <3>4 DEF End, Pushes
  <2> QED
    BY <1>2, <2>1, <2>2 DEF PositionsRight, At, Owns, Pushes, PushBegun, PopBegun, Reached, Age
<1>11. EndsRight'
  <2>1. ASSUME NEW k \in Nat
        PROVE  Reached(k, 0) <=>
                 k < back' \/ (k = back' /\ \E u \in Thread : /\ pc'[u] = "move"
                                                              /\ pos[u] = k /\ Back(op[u]))
    <3>1. Reached(k, 0) <=>
            k < back \/ (k = back /\ \E u \in Thread : /\ pc[u] = "move"
                                                       /\ pos[u] = k /\ Back(op[u]))
      BY <1>1 DEF EndsRight, PushBegun, Moving, At, Pushes
    <3>2. CASE Pushes(t) /\ back = pos[t]
      <4>1. \A u \in Thread : Back(op[u]) => pos[u] <= back
        BY <1>1 DEF PositionsRight, End, Pushes
      <4>2. back' = back + 1 /\ Reached(back, 0)
        BY <1>4, <1>5, <3>2
      <4> QED
        BY <1>1, <3>1, <4>1, <4>2
    <3>3. CASE ~(Pushes(t) /\ back = pos[t])
      BY <1>3, <1>4, <3>1, <3>3 DEF Pushes
    <3> QED
      BY <3>2, <3>3
  <2>2. ASSUME NEW k \in Nat
        PROVE  Reached(k, 2) <=>
                 k < front' \/ (k = front' /\ \E u \in Thread : /\ pc'[u] = "move"
                                                                /\ pos[u] = k /\ ~Back(op[u]))
    <3>1. Reached(k, 2) <=>
            k < front \/ (k = front /\ \E u \in Thread : /\ pc[u] = "move"
                                                         /\ pos[u] = k /\ ~Back(op[u]))
      BY <1>1 DEF EndsRight, PopBegun, Moving, At, Pushes
    <3>2. CASE ~Pushes(t) /\ front = pos[t]
      <4>1. \A u \in Thread : ~Back(op[u]) => pos[u] <= front
        BY <1>1 DEF PositionsRight, End, Pushes
      <4>2. front' = front + 1 /\ Reached(front, 2)
        BY <1>4, <1>5, <3>2
      <4> QED
        BY <1>1, <3>1, <4>1, <4>2
    <3>3. CASE ~(~Pushes(t) /\ front = pos[t])
      BY <1>3, <1>4, <3>1, <3>3 DEF Pushes
    <3> QED
      BY <3>2, <3>3
  <2> QED
    BY <1>2, <2>1, <2>2 DEF EndsRight, PushBegun, PopBegun, Moving, At, Pushes, Reached, Age
<1>12. Recorded'
  <2>1. \A u \in Thread : pc'[u] = "release" <=> pc[u] = "release"
    BY <1>3
  <2> QED
    BY <1>1, <1>2, <2>1
    DEF Recorded, Wrote, Took, Releasing, At, Pushes, PushDone, PopDone, Reached, Age, Ticket
<1> QED
  BY <1>8, <1>9, <1>10, <1>11, <1>12 DEF IInv

\* A thread that helps.
LEMMA HelpInv ==
  ASSUME IInv, NEW t \in Thread, Help(t)
  PROVE  IInv'
BY EndStepInv DEF Help, Goto, At

\* The thread that claimed the slot: without helping, its end is where it left it.
LEMMA MoveEndInv ==
  ASSUME IInv, NEW t \in Thread, MoveEnd(t)
  PROVE  IInv'
<1>1. CasEnd(t)
  <2>1. ~helping => End(t) = pos[t]
    BY DEF IInv, PositionsRight, MoveEnd, At
  <2> QED
    BY <2>1 DEF MoveEnd, CasEnd
<1> QED
  BY <1>1, EndStepInv DEF MoveEnd, Goto, At

\* What the owner of a slot finds there.
LEMMA AtAccess ==
  ASSUME IInv, NEW t \in Thread, pc[t] = "access"
  PROVE  /\ pos[t] \in Ticket /\ MySlot(t) \in Slots
         /\ Reached(pos[t], 0) /\ ~Reached(pos[t], 3)
         /\ Pushes(t) => ~Reached(pos[t], 1) /\ ~Wrote(pos[t])
         /\ ~Pushes(t) => Reached(pos[t], 1)
         /\ ~Took(pos[t])
         /\ \A k \in Nat : Slot(k) = MySlot(t) /\ Reached(k, 1) /\ ~Reached(k, 3)
              => ~Pushes(t) /\ k = pos[t]
         /\ \A u \in Thread : u # t /\ Owns(u) => MySlot(u) # MySlot(t)
<1> DEFINE m == pos[t] \div SIZE
           c == IF Pushes(t) THEN 1 ELSE 3
<1>1. SlotOwned /\ TypeOK /\ Owns(t)
  BY DEF IInv, SlotOwned, Owns
<1>2. /\ pos[t] \in Nat /\ m \in Nat /\ MySlot(t) \in Slots /\ pos[t] \in Ticket
      /\ Age(MySlot(t)) = 4 * m + c
  BY <1>1, Basics, OwnedAge DEF IInv, PositionsRight
<1>3. \A u \in Thread : u # t /\ Owns(u) => MySlot(u) # MySlot(t)
  BY <1>1 DEF SlotOwned
<1>4. \A u \in Thread : ~Releasing(u, pos[t])
  <2>1. \A u \in Thread : Releasing(u, pos[t]) => u # t /\ Owns(u) /\ MySlot(u) = MySlot(t)
    BY DEF Releasing, At, Owns, MySlot
  <2> QED
    BY <1>3, <2>1
<1>5. ASSUME NEW d \in 0 .. 3
      PROVE  Reached(pos[t], d) <=> c > d
  <2>1. Reached(pos[t], d) <=> 4 * m + c > 4 * m + d
    BY <1>2 DEF Reached, MySlot
  <2> HIDE DEF m
  <2>2. 4 * m + c > 4 * m + d <=> c > d
    BY <1>2
  <2> QED
    BY <2>1, <2>2
<1>6. ASSUME NEW k \in Nat, Slot(k) = MySlot(t), Reached(k, 1), ~Reached(k, 3)
      PROVE  ~Pushes(t) /\ k = pos[t]
  <2> DEFINE l == k \div SIZE
  <2>1. l \in Nat /\ (l = m => k = pos[t])
    BY <1>2, <1>6, LapNat, SlotLap DEF MySlot
  <2>2. 4 * m + c > 4 * l + 1 /\ ~(4 * m + c > 4 * l + 3)
    BY <1>2, <1>6 DEF Reached
  <2> HIDE DEF l, m
  <2>3. l = m /\ c = 3
    BY <1>2, <2>1, <2>2
  <2> QED
    BY <2>1, <2>3
<1>7. /\ Reached(pos[t], 0) /\ ~Reached(pos[t], 3)
      /\ Pushes(t) => ~Reached(pos[t], 1)
      /\ ~Pushes(t) => Reached(pos[t], 1)
  BY <1>5
<1> HIDE DEF m, c
<1>8. ~Took(pos[t]) /\ (Pushes(t) => ~Wrote(pos[t]))
  BY <1>4, <1>7 DEF Took, Wrote, PushDone, PopDone
<1> QED
  BY <1>2, <1>3, <1>6, <1>7, <1>8

\* A tuple of one element is not empty.
LEMMA NotEmpty == ASSUME NEW x PROVE <<x>> # <<>> /\ Append(<<>>, x) = <<x>>
OBVIOUS

\* A store is the push of its own ticket, which stores once and for the first
\* time, after the item a lap earlier was taken.
LEMMA WriteIsPut ==
  ASSUME IInv, NEW t \in Thread, Write(t)
  PROVE  /\ pos[t] \in Ticket /\ stored[pos[t]] = <<>>
         /\ pos[t] >= SIZE => taken[pos[t] - SIZE] # <<>>
         /\ stored' = [stored EXCEPT ![pos[t]] = <<pos[t]>>]
         /\ taken' = taken
<1>1. /\ pc[t] = "access" /\ Pushes(t) /\ taken' = taken
      /\ stored' = [stored EXCEPT ![pos[t]] = Append(@, pos[t])]
  BY DEF Write, At
<1>2. /\ pos[t] \in Ticket /\ Reached(pos[t], 0) /\ ~Wrote(pos[t])
  BY <1>1, AtAccess
<1>3. stored[pos[t]] = <<>>
  BY <1>2 DEF IInv, Recorded
<1>4. stored' = [stored EXCEPT ![pos[t]] = <<pos[t]>>]
  BY <1>1, <1>3, NotEmpty
<1>5. ASSUME pos[t] >= SIZE
      PROVE  taken[pos[t] - SIZE] # <<>>
  <2> DEFINE k == pos[t] - SIZE
             l == k \div SIZE
  <2>1. k \in Nat /\ k \in Ticket /\ pos[t] = k + SIZE
    BY <1>2, <1>5, OrbitAssumption DEF Ticket
  <2> HIDE DEF k
  <2>2. Slot(pos[t]) = Slot(k) /\ pos[t] \div SIZE = l + 1
    BY <2>1, SlotNextLap
  <2>3. l \in Nat /\ Slot(k) \in Slots /\ Age(Slot(k)) \in Int
    BY <2>1, LapNat, Basics DEF IInv, SlotOwned
  <2>4. Age(Slot(k)) > 4 * (l + 1) + 0
    BY <1>2, <2>2 DEF Reached
  <2> HIDE DEF l
  <2>5. Age(Slot(k)) > 4 * l + 3
    BY <2>3, <2>4
  <2>6. PopDone(k)
    BY <2>5 DEF PopDone, Reached, l
  <2> QED
    BY <2>1, <2>6 DEF IInv, Recorded, Took, k
<1> QED
  BY <1>1, <1>2, <1>3, <1>4, <1>5

\* A copy is the pop of its own ticket, which takes once what the push with this
\* number stored.
LEMMA ReadIsTake ==
  ASSUME IInv, NEW t \in Thread, Read(t)
  PROVE  /\ pos[t] \in Ticket /\ stored[pos[t]] = <<pos[t]>> /\ taken[pos[t]] = <<>>
         /\ taken' = [taken EXCEPT ![pos[t]] = stored[pos[t]]]
         /\ stored' = stored
<1>1. /\ pc[t] = "access" /\ ~Pushes(t) /\ stored' = stored
      /\ taken' = [taken EXCEPT ![pos[t]] = Append(@, elem[MySlot(t)])]
  BY DEF Read, At
<1>2. /\ pos[t] \in Ticket /\ ~Took(pos[t]) /\ Wrote(pos[t]) /\ ~PopDone(pos[t])
  BY <1>1, AtAccess DEF Wrote, PushDone, PopDone
<1>3. stored[pos[t]] = <<pos[t]>> /\ elem[MySlot(t)] = pos[t] /\ taken[pos[t]] = <<>>
  BY <1>2 DEF IInv, Recorded, MySlot
<1>4. taken' = [taken EXCEPT ![pos[t]] = <<pos[t]>>]
  BY <1>1, <1>3, NotEmpty
<1> QED
  BY <1>1, <1>2, <1>3, <1>4

\* An access leaves slots, owners and ends as they are.
LEMMA AccessFrame ==
  ASSUME IInv, NEW t \in Thread, TypeOK', pc[t] = "access",
         pc' = [pc EXCEPT ![t] = "release"],
         UNCHANGED <<helping, back, front, states, op, pos>>
  PROVE  SlotOwned' /\ AgesRight' /\ PositionsRight' /\ EndsRight'
<1>1. \A u \in Thread : /\ pc'[u] \in {"move", "access", "release"}
                           <=> pc[u] \in {"move", "access", "release"}
                        /\ pc'[u] = "move" <=> pc[u] = "move"
                        /\ pc'[u] = "help" <=> pc[u] = "help"
  BY DEF IInv, SlotOwned, TypeOK
<1>2. SlotOwned'
  BY <1>1 DEF IInv, SlotOwned, Owns, MySlot, Desired, Pushes, Cycle
<1>3. AgesRight'
  BY <1>1 DEF IInv, AgesRight, Age, Owns, Pushes, MySlot
<1>4. PositionsRight'
  BY <1>1
  DEF IInv, PositionsRight, At, Owns, Pushes, End, PushBegun, PopBegun, Reached, Age, Ticket
<1>5. EndsRight'
  BY <1>1 DEF IInv, EndsRight, PushBegun, PopBegun, Moving, At, Pushes, Reached, Age
<1> QED
  BY <1>2, <1>3, <1>4, <1>5

\* The store to the element.
LEMMA WriteInv ==
  ASSUME IInv, NEW t \in Thread, Write(t)
  PROVE  IInv'
<1>1. /\ pc[t] = "access" /\ Pushes(t) /\ pc' = [pc EXCEPT ![t] = "release"]
      /\ elem' = [elem EXCEPT ![MySlot(t)] = pos[t]]
      /\ UNCHANGED <<helping, back, front, states, op, pos, taken>>
  BY DEF Write, At, Goto
<1>2. TypeOK /\ Recorded
  BY DEF IInv, SlotOwned
<1>3. /\ pos[t] \in Ticket /\ MySlot(t) \in Slots /\ ~Reached(pos[t], 3)
      /\ \A k \in Nat : Slot(k) = MySlot(t) /\ Reached(k, 1) /\ ~Reached(k, 3) => ~Pushes(t)
      /\ \A u \in Thread : u # t /\ Owns(u) => MySlot(u) # MySlot(t)
  BY <1>1, AtAccess
<1>4. stored' = [stored EXCEPT ![pos[t]] = <<pos[t]>>]
  BY WriteIsPut
<1>5. Ticket \subseteq Nat
  BY OrbitAssumption DEF Ticket
<1>6. pc'[t] = "release" /\ \A u \in Thread \ {t} : pc'[u] = pc[u]
  BY <1>1, <1>2 DEF TypeOK
<1>7. TypeOK'
  <2>1. stored' \in [Ticket -> Seq(Ticket)]
    <3>1. <<pos[t]>> \in Seq(Ticket)
      BY <1>3
    <3> QED
      BY <1>2, <1>4, <3>1 DEF TypeOK
  <2>2. elem' \in [Slots -> Nat]
    BY <1>1, <1>2, <1>3, <1>5 DEF TypeOK
  <2>3. pc' \in [Thread -> {"idle", "load", "claim", "help", "move", "access",
                           "release", "compare"}]
    BY <1>1, <1>2 DEF TypeOK
  <2> QED
    BY <1>1, <1>2, <2>1, <2>2, <2>3 DEF TypeOK
<1>8. Recorded'
  <2>1. ASSUME NEW k \in Ticket
        PROVE  /\ stored'[k] # <<>> <=>
                    Reached(k, 1) \/ \E u \in Thread : /\ pc'[u] = "release"
                                                       /\ pos[u] = k /\ Back(op[u])
               /\ taken[k] # <<>> <=>
                    Reached(k, 3) \/ \E u \in Thread : /\ pc'[u] = "release"
                                                       /\ pos[u] = k /\ ~Back(op[u])
               /\ stored'[k] # <<>> /\ ~Reached(k, 3) =>
                    stored'[k] = <<k>> /\ elem'[Slot(k)] = k
    <3>1. /\ stored[k] # <<>> <=>
               Reached(k, 1) \/ \E u \in Thread : /\ pc[u] = "release"
                                                  /\ pos[u] = k /\ Back(op[u])
          /\ taken[k] # <<>> <=>
               Reached(k, 3) \/ \E u \in Thread : /\ pc[u] = "release"
                                                  /\ pos[u] = k /\ ~Back(op[u])
          /\ stored[k] # <<>> /\ ~Reached(k, 3) =>
               stored[k] = <<k>> /\ elem[Slot(k)] = k
      BY <1>2 DEF Recorded, Wrote, Took, PushDone, PopDone, Releasing, At, Pushes
    <3>2. taken[k] # <<>> <=>
            Reached(k, 3) \/ \E u \in Thread : /\ pc'[u] = "release"
                                               /\ pos[u] = k /\ ~Back(op[u])
      BY <1>1, <1>6, <3>1 DEF Pushes
    <3>3. CASE k = pos[t]
      <4>1. stored'[k] = <<k>> /\ elem'[Slot(k)] = k
        BY <1>1, <1>2, <1>3, <1>4, <3>3 DEF TypeOK, MySlot
      <4> QED
        BY <1>1, <1>6, <3>2, <3>3, <4>1, NotEmpty DEF Pushes
    <3>4. CASE k # pos[t]
      <4>1. stored'[k] = stored[k]
        BY <1>2, <1>4, <3>4 DEF TypeOK
      <4>2. (\E u \in Thread : pc'[u] = "release" /\ pos[u] = k /\ Back(op[u])) <=>
              \E u \in Thread : pc[u] = "release" /\ pos[u] = k /\ Back(op[u])
        BY <1>1, <1>6, <3>4
      <4>3. stored[k] # <<>> /\ ~Reached(k, 3) => Slot(k) # MySlot(t)
        <5>1. Reached(k, 1) /\ ~Reached(k, 3) => Slot(k) # MySlot(t)
          BY <1>1, <1>3, <1>5
        <5>2. \A u \in Thread : pc[u] = "release" /\ pos[u] = k => Slot(k) # MySlot(t)
          BY <1>1, <1>3 DEF Owns, MySlot
        <5> QED
          BY <3>1, <5>1, <5>2
      <4>4. Slot(k) # MySlot(t) => elem'[Slot(k)] = elem[Slot(k)]
        BY <1>1, <1>2, <1>5, SlotRange DEF TypeOK
      <4> QED
        BY <3>1, <3>2, <4>1, <4>2, <4>3, <4>4
    <3> QED
      BY <3>3, <3>4
  <2> QED
    BY <1>1, <2>1
    DEF Recorded, Wrote, Took, Releasing, At, Pushes, PushDone, PopDone, Reached, Age, Ticket
<1> QED
  BY <1>1, <1>7, <1>8, AccessFrame DEF IInv

\* The copy of the element.
LEMMA ReadInv ==
  ASSUME IInv, NEW t \in Thread, Read(t)
  PROVE  IInv'
<1>1. /\ pc[t] = "access" /\ ~Pushes(t) /\ pc' = [pc EXCEPT ![t] = "release"]
      /\ UNCHANGED <<helping, back, front, states, elem, op, pos, stored>>
  BY DEF Read, At, Goto
<1>2. TypeOK /\ Recorded
  BY DEF IInv, SlotOwned
<1>3. /\ pos[t] \in Ticket /\ stored[pos[t]] = <<pos[t]>>
      /\ taken' = [taken EXCEPT ![pos[t]] = <<pos[t]>>]
  BY ReadIsTake
<1>4. pc'[t] = "release" /\ \A u \in Thread \ {t} : pc'[u] = pc[u]
  BY <1>1, <1>2 DEF TypeOK
<1>5. TypeOK'
  <2>1. taken' \in [Ticket -> Seq(Ticket)]
    <3>1. <<pos[t]>> \in Seq(Ticket)
      BY <1>3
    <3> QED
      BY <1>2, <1>3, <3>1 DEF TypeOK
  <2>2. pc' \in [Thread -> {"idle", "load", "claim", "help", "move", "access",
                           "release", "compare"}]
    BY <1>1, <1>2 DEF TypeOK
  <2> QED
    BY <1>1, <1>2, <2>1, <2>2 DEF TypeOK
<1>6. Recorded'
  <2>1. ASSUME NEW k \in Ticket
        PROVE  /\ stored[k] # <<>> <=>
                    Reached(k, 1) \/ \E u \in Thread : /\ pc'[u] = "release"
                                                       /\ pos[u] = k /\ Back(op[u])
               /\ taken'[k] # <<>> <=>
                    Reached(k, 3) \/ \E u \in Thread : /\ pc'[u] = "release"
                                                       /\ pos[u] = k /\ ~Back(op[u])
               /\ stored[k] # <<>> /\ ~Reached(k, 3) =>
                    stored[k] = <<k>> /\ elem[Slot(k)] = k
    <3>1. /\ stored[k] # <<>> <=>
               Reached(k, 1) \/ \E u \in Thread : /\ pc[u] = "release"
                                                  /\ pos[u] = k /\ Back(op[u])
          /\ taken[k] # <<>> <=>
               Reached(k, 3) \/ \E u \in Thread : /\ pc[u] = "release"
                                                  /\ pos[u] = k /\ ~Back(op[u])
          /\ stored[k] # <<>> /\ ~Reached(k, 3) =>
               stored[k] = <<k>> /\ elem[Slot(k)] = k
      BY <1>2 DEF Recorded, Wrote, Took, PushDone, PopDone, Releasing, At, Pushes
    <3>2. stored[k] # <<>> <=>
            Reached(k, 1) \/ \E u \in Thread : /\ pc'[u] = "release"
                                               /\ pos[u] = k /\ Back(op[u])
      BY <1>1, <1>4, <3>1 DEF Pushes
    <3>3. CASE k = pos[t]
      <4>1. taken'[k] = <<k>>
        BY <1>2, <1>3, <3>3 DEF TypeOK
      <4> QED
        BY <1>1, <1>4, <3>1, <3>2, <3>3, <4>1, NotEmpty DEF Pushes
    <3>4. CASE k # pos[t]
      <4>1. taken'[k] = taken[k]
        BY <1>2, <1>3, <3>4 DEF TypeOK
      <4>2. (\E u \in Thread : pc'[u] = "release" /\ pos[u] = k /\ ~Back(op[u])) <=>
              \E u \in Thread : pc[u] = "release" /\ pos[u] = k /\ ~Back(op[u])
        BY <1>1, <1>4, <3>4
      <4> QED
        BY <3>1, <3>2, <4>1, <4>2
    <3> QED
      BY <3>3, <3>4
  <2> QED
    BY <1>1, <2>1
    DEF Recorded, Wrote, Took, Releasing, At, Pushes, PushDone, PopDone, Reached, Age, Ticket
<1> QED
  BY <1>1, <1>5, <1>6, AccessFrame DEF IInv

-----------------------------------------------------------------------------
(* The theorems *)

\* Every step keeps the invariant.
LEMMA NextInv == IInv /\ [Next]_vars => IInv'
<1> SUFFICES ASSUME IInv, [Next]_vars
             PROVE  IInv'
  OBVIOUS
<1>1. ASSUME NEW t \in Thread, Step(t)
      PROVE  IInv'
  BY <1>1, LoadEndInv, ClaimInv, ClaimFailsInv, HelpInv, MoveEndInv, WriteInv, ReadInv,
     ReleaseInv, CompareInv DEF Step
<1>2. ASSUME NEW t \in Thread, NEW o \in Op, Call(t, o)
      PROVE  IInv'
  BY <1>2, CallInv
<1>3. CASE UNCHANGED vars
  <2>1. /\ helping' = helping /\ back' = back /\ front' = front /\ states' = states
        /\ elem' = elem /\ pc' = pc /\ op' = op /\ pos' = pos
        /\ stored' = stored /\ taken' = taken
    BY <1>3 DEF vars, threadVars, history
  <2>2. TypeOK' <=> TypeOK
    BY <2>1 DEF TypeOK
  <2>3. SlotOwned'
    BY <2>1, <2>2 DEF IInv, SlotOwned, Owns, MySlot, Desired, Pushes, Cycle
  <2>4. AgesRight'
    BY <2>1 DEF IInv, AgesRight, Age, Owns, Pushes, MySlot
  <2>5. PositionsRight'
    BY <2>1
    DEF IInv, PositionsRight, At, Owns, Pushes, End, PushBegun, PopBegun, Reached, Age, Ticket
  <2>6. EndsRight'
    BY <2>1 DEF IInv, EndsRight, PushBegun, PopBegun, Moving, At, Pushes, Reached, Age
  <2>7. Recorded'
    BY <2>1
    DEF IInv, Recorded, Wrote, Took, Releasing, At, Pushes, PushDone, PopDone, Reached, Age,
        Ticket
  <2> QED
    BY <2>3, <2>4, <2>5, <2>6, <2>7 DEF IInv
<1> QED
  BY <1>1, <1>2, <1>3 DEF Next

\* Slots, owners, ends and what was stored and taken agree in every run of
\* orbit's queue, with helping and without, for every size and any threads.
THEOREM Invariance == Spec => []IInv
<1> QED
  BY InitInv, NextInv, PTL DEF Spec

\* A claimed slot belongs to one thread until it is released, however stale the
\* indices that other threads have read.
THEOREM SlotSafety == Spec => []SlotOwned
<1>1. IInv => SlotOwned
  BY DEF IInv
<1> QED
  BY <1>1, Invariance, PTL

-----------------------------------------------------------------------------
(* Honest answers *)

\* A full slot holds an item between the ends of the queue.
LEMMA FullIsBetween ==
  ASSUME IInv, NEW s \in Slots, states[s][2] = "FULL"
  PROVE  front < back
<1>1. /\ SlotOwned /\ AgesRight /\ PositionsRight /\ EndsRight
      /\ back \in Nat /\ front \in Nat /\ states[s][1] \in Nat
  BY Basics DEF IInv, SlotOwned
<1> DEFINE m == states[s][1] - 1
<1>2. m \in Nat /\ Age(s) = 4 * m + 2
  <2>1. Age(s) = 4 * states[s][1] - 2 /\ Age(s) >= 0
    BY <1>1 DEF Age, Changes, AgesRight
  <2> QED
    BY <1>1, <2>1
<1> HIDE DEF m
<1>3. PICK k \in Nat : k \div SIZE = m /\ Slot(k) = s
  BY <1>2, SlotOnto
<1>4. PushBegun(k) /\ ~PopBegun(k)
  BY <1>2, <1>3 DEF PushBegun, PopBegun, Reached
<1>5. ASSUME NEW t \in Thread
      PROVE  ~Moving(t, k)
  <2>1. Moving(t, k) => Owns(t) /\ MySlot(t) = s
    BY <1>3 DEF Moving, At, Owns, MySlot
  <2>2. Owns(t) => states[MySlot(t)][2] \in {"READING", "WRITING"}
    BY <1>1 DEF SlotOwned, Desired
  <2> QED
    BY <2>1, <2>2
<1>6. k < back /\ ~(k < front)
  BY <1>1, <1>4, <1>5 DEF EndsRight
<1> QED
  BY <1>1, <1>6

\* A slot that waits for a push is that of an index less than a lap beyond front.
LEMMA RoomIsBetween ==
  ASSUME IInv, NEW k \in Nat, states[Slot(k)] = <<k \div SIZE, "EMPTY">>
  PROVE  k < front + SIZE
<1> SUFFICES ASSUME k >= front + SIZE PROVE FALSE
  BY Basics, OrbitAssumption DEF IInv, SlotOwned
<1> DEFINE j == k - SIZE
<1>1. /\ SlotOwned /\ EndsRight /\ front \in Nat
      /\ j \in Nat /\ k = j + SIZE /\ j >= front
  BY Basics, OrbitAssumption DEF IInv, SlotOwned
<1> HIDE DEF j
<1>2. Slot(k) = Slot(j) /\ k \div SIZE = (j \div SIZE) + 1 /\ j \div SIZE \in Nat
  BY <1>1, SlotNextLap, LapNat
<1>3. states[Slot(j)] = <<(j \div SIZE) + 1, "EMPTY">>
  BY <1>2
<1>4. Age(Slot(j)) = 4 * ((j \div SIZE) + 1)
  BY <1>2, <1>3 DEF Age, Changes
<1>5. PopBegun(j)
  BY <1>2, <1>4 DEF PopBegun, Reached
<1>6. PICK t \in Thread : Moving(t, j)
  BY <1>1, <1>5 DEF EndsRight
<1>7. Owns(t) /\ MySlot(t) = Slot(j)
  BY <1>6 DEF Moving, At, Owns, MySlot
<1>8. states[Slot(j)][2] \in {"READING", "WRITING"}
  BY <1>1, <1>7 DEF SlotOwned, Desired
<1> QED
  BY <1>3, <1>8

\* What a thread that gives up has seen of its slot.
LEMMA GaveUp ==
  ASSUME IInv, NEW t \in Thread, GivesUp(t)
  PROVE  /\ Pushes(t) => PopInFlight \/ back >= front + SIZE
         /\ ~Pushes(t) => back <= front
<1> DEFINE s == MySlot(t)
           m == pos[t] \div SIZE
<1>1. /\ SlotOwned /\ AgesRight /\ EndsRight /\ back \in Nat /\ front \in Nat
      /\ s \in Slots /\ m \in Nat /\ pos[t] \in Nat /\ pos[t] <= End(t)
      /\ states[s][2] \in Phase /\ states[s] = <<states[s][1], states[s][2]>>
      /\ Cycle(t) - 1 = m /\ Age(s) >= 0
  BY Basics DEF IInv, SlotOwned, PositionsRight, AgesRight
<1>2. states[s][1] = m /\ states[s] # Expected(t)
  BY <1>1 DEF GivesUp, LapBehind
<1>3. Age(s) <= 4 * m
  BY <1>1, <1>2 DEF Age, Changes
<1>4. Slot(pos[t]) = s
  BY DEF MySlot
<1>5. CASE ~Pushes(t)
  <2>1. ~PushBegun(pos[t]) /\ ~PopBegun(pos[t])
    <3>1. Age(s) \in Int
      BY <1>1, Basics DEF SlotOwned
    <3> QED
      BY <1>1, <1>3, <1>4, <3>1 DEF PushBegun, PopBegun, Reached
  <2>2. ~(pos[t] < back) /\ ~(pos[t] < front) /\ pos[t] <= front
    BY <1>1, <1>5, <2>1 DEF EndsRight, End
  <2> QED
    BY <1>1, <1>5, <2>2
<1>6. CASE Pushes(t)
  <2>1. CASE states[s][2] = "READING"
    BY <1>1, <1>6, <2>1 DEF AgesRight, PopInFlight
  <2>2. CASE states[s][2] # "READING"
    <3>1. states[s][2] \in {"FULL", "WRITING"}
      BY <1>1, <1>2, <1>6, <2>2 DEF Expected, Phase
    <3>2. Age(s) \in {4 * m - 2, 4 * m - 3}
      BY <1>1, <1>2, <3>1 DEF Age, Changes
    <3> DEFINE k == pos[t] - SIZE
    <3>3. m >= 1
      BY <1>1, <3>2
    <3>4. pos[t] >= SIZE
      <4>1. \A n \in Nat \ {0}, i \in Nat : i \div n >= 1 => i >= n
        OBVIOUS
      <4> QED
        BY <1>1, <3>3, <4>1, OrbitAssumption
    <3>5. k \in Nat /\ pos[t] = k + SIZE
      BY <1>1, <3>4, OrbitAssumption
    <3> HIDE DEF k
    <3>6. Slot(k) = s /\ m = (k \div SIZE) + 1 /\ k \div SIZE \in Nat
      BY <1>4, <3>5, SlotNextLap, LapNat
    <3>7. ~PopBegun(k)
      <4> HIDE DEF m, s
      <4>1. ~(Age(s) > 4 * (m - 1) + 2)
        BY <1>1, <3>2
      <4>2. m - 1 = k \div SIZE
        BY <3>6
      <4> QED
        BY <3>6, <4>1, <4>2 DEF PopBegun, Reached
    <3>8. ~(k < front)
      BY <1>1, <3>5, <3>7 DEF EndsRight
    <3> QED
      BY <1>1, <1>6, <3>5, <3>8, OrbitAssumption DEF End
  <2> QED
    BY <2>1, <2>2
<1> QED
  BY <1>5, <1>6

\* The answers that follow from the invariant.
LEMMA InvHonest == IInv => AnswersHonest
<1> SUFFICES ASSUME IInv, NEW t \in Thread
             PROVE  /\ SaysEmpty(t) => \A s \in Slots : states[s][2] # "FULL"
                    /\ SaysFull(t) => states[Slot(back)] # <<back \div SIZE, "EMPTY">>
                    /\ GivesUp(t) /\ Pushes(t) => PopInFlight \/ back >= front + SIZE
                    /\ GivesUp(t) /\ ~Pushes(t) => back <= front
  BY DEF AnswersHonest
<1>1. back \in Nat /\ front \in Nat /\ pos[t] \in Nat /\ pos[t] <= End(t) /\ SIZE \in Nat
  BY Basics, OrbitAssumption DEF IInv, SlotOwned, PositionsRight
<1>2. SaysEmpty(t) => back <= front
  BY <1>1 DEF SaysEmpty, End, Pushes, Back
<1>3. SaysFull(t) => back >= front + SIZE
  BY <1>1 DEF SaysFull, End, Pushes, Back
<1>4. \A s \in Slots : states[s][2] = "FULL" => front < back
  BY FullIsBetween
<1>5. states[Slot(back)] = <<back \div SIZE, "EMPTY">> => back < front + SIZE
  BY <1>1, RoomIsBetween
<1> QED
  BY <1>1, <1>2, <1>3, <1>4, <1>5, GaveUp

\* was_empty and was_full have no false positives, whatever happens between their
\* two loads; a try_push that fails finds the queue full or a pop in flight, a
\* try_pop that fails finds it empty.
THEOREM Honesty == Spec => []AnswersHonest
<1> QED
  BY Invariance, InvHonest, PTL

-----------------------------------------------------------------------------
(* The queue implements the ticket queue *)

\* Every step is one of the ticket queue, or leaves what was stored and taken.
LEMMA TicketStep == IInv /\ [Next]_vars => [Tickets!TicketNext]_(Tickets!ticketVars)
<1> SUFFICES ASSUME IInv, [Next]_vars
             PROVE  Tickets!TicketNext \/ (stored' = stored /\ taken' = taken)
  BY DEF Tickets!ticketVars
<1>1. ASSUME NEW t \in Thread, Write(t)
      PROVE  Tickets!TicketNext
  <2>1. Tickets!Put(pos[t], pos[t]) /\ pos[t] \in Ticket
    BY <1>1, WriteIsPut DEF Tickets!Put
  <2> QED
    BY <2>1 DEF Tickets!TicketNext
<1>2. ASSUME NEW t \in Thread, Read(t)
      PROVE  Tickets!TicketNext
  <2>1. Tickets!Take(pos[t]) /\ pos[t] \in Ticket
    BY <1>2, ReadIsTake, NotEmpty DEF Tickets!Take
  <2> QED
    BY <2>1 DEF Tickets!TicketNext
<1>3. ASSUME NEW t \in Thread, Step(t), ~Write(t), ~Read(t)
      PROVE  stored' = stored /\ taken' = taken
  BY <1>3
  DEF Step, LoadEnd, Claim, ClaimFails, Help, MoveEnd, Release, Compare, history
<1>4. ASSUME NEW t \in Thread, NEW o \in Op, Call(t, o)
      PROVE  stored' = stored /\ taken' = taken
  BY <1>4 DEF Call, history
<1>5. CASE UNCHANGED vars
  BY <1>5 DEF vars, history
<1> QED
  BY <1>1, <1>2, <1>3, <1>4, <1>5 DEF Next

\* Pop k returns what push k stored, each once, and a slot is refilled only after
\* its last item was taken, although indices are moved late or by other threads.
THEOREM Refinement == Spec => ImplementsTickets
<1>1. Init => Tickets!TicketInit
  BY DEF Init, Tickets!TicketInit
<1> QED
  BY <1>1, TicketStep, Invariance, PTL DEF Spec, ImplementsTickets, Tickets!TicketSpec
=============================================================================
