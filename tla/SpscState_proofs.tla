-------------------------- MODULE SpscState_proofs --------------------------
(***************************************************************************)
(* Proofs about SpscState for every SIZE, Value and number of items.       *)
(***************************************************************************)
EXTENDS SpscState, SequenceTheorems, TLAPS

-----------------------------------------------------------------------------
(* Facts about i % n *)

\* An index falls into a ring of n slots.
LEMMA ModRange ==
  ASSUME NEW n \in Nat \ {0}, NEW i \in Nat
  PROVE  i % n \in 0 .. n - 1
OBVIOUS

\* Indices less than a lap apart have different slots.
LEMMA ModInjective ==
  ASSUME NEW n \in Nat \ {0}, NEW i \in Nat, NEW j \in Nat, i < j, j < i + n
  PROVE  i % n # j % n
<1> DEFINE a == i \div n
           b == j \div n
<1>1. /\ a \in Int /\ b \in Int
      /\ i = (n * a) + (i % n)
      /\ j = (n * b) + (j % n)
  OBVIOUS
<1> HIDE DEF a, b
<1>2. SUFFICES ASSUME i % n = j % n PROVE FALSE
  OBVIOUS
<1>3. j - i = n * (b - a)
  BY <1>1, <1>2
<1>4. CASE b - a <= 0
  BY <1>1, <1>3, <1>4
<1>5. CASE b - a >= 1
  BY <1>1, <1>3, <1>5
<1> QED
  BY <1>1, <1>4, <1>5

\* An index and the one a lap later share a slot.
LEMMA ModLap ==
  ASSUME NEW n \in Nat \ {0}, NEW i \in Nat
  PROVE  i % n = (i + n) % n
<1> DEFINE a == i \div n
           b == (i + n) \div n
<1>1. /\ a \in Int /\ b \in Int
      /\ i = (n * a) + (i % n) /\ i % n \in 0 .. n - 1
      /\ i + n = (n * b) + ((i + n) % n) /\ (i + n) % n \in 0 .. n - 1
  OBVIOUS
<1> HIDE DEF a, b
<1>2. (i % n) - ((i + n) % n) = n * (b - a - 1)
  BY <1>1
<1>3. ~(b - a - 1 >= 1) /\ ~(b - a - 1 <= -1)
  BY <1>1, <1>2
<1>4. n * (b - a - 1) = 0
  BY <1>1, <1>3
<1>5. i % n \in Int /\ (i + n) % n \in Int
  BY <1>1
<1> QED
  BY <1>2, <1>4, <1>5

-----------------------------------------------------------------------------

\* An index maps to a slot of the buffer.
LEMMA SlotRange ==
  ASSUME NEW i \in Nat
  PROVE  Slot(i) \in Slots
BY StateAssumption, ModRange DEF Slot, Slots

\* Indices less than a lap apart have different slots.
LEMMA SlotInjective ==
  ASSUME NEW i \in Nat, NEW j \in Nat, i < j, j < i + SIZE
  PROVE  Slot(i) # Slot(j)
BY StateAssumption, ModInjective DEF Slot

\* Indices of one lap with the same slot are the same.
LEMMA SameSlot ==
  ASSUME NEW i \in Nat, NEW j \in Nat, Slot(i) = Slot(j),
         i < j + SIZE, j < i + SIZE
  PROVE  i = j
<1>1. ~(i < j) /\ ~(j < i)
  BY SlotInjective
<1> QED
  BY <1>1

\* An index and the one a lap later share a slot.
LEMMA SlotLap ==
  ASSUME NEW i \in Nat
  PROVE  Slot(i) = Slot(i + SIZE)
BY StateAssumption, ModLap DEF Slot

-----------------------------------------------------------------------------
(* What a side reads out of a state byte *)

\* A slot the producer sees empty is not the slot of an item that waits, nor
\* of one the consumer has taken and not yet given back.
LEMMA EmptyMeansRoom ==
  ASSUME IInv, ProducerSees = "Empty"
  PROVE  wIdx < stR + SIZE
<1> USE DEF IInv, TypeOK, StoreOrder
<1>1. ~(stW + SIZE <= wIdx) /\ states[Slot(wIdx)] = "Empty"
  BY DEF ProducerSees
<1>2. SUFFICES ASSUME wIdx = stR + SIZE PROVE FALSE
  BY StateAssumption
<1>3. stR \in stR .. stW - 1
  BY <1>1, <1>2, StateAssumption
<1>4. Slot(wIdx) = Slot(stR) /\ Slot(stR) \in Slots
  BY <1>2, SlotLap, SlotRange
<1> QED
  BY <1>1, <1>3, <1>4 DEF StatesRight

\* A slot the consumer sees stored is that of an item whose state byte has
\* reached memory.
LEMMA StoredMeansItem ==
  ASSUME IInv, ConsumerSees = "Stored"
  PROVE  rIdx < stW
<1> USE DEF IInv, TypeOK, StoreOrder
<1>1. ~(stR + SIZE <= rIdx) /\ states[Slot(rIdx)] = "Stored"
  BY DEF ConsumerSees
<1>2. PICK i \in stR .. stW - 1 : Slot(rIdx) = Slot(i)
  BY <1>1, SlotRange DEF StatesRight
<1>3. i \in Nat /\ i < rIdx + SIZE /\ rIdx < i + SIZE
  BY <1>1, StateAssumption
<1>4. i = rIdx
  BY <1>2, <1>3, SameSlot
<1> QED
  BY <1>4

-----------------------------------------------------------------------------

\* The fresh queue satisfies the inductive invariant.
LEMMA InitInv == Init => IInv
<1> SUFFICES ASSUME Init PROVE IInv
  OBVIOUS
<1> USE StateAssumption DEF Init
<1>1. TypeOK
  BY DEF TypeOK
<1>2. StoreOrder /\ Decided /\ Observed
  BY DEF StoreOrder, Decided, Observed
<1>3. StatesRight /\ LiveObjects
  BY DEF StatesRight, LiveObjects
<1> QED
  BY <1>1, <1>2, <1>3 DEF IInv

\* Every step of either side and of a store buffer preserves the inductive
\* invariant.
LEMMA NextInv == IInv /\ [Next]_vars => IInv'
<1> SUFFICES ASSUME IInv, [Next]_vars PROVE IInv'
  OBVIOUS
<1> USE StateAssumption DEF IInv, TypeOK
<1>1. ASSUME NEW v \in Value, NEW l \in {"loadTry", "loadSpin"},
             CallEmplace(v, l)
      PROVE  IInv'
  <2> USE <1>1 DEF CallEmplace, consVars, obsVars
  <2>1. TypeOK' /\ StoreOrder'
    BY DEF StoreOrder
  <2>2. StatesRight' /\ Decided'
    BY DEF StatesRight, Decided
  <2>3. LiveObjects'
    BY DEF LiveObjects
  <2>10. Observed'
    BY DEF Observed
  <2> QED
    BY <2>1, <2>2, <2>3, <2>10
<1>2. ASSUME LoadEmpty PROVE IInv'
  <2> USE <1>2 DEF LoadEmpty, consVars, obsVars
  <2>1. TypeOK' /\ StoreOrder'
    BY DEF StoreOrder
  <2>2. StatesRight'
    BY DEF StatesRight
  <2>3. Decided'
    BY EmptyMeansRoom DEF Decided
  <2>4. LiveObjects'
    BY DEF LiveObjects
  <2>10. Observed'
    BY DEF Observed
  <2> QED
    BY <2>1, <2>2, <2>3, <2>4, <2>10
<1>3. ASSUME WriteSlot PROVE IInv'
  <2> USE <1>3 DEF WriteSlot, consVars, obsVars
  <2>0. pVal \in Value /\ Slot(wIdx) \in Slots /\ wIdx < stR + SIZE
    BY SlotRange DEF Decided
  <2>1. TypeOK' /\ StoreOrder'
    BY <2>0 DEF StoreOrder
  <2>2. StatesRight' /\ Decided'
    BY DEF StatesRight, Decided
  <2>3. LiveObjects'
    <3> SUFFICES ASSUME NEW s \in Slots
                 PROVE  buf'[s] # NoItem <=>
                          \E i \in rIdx .. wIdx : s = Slot(i)
      BY DEF LiveObjects
    <3>1. CASE s = Slot(wIdx)
      BY <2>0, <3>1 DEF StoreOrder
    <3>2. CASE s # Slot(wIdx)
      BY <2>0, <3>2 DEF LiveObjects
    <3> QED
      BY <3>1, <3>2
  <2>10. Observed'
    BY DEF Observed
  <2> QED
    BY <2>1, <2>2, <2>3, <2>10
<1>4. ASSUME ConstructThrows PROVE IInv'
  <2> USE <1>4 DEF ConstructThrows, consVars, obsVars
  <2>1. TypeOK' /\ StoreOrder'
    BY DEF StoreOrder
  <2>2. StatesRight' /\ Decided'
    BY DEF StatesRight, Decided
  <2>3. LiveObjects'
    BY DEF LiveObjects
  <2>10. Observed'
    BY DEF Observed
  <2> QED
    BY <2>1, <2>2, <2>3, <2>10
<1>5. ASSUME CommitStored PROVE IInv'
  <2> USE <1>5 DEF CommitStored, consVars, obsVars
  <2>0. Slot(stW) \in Slots
    BY SlotRange
  <2>1. TypeOK' /\ StoreOrder'
    BY <2>0 DEF StoreOrder
  <2>2. StatesRight'
    <3> SUFFICES ASSUME NEW s \in Slots
                 PROVE  states'[s] = "Stored" <=>
                          \E i \in stR .. stW : s = Slot(i)
      BY DEF StatesRight
    <3>1. CASE s = Slot(stW)
      BY <2>0, <3>1 DEF StoreOrder
    <3>2. CASE s # Slot(stW)
      BY <2>0, <3>2 DEF StatesRight
    <3> QED
      BY <3>1, <3>2
  <2>3. Decided' /\ LiveObjects'
    BY DEF Decided, LiveObjects, StoreOrder
  <2>10. Observed'
    BY DEF Observed
  <2> QED
    BY <2>1, <2>2, <2>3, <2>10
<1>6. ASSUME CommitWriteIndex PROVE IInv'
  <2> USE <1>6 DEF CommitWriteIndex, consVars, obsVars
  <2>1. TypeOK' /\ StoreOrder'
    BY DEF StoreOrder
  <2>2. StatesRight' /\ Decided'
    BY DEF StatesRight, Decided
  <2>3. LiveObjects'
    BY DEF LiveObjects
  <2>10. Observed'
    BY DEF Observed
  <2> QED
    BY <2>1, <2>2, <2>3, <2>10
<1>7. ASSUME NEW l \in {"loadTry", "loadSpin"}, CallPop(l) PROVE IInv'
  <2> USE <1>7 DEF CallPop, prodVars, obsVars
  <2>1. TypeOK' /\ StoreOrder'
    BY DEF StoreOrder
  <2>2. StatesRight' /\ Decided'
    BY DEF StatesRight, Decided
  <2>3. LiveObjects'
    BY DEF LiveObjects
  <2>10. Observed'
    BY DEF Observed
  <2> QED
    BY <2>1, <2>2, <2>3, <2>10
<1>8. ASSUME LoadStored PROVE IInv'
  <2> USE <1>8 DEF LoadStored, prodVars, obsVars
  <2>1. TypeOK' /\ StoreOrder'
    BY DEF StoreOrder
  <2>2. StatesRight'
    BY DEF StatesRight
  <2>3. Decided'
    BY StoredMeansItem DEF Decided
  <2>4. LiveObjects'
    BY DEF LiveObjects
  <2>10. Observed'
    BY DEF Observed
  <2> QED
    BY <2>1, <2>2, <2>3, <2>4, <2>10
<1>9. ASSUME TakeSlot PROVE IInv'
  <2> USE <1>9 DEF TakeSlot, prodVars, obsVars
  <2>0. /\ pPc # "destroyed" /\ rIdx < stW
        /\ Slot(rIdx) \in Slots /\ buf[Slot(rIdx)] \in Value
    <3>1. pPc # "destroyed" /\ rIdx < stW /\ Slot(rIdx) \in Slots
      BY SlotRange DEF Decided
    <3>2. rIdx \in rIdx .. wIdx - 1
      BY <3>1 DEF StoreOrder
    <3> QED
      BY <3>1, <3>2 DEF LiveObjects
  <2>1. TypeOK' /\ StoreOrder'
    BY <2>0 DEF StoreOrder
  <2>2. StatesRight' /\ Decided'
    BY DEF StatesRight, Decided
  <2>3. \A i \in rIdx + 1 .. wIdx - 1 : Slot(i) # Slot(rIdx)
    <3> SUFFICES ASSUME NEW i \in rIdx + 1 .. wIdx - 1
                 PROVE  Slot(i) # Slot(rIdx)
      OBVIOUS
    <3>0. /\ rIdx \in Nat /\ wIdx \in Nat /\ stR \in Nat /\ SIZE \in Nat
          /\ wIdx <= stR + SIZE /\ stR <= rIdx
      BY DEF StoreOrder
    <3>1. i \in Nat /\ rIdx < i /\ i < rIdx + SIZE
      BY <3>0
    <3> QED
      BY <3>1, SlotInjective
  <2>4. LiveObjects'
    <3> SUFFICES ASSUME NEW s \in Slots
                 PROVE  buf'[s] # NoItem <=>
                          \E i \in rIdx + 1 .. wIdx - 1 : s = Slot(i)
      BY <2>0 DEF LiveObjects
    <3>1. CASE s = Slot(rIdx)
      BY <2>0, <2>3, <3>1
    <3>2. CASE s # Slot(rIdx)
      BY <2>0, <3>2 DEF LiveObjects
    <3> QED
      BY <3>1, <3>2
  <2>10. Observed'
    BY DEF Observed
  <2> QED
    BY <2>1, <2>2, <2>4, <2>10
<1>10. ASSUME CommitEmpty PROVE IInv'
  <2> USE <1>10 DEF CommitEmpty, prodVars, obsVars
  <2>0. Slot(stR) \in Slots
    BY SlotRange
  <2>1. TypeOK' /\ StoreOrder'
    BY <2>0 DEF StoreOrder
  <2>2. \A i \in stR + 1 .. stW - 1 : Slot(i) # Slot(stR)
    <3> SUFFICES ASSUME NEW i \in stR + 1 .. stW - 1
                 PROVE  Slot(i) # Slot(stR)
      OBVIOUS
    <3>1. i \in Nat /\ stR < i /\ i < stR + SIZE
      BY DEF StoreOrder
    <3> QED
      BY <3>1, SlotInjective
  <2>3. StatesRight'
    <3> SUFFICES ASSUME NEW s \in Slots
                 PROVE  states'[s] = "Stored" <=>
                          \E i \in stR + 1 .. stW - 1 : s = Slot(i)
      BY DEF StatesRight
    <3>1. CASE s = Slot(stR)
      BY <2>0, <2>2, <3>1
    <3>2. CASE s # Slot(stR)
      BY <2>0, <3>2 DEF StatesRight
    <3> QED
      BY <3>1, <3>2
  <2>4. Decided' /\ LiveObjects'
    BY DEF Decided, LiveObjects
  <2>10. Observed'
    BY DEF Observed
  <2> QED
    BY <2>1, <2>3, <2>4, <2>10
<1>11. ASSUME CommitReadIndex PROVE IInv'
  <2> USE <1>11 DEF CommitReadIndex, prodVars, obsVars
  <2>1. TypeOK' /\ StoreOrder'
    BY DEF StoreOrder
  <2>2. StatesRight' /\ Decided'
    BY DEF StatesRight, Decided
  <2>3. LiveObjects'
    BY DEF LiveObjects
  <2>10. Observed'
    BY DEF Observed
  <2> QED
    BY <2>1, <2>2, <2>3, <2>10
<1>12. ASSUME Destroy PROVE IInv'
  <2> USE <1>12 DEF Destroy, consVars, obsVars
  <2>1. TypeOK' /\ StoreOrder'
    BY DEF StoreOrder
  <2>2. StatesRight' /\ Decided'
    BY DEF StatesRight, Decided
  <2>3. LiveObjects'
    BY DEF LiveObjects
  <2>10. Observed'
    BY DEF Observed
  <2> QED
    BY <2>1, <2>2, <2>3, <2>10
<1>13. ASSUME SizeFirstLoad PROVE IInv'
  <2> USE <1>13 DEF SizeFirstLoad, prodVars, consVars
  <2>1. TypeOK' /\ StoreOrder'
    BY DEF StoreOrder
  <2>2. StatesRight' /\ Decided'
    BY DEF StatesRight, Decided
  <2>3. LiveObjects'
    BY DEF LiveObjects
  <2>4. CASE obsPc' = "haveRead" /\ obsIdx' = memR /\ obsMark' = wIdx
    <3>1. Observed'
      BY <2>4 DEF Observed, StoreOrder
    <3> QED
      BY <2>1, <2>2, <2>3, <3>1
  <2>5. CASE obsPc' = "haveWrite" /\ obsIdx' = memW /\ obsMark' = rIdx
    <3>1. Observed'
      BY <2>5 DEF Observed, StoreOrder
    <3> QED
      BY <2>1, <2>2, <2>3, <3>1
  <2> QED
    BY <2>4, <2>5
<1>14. ASSUME SizeReturn PROVE IInv'
  <2> USE <1>14 DEF SizeReturn, prodVars, consVars
  <2>1. TypeOK' /\ StoreOrder'
    BY DEF StoreOrder
  <2>2. StatesRight' /\ Decided'
    BY DEF StatesRight, Decided
  <2>3. LiveObjects' /\ Observed'
    BY DEF LiveObjects, Observed
  <2> QED
    BY <2>1, <2>2, <2>3
<1>15. CASE UNCHANGED vars
  <2> USE <1>15 DEF vars, prodVars, consVars, obsVars
  <2>1. TypeOK' /\ StoreOrder'
    BY DEF StoreOrder
  <2>2. StatesRight' /\ Decided' /\ LiveObjects'
    BY DEF StatesRight, Decided, LiveObjects
  <2>10. Observed'
    BY DEF Observed
  <2> QED
    BY <2>1, <2>2, <2>10
<1> QED
  BY <1>1, <1>2, <1>3, <1>4, <1>5, <1>6, <1>7, <1>8, <1>9, <1>10, <1>11,
     <1>12, <1>13, <1>14, <1>15
  DEF Next, ProducerStep, ConsumerStep, CommitProducer, CommitConsumer

\* The inductive invariant holds in every run, whatever SIZE, Value and the
\* number of items.
THEOREM Invariance == Spec => []IInv
BY InitInv, NextInv, PTL DEF Spec

\* emplace never writes the slot that pop reads.
THEOREM RaceFreedom == Spec => []NoDataRace
<1>1. IInv => NoDataRace
  <2> SUFFICES ASSUME IInv, pPc = "write", cPc = "read"
               PROVE  Slot(wIdx) # Slot(rIdx)
    BY DEF NoDataRace
  <2>1. /\ rIdx \in Nat /\ wIdx \in Nat
        /\ rIdx < wIdx /\ wIdx < rIdx + SIZE
    BY StateAssumption DEF IInv, TypeOK, StoreOrder, Decided
  <2> QED
    BY <2>1, SlotInjective
<1> QED
  BY <1>1, Invariance, PTL

\* What a third thread can conclude from size(), whichever index it loads first
\* and however many items pass between the two loads, for every SIZE.
LEMMA SizeOutside == IInv => SizeFromOutside
<1>1. ASSUME IInv, obsPc = "haveRead"
      PROVE  SizeSeen \in -1 .. CAPACITY + 1 + (wIdx - obsMark)
  <2>1. SizeSeen = memW - obsIdx
    BY <1>1 DEF SizeSeen
  <2>2. /\ obsIdx <= memW + 1 /\ obsMark <= obsIdx + SIZE + 1 /\ memW <= wIdx
        /\ {obsIdx, obsMark, memW, wIdx} \subseteq Nat
    BY <1>1 DEF IInv, TypeOK, StoreOrder, Observed
  <2> QED
    BY <2>1, <2>2, StateAssumption DEF CAPACITY
<1>2. ASSUME IInv, obsPc = "haveWrite"
      PROVE  SizeSeen \in -1 - (rIdx - obsMark) .. CAPACITY + 1
  <2>1. SizeSeen = obsIdx - memR
    BY <1>2 DEF SizeSeen
  <2>2. /\ obsIdx <= memR + SIZE + 1 /\ obsMark <= obsIdx + 1 /\ memR <= rIdx
        /\ {obsIdx, obsMark, memR, rIdx} \subseteq Nat
    BY <1>2 DEF IInv, TypeOK, StoreOrder, Observed
  <2> QED
    BY <2>1, <2>2, StateAssumption DEF CAPACITY
<1> QED
  BY <1>1, <1>2 DEF SizeFromOutside

\* size() called by the producer leaves the range of sizes upwards by one at most,
\* called by the consumer downwards by one at most, for every SIZE.
LEMMA SizeSides == IInv => SizeFromSides
<1> SUFFICES ASSUME IInv PROVE SizeFromSides
  OBVIOUS
<1>1. wIdx \in Nat /\ rIdx \in Nat /\ memW \in Nat /\ memR \in Nat
  BY DEF IInv, TypeOK
<1>2. stW \in Nat /\ stR \in Nat
  BY DEF IInv, TypeOK
<1>3. /\ memR <= wIdx /\ wIdx <= memR + SIZE + 1
      /\ rIdx <= memW + 1 /\ memW <= rIdx + SIZE
  BY <1>1, <1>2, StateAssumption DEF IInv, StoreOrder
<1> QED
  BY <1>1, <1>3, StateAssumption DEF SizeFromSides, CAPACITY

\* No caller of size() is told anything outside these bounds, whatever steps of
\* the two sides lie between its two loads, for every SIZE.
THEOREM SizeBounded == Spec => []SizeBounds
<1>1. IInv => SizeBounds
  BY SizeOutside, SizeSides DEF SizeBounds
<1> QED
  BY <1>1, Invariance, PTL

-----------------------------------------------------------------------------
(* The queue implements BoundedFifo. *)

\* Contents is a sequence: one value per index between the two sides' own.
ContentsTyped == /\ Contents \in Seq(Value)
                 /\ Len(Contents) = wIdx - rIdx
                 /\ \A k \in 1 .. wIdx - rIdx :
                      Contents[k] = buf[Slot(rIdx + k - 1)]

\* While the queue lives, its contents are such a sequence.
LEMMA ContentsSeq == IInv /\ pPc # "destroyed" => ContentsTyped
<1> SUFFICES ASSUME IInv, pPc # "destroyed" PROVE ContentsTyped
  OBVIOUS
<1>1. wIdx - rIdx \in Nat
  BY DEF IInv, TypeOK, StoreOrder
<1>2. ASSUME NEW k \in 1 .. wIdx - rIdx
      PROVE  buf[Slot(rIdx + k - 1)] \in Value
  <2>1. rIdx + k - 1 \in rIdx .. wIdx - 1 /\ rIdx + k - 1 \in Nat
    BY <1>1 DEF IInv, TypeOK
  <2>2. Slot(rIdx + k - 1) \in Slots
    BY <2>1, SlotRange
  <2> QED
    BY <2>1, <2>2 DEF IInv, TypeOK, LiveObjects
<1> QED
  BY <1>1, <1>2 DEF Contents, ContentsTyped

\* Under the invariant, storing an element is Enqueue, taking one Dequeue, the
\* destructor Discard, and every other step leaves the FIFO unchanged.
LEMMA FifoStep == IInv /\ IInv' /\ [Next]_vars => [Fifo!FifoNext]_(Fifo!fifoVars)
<1> SUFFICES ASSUME IInv, IInv', [Next]_vars
             PROVE  [Fifo!FifoNext]_(Fifo!fifoVars)
  OBVIOUS
<1>0. rIdx \in Nat /\ wIdx \in Nat /\ rIdx <= wIdx /\ wIdx <= rIdx + SIZE
  <2>1. /\ rIdx \in Nat /\ wIdx \in Nat /\ stR \in Nat /\ stW \in Nat
        /\ SIZE \in Nat
    BY StateAssumption DEF IInv, TypeOK
  <2>2. stR <= rIdx /\ rIdx <= stW /\ stW <= wIdx /\ wIdx <= stR + SIZE
    BY DEF IInv, StoreOrder
  <2> QED
    BY <2>1, <2>2
<1>c. pPc' # "destroyed" =>
        /\ Contents' \in Seq(Value)
        /\ Len(Contents') = wIdx' - rIdx'
        /\ \A k \in 1 .. wIdx' - rIdx' :
             Contents'[k] = buf'[Slot(rIdx' + k - 1)]
  <2>1. (IInv /\ pPc # "destroyed" => ContentsTyped)'
    BY ContentsSeq, PTL
  <2> QED
    BY <2>1 DEF ContentsTyped
<1>1. ASSUME WriteSlot PROVE Fifo!Enqueue(pVal) /\ pVal \in Value
  <2> USE <1>1 DEF WriteSlot, consVars, obsVars
  <2>1. pVal \in Value /\ pPc' # "destroyed" /\ pPc # "destroyed"
    BY DEF IInv, Decided
  <2>2. wIdx - rIdx < SIZE
    BY <1>0, StateAssumption DEF IInv, TypeOK, StoreOrder, Decided
  <2>3. \A k \in 1 .. wIdx - rIdx :
          buf'[Slot(rIdx + k - 1)] = buf[Slot(rIdx + k - 1)]
    <3> SUFFICES ASSUME NEW k \in 1 .. wIdx - rIdx
                 PROVE  buf'[Slot(rIdx + k - 1)] = buf[Slot(rIdx + k - 1)]
      OBVIOUS
    <3>1. /\ rIdx + k - 1 \in Nat
          /\ rIdx + k - 1 < wIdx /\ wIdx < (rIdx + k - 1) + SIZE
      BY <1>0, <2>2, StateAssumption
    <3>2. /\ Slot(rIdx + k - 1) # Slot(wIdx)
          /\ Slot(rIdx + k - 1) \in Slots
      BY <1>0, <3>1, SlotInjective, SlotRange
    <3> QED
      BY <3>2 DEF IInv, TypeOK
  <2>4. buf'[Slot(wIdx)] = pVal
    BY <1>0, SlotRange DEF IInv, TypeOK
  <2>5. Contents' = Append(Contents, pVal)
    <3>1. /\ Contents' \in Seq(Value)
          /\ Len(Contents') = wIdx - rIdx + 1
          /\ \A k \in 1 .. wIdx - rIdx + 1 :
               Contents'[k] = buf'[Slot(rIdx + k - 1)]
      BY <1>0, <1>c, <2>1
    <3>2. /\ Append(Contents, pVal) \in Seq(Value)
          /\ Len(Append(Contents, pVal)) = wIdx - rIdx + 1
          /\ \A k \in 1 .. wIdx - rIdx : Append(Contents, pVal)[k] = Contents[k]
          /\ Append(Contents, pVal)[wIdx - rIdx + 1] = pVal
      BY <1>0, <2>1, ContentsSeq DEF ContentsTyped
    <3>3. \A k \in 1 .. wIdx - rIdx + 1 :
            Contents'[k] = Append(Contents, pVal)[k]
      <4> SUFFICES ASSUME NEW k \in 1 .. wIdx - rIdx + 1
                   PROVE  Contents'[k] = Append(Contents, pVal)[k]
        OBVIOUS
      <4>1. CASE k \in 1 .. wIdx - rIdx
        BY <2>1, <2>3, <3>1, <3>2, <4>1, ContentsSeq DEF ContentsTyped
      <4>2. CASE k = wIdx - rIdx + 1
        <5>1. rIdx + k - 1 = wIdx
          BY <1>0, <4>2
        <5> QED
          BY <2>4, <3>1, <3>2, <4>2, <5>1
      <4>3. k \in 1 .. wIdx - rIdx \/ k = wIdx - rIdx + 1
        BY <1>0
      <4> QED
        BY <4>1, <4>2, <4>3
    <3> QED
      BY <3>1, <3>2, <3>3, SeqEqual
  <2> QED
    BY <2>1, <2>2, <2>5, ContentsSeq DEF ContentsTyped, Fifo!Enqueue, CAPACITY
<1>2. ASSUME TakeSlot PROVE Fifo!Dequeue
  <2> USE <1>2 DEF TakeSlot, prodVars, obsVars
  <2>1. pPc # "destroyed" /\ pPc' # "destroyed" /\ rIdx < wIdx
    BY <1>0 DEF IInv, TypeOK, Decided, StoreOrder
  <2>2. /\ Contents \in Seq(Value) /\ Len(Contents) = wIdx - rIdx
        /\ \A k \in 1 .. wIdx - rIdx : Contents[k] = buf[Slot(rIdx + k - 1)]
    BY <2>1, ContentsSeq DEF ContentsTyped
  <2>3. /\ Contents' \in Seq(Value) /\ Len(Contents') = wIdx - (rIdx + 1)
        /\ \A k \in 1 .. wIdx - (rIdx + 1) :
             Contents'[k] = buf'[Slot((rIdx + 1) + k - 1)]
    BY <2>1, <1>c
  <2>4. Contents # <<>> /\ Head(Contents) = buf[Slot(rIdx)]
    <3>1. Contents[1] = buf[Slot(rIdx + 1 - 1)] /\ rIdx + 1 - 1 = rIdx
      BY <1>0, <2>1, <2>2
    <3> QED
      BY <1>0, <2>1, <2>2, <3>1
  <2>5. ASSUME NEW k \in 1 .. wIdx - (rIdx + 1)
        PROVE  buf'[Slot(rIdx + k)] = buf[Slot(rIdx + k)]
    <3>1. rIdx + k \in Nat /\ rIdx < rIdx + k /\ rIdx + k < rIdx + SIZE
      BY <1>0, StateAssumption
    <3> QED
      BY <1>0, <3>1, SlotInjective DEF IInv, TypeOK
  <2>6. Contents' = Tail(Contents)
    <3>1. /\ Tail(Contents) \in Seq(Value)
          /\ Len(Tail(Contents)) = wIdx - (rIdx + 1)
          /\ \A k \in 1 .. wIdx - (rIdx + 1) : Tail(Contents)[k] = Contents[k + 1]
      BY <1>0, <2>2, <2>4, HeadTailProperties
    <3>2. ASSUME NEW k \in 1 .. wIdx - (rIdx + 1)
          PROVE  Contents'[k] = Tail(Contents)[k]
      <4>1. /\ k + 1 \in 1 .. wIdx - rIdx
            /\ rIdx + (k + 1) - 1 = rIdx + k /\ (rIdx + 1) + k - 1 = rIdx + k
        BY <1>0
      <4> QED
        BY <2>2, <2>3, <2>5, <3>1, <4>1
    <3> QED
      BY <2>3, <3>1, <3>2, SeqEqual
  <2> QED
    BY <2>1, <2>4, <2>6 DEF Fifo!Dequeue
<1>3. ASSUME Destroy PROVE Fifo!Discard
  BY <1>3 DEF Destroy, consVars, Contents, Fifo!Discard
<1>4. ASSUME UNCHANGED <<rIdx, wIdx, buf, delivered>>,
             pPc' = "destroyed" <=> pPc = "destroyed"
      PROVE  UNCHANGED Fifo!fifoVars
  BY <1>4 DEF Contents, Fifo!fifoVars
<1>5. ASSUME NEW v \in Value, NEW l \in {"loadTry", "loadSpin"},
             CallEmplace(v, l)
      PROVE  UNCHANGED Fifo!fifoVars
  BY <1>4, <1>5 DEF CallEmplace, consVars, obsVars
<1>6. ASSUME NEW l \in {"loadTry", "loadSpin"}, CallPop(l)
      PROVE  UNCHANGED Fifo!fifoVars
  BY <1>4, <1>6 DEF CallPop, prodVars, obsVars
<1>7. ASSUME LoadEmpty \/ ConstructThrows PROVE UNCHANGED Fifo!fifoVars
  BY <1>4, <1>7 DEF LoadEmpty, ConstructThrows, consVars, obsVars
<1>8. ASSUME LoadStored PROVE UNCHANGED Fifo!fifoVars
  BY <1>4, <1>8 DEF LoadStored, prodVars, obsVars
<1>9. ASSUME CommitStored \/ CommitWriteIndex PROVE UNCHANGED Fifo!fifoVars
  BY <1>4, <1>9 DEF CommitStored, CommitWriteIndex, consVars, obsVars
<1>10. ASSUME CommitEmpty \/ CommitReadIndex PROVE UNCHANGED Fifo!fifoVars
  BY <1>4, <1>10 DEF CommitEmpty, CommitReadIndex, prodVars, obsVars
<1>11. ASSUME SizeFirstLoad \/ SizeReturn PROVE UNCHANGED Fifo!fifoVars
  BY <1>4, <1>11 DEF SizeFirstLoad, SizeReturn, prodVars, consVars
<1>12. CASE UNCHANGED vars
  BY <1>4, <1>12 DEF vars, prodVars, consVars, obsVars
<1> QED
  BY <1>1, <1>2, <1>3, <1>5, <1>6, <1>7, <1>8, <1>9, <1>10, <1>11,
     <1>12
  DEF Next, ProducerStep, ConsumerStep, CommitProducer, CommitConsumer,
      Fifo!FifoNext

\* Every run of the queue is a run of a FIFO of capacity() = SIZE items: every
\* slot is used, however long state and index stores are delayed.
THEOREM Refinement == Spec => ImplementsFifo
<1>1. Init => Fifo!FifoInit
  BY DEF Init, Contents, Fifo!FifoInit
<1> QED
  BY <1>1, Invariance, FifoStep, PTL DEF Spec, ImplementsFifo, Fifo!FifoSpec
=============================================================================
