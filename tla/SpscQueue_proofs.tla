-------------------------- MODULE SpscQueue_proofs --------------------------
(***************************************************************************)
(* Proofs about SpscQueue for every SIZE, Value and both slot forms.       *)
(***************************************************************************)
EXTENDS SpscQueue, Integers, SequenceTheorems, TLAPS

-----------------------------------------------------------------------------
(* Facts about i % n *)

\* Indices less than a lap apart have different slots.
LEMMA ModInjective ==
  ASSUME NEW n \in Nat \ {0}, NEW i \in Nat, NEW j \in Nat, i < j, j < i + n
  PROVE  i % n # j % n
<1> DEFINE a == i \div n
           b == j \div n
<1>1. /\ a \in Int /\ b \in Int
      /\ i = (n * a) + (i % n)
      /\ j = (n * b) + (j % n)
  OBVIOUS
<1> HIDE DEF a, b
<1>2. SUFFICES ASSUME i % n = j % n PROVE FALSE
  OBVIOUS
<1>3. j - i = n * (b - a)
  BY <1>1, <1>2
<1>4. CASE b - a <= 0
  BY <1>1, <1>3, <1>4
<1>5. CASE b - a >= 1
  BY <1>1, <1>3, <1>5
<1> QED
  BY <1>1, <1>4, <1>5

-----------------------------------------------------------------------------

\* An index maps to a slot of the buffer.
LEMMA SlotRange ==
  ASSUME NEW i \in Nat
  PROVE  Slot(i) \in 0 .. MASK
BY SpscAssumption DEF Slot, MASK

\* Indices less than a lap apart have different slots.
LEMMA SlotInjective ==
  ASSUME NEW i \in Nat, NEW j \in Nat, i < j, j < i + SIZE
  PROVE  Slot(i) # Slot(j)
BY SpscAssumption, ModInjective DEF Slot

-----------------------------------------------------------------------------

\* The fresh queue satisfies the inductive invariant.
LEMMA InitInv == Init => IInv
<1> SUFFICES ASSUME Init PROVE IInv
  OBVIOUS
<1> USE SpscAssumption DEF Init
<1>1. TypeOK
  BY DEF TypeOK, MASK, ProducerPc, ConsumerPc
<1>2. IndexOrder /\ Decided
  BY DEF IndexOrder, Decided, MASK
<1>3. Filled /\ LiveObjects
  BY DEF Filled, LiveObjects
<1> QED
  BY <1>1, <1>2, <1>3 DEF IInv

\* Every step of either side, of an observer and of a store buffer preserves
\* the inductive invariant.
LEMMA NextInv == IInv /\ [Next]_vars => IInv'
<1> SUFFICES ASSUME IInv, [Next]_vars PROVE IInv'
  OBVIOUS
<1> USE SpscAssumption DEF IInv, TypeOK, ProducerPc, ConsumerPc
<1>0. MASK \in Nat
  BY DEF MASK
<1>1. ASSUME NEW v \in Value, NEW l \in {"loadTry", "loadSpin"},
             CallEmplace(v, l)
      PROVE  IInv'
  <2> USE <1>1 DEF CallEmplace, consVars
  <2>1. TypeOK'
    OBVIOUS
  <2>2. IndexOrder' /\ Decided'
    BY <1>0 DEF IndexOrder, Decided, Full
  <2>3. Filled' /\ LiveObjects'
    BY DEF Filled, LiveObjects
  <2> QED
    BY <2>1, <2>2, <2>3
<1>2. ASSUME LoadRead PROVE IInv'
  <2> USE <1>2 DEF LoadRead, consVars
  <2>1. TypeOK'
    OBVIOUS
  <2>2. IndexOrder' /\ Decided'
    BY <1>0 DEF IndexOrder, Decided, Full
  <2>3. Filled' /\ LiveObjects'
    BY DEF Filled, LiveObjects
  <2> QED
    BY <2>1, <2>2, <2>3
<1>3. ASSUME WriteSlot PROVE IInv'
  <2> USE <1>3 DEF WriteSlot, consVars
  <2>0. pVal \in Value /\ Slot(wIdx) \in 0 .. MASK /\ wIdx < rIdx + MASK
    BY <1>0, SlotRange DEF Decided, IndexOrder
  <2>1. TypeOK'
    BY <2>0
  <2>2. IndexOrder' /\ Decided'
    BY <1>0 DEF IndexOrder, Decided
  <2>3. \A i \in rIdx .. wIdx - 1 : Slot(i) # Slot(wIdx)
    <3> SUFFICES ASSUME NEW i \in rIdx .. wIdx - 1 PROVE Slot(i) # Slot(wIdx)
      OBVIOUS
    <3>1. i \in Nat /\ i < wIdx /\ wIdx < i + SIZE
      BY <2>0 DEF MASK
    <3> QED
      BY <3>1, SlotInjective
  <2>4. Filled'
    <3> SUFFICES ASSUME NEW i \in rIdx .. wIdx PROVE buf'[Slot(i)] \in Value
      BY DEF Filled
    <3>1. i \in Nat /\ Slot(i) \in 0 .. MASK
      BY SlotRange
    <3>2. CASE i = wIdx
      BY <2>0, <3>2
    <3>3. CASE i \in rIdx .. wIdx - 1
      BY <2>3, <3>1, <3>3 DEF Filled
    <3> QED
      BY <3>2, <3>3
  <2>5. LiveObjects'
    <3> SUFFICES ASSUME ~direct', NEW s \in 0 .. MASK
                 PROVE  buf'[s] # NoItem <=>
                          \E i \in rIdx .. wIdx : s = Slot(i)
      BY DEF LiveObjects
    <3>1. CASE s = Slot(wIdx)
      BY <2>0, <3>1 DEF IndexOrder
    <3>2. CASE s # Slot(wIdx)
      BY <2>0, <3>2 DEF LiveObjects
    <3> QED
      BY <3>1, <3>2
  <2> QED
    BY <2>1, <2>2, <2>4, <2>5
<1>4. ASSUME ConstructThrows PROVE IInv'
  <2> USE <1>4 DEF ConstructThrows, consVars
  <2>1. TypeOK'
    OBVIOUS
  <2>2. IndexOrder' /\ Decided'
    BY <1>0 DEF IndexOrder, Decided
  <2>3. Filled' /\ LiveObjects'
    BY DEF Filled, LiveObjects
  <2> QED
    BY <2>1, <2>2, <2>3
<1>5. ASSUME CommitWrite PROVE IInv'
  <2> USE <1>5 DEF CommitWrite, consVars, prodVars
  <2>1. TypeOK'
    OBVIOUS
  <2>2. IndexOrder' /\ Decided'
    BY <1>0 DEF IndexOrder, Decided
  <2>3. Filled' /\ LiveObjects'
    BY DEF Filled, LiveObjects
  <2> QED
    BY <2>1, <2>2, <2>3
<1>6. ASSUME NEW l \in {"loadTry", "loadSpin"}, CallPop(l) PROVE IInv'
  <2> USE <1>6 DEF CallPop, prodVars
  <2>1. TypeOK'
    OBVIOUS
  <2>2. IndexOrder' /\ Decided'
    BY <1>0 DEF IndexOrder, Decided
  <2>3. Filled' /\ LiveObjects'
    BY DEF Filled, LiveObjects
  <2> QED
    BY <2>1, <2>2, <2>3
<1>7. ASSUME CallFront PROVE IInv'
  <2> USE <1>7 DEF CallFront, prodVars
  <2>1. TypeOK'
    OBVIOUS
  <2>2. IndexOrder' /\ Decided'
    BY <1>0 DEF IndexOrder, Decided
  <2>3. Filled' /\ LiveObjects'
    BY DEF Filled, LiveObjects
  <2> QED
    BY <2>1, <2>2, <2>3
<1>8. ASSUME LoadWrite PROVE IInv'
  <2> USE <1>8 DEF LoadWrite, prodVars
  <2>1. TypeOK'
    OBVIOUS
  <2>2. IndexOrder' /\ Decided'
    BY <1>0 DEF IndexOrder, Decided
  <2>3. Filled' /\ LiveObjects'
    BY DEF Filled, LiveObjects
  <2> QED
    BY <2>1, <2>2, <2>3
<1>9. ASSUME TakeSlot, cPc \in {"read", "holding"} PROVE IInv'
  <2> USE <1>9 DEF TakeSlot, prodVars
  <2>0. /\ pPc # "destroyed" /\ rIdx < wIdx
        /\ Slot(rIdx) \in 0 .. MASK /\ buf[Slot(rIdx)] \in Value
    <3>1. pPc # "destroyed" /\ rIdx < wIdx
      BY <1>0 DEF Decided, IndexOrder
    <3>2. rIdx \in rIdx .. wIdx - 1
      BY <3>1
    <3> QED
      BY <3>1, <3>2, SlotRange DEF Filled
  <2>1. TypeOK'
    BY <2>0
  <2>2. IndexOrder' /\ Decided'
    BY <1>0 DEF IndexOrder, Decided
  <2>3. \A i \in rIdx + 1 .. wIdx - 1 : Slot(i) # Slot(rIdx)
    <3> SUFFICES ASSUME NEW i \in rIdx + 1 .. wIdx - 1
                 PROVE  Slot(i) # Slot(rIdx)
      OBVIOUS
    <3>1. i \in Nat /\ rIdx < i /\ i < rIdx + SIZE
      BY <1>0 DEF MASK, IndexOrder
    <3> QED
      BY <3>1, SlotInjective
  <2>4. Filled'
    <3> SUFFICES ASSUME NEW i \in rIdx + 1 .. wIdx - 1
                 PROVE  buf'[Slot(i)] \in Value
      BY DEF Filled
    <3>1. i \in Nat /\ i \in rIdx .. wIdx - 1 /\ Slot(i) # Slot(rIdx)
      BY <2>3
    <3>2. Slot(i) \in 0 .. MASK /\ buf[Slot(i)] \in Value
      BY <2>0, <3>1, SlotRange DEF Filled
    <3> QED
      BY <3>1, <3>2
  <2>5. LiveObjects'
    <3> SUFFICES ASSUME ~direct', NEW s \in 0 .. MASK
                 PROVE  buf'[s] # NoItem <=>
                          \E i \in rIdx + 1 .. wIdx - 1 : s = Slot(i)
      BY <2>0 DEF LiveObjects
    <3>1. CASE s = Slot(rIdx)
      BY <2>0, <2>3, <3>1
    <3>2. CASE s # Slot(rIdx)
      BY <2>0, <3>2 DEF LiveObjects
    <3> QED
      BY <3>1, <3>2
  <2> QED
    BY <2>1, <2>2, <2>4, <2>5
<1>10. ASSUME CommitRead PROVE IInv'
  <2> USE <1>10 DEF CommitRead, prodVars, consVars
  <2>1. TypeOK'
    OBVIOUS
  <2>2. IndexOrder' /\ Decided'
    BY <1>0 DEF IndexOrder, Decided
  <2>3. Filled' /\ LiveObjects'
    BY DEF Filled, LiveObjects
  <2> QED
    BY <2>1, <2>2, <2>3
<1>11. ASSUME SizeLoadRead PROVE IInv'
  <2> USE <1>11 DEF SizeLoadRead, prodVars, consVars
  <2>1. TypeOK'
    OBVIOUS
  <2>2. IndexOrder' /\ Decided'
    BY <1>0 DEF IndexOrder, Decided
  <2>3. Filled' /\ LiveObjects'
    BY DEF Filled, LiveObjects
  <2> QED
    BY <2>1, <2>2, <2>3
<1>12. ASSUME Destroy PROVE IInv'
  <2> USE <1>12 DEF Destroy, consVars
  <2>1. TypeOK'
    OBVIOUS
  <2>2. IndexOrder' /\ Decided'
    BY <1>0 DEF IndexOrder, Decided
  <2>3. Filled' /\ LiveObjects'
    BY DEF Filled, LiveObjects
  <2> QED
    BY <2>1, <2>2, <2>3
<1>13. CASE UNCHANGED vars
  BY <1>13 DEF vars, IndexOrder, Decided, Filled, LiveObjects
<1> QED
  BY <1>1, <1>2, <1>3, <1>4, <1>5, <1>6, <1>7, <1>8, <1>9, <1>10, <1>11,
     <1>12, <1>13
  DEF Next, ProducerStep, ConsumerStep, ReadSlot, PopFront

\* The inductive invariant holds in every run of the queue, whatever SIZE,
\* Value, direct and the number of items.
THEOREM Invariance == Spec => []IInv
BY InitInv, NextInv, PTL DEF Spec

\* Variables keep their types; in particular the consumer is never handed a
\* slot that holds no live element.
THEOREM TypeCorrect == Spec => []TypeOK
BY Invariance, PTL DEF IInv

\* emplace never writes the slot that pop reads or a front() pointer names.
THEOREM RaceFreedom == Spec => []NoDataRace
<1>1. IInv => NoDataRace
  <2> SUFFICES ASSUME IInv, pPc = "write", cPc \in {"read", "holding"}
               PROVE  Slot(wIdx) # Slot(rIdx)
    BY DEF NoDataRace
  <2>1. /\ rIdx \in Nat /\ wIdx \in Nat
        /\ rIdx < wIdx /\ wIdx < rIdx + SIZE
    BY SpscAssumption DEF IInv, TypeOK, IndexOrder, Decided, MASK
  <2> QED
    BY <2>1, SlotInjective
<1> QED
  BY <1>1, Invariance, PTL

\* size() never returns a wrapped difference, to whichever thread calls it.
THEOREM SizeSafe == Spec => []SizeNeverUnderflows
<1>1. IInv => SizeNeverUnderflows
  BY DEF IInv, TypeOK, IndexOrder, SizeNeverUnderflows
<1> QED
  BY <1>1, Invariance, PTL

\* spsc_final constructs into dead storage only, destroys each object once and
\* leaks none.
THEOREM LifetimesSafe == Spec => []LiveObjects
BY Invariance, PTL DEF IInv

-----------------------------------------------------------------------------
(* The queue implements BoundedFifo. *)

\* Contents is a sequence: one value per index between the two sides' own.
ContentsTyped == /\ Contents \in Seq(Value)
                 /\ Len(Contents) = wIdx - rIdx
                 /\ \A k \in 1 .. wIdx - rIdx :
                      Contents[k] = buf[Slot(rIdx + k - 1)]

\* While the queue lives, its contents are such a sequence.
LEMMA ContentsSeq == IInv /\ pPc # "destroyed" => ContentsTyped
<1> SUFFICES ASSUME IInv, pPc # "destroyed" PROVE ContentsTyped
  OBVIOUS
<1>1. wIdx - rIdx \in Nat
  BY DEF IInv, TypeOK, IndexOrder
<1>2. ASSUME NEW k \in 1 .. wIdx - rIdx
      PROVE  buf[Slot(rIdx + k - 1)] \in Value
  <2>1. rIdx + k - 1 \in rIdx .. wIdx - 1
    BY <1>1 DEF IInv, TypeOK
  <2> QED
    BY <2>1 DEF IInv, Filled
<1> QED
  BY <1>1, <1>2 DEF Contents, ContentsTyped

\* Under the invariant, storing an element is Enqueue, taking one Dequeue, the
\* destructor Discard, and every other step leaves the FIFO unchanged.
LEMMA FifoStep == IInv /\ IInv' /\ [Next]_vars => [Fifo!FifoNext]_(Fifo!fifoVars)
<1> SUFFICES ASSUME IInv, IInv', [Next]_vars
             PROVE  [Fifo!FifoNext]_(Fifo!fifoVars)
  OBVIOUS
<1>0. rIdx \in Nat /\ wIdx \in Nat /\ rIdx <= wIdx /\ MASK \in Nat
  BY SpscAssumption DEF IInv, TypeOK, IndexOrder, MASK
<1>c. pPc' # "destroyed" =>
        /\ Contents' \in Seq(Value)
        /\ Len(Contents') = wIdx' - rIdx'
        /\ \A k \in 1 .. wIdx' - rIdx' :
             Contents'[k] = buf'[Slot(rIdx' + k - 1)]
  <2>1. (IInv /\ pPc # "destroyed" => ContentsTyped)'
    BY ContentsSeq, PTL
  <2> QED
    BY <2>1 DEF ContentsTyped
<1>1. ASSUME WriteSlot PROVE Fifo!Enqueue(pVal) /\ pVal \in Value
  <2> USE <1>1 DEF WriteSlot, consVars
  <2>1. pVal \in Value /\ pPc' # "destroyed" /\ pPc # "destroyed"
    BY DEF IInv, Decided
  <2>2. wIdx - rIdx < MASK
    BY <1>0, SpscAssumption DEF IInv, TypeOK, IndexOrder, Decided, MASK
  <2>3. \A k \in 1 .. wIdx - rIdx :
          buf'[Slot(rIdx + k - 1)] = buf[Slot(rIdx + k - 1)]
    <3> SUFFICES ASSUME NEW k \in 1 .. wIdx - rIdx
                 PROVE  buf'[Slot(rIdx + k - 1)] = buf[Slot(rIdx + k - 1)]
      OBVIOUS
    <3>1. /\ rIdx + k - 1 \in Nat
          /\ rIdx + k - 1 < wIdx /\ wIdx < (rIdx + k - 1) + SIZE
      BY <1>0, <2>2, SpscAssumption DEF MASK
    <3>2. /\ Slot(rIdx + k - 1) # Slot(wIdx)
          /\ Slot(rIdx + k - 1) \in 0 .. MASK
      BY <1>0, <3>1, SlotInjective, SlotRange
    <3> QED
      BY <3>2 DEF IInv, TypeOK
  <2>4. buf'[Slot(wIdx)] = pVal
    BY <1>0, SlotRange DEF IInv, TypeOK
  <2>5. Contents' = Append(Contents, pVal)
    <3>1. /\ Contents' \in Seq(Value)
          /\ Len(Contents') = wIdx - rIdx + 1
          /\ \A k \in 1 .. wIdx - rIdx + 1 :
               Contents'[k] = buf'[Slot(rIdx + k - 1)]
      BY <1>0, <1>c
    <3>2. /\ Append(Contents, pVal) \in Seq(Value)
          /\ Len(Append(Contents, pVal)) = wIdx - rIdx + 1
          /\ \A k \in 1 .. wIdx - rIdx : Append(Contents, pVal)[k] = Contents[k]
          /\ Append(Contents, pVal)[wIdx - rIdx + 1] = pVal
      BY <1>0, <2>1, ContentsSeq DEF ContentsTyped
    <3>3. \A k \in 1 .. wIdx - rIdx + 1 :
            Contents'[k] = Append(Contents, pVal)[k]
      <4> SUFFICES ASSUME NEW k \in 1 .. wIdx - rIdx + 1
                   PROVE  Contents'[k] = Append(Contents, pVal)[k]
        OBVIOUS
      <4>1. CASE k \in 1 .. wIdx - rIdx
        BY <2>1, <2>3, <3>1, <3>2, <4>1, ContentsSeq DEF ContentsTyped
      <4>2. CASE k = wIdx - rIdx + 1
        <5>1. rIdx + k - 1 = wIdx
          BY <1>0, <4>2
        <5> QED
          BY <2>4, <3>1, <3>2, <4>2, <5>1
      <4>3. k \in 1 .. wIdx - rIdx \/ k = wIdx - rIdx + 1
        BY <1>0
      <4> QED
        BY <4>1, <4>2, <4>3
    <3> QED
      BY <3>1, <3>2, <3>3, SeqEqual
  <2> QED
    BY <2>1, <2>2, <2>5, ContentsSeq DEF ContentsTyped, Fifo!Enqueue
<1>2. ASSUME TakeSlot, cPc \in {"read", "holding"} PROVE Fifo!Dequeue
  <2> USE <1>2 DEF TakeSlot, prodVars
  <2>1. pPc # "destroyed" /\ pPc' # "destroyed" /\ rIdx < wIdx
    BY <1>0 DEF IInv, TypeOK, Decided, IndexOrder
  <2>2. /\ Contents \in Seq(Value) /\ Len(Contents) = wIdx - rIdx
        /\ \A k \in 1 .. wIdx - rIdx : Contents[k] = buf[Slot(rIdx + k - 1)]
    BY <2>1, ContentsSeq DEF ContentsTyped
  <2>3. /\ Contents' \in Seq(Value) /\ Len(Contents') = wIdx - (rIdx + 1)
        /\ \A k \in 1 .. wIdx - (rIdx + 1) :
             Contents'[k] = buf'[Slot((rIdx + 1) + k - 1)]
    BY <2>1, <1>c
  <2>4. Contents # <<>> /\ Head(Contents) = buf[Slot(rIdx)]
    <3>1. Contents[1] = buf[Slot(rIdx + 1 - 1)] /\ rIdx + 1 - 1 = rIdx
      BY <1>0, <2>1, <2>2
    <3> QED
      BY <1>0, <2>1, <2>2, <3>1
  <2>5. ASSUME NEW k \in 1 .. wIdx - (rIdx + 1)
        PROVE  buf'[Slot(rIdx + k)] = buf[Slot(rIdx + k)]
    <3>1. rIdx + k \in Nat /\ rIdx < rIdx + k /\ rIdx + k < rIdx + SIZE
      BY <1>0, SpscAssumption DEF IInv, TypeOK, IndexOrder, MASK
    <3> QED
      BY <1>0, <3>1, SlotInjective DEF IInv, TypeOK
  <2>6. Contents' = Tail(Contents)
    <3>1. /\ Tail(Contents) \in Seq(Value)
          /\ Len(Tail(Contents)) = wIdx - (rIdx + 1)
          /\ \A k \in 1 .. wIdx - (rIdx + 1) : Tail(Contents)[k] = Contents[k + 1]
      BY <1>0, <2>2, <2>4, HeadTailProperties
    <3>2. ASSUME NEW k \in 1 .. wIdx - (rIdx + 1)
          PROVE  Contents'[k] = Tail(Contents)[k]
      <4>1. /\ k + 1 \in 1 .. wIdx - rIdx
            /\ rIdx + (k + 1) - 1 = rIdx + k /\ (rIdx + 1) + k - 1 = rIdx + k
        BY <1>0
      <4> QED
        BY <2>2, <2>3, <2>5, <3>1, <4>1
    <3> QED
      BY <2>3, <3>1, <3>2, SeqEqual
  <2> QED
    BY <2>1, <2>4, <2>6 DEF Fifo!Dequeue
<1>3. ASSUME Destroy PROVE Fifo!Discard
  BY <1>3 DEF Destroy, consVars, Contents, Fifo!Discard
<1>4. ASSUME UNCHANGED <<rIdx, wIdx, buf, delivered>>,
             pPc' = "destroyed" <=> pPc = "destroyed"
      PROVE  UNCHANGED Fifo!fifoVars
  BY <1>4 DEF Contents, Fifo!fifoVars
<1>5. ASSUME NEW v \in Value, NEW l \in {"loadTry", "loadSpin"},
             CallEmplace(v, l)
      PROVE  UNCHANGED Fifo!fifoVars
  BY <1>4, <1>5 DEF CallEmplace, consVars
<1>6. ASSUME LoadRead \/ ConstructThrows PROVE UNCHANGED Fifo!fifoVars
  BY <1>4, <1>6 DEF LoadRead, ConstructThrows, consVars
<1>7. ASSUME NEW l \in {"loadTry", "loadSpin"}, CallPop(l)
      PROVE  UNCHANGED Fifo!fifoVars
  BY <1>4, <1>7 DEF CallPop, prodVars
<1>8. ASSUME CallFront \/ LoadWrite PROVE UNCHANGED Fifo!fifoVars
  BY <1>4, <1>8 DEF CallFront, LoadWrite, prodVars
<1>9. ASSUME CommitWrite \/ CommitRead \/ SizeLoadRead
      PROVE  UNCHANGED Fifo!fifoVars
  BY <1>4, <1>9 DEF CommitWrite, CommitRead, SizeLoadRead, prodVars, consVars
<1>10. CASE UNCHANGED vars
  BY <1>4, <1>10 DEF vars
<1> QED
  BY <1>1, <1>2, <1>3, <1>5, <1>6, <1>7, <1>8, <1>9, <1>10
  DEF Next, ProducerStep, ConsumerStep, ReadSlot, PopFront, Fifo!FifoNext

\* Every run of the queue is a run of a FIFO of capacity() = SIZE - 1 items,
\* for every SIZE, every value type and both storage forms.
THEOREM Refinement == Spec => ImplementsFifo
<1>1. Init => Fifo!FifoInit
  BY DEF Init, Contents, Fifo!FifoInit
<1> QED
  BY <1>1, Invariance, FifoStep, PTL DEF Spec, ImplementsFifo, Fifo!FifoSpec
=============================================================================
