----------------------------- MODULE SpscState -----------------------------
(***************************************************************************)
(* The single-producer single-consumer queue of include/spsc_test.h: one   *)
(* state byte per slot (Empty, Stored) instead of published indices.  The  *)
(* indices are plain members, each written by one side only, after the     *)
(* state byte; size() reads both of them without synchronisation.  Every   *)
(* slot is used, and SIZE = 1 works.                                       *)
(*                                                                         *)
(* Memory.  A side's stores (state byte, then index, for one item after    *)
(* the other) go through its store buffer and reach memory in this order,  *)
(* some time later; the side itself sees them at once.  Slot accesses come *)
(* before the state byte that publishes them.                              *)
(***************************************************************************)
EXTENDS Integers, Sequences

CONSTANTS SIZE,        \* the template argument, a power of two
          Value,       \* element values
          NoItem,      \* what a slot without a live object holds
          MaxItems     \* bound: elements emplaced in a run

CAPACITY == SIZE
Slots == 0 .. SIZE - 1
Slot(i) == i % SIZE

ASSUME StateAssumption == /\ SIZE \in Nat \ {0}
                          /\ NoItem \notin Value
                          /\ MaxItems \in Nat

VARIABLES
  states,      \* states_, as memory holds them
  buf,         \* buffer_
  wIdx, rIdx,  \* write_index_ and read_index_ as their own side sees them
  stW, stR,    \* how many of the side's state stores have reached memory
  memW, memR,  \* write_index_ and read_index_, as memory holds them
  pPc, pVal,   \* where the producer is, and the value it emplaces
  cPc,         \* where the consumer is
  delivered,   \* history: the values handed to the consumer
  obsPc,       \* which index a caller of size() has loaded so far
  obsIdx,      \* the index it loaded
  obsMark      \* history: where the other side was when it did so

prodVars == <<wIdx, stW, memW, pPc, pVal>>
consVars == <<rIdx, stR, memR, cPc, delivered>>
obsVars == <<obsPc, obsIdx, obsMark>>
vars == <<states, buf, prodVars, consVars, obsVars>>

TypeOK ==
  /\ states \in [Slots -> {"Empty", "Stored"}]
  /\ buf \in [Slots -> Value \union {NoItem}]
  /\ {wIdx, rIdx, stW, stR, memW, memR, obsIdx, obsMark} \subseteq Nat
  /\ pPc \in {"idle", "loadTry", "loadSpin", "write", "destroyed"}
  /\ pVal \in Value \union {NoItem}
  /\ cPc \in {"idle", "loadTry", "loadSpin", "read"}
  /\ delivered \in Seq(Value)
  /\ obsPc \in {"idle", "haveWrite", "haveRead"}

Init ==
  /\ states = [s \in Slots |-> "Empty"]
  /\ buf = [s \in Slots |-> NoItem]
  /\ wIdx = 0 /\ stW = 0 /\ memW = 0 /\ pPc = "idle" /\ pVal = NoItem
  /\ rIdx = 0 /\ stR = 0 /\ memR = 0 /\ cPc = "idle" /\ delivered = <<>>
  /\ obsPc = "idle" /\ obsIdx = 0 /\ obsMark = 0

-----------------------------------------------------------------------------
(* Producer: emplace ("loadSpin") and try_emplace ("loadTry") *)

CallEmplace(v, loadPc) ==
  /\ pPc = "idle" /\ wIdx < MaxItems
  /\ pVal' = v /\ pPc' = loadPc
  /\ UNCHANGED <<states, buf, wIdx, stW, memW, consVars, obsVars>>

\* The state byte of the next slot: the side's own store, as long as it is
\* buffered, and memory otherwise.
ProducerSees == IF stW + SIZE <= wIdx THEN "Stored" ELSE states[Slot(wIdx)]

LoadEmpty ==
  /\ pPc \in {"loadTry", "loadSpin"}
  /\ pPc' = IF ProducerSees = "Empty" THEN "write"
            ELSE IF pPc = "loadTry" THEN "idle" ELSE "loadSpin"
  /\ pVal' = IF pPc' = "idle" THEN NoItem ELSE pVal
  /\ UNCHANGED <<states, buf, wIdx, stW, memW, consVars, obsVars>>

\* Construct the element, issue the state store and the index store.
WriteSlot ==
  /\ pPc = "write"
  /\ buf' = [buf EXCEPT ![Slot(wIdx)] = pVal]
  /\ wIdx' = wIdx + 1
  /\ pPc' = "idle" /\ pVal' = NoItem
  /\ UNCHANGED <<states, stW, memW, consVars, obsVars>>

\* The constructor of T throws: nothing has been stored.
ConstructThrows ==
  /\ pPc = "write"
  /\ pPc' = "idle" /\ pVal' = NoItem
  /\ UNCHANGED <<states, buf, wIdx, stW, memW, consVars, obsVars>>

\* Mutants: the state byte is stored before the element is constructed; index
\* stores are put off for several items.
CommitStoredMutant ==
  /\ stW < (IF pPc = "write" THEN wIdx + 1 ELSE wIdx) /\ memW = stW
  /\ states' = [states EXCEPT ![Slot(stW)] = "Stored"]
  /\ stW' = stW + 1
  /\ UNCHANGED <<buf, wIdx, memW, pPc, pVal, consVars, obsVars>>

CommitStoredLateMutant ==
  /\ stW < wIdx
  /\ states' = [states EXCEPT ![Slot(stW)] = "Stored"]
  /\ stW' = stW + 1
  /\ UNCHANGED <<buf, wIdx, memW, pPc, pVal, consVars, obsVars>>

CommitStored ==
  /\ stW < wIdx /\ memW = stW
  /\ states' = [states EXCEPT ![Slot(stW)] = "Stored"]
  /\ stW' = stW + 1
  /\ UNCHANGED <<buf, wIdx, memW, pPc, pVal, consVars, obsVars>>

CommitWriteIndex ==
  /\ memW < stW
  /\ memW' = memW + 1
  /\ UNCHANGED <<states, buf, wIdx, stW, pPc, pVal, consVars, obsVars>>

-----------------------------------------------------------------------------
(* Consumer: pop ("loadSpin") and try_pop ("loadTry") *)

CallPop(loadPc) ==
  /\ cPc = "idle" /\ pPc # "destroyed"
  /\ cPc' = loadPc
  /\ UNCHANGED <<states, buf, prodVars, rIdx, stR, memR, delivered, obsVars>>

ConsumerSees == IF stR + SIZE <= rIdx THEN "Empty" ELSE states[Slot(rIdx)]

LoadStored ==
  /\ cPc \in {"loadTry", "loadSpin"}
  /\ cPc' = IF ConsumerSees = "Stored" THEN "read"
            ELSE IF cPc = "loadTry" THEN "idle" ELSE "loadSpin"
  /\ UNCHANGED <<states, buf, prodVars, rIdx, stR, memR, delivered, obsVars>>

\* Mutant: the element is moved out and not destroyed.
TakeSlotMutant ==
  /\ cPc = "read"
  /\ delivered' = Append(delivered, buf[Slot(rIdx)])
  /\ rIdx' = rIdx + 1
  /\ cPc' = "idle"
  /\ UNCHANGED <<states, buf, prodVars, stR, memR, obsVars>>

\* Move the element out, destroy it, issue the state store and the index store.
TakeSlot ==
  /\ cPc = "read"
  /\ delivered' = Append(delivered, buf[Slot(rIdx)])
  /\ buf' = [buf EXCEPT ![Slot(rIdx)] = NoItem]
  /\ rIdx' = rIdx + 1
  /\ cPc' = "idle"
  /\ UNCHANGED <<states, prodVars, stR, memR, obsVars>>

\* Mutant: the slot is not given back.
CommitEmptyLostMutant ==
  /\ stR < rIdx /\ memR = stR
  /\ stR' = stR + 1
  /\ UNCHANGED <<states, buf, prodVars, rIdx, memR, cPc, delivered, obsVars>>

CommitEmpty ==
  /\ stR < rIdx /\ memR = stR
  /\ states' = [states EXCEPT ![Slot(stR)] = "Empty"]
  /\ stR' = stR + 1
  /\ UNCHANGED <<buf, prodVars, rIdx, memR, cPc, delivered, obsVars>>

CommitReadIndex ==
  /\ memR < stR
  /\ memR' = memR + 1
  /\ UNCHANGED <<states, buf, prodVars, rIdx, stR, cPc, delivered, obsVars>>

-----------------------------------------------------------------------------

(* Any thread: size() loads the two indices one after the other, in an order   *)
(* the compiler chooses, with any number of steps of both sides in between.    *)

SizeFirstLoad ==
  /\ obsPc = "idle" /\ pPc # "destroyed"
  /\ \/ obsPc' = "haveRead"  /\ obsIdx' = memR /\ obsMark' = wIdx
     \/ obsPc' = "haveWrite" /\ obsIdx' = memW /\ obsMark' = rIdx
  /\ UNCHANGED <<states, buf, prodVars, consVars>>

\* The second load.  What size() returns, were it now:
SizeSeen == IF obsPc = "haveRead" THEN memW - obsIdx ELSE obsIdx - memR

SizeReturn ==
  /\ obsPc # "idle"
  /\ obsPc' = "idle" /\ obsIdx' = 0 /\ obsMark' = 0
  /\ UNCHANGED <<states, buf, prodVars, consVars>>

-----------------------------------------------------------------------------

\* The destructor runs when nobody uses the queue any more and the stores of
\* both sides are visible.
Destroy ==
  /\ pPc = "idle" /\ cPc = "idle" /\ obsPc = "idle"
  /\ memW = wIdx /\ memR = rIdx
  /\ pPc' = "destroyed"
  /\ buf' = [s \in Slots |->
               IF \E i \in memR .. memW - 1 : s = Slot(i) THEN NoItem
                                                          ELSE buf[s]]
  /\ UNCHANGED <<states, wIdx, stW, memW, pVal, consVars, obsVars>>

ProducerStep == LoadEmpty \/ WriteSlot \/ ConstructThrows
ConsumerStep == LoadStored \/ TakeSlot
CommitProducer == CommitStored \/ CommitWriteIndex
CommitConsumer == CommitEmpty \/ CommitReadIndex

Next ==
  \/ \E pc \in {"loadTry", "loadSpin"} :
       CallPop(pc) \/ \E v \in Value : CallEmplace(v, pc)
  \/ ProducerStep \/ ConsumerStep \/ CommitProducer \/ CommitConsumer
  \/ SizeFirstLoad \/ SizeReturn
  \/ Destroy

Spec == Init /\ [][Next]_vars

\* A running thread takes its next step and a buffered store drains; nobody
\* is obliged to call an operation.
FairSpec == Spec /\ WF_vars(ProducerStep) /\ WF_vars(ConsumerStep)
                 /\ WF_vars(CommitProducer) /\ WF_vars(CommitConsumer)

-----------------------------------------------------------------------------
(* Properties *)

\* The order in which the stores of both sides become visible: the consumer
\* never passes the state bytes it sees, nor the producer those it sees, and
\* an index reaches memory right after its state byte.
StoreOrder ==
  /\ memR <= stR /\ stR <= rIdx /\ rIdx <= stW /\ stW <= wIdx
  /\ wIdx <= stR + SIZE
  /\ memW <= stW /\ stW <= memW + 1 /\ stR <= memR + 1

\* The state byte of a slot says whose turn it is, on every lap.
StatesRight ==
  \A s \in Slots :
    states[s] = "Stored" <=> \E i \in stR .. stW - 1 : s = Slot(i)

\* What a side has found out stays true until it acts on it.
Decided ==
  /\ pPc \in {"loadTry", "loadSpin", "write"} => pVal \in Value
  /\ pPc = "write" => wIdx < stR + SIZE
  /\ cPc = "read" => rIdx < stW
  /\ pPc = "destroyed" => cPc = "idle"

\* A slot holds a live object exactly while its item waits to be popped:
\* nothing is constructed over a live object, a throwing constructor leaves
\* none behind, and the destructor destroys what is left, once.
LiveObjects ==
  \A s \in Slots :
    buf[s] # NoItem <=> /\ pPc # "destroyed"
                        /\ \E i \in rIdx .. wIdx - 1 : s = Slot(i)

\* What a caller of size() has loaded: an index that the same side can only
\* have moved on, and not far from where the other side was at that time.
Observed ==
  /\ obsPc = "haveRead"  => obsIdx <= memR /\ obsMark <= obsIdx + SIZE + 1
  /\ obsPc = "haveWrite" => obsIdx <= memR + SIZE + 1 /\ obsMark <= obsIdx + 1

\* The inductive invariant behind the other properties: state bytes, indices,
\* decisions and slots agree after every step of either side.
IInv ==
  TypeOK /\ StoreOrder /\ StatesRight /\ Decided /\ LiveObjects /\ Observed

\* The producer never writes the slot the consumer is reading.
NoDataRace == pPc = "write" /\ cPc = "read" => Slot(wIdx) # Slot(rIdx)

\* size() called by a third thread: every item that passes between its two
\* loads falsifies the answer by one, on the side the load order decides.  With
\* the read index first it never falls below -1, but may exceed capacity() by one
\* and by what is emplaced meanwhile; with the write index first it never exceeds
\* capacity() by more than one, but falls below -1 (the unsigned difference
\* wraps) by as much as is popped meanwhile.
SizeFromOutside ==
  /\ obsPc = "haveRead" =>
       SizeSeen \in -1 .. CAPACITY + 1 + (wIdx - obsMark)
  /\ obsPc = "haveWrite" =>
       SizeSeen \in -1 - (rIdx - obsMark) .. CAPACITY + 1

\* size() called by one of the two sides, whose own index stands still: for the
\* producer it never wraps, but may exceed capacity() by one; for the consumer
\* it never exceeds capacity(), but may wrap to -1: it has popped an item its
\* producer has published and not yet counted.
SizeFromSides ==
  /\ wIdx - memR \in 0 .. CAPACITY + 1
  /\ memW - rIdx \in -1 .. CAPACITY

\* What size() can return, whoever calls it.
SizeBounds == SizeFromOutside /\ SizeFromSides

\* The queue is a FIFO of at most CAPACITY items: every slot is used.
Contents == IF pPc = "destroyed" THEN <<>>
            ELSE [k \in 1 .. wIdx - rIdx |-> buf[Slot(rIdx + k - 1)]]
Fifo == INSTANCE BoundedFifo WITH Capacity <- CAPACITY, q <- Contents,
                                  open <- (pPc # "destroyed")
\* Every interleaving of the operations, with any delay of the stores, hands
\* over the emplaced values in order, each once.
ImplementsFifo == Fifo!FifoSpec

\* A spinning emplace or pop returns once there is room, or an item.
BlockingOpsComplete ==
  /\ pPc = "loadSpin" /\ wIdx < rIdx + CAPACITY ~> pPc = "idle"
  /\ cPc = "loadSpin" /\ rIdx < wIdx ~> cPc = "idle"
=============================================================================
