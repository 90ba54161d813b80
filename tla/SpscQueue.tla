----------------------------- MODULE SpscQueue -----------------------------
(***************************************************************************)
(* The single-producer single-consumer queues that count operations:       *)
(* include/spsc_4.h, spsc_5.h and spsc_final.h.  Each side keeps a private *)
(* index and a cached copy of the other side's index, and publishes its    *)
(* own index in an atomic.  The three files differ in their pause policy   *)
(* and in the storage of a slot (spsc_final constructs and destroys the    *)
(* element when T is not trivial: ~direct).                                *)
(*                                                                         *)
(* Memory.  An index store goes to the store buffer of its thread and      *)
(* becomes visible later (CommitWrite, CommitRead); the thread runs ahead  *)
(* of it, and the other side and any caller of size() see the old value.   *)
(* Slot accesses are ordered before the index store of the same side, as   *)
(* the release order (and every x86 store) has it.                         *)
(***************************************************************************)
EXTENDS Naturals, Sequences

CONSTANTS SIZE,         \* the template argument, a power of two
          Value,        \* element values
          NoItem,       \* what a slot without a live object holds
          MaxItems      \* bound: elements emplaced in a run

MASK == SIZE - 1
Slot(i) == i % SIZE

ASSUME SpscAssumption == /\ SIZE \in Nat \ {0}
                         /\ NoItem \notin Value
                         /\ MaxItems \in Nat

VARIABLES
  direct,          \* DIRECT_SLOTS of spsc_final; TRUE for spsc_4, spsc_5
  wIdx, rCache,    \* producer_.write_index_, producer_.read_index_cache_
  pubW,            \* published_write_.write_index_, as memory holds it
  rIdx, wCache,    \* consumer_.read_index_, consumer_.write_index_cache_
  pubR,            \* published_read_.read_index_, as memory holds it
  buf,             \* buffer_
  pPc, pVal,       \* where the producer is, and the value it emplaces
  cPc,             \* where the consumer is
  obsR,            \* what the first load of size() returned to an observer
  delivered        \* history: the values handed to the consumer

prodVars == <<wIdx, rCache, pPc, pVal>>
consVars == <<rIdx, wCache, cPc, delivered>>
vars == <<direct, wIdx, rCache, pubW, rIdx, wCache, pubR, buf, pPc, pVal, cPc,
          obsR, delivered>>

ProducerPc == {"idle", "loadTry", "loadSpin", "write", "destroyed"}
ConsumerPc == {"idle", "loadTry", "loadSpin", "loadFront", "read", "holding"}

TypeOK ==
  /\ direct \in BOOLEAN
  /\ wIdx \in Nat /\ rCache \in Nat /\ pubW \in Nat
  /\ rIdx \in Nat /\ wCache \in Nat /\ pubR \in Nat
  /\ buf \in [0 .. MASK -> Value \union {NoItem}]
  /\ pPc \in ProducerPc /\ pVal \in Value \union {NoItem}
  /\ cPc \in ConsumerPc
  /\ obsR \in Nat
  /\ delivered \in Seq(Value)

Init ==
  /\ direct \in BOOLEAN
  /\ wIdx = 0 /\ rCache = 0 /\ pubW = 0
  /\ rIdx = 0 /\ wCache = 0 /\ pubR = 0
  /\ buf = [s \in 0 .. MASK |-> NoItem]
  /\ pPc = "idle" /\ pVal = NoItem
  /\ cPc = "idle"
  /\ obsR = 0
  /\ delivered = <<>>

-----------------------------------------------------------------------------
(* Producer *)

\* Mutant: full is "more than SIZE" in place of "SIZE - 1 or more".
FullMutant(cache) == wIdx > cache + SIZE

Full(cache) == wIdx = cache + MASK

\* emplace (pc "loadSpin") and try_emplace ("loadTry"): the private test
\* against the cached read index decides whether the atomic is loaded.
CallEmplace(v, loadPc) ==
  /\ pPc = "idle" /\ wIdx < MaxItems
  /\ pVal' = v
  /\ pPc' = IF Full(rCache) THEN loadPc ELSE "write"
  /\ UNCHANGED <<direct, wIdx, rCache, pubW, pubR, buf, obsR, consVars>>

\* Mutant: the loop tests the old cached index again.
LoadReadMutant ==
  /\ pPc \in {"loadTry", "loadSpin"}
  /\ pPc' = IF ~Full(rCache) THEN "write"
            ELSE IF pPc = "loadTry" THEN "idle" ELSE "loadSpin"
  /\ UNCHANGED <<direct, wIdx, rCache, pVal, pubW, pubR, buf, obsR, consVars>>

\* Reload the cache.  A full queue sends try_emplace home and emplace round
\* its loop.
LoadRead ==
  /\ pPc \in {"loadTry", "loadSpin"}
  /\ rCache' = pubR
  /\ pPc' = CASE ~Full(pubR)       -> "write"
              [] pPc = "loadTry"   -> "idle"
              [] OTHER             -> "loadSpin"
  /\ pVal' = IF pPc' = "idle" THEN NoItem ELSE pVal
  /\ UNCHANGED <<direct, wIdx, pubW, pubR, buf, obsR, consVars>>

\* Store the element and issue the store of the next index.
WriteSlot ==
  /\ pPc = "write"
  /\ buf' = [buf EXCEPT ![Slot(wIdx)] = pVal]
  /\ wIdx' = wIdx + 1
  /\ pPc' = "idle" /\ pVal' = NoItem
  /\ UNCHANGED <<direct, rCache, pubW, pubR, obsR, consVars>>

\* The constructor of T may throw in spsc_final's emplace(Args...): nothing
\* has been stored and no index has moved.
ConstructThrows ==
  /\ pPc = "write"
  /\ pPc' = "idle" /\ pVal' = NoItem
  /\ UNCHANGED <<direct, wIdx, rCache, pubW, pubR, buf, obsR, consVars>>

\* Mutant: the index is published before the element is stored.
CommitWriteMutant ==
  /\ pubW < IF pPc = "write" THEN wIdx + 1 ELSE wIdx
  /\ pubW' = pubW + 1
  /\ UNCHANGED <<direct, pubR, buf, obsR, prodVars, consVars>>

\* The oldest index store in the producer's store buffer reaches memory.
CommitWrite ==
  /\ pubW < wIdx
  /\ pubW' = pubW + 1
  /\ UNCHANGED <<direct, pubR, buf, obsR, prodVars, consVars>>

-----------------------------------------------------------------------------
(* Consumer *)

\* pop(T&) ("loadSpin"), try_pop, dequeue and try_dequeue ("loadTry").
CallPop(loadPc) ==
  /\ cPc \in {"idle", "holding"} /\ pPc # "destroyed"
  /\ cPc' = IF rIdx = wCache THEN loadPc ELSE "read"
  /\ UNCHANGED <<direct, rIdx, wCache, delivered, pubW, pubR, buf, obsR, prodVars>>

\* front(), which spsc_final does not have.
CallFront ==
  /\ direct
  /\ cPc \in {"idle", "holding"} /\ pPc # "destroyed"
  /\ cPc' = IF rIdx = wCache THEN "loadFront" ELSE "holding"
  /\ UNCHANGED <<direct, rIdx, wCache, delivered, pubW, pubR, buf, obsR, prodVars>>

\* Mutant: the producer's private index is read in place of the published one.
LoadWriteMutant ==
  /\ cPc \in {"loadTry", "loadSpin", "loadFront"}
  /\ wCache' = wIdx
  /\ cPc' = IF rIdx = wIdx THEN "idle" ELSE "read"
  /\ UNCHANGED <<direct, rIdx, delivered, pubW, pubR, buf, obsR, prodVars>>

LoadWrite ==
  /\ cPc \in {"loadTry", "loadSpin", "loadFront"}
  /\ wCache' = pubW
  /\ cPc' = CASE rIdx # pubW /\ cPc = "loadFront" -> "holding"
              [] rIdx # pubW                      -> "read"
              [] rIdx = pubW /\ cPc = "loadSpin"  -> "loadSpin"
              [] OTHER                            -> "idle"
  /\ UNCHANGED <<direct, rIdx, delivered, pubW, pubR, buf, obsR, prodVars>>

\* Copy (or move out and destroy) the element and issue the store of the
\* next index.
TakeSlot ==
  /\ delivered' = Append(delivered, buf[Slot(rIdx)])
  /\ buf' = IF direct THEN buf ELSE [buf EXCEPT ![Slot(rIdx)] = NoItem]
  /\ rIdx' = rIdx + 1
  /\ cPc' = "idle"
  /\ UNCHANGED <<direct, wCache, pubW, pubR, obsR, prodVars>>

ReadSlot == cPc = "read" /\ TakeSlot

\* pop() after front() returned an element: the client has used the element
\* through the pointer until now.
PopFront == cPc = "holding" /\ TakeSlot

CommitRead ==
  /\ pubR < rIdx
  /\ pubR' = pubR + 1
  /\ UNCHANGED <<direct, pubW, buf, obsR, prodVars, consVars>>

-----------------------------------------------------------------------------
(* Anyone *)

\* The first load of size(): the second is taken in any later state.
SizeLoadRead ==
  /\ pPc # "destroyed"
  /\ obsR' = pubR
  /\ UNCHANGED <<direct, pubW, pubR, buf, prodVars, consVars>>

\* Mutant: the destructor starts one element late.
DestroyMutant ==
  /\ ~direct
  /\ pPc = "idle" /\ cPc = "idle" /\ pubW = wIdx /\ pubR = rIdx
  /\ pPc' = "destroyed"
  /\ buf' = [s \in 0 .. MASK |->
               IF \E i \in pubR + 1 .. pubW - 1 : s = Slot(i) THEN NoItem
                                                              ELSE buf[s]]
  /\ UNCHANGED <<direct, wIdx, rCache, pVal, pubW, pubR, obsR, consVars>>

\* The destructor of spsc_final's element-owning form runs when both threads
\* are done with the queue and their stores are visible; it destroys the
\* elements that were never popped.
Destroy ==
  /\ ~direct
  /\ pPc = "idle" /\ cPc = "idle" /\ pubW = wIdx /\ pubR = rIdx
  /\ pPc' = "destroyed"
  /\ buf' = [s \in 0 .. MASK |->
               IF \E i \in pubR .. pubW - 1 : s = Slot(i) THEN NoItem
                                                          ELSE buf[s]]
  /\ UNCHANGED <<direct, wIdx, rCache, pVal, pubW, pubR, obsR, consVars>>

-----------------------------------------------------------------------------

ProducerStep == LoadRead \/ WriteSlot \/ ConstructThrows
ConsumerStep == LoadWrite \/ ReadSlot

Next ==
  \/ \E v \in Value, pc \in {"loadTry", "loadSpin"} : CallEmplace(v, pc)
  \/ ProducerStep \/ CommitWrite
  \/ \E pc \in {"loadTry", "loadSpin"} : CallPop(pc)
  \/ CallFront \/ ConsumerStep \/ PopFront \/ CommitRead
  \/ SizeLoadRead \/ Destroy

Spec == Init /\ [][Next]_vars

\* A running thread takes its next step and a buffered store drains; nobody
\* is obliged to call an operation.
FairSpec == Spec /\ WF_vars(ProducerStep) /\ WF_vars(ConsumerStep)
                 /\ WF_vars(CommitWrite) /\ WF_vars(CommitRead)
-----------------------------------------------------------------------------
(* Properties *)

\* The producer never writes a slot that the consumer is reading, or that a
\* client still holds a front() pointer to (emplace's full test against a
\* cached, possibly stale, read index).
NoDataRace ==
  pPc = "write" /\ cPc \in {"read", "holding"} => Slot(wIdx) # Slot(rIdx)

\* size(), called by any thread while both sides run, never subtracts a read
\* index from a smaller write index: it loads the read index first, and no
\* element is consumed before it is published.
SizeNeverUnderflows == obsR <= pubW

\* spsc_final's element-owning form: the slots that hold a live object are
\* those of the items not yet popped, so that construct_at never overwrites a
\* live object, destroy_at never meets a dead one, a throwing constructor
\* leaves none behind and the destructor leaks none.
LiveObjects ==
  ~direct =>
    \A s \in 0 .. MASK :
      buf[s] # NoItem <=> /\ pPc # "destroyed"
                          /\ \E i \in rIdx .. wIdx - 1 : s = Slot(i)

\* The caches lag behind what they cache, the published indices behind the
\* private ones, the consumer behind the producer, and the producer is never
\* more than MASK items ahead of the read index it knows.
IndexOrder ==
  /\ rCache <= pubR /\ pubR <= rIdx /\ rIdx <= wCache
  /\ wCache <= pubW /\ pubW <= wIdx /\ wIdx <= rCache + MASK
  /\ obsR <= pubR

\* What a thread has found out stays true until it acts on it.
Decided ==
  /\ pPc = "write" => wIdx < rCache + MASK
  /\ pPc \in {"loadTry", "loadSpin", "write"} => pVal \in Value
  /\ cPc \in {"read", "holding"} => rIdx < wCache
  /\ pPc = "destroyed" => cPc = "idle" /\ ~direct

\* Every item not yet popped is in its slot.
Filled ==
  pPc # "destroyed" => \A i \in rIdx .. wIdx - 1 : buf[Slot(i)] \in Value

\* The inductive invariant behind the properties above: indices, decisions and
\* slots agree after every step of either side.
IInv == TypeOK /\ IndexOrder /\ Decided /\ Filled /\ LiveObjects

\* The queue is a bounded FIFO: an item is enqueued when it is stored and
\* dequeued when it is taken.
Contents == IF pPc = "destroyed" THEN <<>>
            ELSE [k \in 1 .. wIdx - rIdx |-> buf[Slot(rIdx + k - 1)]]
Fifo == INSTANCE BoundedFifo WITH Capacity <- MASK, q <- Contents,
                                  open <- (pPc # "destroyed")
\* Every run of emplace, try_emplace, pop, try_pop, dequeue, front/pop in any
\* interleaving and with any delay of the published indices hands over the
\* emplaced values in order, each once, at most MASK of them waiting.
ImplementsFifo == Fifo!FifoSpec

\* A spinning emplace returns once the consumer has made room, a spinning pop
\* once an item is stored, whatever the caches held.
BlockingOpsComplete ==
  /\ pPc = "loadSpin" /\ wIdx < rIdx + MASK ~> pPc = "idle"
  /\ cPc = "loadSpin" /\ rIdx < wIdx ~> cPc = "idle"
=============================================================================
