------------------------------ MODULE SpscRing ------------------------------
(***************************************************************************)
(* The single-producer single-consumer queues whose indices are positions  *)
(* in the ring, wrapped at every step: an index says nothing of the lap it *)
(* belongs to, equal indices mean empty, and one slot stays free.          *)
(*   "spsc"     include/spsc.h, which has no cached indices                *)
(*   "spsc_1"   spsc_1.h, spsc_2.h, spsc_3.h: cached indices, different    *)
(*              pauses                                                     *)
(*   "rigtorp"  rigtorp::SPSCQueue, which owns its elements                *)
(*   "dro"      dro::SPSCQueue (test.h)                                    *)
(*   "droForce" the same class, for a client that pushes with the          *)
(*              unchecked force_emplace only                               *)
(*   "joad"     jdz::SpscQueue (joad_q.h) without a power-of-two capacity  *)
(* and, of the same construction but with other positions,                 *)
(*   "joadPow2"   jdz::SpscQueue with a power-of-two capacity: positions   *)
(*                count, the cached limit is a lap ahead of the read       *)
(*                position, and every cell is used                         *)
(*   "joadClang"  the same class in a clang build, where the positions     *)
(*                wrap at N + 1 and the cell is still position mod N       *)
(*                                                                         *)
(* Memory is modelled as in SpscQueue: a stored index reaches the other    *)
(* side later (CommitWrite, CommitRead), after the slot access before it.  *)
(* Each side reads its own index (a relaxed load) as it last stored it.    *)
(* try_dequeue of spsc.h stores its index relaxed: on x86 the same store.  *)
(***************************************************************************)
EXTENDS Integers, Sequences

CONSTANTS SIZE,        \* the number of cells: the template argument, or
                       \* capacity + 1 in rigtorp, dro and joad
          Value,       \* element values
          None,        \* what a cell without an element holds
          Kinds,       \* the queues of a run
          MaxItems     \* bound: elements emplaced in a run

MASK == SIZE - 1

ASSUME RingAssumption == /\ SIZE \in Nat \ {0}
                         /\ Kinds \subseteq {"spsc", "spsc_1", "rigtorp",
                                          "dro", "droForce", "joad",
                                          "joadPow2", "joadClang"}
                         /\ None \notin Value
                         /\ MaxItems \in Nat

VARIABLES
  kind,            \* which of the queues runs
  wIdx, rCache,    \* write_index_ as the producer sees it, read_index_cache_
  pubW,            \* write_index_, as memory holds it
  rIdx, wCache,    \* read_index_ as the consumer sees it, write_index_cache_
  pubR,            \* read_index_, as memory holds it
  buf,             \* buffer_
  pPc, pVal, cPc,  \* where the two threads are, and the value to emplace
  sent,            \* history: the number of elements emplaced
  delivered        \* history: the values handed to the consumer

prodVars == <<wIdx, rCache, pPc, pVal, sent>>
consVars == <<rIdx, wCache, cPc, delivered>>
vars == <<kind, prodVars, consVars, pubW, pubR, buf>>

Cached == kind # "spsc"
Counting == kind = "joadPow2"
Owning == kind \in {"rigtorp", "joad", "joadPow2"}
Period == IF kind = "joadClang" THEN SIZE + 1 ELSE SIZE
Index == IF Counting THEN 0 .. MaxItems + SIZE ELSE 0 .. Period - 1

TypeOK ==
  /\ kind \in Kinds
  /\ {wIdx, rCache, pubW, rIdx, wCache, pubR} \subseteq Index
  /\ buf \in [0 .. MASK -> Value \union {None}]
  /\ pPc \in {"idle", "loadTry", "loadSpin", "write", "destroyed"}
  /\ cPc \in {"idle", "loadTry", "loadSpin", "loadFront", "read", "holding"}
  /\ pVal \in Value \union {None}
  /\ sent \in 0 .. MaxItems
  /\ delivered \in Seq(Value)

Init ==
  /\ kind \in Kinds
  /\ wIdx = 0 /\ rCache = 0 /\ pubW = 0
  /\ rIdx = 0 /\ wCache = 0 /\ pubR = 0
  /\ buf = [s \in 0 .. MASK |-> None]
  /\ pPc = "idle" /\ pVal = None /\ cPc = "idle"
  /\ sent = 0 /\ delivered = <<>>

\* The position after i: masked in the project's queues, compared with the
\* capacity and reset in the others, not wrapped at all in "joadPow2".
After(i) == IF Counting THEN i + 1 ELSE (i + 1) % Period

\* The cell of a position: the position itself unless positions go further
\* than the cells, which HeapBuffer masks.
Cell(i) == i % SIZE

\* How far position j is ahead of i, and the position n ahead of rIdx.
Distance(i, j) == IF Counting THEN j - i ELSE (j - i) % Period
FromRead(n) == IF Counting THEN rIdx + n ELSE (rIdx + n) % Period

-----------------------------------------------------------------------------
(* Producer: emplace ("loadSpin"), try_emplace and enqueue ("loadTry") *)

\* What the producer caches of the read index: the position its next
\* position, or in "joadPow2" its position, may not reach.
Limit(read) == IF Counting THEN read + SIZE ELSE read

Full(limit) == (IF Counting THEN wIdx ELSE After(wIdx)) = limit

CallEmplace(v, loadPc) ==
  /\ pPc = "idle" /\ sent < MaxItems
  /\ pVal' = v
  /\ pPc' = IF ~Cached \/ Full(rCache) THEN loadPc ELSE "write"
  /\ UNCHANGED <<kind, wIdx, rCache, sent, consVars, pubW, pubR, buf>>

\* Mutant: the loop tests the old cached index again.
LoadReadMutant ==
  /\ pPc \in {"loadTry", "loadSpin"}
  /\ pPc' = IF ~Full(rCache) THEN "write"
            ELSE IF pPc = "loadTry" THEN "idle" ELSE "loadSpin"
  /\ UNCHANGED <<kind, wIdx, rCache, pVal, sent, consVars, pubW, pubR, buf>>

LoadRead ==
  /\ pPc \in {"loadTry", "loadSpin"}
  /\ rCache' = IF Cached THEN Limit(pubR) ELSE rCache
  /\ pPc' = IF ~Full(Limit(pubR)) THEN "write"
            ELSE IF pPc = "loadTry" THEN "idle" ELSE "loadSpin"
  /\ pVal' = IF pPc' = "idle" THEN None ELSE pVal
  /\ UNCHANGED <<kind, wIdx, sent, consVars, pubW, pubR, buf>>

\* force_emplace of dro: no test at all; the client knows that there is room.
\* It leaves the cached read index behind, so that a later emplace may find
\* the ring free that is full: one client uses either this or the others.
CallForce(v) ==
  /\ pPc = "idle" /\ sent < MaxItems
  /\ ~Full(rIdx)
  /\ pVal' = v /\ pPc' = "write"
  /\ UNCHANGED <<kind, wIdx, rCache, sent, consVars, pubW, pubR, buf>>

WriteSlot ==
  /\ pPc = "write"
  /\ buf' = [buf EXCEPT ![Cell(wIdx)] = pVal]
  /\ wIdx' = After(wIdx)
  /\ sent' = sent + 1
  /\ pPc' = "idle" /\ pVal' = None
  /\ UNCHANGED <<kind, rCache, consVars, pubW, pubR>>

\* The constructor of T throws: nothing has been stored.
ConstructThrows ==
  /\ kind \in {"rigtorp", "dro", "droForce"} /\ pPc = "write"
  /\ pPc' = "idle" /\ pVal' = None
  /\ UNCHANGED <<kind, wIdx, rCache, sent, consVars, pubW, pubR, buf>>

\* Mutant: the next index is stored before the element.
CommitWriteMutant ==
  /\ pubW # IF pPc = "write" THEN After(wIdx) ELSE wIdx
  /\ pubW' = After(pubW)
  /\ UNCHANGED <<kind, prodVars, consVars, pubR, buf>>

CommitWrite ==
  /\ pubW # wIdx
  /\ pubW' = After(pubW)
  /\ UNCHANGED <<kind, prodVars, consVars, pubR, buf>>

-----------------------------------------------------------------------------
(* Consumer: pop(T&) ("loadSpin"), try_pop, dequeue and try_dequeue          *)
(* ("loadTry"), front and pop()                                              *)

\* Mutant: the empty test is dropped.
CallPopMutant(loadPc) ==
  /\ cPc \in {"idle", "holding"} /\ pPc # "destroyed"
  /\ cPc' = "read"
  /\ UNCHANGED <<kind, rIdx, wCache, delivered, prodVars, pubW, pubR, buf>>

CallPop(loadPc) ==
  /\ cPc \in {"idle", "holding"} /\ pPc # "destroyed"
  /\ cPc' = IF ~Cached \/ rIdx = wCache THEN loadPc ELSE "read"
  /\ UNCHANGED <<kind, rIdx, wCache, delivered, prodVars, pubW, pubR, buf>>

CallFront ==
  /\ cPc \in {"idle", "holding"} /\ pPc # "destroyed"
  /\ cPc' = IF ~Cached \/ rIdx = wCache THEN "loadFront" ELSE "holding"
  /\ UNCHANGED <<kind, rIdx, wCache, delivered, prodVars, pubW, pubR, buf>>

LoadWrite ==
  /\ cPc \in {"loadTry", "loadSpin", "loadFront"}
  /\ wCache' = IF Cached THEN pubW ELSE wCache
  /\ cPc' = IF rIdx # pubW
            THEN IF cPc = "loadFront" THEN "holding" ELSE "read"
            ELSE IF cPc = "loadSpin" THEN "loadSpin" ELSE "idle"
  /\ UNCHANGED <<kind, rIdx, delivered, prodVars, pubW, pubR, buf>>

\* Mutant: the element is not destroyed.
TakeSlotMutant ==
  /\ delivered' = Append(delivered, buf[Cell(rIdx)])
  /\ rIdx' = After(rIdx)
  /\ cPc' = "idle"
  /\ UNCHANGED <<kind, wCache, prodVars, pubW, pubR, buf>>

\* Copy the element (and destroy it, where the cell owns it), then store the
\* next index; or pop() after the client used the element through front()'s
\* pointer.
TakeSlot ==
  /\ delivered' = Append(delivered, buf[Cell(rIdx)])
  /\ buf' = IF Owning THEN [buf EXCEPT ![Cell(rIdx)] = None] ELSE buf
  /\ rIdx' = After(rIdx)
  /\ cPc' = "idle"
  /\ UNCHANGED <<kind, wCache, prodVars, pubW, pubR>>

ReadSlot == cPc = "read" /\ TakeSlot
PopFront == cPc = "holding" /\ TakeSlot

CommitRead ==
  /\ pubR # rIdx
  /\ pubR' = After(pubR)
  /\ UNCHANGED <<kind, prodVars, consVars, pubW, buf>>

-----------------------------------------------------------------------------

(* The operations each class offers *)

\* The cells whose elements a destructor destroys: rigtorp's calls front() and
\* pop() until front() finds the ring empty, joad's asks every cell whether it
\* is_constructed (a flag that construct and destroy change with the element).
Leftover ==
  IF kind = "rigtorp"
  THEN {Cell(FromRead(k - 1)) : k \in 1 .. Distance(rIdx, pubW)}
  ELSE {s \in 0 .. MASK : buf[s] # None}

\* It runs when both threads are done with the queue and their stores visible.
Destroy ==
  /\ Owning
  /\ pPc = "idle" /\ cPc = "idle" /\ pubW = wIdx /\ pubR = rIdx
  /\ pPc' = "destroyed"
  /\ buf' = [s \in 0 .. MASK |-> IF s \in Leftover THEN None ELSE buf[s]]
  /\ UNCHANGED <<kind, wIdx, rCache, pVal, sent, consVars, pubW, pubR>>

\* emplace, try_emplace, push, try_push
Put == \E v \in Value, pc \in {"loadTry", "loadSpin"} : CallEmplace(v, pc)

\* pop(T&), try_pop
Take == \E pc \in {"loadTry", "loadSpin"} : CallPop(pc)

OwnCall ==
  kind \in {"spsc", "spsc_1"} /\ (Put \/ Take \/ CallFront \/ PopFront)

\* No pop(T&): the client uses front() and pop().
RigtorpCall == kind = "rigtorp" /\ (Put \/ CallFront \/ PopFront \/ Destroy)

\* No front(); push, force_push and try_push delegate to the emplace forms.
DroCall == \/ kind = "dro" /\ Put
           \/ kind = "droForce" /\ \E v \in Value : CallForce(v)
           \/ kind \in {"dro", "droForce"} /\ Take

JoadCall ==
  kind \in {"joad", "joadPow2", "joadClang"} /\ (Put \/ Take \/ Destroy)

ProducerStep == LoadRead \/ WriteSlot \/ ConstructThrows
ConsumerStep == LoadWrite \/ ReadSlot

Next == \/ OwnCall \/ RigtorpCall \/ DroCall \/ JoadCall
        \/ ProducerStep \/ ConsumerStep \/ CommitWrite \/ CommitRead

Spec == Init /\ [][Next]_vars

\* A running thread takes its next step and a buffered store drains; nobody
\* is obliged to call an operation.
FairSpec == Spec /\ WF_vars(ProducerStep) /\ WF_vars(ConsumerStep)
                 /\ WF_vars(CommitWrite) /\ WF_vars(CommitRead)

-----------------------------------------------------------------------------
(* Properties *)

\* The read position the cached limit stands for.
KnownRead == IF Counting THEN rCache - SIZE ELSE rCache

\* The positions never lap each other although most of them are known modulo
\* the ring only: going round from the published read index one meets the
\* private read index, the published and the private write index, in this order,
\* within one lap.  Where the sides keep caches, the read index the producer has
\* cached comes first and the write index the consumer has cached between the
\* other two.  (A client of force_emplace knows more than the published index.)
RingOrder ==
  /\ TypeOK
  /\ kind # "droForce" =>
       /\ Distance(pubR, rIdx) <= Distance(pubR, pubW)
       /\ Distance(pubR, pubW) <= Distance(pubR, wIdx)
  /\ kind \notin {"spsc", "droForce"} =>
       /\ Distance(KnownRead, pubR) <= Distance(KnownRead, rIdx)
       /\ Distance(KnownRead, rIdx) <= Distance(KnownRead, wCache)
       /\ Distance(KnownRead, wCache) <= Distance(KnownRead, pubW)
       /\ Distance(KnownRead, pubW) <= Distance(KnownRead, wIdx)
       /\ Distance(rIdx, wIdx) <= SIZE

\* The producer never writes the cell the consumer reads or holds by front().
NoDataRace ==
  pPc = "write" /\ cPc \in {"read", "holding"} => Cell(wIdx) # Cell(rIdx)

\* Where cells own their elements (rigtorp, joad), a cell holds an object
\* exactly while it holds an item not yet popped: no element is constructed
\* over a live one, destroyed twice or left behind by the destructor.
LiveCells ==
  Owning =>
    \A s \in 0 .. MASK :
      buf[s] # None <=>
        /\ pPc # "destroyed"
        /\ \E k \in 1 .. Distance(rIdx, wIdx) : s = Cell(FromRead(k - 1))

\* Both hold in every interleaving of the two sides and with any delay of the
\* stored indices, for the queues that test the full ring by equality of
\* wrapped positions and for those that count.
CellsSafe == NoDataRace /\ LiveCells

\* The queue is a FIFO although a full and an empty ring differ in one slot
\* only and positions repeat every lap.
Contents ==
  IF pPc = "destroyed" THEN <<>>
  ELSE [k \in 1 .. Distance(rIdx, wIdx) |-> buf[Cell(FromRead(k - 1))]]
Fifo == INSTANCE BoundedFifo WITH Capacity <- SIZE, q <- Contents,
                                  open <- (pPc # "destroyed")
\* Calls of any one of the classes, in any interleaving of the two sides and
\* with any delay of the stored indices, hand over the emplaced values in
\* order, each once.
ImplementsFifo == Fifo!FifoSpec

-----------------------------------------------------------------------------
(* The inductive invariant: the two histories are the positions counted      *)
(* without wrapping, sent for the producer's and taken for the consumer's,   *)
(* and every stored or cached index is the position of some count between    *)
(* them.  It is not stated for the kind "joadClang".                         *)

taken == Len(delivered)

\* The position that count n has, and the number of items a queue can hold.
Pos(n) == IF Counting THEN n ELSE n % SIZE
Room == IF Counting THEN SIZE ELSE SIZE - 1

Positions ==
  /\ wIdx = Pos(sent) /\ rIdx = Pos(taken)
  /\ taken <= sent /\ sent <= taken + Room

\* What the threads have decided: a producer about to write has room for its
\* value, a destroyed queue has no consumer.
Decided ==
  /\ pPc \in {"loadTry", "loadSpin", "write"}
       => pVal \in Value /\ sent < MaxItems
  /\ pPc \in {"loadTry", "loadSpin"} => kind # "droForce"
  /\ pPc = "write" => sent < taken + Room
  /\ pPc = "destroyed" => Owning /\ cPc = "idle"

\* The counts r, w, wc and rc of which memory holds the read and the write
\* index and of which the threads have cached the write and the read index.
\* A count before 0 stands for the limit 0 a counting producer starts with.
Laps(r, w, wc, rc) ==
  /\ pubR = Pos(r) /\ pubW = Pos(w)
  /\ cPc \in {"read", "holding"} => taken < w
  /\ kind # "droForce" => /\ sent <= r + Room
                          /\ pPc = "write" => sent < r + Room
  /\ Cached => /\ taken <= wc /\ wc <= w /\ wCache = Pos(wc)
               /\ cPc \in {"read", "holding"} => taken < wc
  /\ Cached /\ kind # "droForce" =>
       /\ rc <= r /\ rCache = Limit(Pos(rc)) /\ (Counting \/ 0 <= rc)
       /\ sent <= rc + Room
       /\ pPc = "write" => sent < rc + Room

Indexed == \E r \in 0 .. taken, w \in taken .. sent,
              wc \in 0 .. sent, rc \in (0 - SIZE) .. taken : Laps(r, w, wc, rc)

\* The cells from the read to the write position hold elements; where cells
\* own their elements, no other cell does.
Filled ==
  /\ pPc # "destroyed" => \A i \in taken .. sent - 1 : buf[i % SIZE] \in Value
  /\ Owning =>
       \A s \in 0 .. MASK :
         buf[s] # None => /\ pPc # "destroyed"
                          /\ \E i \in taken .. sent - 1 : s = i % SIZE

IInv == TypeOK /\ Positions /\ Decided /\ Indexed /\ Filled

-----------------------------------------------------------------------------

\* A spinning emplace or pop returns once there is room, or an item.
BlockingOpsComplete ==
  /\ pPc = "loadSpin" /\ ~Full(Limit(rIdx)) ~> pPc = "idle"
  /\ cPc = "loadSpin" /\ rIdx # wIdx ~> cPc = "idle"
=============================================================================
