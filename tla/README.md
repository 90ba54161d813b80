# Verification of the lock-free queues

TLA+ models of the queues in `include/` and of the benchmark programs in
`bench/` that use them, the TLC runs that check them on small instances, and
TLAPS proofs for every instance. `PROJECT.json` lists the components, runs,
hazards, findings and theorems, and maps each definition to the lines it models.

## 1. The system

The repository is a header-only collection of bounded lock-free containers,
its own and some taken from other projects for comparison, with tests and
benchmarks. Nothing is persisted and there is no I/O protocol: threads interact
through the shared memory of one container, and in the benchmarks through a
barrier and a few atomic counters. There is no lock, callback or timeout; a
blocking operation spins.

| Part | Files | State | Operations | What is hard |
|---|---|---|---|---|
| Counted SPSC queue | `spsc_4.h`, `spsc_5.h`, `spsc_final.h` | per side a private index, a cached copy of the other side's index, a published index; the slots (raw storage in the element-owning form of `spsc_final.h`) | `emplace`, `try_emplace`, `enqueue`, `pop`, `try_pop`, `dequeue`, `try_dequeue`, `front`, `pop()`, `size`, `empty`, destructor | stale caches, late publication, `front()` pointers, `size()` from any thread, throwing constructors, object lifetimes |
| Masked SPSC queue | `spsc.h`, `spsc_1.h`, `spsc_2.h`, `spsc_3.h` | ring positions wrapped at each step, caches (not in `spsc.h`), slots | the same, without a destructor of its own | positions that forget their lap |
| Comparators of that kind | `rigtorp.h`, `test.h`, `SpscQueue` of `joad_q.h` | the same; cells that own their elements in two of them | the same in part, `force_emplace`, destructors | object lifetimes; a position rule that depends on the capacity |
| State-flag SPSC queue | `spsc_test.h` | a state byte per slot, two plain indices | `emplace`, `try_emplace`, `pop`, `try_pop`, `size`, destructor | byte and index are two stores; `size()` loads two plain indices, one after the other, from any thread |
| Sequence-numbered MPMC queue | `mpmc_seq.h`, `mpmc_seq_split.h`, `MpmcQueue` of `joad_q.h` | `head_`, `tail_`, per slot a value and a sequence number; in joad a live object or none | `push`/`emplace`, `pop` (blocking), `try_emplace`, `try_pop` and aliases, `size`; joad's destructor | ticket before slot, slot before ticket, lap confusion, honest failures, blocked tickets |
| State-flag MPMC queue | `mpmc_1.h` | `head_`, `tail_`, per slot a value and a state (Empty, Storing, Stored, Loading) | the same | a slot does not know whose turn it is |
| orbit MPMC queue | `orbit.h` | `_back`, `_front`, per slot an element and a state (lap and phase) | `push`, `try_push`, `pop`, `try_pop`, `was_empty`, `was_full` | stale claims, helping, answers computed from two loads |
| Work-stealing deque | `work_steal_deque.h` | the owner's bottom and cached top, the shared top, the published bottom, slots | `push_bottom`, `try_push_bottom`, both bulk pushes, `pop_bottom`, `steal_top`, `steal_with_feedback` | owner against thieves for the last item, the fence, torn copies of a slot, unsigned index differences |
| Taskflow queues | `wsq.h` | the same, with atomic cells; the unbounded one also its current array and the old ones | `push`, `bulk_push`, `pop`, `steal`, `steal_with_feedback`, destructor | array replacement under thieves |
| Queue benchmarks | `bench/queue_bench.cpp`, `queue_bench2.cpp`, `mpmc_bench.cpp`, `queue_measure.*`, `sync.h`, `memory.*` | barrier counter, clocks, `last_consumer`, sums, bump-allocated queues | throughput, checked throughput, ping-pong, round trip | the barrier, stop messages, whose time counts |
| Work-stealing benchmark | `bench/work_steal_bench.cpp` | `remaining`, `started`, `done`, barriers, deques | nine runs, with and without thieves | ignored results of pushes, exit tests of thieves |
| Helpers | `short_alloc.h`, `blocking_spin_stats.h`, `thread_affinity.h`, `bench/runtime.*` | | | none |
| Third party | `third_party/` | | | not part of this project |

Components interact by use: a test or benchmark thread calls a container. The
usage rules are part of the models: one producer thread and one consumer thread
for SPSC queues, one owner for the deques, any number of threads for MPMC queues.

What makes each container correct:

- SPSC: first in, first out, bounded; no slot is written while it is read or
  held through `front()`; elements are constructed and destroyed once; `size()`
  does not wrap (or by how much); a spinning call returns when it can.
- MPMC with lap numbers (`mpmc_seq`, joad, orbit): pop `k` returns what push `k`
  stored, exactly once; one thread in a slot at a time; a try operation that
  fails was right to, and costs no ticket; blocked calls return.
- `mpmc_1`: no item lost, doubled or overwritten; one thread in a slot; a slot
  that threads wait for keeps being served, although a single thread may lose it
  every time. Order only while one producer and one consumer use it.
- Deques: each operation takes effect at an instant, each item is handed out
  once; what a thief reads is intact and not deleted; pushed items are handed
  out in the end.
- Benchmarks: they measure what they say (every message or item is handled
  once, the clocks belong to the run), and they end.

## 2. Modules

| Module | Models |
|---|---|
| `BoundedFifo`, `TicketQueue`, `BoundedBag`, `StealableDeque` | what each container promises (abstract specifications) |
| `SpscQueue` | `spsc_4.h`, `spsc_5.h`, `spsc_final.h`; implements `BoundedFifo` |
| `SpscRing` | one kind per class: `spsc.h`; `spsc_1.h` to `spsc_3.h`; `rigtorp.h`; `test.h`; joad's SPSC queue; implements `BoundedFifo` |
| `SpscState` | `spsc_test.h`; implements `BoundedFifo` |
| `MpmcSeq` | `mpmc_seq.h` (and the steps of `mpmc_seq_split.h`); implements `TicketQueue` |
| `JoadMpmc` | joad's MPMC queue: the steps of `MpmcSeq` on cells that own their elements |
| `Mpmc1` | `mpmc_1.h`; implements `BoundedBag` |
| `Orbit` | `orbit.h`; implements `TicketQueue` |
| `WorkStealDeque` | `work_steal_deque.h`; implements `StealableDeque` |
| `Wsq` | `wsq.h`, both queues; implements `StealableDeque` |
| `QueueBench` | the drivers of the queue benchmarks, with the barrier, over what the queue modules promise of push and pop |
| `StealBench` | the runs of the work-stealing benchmark, over what the deque modules promise, with each implementation's rule for its cached top |
| `MC...` | instances for TLC |
| `SpscQueue_proofs`, `SpscRing_proofs`, `SpscState_proofs`, `MpmcSeq_proofs` (also `JoadMpmc`), `Mpmc1_proofs`, `Orbit_proofs`, `WorkStealDeque_proofs`, `Wsq_proofs` | theorems about the module named; those about ring positions begin with the facts on `i % n` they need |

Variables carry the role of the members (`wIdx` is `producer_.write_index_`,
`pubW` is `published_write_.write_index_`, and so on, said at each VARIABLES).
A `pc` per thread says where in an operation it is; an action is one access to
shared memory with the thread-local work around it. Aliases (`try_push`,
`enqueue`, `dequeue`, ...) are one action, with the program counter telling the
spinning form from the one that gives up. Variables marked "history" are not in
the code; they record what was handed over so that properties can speak of it.
A variable that never changes (`direct`, `kind`, `helping`, `driver`, `mode`)
chooses the variant of the code that runs; every variant is an initial state.
Definitions named `...Mutant` are plausible bugs; no specification uses them.
They show that each property can fail.

`QueueBench` and `StealBench` compose the containers with their clients. A queue is
there what the refinement of its module leaves of it: in `QueueBench` a ticket
and then a wait for the slot, with lap numbers or without; in `StealBench` a
push, a pop, and a steal that looks and then competes.

### Memory

The headers include `immintrin.h`: the build is x86.

- SPSC: an index store (in `SpscState` a state store, then an index store)
  leaves the thread at once and is visible later, in order (the `Commit...`
  actions). Slot accesses precede it. The consumer's `try_dequeue` stores its
  index relaxed (`spsc.h:131`, `spsc_4.h:196`); on x86 this is the same store,
  and it is modelled so. A model of the C++ memory orders would separate it.
- MPMC: each step is one shared access. Tickets and states move by locked
  instructions, sequence numbers by release stores and acquire loads.
  `compare_exchange_weak` fails only if the values differ.
- Deques: the owner has a store buffer (x86-TSO); the `seq_cst` fence and the
  owner's CAS wait for it to drain. An element of `work_steal_deque.h` is
  several words, copied one at a time, as `buffer_` is not atomic; in `wsq.h` it is
  an atomic word.

Left out: cache-line padding, pause and back-off policies, spin statistics, the
permutation of slots in `mpmc_1.h` and `mpmc_seq_split.h` (taken to be
one-to-one), and the width of `size_t` counters (a run would need 2^64
operations). Capacities are the template arguments; the ring's power-of-two
requirement makes `& MASK` the same as `% SIZE`.

## 3. Runs

| Run | Instance | Shows |
|---|---|---|
| `spsc` | SIZE 4, 2 values, 6 items, both storage forms | no slot race, also under `front()`; `size()` does not wrap; lifetimes with throwing constructors and the destructor; FIFO; spinning calls return |
| `ring` | SIZE 4, 2 values, 6 items, seven kinds | order of the positions round the ring, no cell race and object lifetimes, FIFO, spinning calls return |
| `spscstate` | SIZE 2, 2 values, 5 items | state bytes, indices, decisions and lifetimes agree (`IInv`); what `size()` can tell (`SizeBounds`), to a third thread, whose two loads may have any steps between them, and to either side; FIFO; spinning calls return |
| `mpmcseq` | SIZE 2, 2 + 2 threads, 4 + 4 tickets, owning cells | exclusive slots, pop `k` gets push `k`, exact size at rest, honest failures, lifetimes, blocked calls return |
| `mpmcseq_one` | SIZE 1 | violation, see Findings |
| `mpmc1` | SIZE 2, 2 + 2 threads, 4 + 4 tickets | exclusive slots, bag, exact size at rest, the order that is left, a slot that pops wait for keeps being served |
| `orbit` | SIZE 2, STEP 9, 3 threads, 3 + 3 tickets, with and without helping | owned slots, honest answers, pop `k` gets push `k`, operations return |
| `deque` | 2 slots of 2 words, 2 thieves, 4 items, bulks of 2 | linearizable deque, intact copies, no index wrap, honest failures, every item is handed out |
| `wsq` | bounded with 2 slots, unbounded from 1 slot, 2 thieves, 4 items, bulks of 2 | no read of a deleted array, linearizable deque across growths, honest failures |
| `queuebench` | four drivers, up to 2 pairs of threads, 2 messages, queues of 2 | the reported results are right; every run ends |
| `stealbench` | nine runs, both implementations, 2 thieves, capacity 4, 9 items, batches of 2, bursts of 3 | ignored results hide no failure (but for the finding), every item is counted once; every run ends |
| `stealbench_bulk` | the two bulk runs on BoundedWSQ | violation, see Findings |

**Bounds.** `MaxItems` and `MaxTickets` end a run after some pushes (and pops);
they stand in the guards of the calls (and of the CAS that draws a ticket) and
nowhere else. What can go wrong repeats with the lap of the ring, so the number
of items is chosen to go round it: with SIZE 4 one slot is always free and 6
items make two laps of the three usable ones; with SIZE 2 an MPMC queue is full
after two items and 4 tickets make two full laps, so that threads a lap apart
wait for the same slot; 5 items of `spscstate` begin the third lap of its two
slots. Two producers and two consumers suffice for every pairwise race on a slot,
a ticket or a CAS. For safety the proofs remove these bounds everywhere but in
the benchmarks. In `orbit` any thread may push and pop, and three let one be late
while one claims and one helps; 3 tickets begin the second lap. STEP is the
distance of consecutive slots, odd as in the code. Two thieves and the owner
compete for the last item of a deque, and four items in two slots let the owner
refill a slot that a thief is copying. Two words are what a torn copy needs. The
unbounded queue grows from one slot to two and to four, or at once by a bulk,
and a thief may hold the first array throughout. Two values tell a lost or
swapped item from the right one; the MPMC queues number their items, one value
of `mpmcseq` being enough because `stored` and `taken` speak of tickets.

In `queuebench` 2 messages and a stop fill a queue of two, so producers wait for
consumers and laps begin anew. In `stealbench` 9 items are two full windows and
one item more, which no batch of 2 covers. The assumption on `CAP` and `BATCH`
says that a capacity is a multiple of the batch size, as both are powers of two
in the benchmark.

**Symmetry** is not used: every run but `wsq` and the two violations also checks
liveness.

**Deadlock.** It is checked for the deque, whose thieves keep stealing.
`CHECK_DEADLOCK FALSE` stands where the system may stop: after a destructor, at
the end of a benchmark, and for MPMC queues when the remaining threads hold
tickets that nobody is going to serve (a blocked `pop` with no further push
spins for ever, which is what the code does).

**Fairness.** Weak fairness on the steps of each thread that is inside an
operation (the scheduler runs it sooner or later) and on store buffers
(hardware drains them). Nobody is obliged to call an operation, so each
liveness property of a container says what must already be there: an item,
room, the matching ticket. Exceptions, stated where they occur: in
`WorkStealDeque` thieves keep stealing, as the workers of
`bench/work_steal_bench.cpp` do; `WaitedSlotsServed` is about runs in which
pops never outrun pushes, as with consumers that use `try_pop`; and the threads
of a benchmark run until they have left their loop. A failed CAS is not assumed
away: the try operations of `mpmc_seq.h` and `mpmc_1.h` are lock-free, not
wait-free, and nothing is claimed of their return. Nor is anything claimed of the
return of a blocking call of `mpmc_1.h`, or of a try call that has won its ticket:
its CAS on the slot is enabled again and again but not all the time, and threads
with later tickets for the same slot can win it each time, which weak fairness
permits. `WaitedSlotsServed` says what holds instead, of slots: the item of one
that a pop waits for is taken by someone. It does not rest on the end of the
tickets: as long as pops do not outrun pushes, an Empty slot with a waiting pop has
a waiting push, whose CAS stays enabled until someone stores, and so on round the
four states. `OpsComplete` of `Orbit` says what holds of calls there: one returns
unless it is blocked or the others are served until the tickets of the run are
used up. It watches one of the three threads,
which have the same code.

**The properties that take most reading.** `SizeBounds` says what the
unsynchronised `size()` of `spsc_test.h` is worth. Its two loads are two steps of
a third thread (`SizeFirstLoad`, `SizeReturn`), in either order, as the C++
expression fixes none, and any number of items may pass between them. With the
read index first the result may be one below zero, wrapped to the largest
`size_t`, or exceed the capacity by one and by what is stored meanwhile; with the
write index first it may exceed the capacity by one, or wrap by one and by what is
taken meanwhile (`SizeFromOutside`). So another thread may be told almost
anything. `SizeFromSides` is for the two sides, for which one of the indices stands
still: the producer may be told one more than the capacity and never a wrapped
number, the consumer never more than the capacity but possibly -1. Every bound is attained. (A load of an aligned
`size_t` is taken to be whole, as it is on x86.)
`AnswersHonest` states orbit's comment "May return false negative, but not false
positive" and, for try operations, that a `try_pop` gives up only when the
queue is empty, a `try_push` only when it is full or a pop is in flight. `ProducerOrder` is what is left of
order in `mpmc_1.h`. `ResultsRight` of `QueueBench` includes that nobody passes
the barrier early, that the sum is complete although each consumer leaves at
the first stop message it pops, and that queues are freed in the order in which
the bump allocator of `memory.cpp` takes memory back. `NothingLost` says for
`work_steal_bench.cpp` that each `(void)q.try_push(...)` succeeds: the deque is
empty at the start of a window, and the owner's cached top leaves room.

## 4. Proofs

Checked by TLAPS for all values of the constants.

**`SpscQueue_proofs`** assumes only `SpscAssumption` (SIZE positive, `NoItem`
not a value). `IInv` = types + `IndexOrder` + `Decided` + `Filled` +
`LiveObjects`. `IndexOrder` is the chain
`rCache <= pubR <= rIdx <= wCache <= pubW <= wIdx <= rCache + MASK`: every copy of
an index lags behind its origin, and the producer runs at most a lap ahead of
the oldest read index it may believe. `Decided` carries a thread's test to the
step that acts on it, which the safety properties alone do not say and without
which a step from an arbitrary state could overfill the ring. From it follow
`TypeCorrect`, `RaceFreedom`, `SizeSafe`, `LifetimesSafe`, and `Refinement`:
storing an element is the FIFO's enqueue, taking one its dequeue, the destructor
its discard, all else stutters. The key arithmetic is `ModInjective`:
indices less than a lap apart have different slots.

**`SpscState_proofs`** assumes only `StateAssumption`, and covers SIZE = 1. `IInv` =
types + `StoreOrder` (how far each of a side's stores has got) + `StatesRight`
(a slot is Stored exactly for the items between the two counts of state stores
that have reached memory) + `Decided` + `LiveObjects` + `Observed` (what
a third thread keeps of its first load of `size()` is true, and an index in memory
only grows). `EmptyMeansRoom` and
`StoredMeansItem` turn what a side reads out of one byte, or sees in its own
store buffer, into an inequality of counts; this is where slots a lap apart
must be told from each other. `SizeBounded` (`SizeBounds`) follows for the two sides
from `StoreOrder`, an index being at most one store behind its byte; for a third
thread it needs `Observed` too, which bounds by the index loaded first
how far the other side had got at that moment. `RaceFreedom` and `Refinement` as
above, with a capacity of SIZE.

**`MpmcSeq_proofs`** assumes `MpmcSeqAssumption` and `SIZE > 1`; with one slot
the queue is wrong (Findings), and the proof uses the assumption where
neighbouring tickets must have different slots. `IInv` = types + `TicketsHeld`
(tickets are drawn once and lie behind the counters) + `SlotsOwned` (the number
an owner waited for stays until the owner replaces it, and a CAS that is going
to succeed would find the number its thread saw earlier) + `Recorded` (a slot's
number says exactly which of the slot's tickets have been stored and taken, but
for those of a thread that is about to publish). `SlotExclusive` alone is not
inductive: two owners are kept apart by the numbers they own and by the
uniqueness of tickets, not by each other (`OwnersApart`). The CAS clause of
`SlotsOwned` survives a foreign publish because of `CasApart`. Theorems:
`Invariance`, `TypeCorrect`, `SlotSafety` and `Refinement` (a write is
`Put` of its own ticket, a read is `Take` of its own). Three more say what the
answers of the queue are worth:

- `Accounting` adds to the invariant that a drawn ticket is used or held by a
  thread that will use it (`TicketsUsed`) and that a slot carries only numbers of
  its own tickets (`NumbersInStep`). `SizeRight` follows: `size()` is exact at
  rest, by a bijection between the tickets from `tail` to `head` and the slots
  with an item.
- `HonestFailures`: a thread that finds a number behind its ticket's either sees
  the thread that is about to replace it or a queue that is full (empty).
- `CapacityKept`: two waiting items have different slots (`WaitingApart`), so at
  most SIZE of them wait. The run `mpmcseq_one` shows this to fail for SIZE = 1:
  `SIZE > 1` is the exact condition.

`JoadRefinement` shows that joad's queue takes only steps of this one, so that all
of the above holds for it; `CellsLive` (`LiveCells`) is then about its objects: a
cell that a thread owns is dead when it is constructed in and live when it
is moved from, because `WaitingApart` leaves the cell a single waiting item. The
destructor destroys the cells whose `is_constructed` flag is set (`constructed`),
which `LiveCells` shows to be the live ones.

**`Mpmc1_proofs`** assumes only `Mpmc1Assumption`, and covers SIZE = 1, any number
of threads and any mixture of blocking and try operations. `IInv` =
`SlotExclusive` (with the types) + `Locked` (the byte of a slot shows that it has an
owner, and of which side) + `Held` (a Stored slot holds an item nobody has
popped, an Empty one holds none) + `Numbered` (no item is in two slots or stored
again, and a producer has used fewer numbers than it has drawn tickets). The
tickets play no part in the safety of a slot: the byte is a lock, and the proof
needs no arithmetic on laps, which is also why the queue keeps no order between
threads. The steps are proved by kind: those that only look for a ticket
(`QuietInv`), those that change a state byte (`MarksInv`), the store and the copy of an
element (`WriteInv`, `ReadInv`). For `Refinement` a store is the bag's `Put` and a copy
its `Take`; that a `Put` finds room is an injection from the items of the bag
into the other slots (`RoomForItem`). `SlotSafety` is `[]SlotExclusive`.
`SizeRight` (`SizeAtRest`) has an invariant of its own, `Counted`: pushes with a
slot less pops with a slot are the slots in use, whoever has swapped turns.
`ProducersOrdered` (`ProducerOrder`) rests on `InOrder`: while one producer and one
consumer are `Alone`, ticket `n` carries item `n`, in the slot of ticket `n`. That
a second thread may have tried and failed is allowed; that it has drawn a ticket
is not, and from then on nothing is claimed.

**`SpscRing_proofs`** assumes `RingAssumption` and excludes the kind `joadClang`, of which
the results are false (Findings). The positions in the code forget their lap, so
the invariant gives it back: every stored or cached index is the position of a
count between the histories `taken` and `sent`, less than a lap apart
(`Positions`, `Indexed`); `Decided` carries a side's test to its next step, `Filled`
says which cells hold which items. A test for equality of two positions is then
one of counts (`ModInjective`). `Invariance`, `PositionsOrdered`
(`RingOrder`), `CellSafety` (`CellsSafe`) and `Refinement` cover seven kinds of queue in one
argument; `Room` is the one number in which they differ. In `CellsSafe` the destructor
destroys only what the code finds (`Leftover`): rigtorp walks from the read to the
published write position, joad asks the flag of each cell. That this leaves no
object behind and meets no dead cell is part of the proof (`DestroyInv`).

**`Orbit_proofs`** assumes only `OrbitAssumption`: STEP has an inverse modulo SIZE, which
is what "An odd step size guarantees full period" (`orbit.h:356`) says of a power of two.
The age of a slot counts its phase changes, so that "the push of index `k` has
begun" is an inequality (`PushBegun` to `PopDone`). `EndsRight` is the heart: the
operations begun are those below the ends, and at most the next one of each
kind, whose thread is about to move the end. That a helper or the claimant moves an
end once, with an index however old, follows from it. `PositionsRight` says what
a thread may still believe, `AgesRight` that a slot being read has a reader, and
`Recorded` ties the histories to the ages. Theorems: `Invariance`, `SlotSafety`
(`SlotOwned`), `Honesty` (`AnswersHonest`) and `Refinement`.

**`WorkStealDeque_proofs`** assumes only `DequeAssumption`, for any capacity, element width,
batch and number of thieves. `IInv` = types + `IndicesSafe` + `Decided` (what the
owner concluded from the indices it read) + `Buffered` (what may be in its store buffer) +
`SlotsRight` (each slot of the deque holds its item whole, in memory or as the
owner will see it drain) + `ThievesRight` (what a thief read was
true, and what it copied is right unless `top` has moved, in which case its CAS
fails). The argument about the store buffer is that no published `bottom`
exceeds the logical one, and that the stores to a slot precede the
`bottom` that covers it. Theorems: `Invariance`, `IndicesSafety`, `CopySafety`
(`CopyIntact`), `Refinement`, `HonestFailures` and `NothingLost`. For
`Refinement` a push takes effect when the owner stores `bottom`, a pop when the
owner finds `top` below the lowered `bottom` or wins its CAS, a steal by its CAS.

**`Wsq_proofs`** assumes only `WsqAssumption`: any first size, bulk size, number
of items and of thieves, the bounded queue and the growing one in one argument.
(The code's sizes are powers of two; the proof uses that a new array has room
for what it is made for, `BitCeilFits`, and nothing else of its size.) `IInv` =
types + `Decided` + `Buffered` + `SlotsRight` + `ThievesRight`, with the parts
those names have in the deque's proof, and `Homes`, which is what the growth of
the array needs: every item has an array in which it was pushed or into which it
was copied first; from that one on every array holds it in its cell, or has the
store still buffered and no store of another item for that cell; and a `_bottom`
that covers the item does not reach memory before the pointer to such an array
does. A thief reads `_bottom`, then `_array`: whichever array it finds, the item
at its `top` is there (`CoveredItem`), and it stays there while the owner copies
the array (`GrownHolds`), pushes (`PushStoreInv`: a push into the same cell
would have to be a lap ahead of a `top` the owner knows to have moved) or drains
its buffer (`DrainedItem`), unless `top` moves and the thief's CAS fails. That
the thief's array is still there is then `Decided`: arrays are deleted by the
destructor only, which runs when no thread uses the queue any more. Theorems:
`Invariance`, `ArraysSafety` (`ArraysSafe`), `Refinement` (`ImplementsDeque`),
`HonestFailures` (`FailuresHonest`) and `NothingLost`: every item pushed was
handed out once or is still in the queue.

Only model-checked: `ResultsRight` and `NothingLost` of the two benchmarks,
whose bounds (a few messages, windows and threads) are the ones under which the
programs' own counts are checked; and all liveness, which is out of reach of the
prover, as is ENABLED. Facts about recursive definitions and induction over data
are out of its reach too; no proved module uses them.

## 5. Findings

`mpmcseq_one`: `static_assert` at `mpmc_seq.h:21` admits `SIZE = 1`. With one slot
"stored for ticket `k`" and "free for ticket `k + 1`" are the same number, so a
second push overwrites the first item. The queue's test asserts, after
`capacity()` successful calls, `!queue.try_emplace(999)`
(`bench/mpmc_seq_test.cpp:23`); it uses larger capacities.

`stealbench_bulk`: the bulk runs of `work_steal_bench.cpp` ignore how many items
`try_bulk_push` accepted (lines 254, 273, 473). `pop` of `BoundedWSQ` leaves
`_cached_top` as it is, and `try_bulk_push` reloads it only when it shows no
room at all (`wsq.h:387`). From the second window on the cached top is old, a
batch is cut short, and the items cut off are never pushed; the benchmark divides
the full number of operations by the time (`work_steal_bench.cpp:180`).
`work_steal_deque.h`, whose pop refreshes its cached top, loses nothing, so the
comparison of the two is not of equal work.

Not findings, but worth knowing:

- joad's SPSC queue in a clang build: positions wrap at `N + 1` (`joad_q.h:683-687`)
  while `HeapBuffer` reduces them modulo a power-of-two capacity
  (`joad_q.h:122-126`), so positions 0 and `N` share a cell and an item is
  overwritten. `MCSpscRing_clang.cfg` shows it on a ring of two cells. With
  another compiler positions count and the queue is right (kind `joadPow2`).
- `empty()` of joad's queues is `size() <= 0` on an unsigned number, and the
  comment at `joad_q.h:417` says `size()` may be negative.
- `force_emplace` of `test.h` does not keep the cached read index up to date. A
  client that uses nothing else, and only when there is room, is safe; one that
  also calls `emplace` may overwrite items.
- Even for the deque of this repository a bulk run leaves out the end of its
  last window when this is shorter than a batch (`work_steal_bench.cpp:472`).
  `LeftOut` in `StealBench` names these items.
- `end_time` of `mpmc_bench.cpp` is the clock of the consumer that counts
  `last_consumer` down last (line 426), not necessarily the latest of the clocks.
- `mpmc_1.h` keeps no order when two producers or two consumers run: threads a
  lap apart compete for a slot. Nothing in the repository promises more.
- The bulk pushes of the deque reload the shared top only when the cached one
  leaves no room at all, so `try_bulk_push_bottom` may accept fewer items than
  fit. No item is lost.
- The slot the counted SPSC queues keep free is not needed to tell full from
  empty; what it hides is a read index published one copy too early.
- A call of `mpmc_1.h` that has its ticket, also `try_pop` or `try_push`, may wait
  without bound while threads of later laps take its slot (see Fairness).
- `size()` of `spsc_test.h` tells a third thread nothing reliable, and empty or
  full queues can be reported with a wrapped size (`SizeFromOutside`).

## 6. Not modelled

- The slot permutation of `mpmc_1.h` and `mpmc_seq_split.h`: it exchanges two
  bit fields of an index. The MPMC modules assume it is one-to-one.
- `short_alloc.h`, spin statistics, thread affinity, the tests, plots and
  scripts: no state that threads share. Of `memory.cpp` only the bump
  allocator as the drivers use it is modelled; of the drivers the command
  line, CPU placement, repetition and statistics are not.
- `size()`, `was_size()` and `empty()` of the comparators, which are advisory.
- The C++ memory orders beyond what x86 makes of them, and weak CAS that fails
  spuriously.
- Third-party code.

Worth doing next: proofs of `ResultsRight` of `QueueBench`, from an invariant on
the stop messages, and of `NothingLost` of `StealBench`, from one on the cached
top at the start of a window.
