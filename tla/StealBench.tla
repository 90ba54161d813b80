----------------------------- MODULE StealBench -----------------------------
(***************************************************************************)
(* The runs of bench/work_steal_bench.cpp on a bounded work-stealing       *)
(* deque, by their names there:                                            *)
(*   "push_pop", "interleaved", "burst", "bulk"   the owner alone          *)
(*   "concurrent", "continuous", "sparse", "bulk_concurrent"               *)
(*                              the owner and the thieves, on one deque    *)
(*   "multi_queue"              every thread owns a deque and steals from  *)
(*                              the next one                               *)
(* The items are all alike, so a deque is its top, its bottom and the      *)
(* owner's cached top.  What each call does is what WorkStealDeque and Wsq *)
(* refine: push and pop are one step, a steal looks at the top and then    *)
(* competes for it.  The two implementations differ in when the owner      *)
(* refreshes its cached top: "ours" (work_steal_deque.h) does in pop,      *)
(* "wsq" (BoundedWSQ) only when a push finds no room.                      *)
(***************************************************************************)
EXTENDS Integers, FiniteSetsExt

CONSTANTS Modes,     \* the runs to consider
          Kinds,     \* the implementations, of "ours" and "wsq"
          Thieves,   \* number of thieves
          CAP,       \* capacity()
          COUNT,     \* count, the operations of a run
          BATCH,     \* batch_size
          BURST      \* burst

Alone == {"push_pop", "interleaved", "burst", "bulk"}
Bulk == {"bulk", "bulk_concurrent"}

ASSUME StealBenchAssumption ==
  /\ Modes \subseteq Alone \union Bulk \union
       {"concurrent", "continuous", "sparse", "multi_queue"}
  /\ Kinds \subseteq {"ours", "wsq"}
  /\ {Thieves, CAP, COUNT, BATCH, BURST} \subseteq Nat \ {0}
  /\ CAP % BATCH = 0 /\ BURST <= CAP

Owner == 0
Watcher == Thieves + 1           \* the main thread of "multi_queue"
Thread == 0 .. Watcher
Deque == 0 .. Thieves            \* deque d is owned by thread d

VARIABLES
  mode, kind,            \* chosen once
  top, bottom, cache,    \* of each deque
  pc, seen,              \* each thread: where it is, the top a thief read
  base, j,               \* the owner's window, and how far it is in it
  todo,                  \* of each worker of "multi_queue": items to push
  remaining, started, done,
  arrived,               \* the threads that wait at a std::barrier
  pushed, taken          \* history: items pushed, and popped or stolen

chosen == <<mode, kind>>
deques == <<top, bottom, cache>>
owner == <<base, j, todo>>
flags == <<remaining, started, done>>
history == <<pushed, taken>>
vars == <<chosen, deques, pc, seen, owner, flags, arrived, history>>

Parties == CASE mode \in Alone         -> {Owner}
             [] mode = "multi_queue"   -> Thread
             [] OTHER                  -> Deque

Share(d) == IF d = Thieves THEN COUNT - Thieves * (COUNT \div (Thieves + 1))
                           ELSE COUNT \div (Thieves + 1)

Init ==
  /\ mode \in Modes /\ kind \in Kinds
  /\ top = [d \in Deque |-> 0] /\ bottom = [d \in Deque |-> 0]
  /\ cache = [d \in Deque |-> 0]
  /\ pc = [t \in Thread |-> IF t \notin Parties THEN "gone"
                            ELSE IF mode \in Alone THEN "push" ELSE "start"]
  /\ seen = [t \in Thread |-> 0]
  /\ base = 0 /\ j = 0
  /\ todo = [d \in Deque |-> IF mode = "multi_queue" THEN Share(d) ELSE 0]
  /\ remaining = IF mode \in Alone \union Bulk THEN 0 ELSE COUNT
  /\ started = FALSE /\ done = FALSE
  /\ arrived = {}
  /\ pushed = 0 /\ taken = 0

At(t, l) == pc[t] = l
Goto(t, l) == pc' = [pc EXCEPT ![t] = l]
Size(d) == bottom[d] - top[d]

-----------------------------------------------------------------------------
(* The deque *)

\* The room a push sees: that of the cached top, or, when this is none, that
\* of the top.
Stale(d) == CAP - (bottom[d] - cache[d])
Room(d) == IF Stale(d) > 0 THEN Stale(d) ELSE CAP - Size(d)

\* try_push, try_bulk_push: as many of n items as there is room for.
PushItems(d, n) ==
  /\ bottom' = [bottom EXCEPT ![d] = @ + Min({n, Room(d)})]
  /\ cache' = IF Stale(d) > 0 THEN cache ELSE [cache EXCEPT ![d] = top[d]]
  /\ pushed' = pushed + Min({n, Room(d)})
  /\ UNCHANGED <<top, taken>>

\* Mutant: a pop from an empty deque leaves the owner's cached top as it is.
CacheAfterMutant(d) == IF kind = "ours" /\ Size(d) > 0 THEN top'[d]
                                                       ELSE cache[d]
CacheAfter(d) == IF kind = "ours" THEN top'[d] ELSE cache[d]

\* pop: the last item is taken by moving top.
PopItem(d) ==
  /\ Size(d) > 0
  /\ top' = IF Size(d) = 1 THEN [top EXCEPT ![d] = @ + 1] ELSE top
  /\ bottom' = IF Size(d) = 1 THEN bottom ELSE [bottom EXCEPT ![d] = @ - 1]
  /\ cache' = [cache EXCEPT ![d] = CacheAfter(d)]
  /\ taken' = taken + 1
  /\ UNCHANGED pushed
PopNothing(d) ==
  /\ Size(d) = 0
  /\ UNCHANGED <<top, bottom, pushed, taken>>
  /\ cache' = [cache EXCEPT ![d] = CacheAfter(d)]

\* A thief finds the deque empty, or its owner in the middle of a pop.
LooksEmpty(d) ==
  \/ Size(d) = 0
  \/ Size(d) = 1 /\ pc[d] \in {"drain", "popElse", "finish", "popOwn"}

-----------------------------------------------------------------------------
(* std::barrier: start_barrier, and barrier in "bulk_concurrent", which have *)
(* the same parties and are never used at once                               *)

Arrive(t) ==
  /\ pc[t] \in {"start", "full", "drained"} /\ t \notin arrived
  /\ arrived' = arrived \union {t}
  /\ UNCHANGED <<chosen, deques, pc, seen, owner, flags, history>>

\* The last to arrive completes the phase, and lets all of them go on.
FirstStep(t) == CASE t = Watcher              -> "settle"
                  [] mode = "bulk_concurrent" -> "window"
                  [] mode = "multi_queue"     -> "outer"
                  [] OTHER -> IF t = Owner THEN "push" ELSE "outer"
AfterPhase(t) ==
  CASE At(t, "start")   -> FirstStep(t)
    [] At(t, "full")    -> IF t = Owner THEN "drain" ELSE "steal"
    [] At(t, "drained") -> "window"
    [] OTHER            -> pc[t]

CompletePhase ==
  /\ arrived = Parties
  /\ arrived' = {}
  /\ pc' = [t \in Thread |-> AfterPhase(t)]
  /\ UNCHANGED <<chosen, deques, seen, owner, flags, history>>

-----------------------------------------------------------------------------
(* The owner's windows: push_pop, interleaved, burst, bulk, concurrent,      *)
(* bulk_concurrent                                                           *)

Windowed == mode \in Alone \union Bulk \union {"concurrent"}
Window == Min({COUNT - base, CASE mode = "interleaved" -> 1
                               [] mode = "burst"       -> BURST
                               [] OTHER                -> CAP})
Step == IF mode \in Bulk THEN BATCH ELSE 1

\* The result of the push is not looked at.
WindowPush ==
  /\ Windowed /\ At(Owner, "push") /\ j + Step <= Window
  /\ PushItems(Owner, Step)
  /\ j' = j + Step
  /\ UNCHANGED <<chosen, pc, seen, base, todo, flags, arrived>>

WindowFull ==
  /\ Windowed /\ At(Owner, "push") /\ j + Step > Window
  /\ j' = 0
  /\ started' = (mode = "concurrent")
  /\ Goto(Owner, IF mode = "bulk_concurrent" THEN "full" ELSE "drain")
  /\ UNCHANGED <<chosen, deques, seen, base, todo, remaining, done, arrived,
                 history>>

\* As many pops as pushes, or pops until there is nothing.
Counted == mode \in {"push_pop", "interleaved", "burst"}

WindowPop ==
  /\ Windowed /\ At(Owner, "drain") /\ (Counted => j < Window)
  /\ IF Counted /\ Size(Owner) = 0 THEN PopNothing(Owner) ELSE PopItem(Owner)
  /\ j' = IF Counted THEN j + 1 ELSE j
  /\ Goto(Owner, IF mode = "concurrent" THEN "count" ELSE "drain")
  /\ UNCHANGED <<chosen, seen, base, todo, flags, arrived>>

WindowDrained ==
  /\ Windowed /\ At(Owner, "drain")
  /\ IF Counted THEN j = Window /\ UNCHANGED <<deques, history>>
                ELSE PopNothing(Owner)
  /\ j' = 0
  /\ base' = base + Window
  /\ started' = FALSE
  /\ Goto(Owner, CASE mode = "bulk_concurrent" -> "drained"
                   [] base' < COUNT            -> "push"
                   [] mode = "concurrent"      -> "settle"
                   [] OTHER                    -> "gone")
  /\ UNCHANGED <<chosen, seen, todo, remaining, done, arrived>>

\* The loop of every thread of "bulk_concurrent" over the same windows.
NextWindow(t) ==
  /\ At(t, "window")
  /\ Goto(t, IF base >= COUNT THEN "gone"
             ELSE IF t = Owner THEN "push" ELSE "full")
  /\ UNCHANGED <<chosen, deques, seen, owner, flags, arrived, history>>

-----------------------------------------------------------------------------
(* The owner's loops of continuous and sparse, which look at the result *)

LoopPush ==
  /\ mode \in {"continuous", "sparse"} /\ At(Owner, "push") /\ j < COUNT
  /\ PushItems(Owner, 1)
  /\ j' = j + (pushed' - pushed)
  /\ Goto(Owner, IF mode = "continuous" /\ pushed' = pushed THEN "popElse"
                                                            ELSE "push")
  /\ UNCHANGED <<chosen, seen, base, todo, flags, arrived>>

LoopPop ==
  /\ \/ At(Owner, "popElse")
     \/ At(Owner, "finish") /\ remaining > 0
  /\ IF Size(Owner) > 0 THEN PopItem(Owner) ELSE PopNothing(Owner)
  /\ Goto(Owner, CASE Size(Owner) > 0       -> "count"
                   [] At(Owner, "popElse")  -> "push"
                   [] OTHER                 -> "finish")
  /\ UNCHANGED <<chosen, seen, owner, flags, arrived>>

\* Everything is pushed.
LoopPushed ==
  /\ mode \in {"continuous", "sparse"} /\ At(Owner, "push") /\ j = COUNT
  /\ done' = (mode = "sparse")
  /\ Goto(Owner, IF mode = "sparse" THEN "settle" ELSE "finish")
  /\ UNCHANGED <<chosen, deques, seen, owner, remaining, started, arrived,
                 history>>

LoopFinish ==
  /\ At(Owner, "finish") /\ remaining <= 0
  /\ done' = TRUE
  /\ Goto(Owner, "gone")
  /\ UNCHANGED <<chosen, deques, seen, owner, remaining, started, arrived,
                 history>>

-----------------------------------------------------------------------------
(* The workers of multi_queue *)

WorkerTest(t) ==
  /\ mode = "multi_queue" /\ At(t, "outer")
  /\ Goto(t, CASE remaining <= 0 -> "gone"
               [] todo[t] > 0    -> "pushOwn"
               [] OTHER          -> "popOwn")
  /\ UNCHANGED <<chosen, deques, seen, owner, flags, arrived, history>>

WorkerPush(t) ==
  /\ At(t, "pushOwn")
  /\ PushItems(t, 1)
  /\ todo' = [todo EXCEPT ![t] = @ - (pushed' - pushed)]
  /\ Goto(t, "popOwn")
  /\ UNCHANGED <<chosen, seen, base, j, flags, arrived>>

WorkerPop(t) ==
  /\ At(t, "popOwn")
  /\ IF Size(t) > 0 THEN PopItem(t) ELSE PopNothing(t)
  /\ Goto(t, IF Size(t) > 0 THEN "count" ELSE "steal")
  /\ UNCHANGED <<chosen, seen, owner, flags, arrived>>

-----------------------------------------------------------------------------
(* The thieves *)

\* Mutant: a thief leaves as soon as nothing more will be pushed.
ThiefTestMutant(t) ==
  /\ mode # "multi_queue" /\ At(t, "outer")
  /\ IF mode = "concurrent" THEN started \/ remaining <= 0 ELSE TRUE
  /\ Goto(t, IF (IF mode = "concurrent" THEN remaining <= 0 ELSE done)
             THEN "gone" ELSE "steal")
  /\ UNCHANGED <<chosen, deques, seen, owner, flags, arrived, history>>

\* The head of the loop; in "concurrent" a thief waits between the windows.
ThiefTest(t) ==
  /\ mode # "multi_queue" /\ At(t, "outer")
  /\ mode = "concurrent" => started \/ remaining <= 0
  /\ Goto(t, IF remaining <= 0 /\ (done \/ mode = "concurrent")
             THEN "gone" ELSE "steal")
  /\ UNCHANGED <<chosen, deques, seen, owner, flags, arrived, history>>

Victim(t) == IF mode = "multi_queue" THEN (t + 1) % (Thieves + 1) ELSE Owner
AfterMiss == IF mode = "bulk_concurrent" THEN "test" ELSE "outer"

Miss(t) ==
  /\ At(t, "steal") /\ LooksEmpty(Victim(t))
  /\ Goto(t, AfterMiss)
  /\ UNCHANGED <<chosen, deques, seen, owner, flags, arrived, history>>

Look(t) ==
  /\ At(t, "steal") /\ Size(Victim(t)) > 0
  /\ seen' = [seen EXCEPT ![t] = top[Victim(t)]]
  /\ Goto(t, "cas")
  /\ UNCHANGED <<chosen, deques, owner, flags, arrived, history>>

Cas(t) ==
  LET v == Victim(t)
      won == top[v] = seen[t]
  IN  /\ At(t, "cas")
      /\ top' = IF won THEN [top EXCEPT ![v] = @ + 1] ELSE top
      /\ taken' = IF won THEN taken + 1 ELSE taken
      /\ seen' = [seen EXCEPT ![t] = 0]
      /\ Goto(t, CASE ~won                     -> AfterMiss
                   [] mode = "bulk_concurrent" -> "steal"
                   [] OTHER                    -> "count")
      /\ UNCHANGED <<chosen, bottom, cache, owner, flags, arrived, pushed>>

\* q.empty(), after a steal that found nothing
TestEmpty(t) ==
  /\ At(t, "test")
  /\ \/ LooksEmpty(Owner) /\ Goto(t, "drained")
     \/ Size(Owner) > 0 /\ Goto(t, "steal")
  /\ UNCHANGED <<chosen, deques, seen, owner, flags, arrived, history>>

\* remaining.fetch_sub(1), after a pop or a steal
AfterCount(t) ==
  CASE mode = "concurrent"  -> IF t = Owner THEN "drain" ELSE "steal"
    [] mode = "multi_queue" -> "outer"
    [] OTHER                -> CASE t # Owner -> "outer"
                                 [] j < COUNT -> "push"
                                 [] OTHER     -> "finish"
Count(t) ==
  /\ At(t, "count")
  /\ remaining' = remaining - 1
  /\ Goto(t, AfterCount(t))
  /\ UNCHANGED <<chosen, deques, seen, owner, started, done, arrived,
                 history>>

\* Wait until the others have counted the last item.
Settle(t) ==
  /\ At(t, "settle") /\ remaining <= 0
  /\ Goto(t, "gone")
  /\ UNCHANGED <<chosen, deques, seen, owner, flags, arrived, history>>

-----------------------------------------------------------------------------

OwnerStep == \/ WindowPush \/ WindowFull \/ WindowPop \/ WindowDrained
             \/ LoopPush \/ LoopPop \/ LoopPushed \/ LoopFinish
ThreadStep(t) == \/ Arrive(t) \/ NextWindow(t)
                 \/ WorkerTest(t) \/ WorkerPush(t) \/ WorkerPop(t)
                 \/ ThiefTest(t) \/ Miss(t) \/ Look(t) \/ Cas(t)
                 \/ TestEmpty(t) \/ Count(t) \/ Settle(t)

Next == OwnerStep \/ CompletePhase \/ \E t \in Thread : ThreadStep(t)

Spec == Init /\ [][Next]_vars

\* Every thread runs.
FairSpec == /\ Spec
            /\ WF_vars(OwnerStep) /\ WF_vars(CompletePhase)
            /\ \A t \in Thread : WF_vars(ThreadStep(t))

-----------------------------------------------------------------------------
(* Properties *)

TypeOK ==
  /\ mode \in Modes /\ kind \in Kinds
  /\ {top, bottom, cache, todo} \subseteq [Deque -> 0 .. COUNT]
  /\ pc \in [Thread -> {"start", "full", "drained", "window", "push", "drain",
                        "popElse", "finish", "settle", "outer", "pushOwn",
                        "popOwn", "steal", "cas", "test", "count", "gone"}]
  /\ seen \in [Thread -> 0 .. COUNT]
  /\ {base, j} \subseteq 0 .. COUNT
  /\ remaining \in 0 .. COUNT
  /\ arrived \subseteq Thread
  /\ {started, done} \subseteq BOOLEAN

Over == \A t \in Thread : At(t, "gone")

\* What a bulk run leaves out: its last window in batches.
LeftOut == IF mode \in Bulk THEN (COUNT % CAP) % BATCH ELSE 0

\* A run does the work its result is computed from.  No push whose result is
\* ignored fails, so the deque is empty at the start of every window, whoever
\* drained it and whatever top the owner has cached; no thief of
\* bulk_concurrent is still at work then; and when all threads are gone every
\* item was pushed, taken once and counted.  This leaves out the bulk runs of
\* wsq::BoundedWSQ: see AllPushed.
NothingLost ==
  /\ TypeOK
  /\ (Windowed /\ At(Owner, "push") /\ j = 0) =>
       /\ Size(Owner) = 0
       /\ mode = "bulk_concurrent" =>
            \A t \in Thread : pc[t] \notin {"steal", "cas", "test", "drained"}
  /\ (Windowed /\ At(Owner, "push") /\ j + Step <= Window) =>
       Room(Owner) >= Step \/ (kind = "wsq" /\ mode \in Bulk)
  /\ Over => /\ \A d \in Deque : Size(d) = 0
             /\ taken = pushed /\ remaining = 0
             /\ pushed = COUNT - LeftOut \/ (kind = "wsq" /\ mode \in Bulk)

\* Every run ends.
Terminates == <>Over

\* bench() divides the number of operations, count pushes and as many pops,
\* by the time of the run: every item of a full batch is pushed.
AllPushed == Over => pushed = COUNT - LeftOut
=============================================================================
