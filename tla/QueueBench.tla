----------------------------- MODULE QueueBench -----------------------------
(***************************************************************************)
(* The benchmark drivers of bench/ that run a queue between producers and  *)
(* consumers, with the barrier of sync.h and the bump allocator of         *)
(* memory.cpp:                                                             *)
(*   "sum"    benchmark_throughput of mpmc_bench.cpp, and with one pair of *)
(*            queue_measure.h: consumers add up what they pop until they   *)
(*            pop a stop, the driver compares the total                    *)
(*   "check"  run_throughput and its variants in queue_bench.cpp: the      *)
(*            consumer compares every value                                *)
(*   "pingpong"  ping_pong_benchmark of mpmc_bench.cpp and queue_bench2.cpp *)
(*   "rtt"    run_rtt and its variants in queue_bench.cpp                  *)
(*                                                                         *)
(* The queues are what MpmcSeq and Mpmc1 promise of push and pop: a call   *)
(* takes a ticket and then waits for its slot.  Where laps is FALSE, as in *)
(* Mpmc1, a slot does not know whose lap it is, and calls that wait for    *)
(* the same slot may overtake each other.  A queue of one producer and one *)
(* consumer is the case with one thread on either side.  The retry loops   *)
(* around try_push and try_pop wait like push and pop.                     *)
(***************************************************************************)
EXTENDS Naturals, Sequences, FiniteSets, FiniteSetsExt

CONSTANTS Drivers,    \* the drivers to consider
          MaxPairs,   \* thread_pairs, at most
          Messages,   \* message_count, NUM_ITERATIONS
          Capacity    \* slots of a queue

ASSUME BenchAssumption ==
  /\ Drivers \subseteq {"sum", "check", "pingpong", "rtt"}
  /\ {MaxPairs, Messages, Capacity} \subseteq Nat \ {0}

Thread == 0 .. 2 * MaxPairs - 1
Main == 0

VARIABLES
  driver, pairs, laps,     \* chosen once
  pc, n, got,              \* each thread: where it is, its loop variable, and
                           \* the value it popped last
  ticket, stamp, sum,      \* its ticket, the time it read, its sum
  counter,                 \* Barrier::counter_
  q,                       \* the two queues
  startTime, endTime, lastConsumer,
  hp, held                 \* the blocks of HugePages from beg_ to cur_, and
                           \* how many queues the driver holds

locals == <<n, got, ticket, stamp, sum>>
times == <<startTime, endTime, lastConsumer>>
memory == <<hp, held>>
chosen == <<driver, pairs, laps>>
vars == <<chosen, pc, locals, counter, q, times, memory>>

\* The threads of this run, and what each does.
Live == 0 .. 2 * pairs - 1
Role(t) == CASE driver = "sum"      -> IF t \in 1 .. pairs THEN "producer"
                                                           ELSE "consumer"
             [] driver = "check"    -> IF t = Main THEN "feeder" ELSE "checker"
             [] driver = "pingpong" -> IF t = Main THEN "sender"
                                                   ELSE "receiver"
             [] driver = "rtt"      -> IF t = Main THEN "asker" ELSE "echo"
Barriered == driver \in {"sum", "pingpong"}
Queues == CASE driver = "sum" -> 1 [] driver = "pingpong" -> 2 [] OTHER -> 0

Slot(k) == k % Capacity

\* A new queue.  Of the queue's own state the drivers depend on the tickets
\* drawn (tail, head) and on how often each slot was stored and taken, which is
\* what its sequence number or state byte tells.
EmptyQueue == [tail |-> 0, head |-> 0,
               stores |-> [s \in 0 .. Capacity - 1 |-> 0],
               takes |-> [s \in 0 .. Capacity - 1 |-> 0],
               val |-> [s \in 0 .. Capacity - 1 |-> 0]]

\* __rdtsc, as far as it tells anything of the run.
Now == 1 + q[1].head + q[1].tail

Init ==
  /\ driver \in Drivers /\ laps \in BOOLEAN
  /\ pairs \in IF driver = "sum" THEN 1 .. MaxPairs ELSE {1}
  /\ pc = [t \in Thread |-> IF t = Main THEN "setup" ELSE "unborn"]
  /\ n = [t \in Thread |-> IF Barriered THEN 1 ELSE 0]
  /\ got = [t \in Thread |-> 0] /\ ticket = [t \in Thread |-> 0]
  /\ stamp = [t \in Thread |-> 0] /\ sum = [t \in Thread |-> 0]
  /\ counter = 0
  /\ q = [i \in 1 .. 2 |-> EmptyQueue]
  /\ startTime = 0 /\ endTime = 0 /\ lastConsumer = pairs
  /\ hp = <<>> /\ held = 0

At(t, l) == pc[t] = l
Goto(t, l) == pc' = [pc EXCEPT ![t] = l]
Set(f, t, v) == [f EXCEPT ![t] = v]

\* Where a thread goes to work, and where it ends.
Work(t) == CASE Role(t) = "producer"                   -> "clock"
             [] Role(t) \in {"feeder", "sender", "asker"} -> "push"
             [] OTHER                                  -> "pop"
Exit(t) == IF t = Main THEN "join" ELSE "done"

-----------------------------------------------------------------------------
(* The driver: set-up, threads, barrier *)

\* create_unique_ptr
Create ==
  /\ At(Main, "setup") /\ held < Queues
  /\ held' = held + 1
  /\ hp' = Append(hp, held + 1)
  /\ UNCHANGED <<chosen, pc, locals, counter, q, times>>

\* Start one more thread, in the order of either placement.
Spawn(t) ==
  /\ At(Main, "setup") /\ held = Queues
  /\ t \in Live \ {Main} /\ At(t, "unborn")
  /\ Goto(t, IF Barriered THEN "arrive" ELSE Work(t))
  /\ UNCHANGED <<chosen, locals, counter, q, times, memory>>

\* Mutant: the barrier opens without waiting for the threads.
ReleaseMutant ==
  /\ At(Main, "setup") /\ \A t \in Live : ~At(t, "unborn")
  /\ counter' = 0
  /\ Goto(Main, Work(Main))
  /\ UNCHANGED <<chosen, locals, q, times, memory>>

\* Barrier::release, if there is a barrier.
Release ==
  /\ At(Main, "setup") /\ \A t \in Live : ~At(t, "unborn")
  /\ Barriered => counter = Cardinality(Live) - 1
  /\ counter' = 0
  /\ Goto(Main, Work(Main))
  /\ UNCHANGED <<chosen, locals, q, times, memory>>

\* Barrier::wait
Arrive(t) ==
  /\ At(t, "arrive")
  /\ counter' = counter + 1
  /\ Goto(t, "spin")
  /\ UNCHANGED <<chosen, locals, q, times, memory>>

Pass(t) ==
  /\ At(t, "spin") /\ counter = 0
  /\ Goto(t, Work(t))
  /\ UNCHANGED <<chosen, locals, counter, q, times, memory>>

\* In "sum" the producers read the clock, and the first to store it wins; the
\* consumers read it after they popped a stop.
ReadClock(t) ==
  /\ pc[t] \in {"clock", "stop"}
  /\ stamp' = Set(stamp, t, Now)
  /\ Goto(t, IF At(t, "clock") THEN "start" ELSE "last")
  /\ UNCHANGED <<chosen, n, got, ticket, sum, counter, q, times, memory>>

SetStart(t) ==
  /\ At(t, "start")
  /\ startTime' = IF startTime = 0 THEN stamp[t] ELSE startTime
  /\ Goto(t, "push")
  /\ UNCHANGED <<chosen, locals, counter, q, endTime, lastConsumer, memory>>

-----------------------------------------------------------------------------
(* push *)

PushTo(t) == IF Role(t) \in {"receiver", "echo"} THEN 2 ELSE 1

PushTicket(t) ==
  /\ At(t, "push")
  /\ ticket' = Set(ticket, t, q[PushTo(t)].tail)
  /\ q' = [q EXCEPT ![PushTo(t)].tail = @ + 1]
  /\ Goto(t, "put")
  /\ UNCHANGED <<chosen, n, got, stamp, sum, counter, times, memory>>

\* What a thread does after its push, and so where its loop ends: the last push
\* of a producer is the stop, and a receiver has already popped the value its
\* loop tests.
ProducerLoop(t) == IF n[t] = Messages + 1 THEN Exit(t) ELSE "push"
FeederLoop(t) == IF n[t] = Messages - 1 THEN Exit(t) ELSE "push"
ReceiverLoop(t) == IF got[t] >= Messages THEN Exit(t) ELSE "pop"
EchoLoop(t) == IF n[t] = Messages - 1 THEN Exit(t) ELSE "pop"

AfterPush(t) ==
  CASE Role(t) = "producer" -> ProducerLoop(t)
    [] Role(t) = "feeder"   -> FeederLoop(t)
    [] Role(t) = "receiver" -> ReceiverLoop(t)
    [] Role(t) = "echo"     -> EchoLoop(t)
    [] OTHER                -> "pop"

\* Whose loop variable moves on after a push; the others pop first.
CountsPush(t) == Role(t) \notin {"sender", "asker"}

Put(t) ==
  LET i == PushTo(t)
      s == Slot(ticket[t])
      v == IF Role(t) = "echo" THEN got[t] ELSE n[t]
  IN  /\ At(t, "put") /\ q[i].stores[s] = q[i].takes[s]
      /\ laps => q[i].stores[s] = ticket[t] \div Capacity
      /\ q' = [q EXCEPT ![i].stores[s] = @ + 1, ![i].val[s] = v]
      /\ n' = IF CountsPush(t) THEN [n EXCEPT ![t] = @ + 1] ELSE n
      /\ ticket' = Set(ticket, t, 0)
      /\ Goto(t, AfterPush(t))
      /\ UNCHANGED <<chosen, got, stamp, sum, counter, times, memory>>

-----------------------------------------------------------------------------
(* pop *)

PopFrom(t) == IF Role(t) \in {"sender", "asker"} THEN 2 ELSE 1

PopTicket(t) ==
  /\ At(t, "pop")
  /\ ticket' = Set(ticket, t, q[PopFrom(t)].head)
  /\ q' = [q EXCEPT ![PopFrom(t)].head = @ + 1]
  /\ Goto(t, "get")
  /\ UNCHANGED <<chosen, n, got, stamp, sum, counter, times, memory>>

\* What a thread does after it popped v; a wrong value ends the program.
\* Mutant: the stop is the number of messages.
ConsumerLoopMutant(v) == IF v = Messages THEN "stop" ELSE "pop"
ConsumerLoop(v) == IF v = Messages + 1 THEN "stop" ELSE "pop"
SenderLoop(t, v) == IF v >= Messages THEN Exit(t) ELSE "push"
CheckerLoop(t, v) == CASE v # n[t]            -> "failed"
                       [] n[t] = Messages - 1 -> Exit(t)
                       [] OTHER               -> "pop"
AskerLoop(t, v) == CASE v # n[t]            -> "failed"
                     [] n[t] = Messages - 1 -> Exit(t)
                     [] OTHER               -> "push"

AfterPop(t, v) ==
  CASE Role(t) = "consumer" -> ConsumerLoop(v)
    [] Role(t) = "sender"   -> SenderLoop(t, v)
    [] Role(t) = "checker"  -> CheckerLoop(t, v)
    [] Role(t) = "asker"    -> AskerLoop(t, v)
    [] OTHER                -> "push"

\* Whose loop variable moves on after a pop.
CountsPop(t) == Role(t) \in {"sender", "checker", "asker"}

Get(t) ==
  LET i == PopFrom(t)
      s == Slot(ticket[t])
      v == q[i].val[s]
  IN  /\ At(t, "get") /\ q[i].stores[s] = q[i].takes[s] + 1
      /\ laps => q[i].takes[s] = ticket[t] \div Capacity
      /\ q' = [q EXCEPT ![i].takes[s] = @ + 1, ![i].val[s] = 0]
      /\ got' = IF Role(t) \in {"receiver", "echo"} THEN Set(got, t, v)
                                                   ELSE got
      /\ n' = IF CountsPop(t) THEN [n EXCEPT ![t] = @ + 1] ELSE n
      /\ sum' = IF Role(t) = "consumer" /\ AfterPop(t, v) = "pop"
                THEN [sum EXCEPT ![t] = @ + v] ELSE sum
      /\ ticket' = Set(ticket, t, 0)
      /\ Goto(t, AfterPop(t, v))
      /\ UNCHANGED <<chosen, stamp, counter, times, memory>>

\* The consumer that counts last_consumer down to zero stores its own time.
Last(t) ==
  /\ At(t, "last")
  /\ lastConsumer' = lastConsumer - 1
  /\ endTime' = IF lastConsumer = 1 THEN stamp[t] ELSE endTime
  /\ Goto(t, Exit(t))
  /\ UNCHANGED <<chosen, locals, counter, q, startTime, memory>>

-----------------------------------------------------------------------------
(* The driver: the end *)

Join ==
  /\ At(Main, "join") /\ \A t \in Live \ {Main} : At(t, "done")
  /\ Goto(Main, "free")
  /\ UNCHANGED <<chosen, locals, counter, q, times, memory>>

\* The queues are destroyed in the opposite order of their creation;
\* HugePages::deallocate gives back the last block only.
Free ==
  /\ At(Main, "free") /\ held > 0
  /\ held' = held - 1
  /\ hp' = IF hp # <<>> /\ hp[Len(hp)] = held
           THEN SubSeq(hp, 1, Len(hp) - 1) ELSE hp
  /\ UNCHANGED <<chosen, pc, locals, counter, q, times>>

Finish ==
  /\ At(Main, "free") /\ held = 0
  /\ Goto(Main, "over")
  /\ UNCHANGED <<chosen, locals, counter, q, times, memory>>

-----------------------------------------------------------------------------

Step(t) == \/ Arrive(t) \/ Pass(t) \/ ReadClock(t) \/ SetStart(t)
           \/ PushTicket(t) \/ Put(t) \/ PopTicket(t) \/ Get(t) \/ Last(t)
DriverStep == Create \/ Release \/ Join \/ Free \/ Finish

Next == \/ DriverStep
        \/ \E t \in Thread : Spawn(t) \/ Step(t)

Spec == Init /\ [][Next]_vars

\* Every thread runs.
FairSpec == /\ Spec
            /\ WF_vars(DriverStep \/ \E t \in Thread : Spawn(t))
            /\ \A t \in Thread : WF_vars(Step(t))

-----------------------------------------------------------------------------
(* Properties *)

TypeOK ==
  /\ driver \in Drivers /\ pairs \in 1 .. MaxPairs /\ laps \in BOOLEAN
  /\ pc \in [Thread -> {"setup", "unborn", "arrive", "spin", "clock", "start",
                        "push", "put", "pop", "get", "stop", "last", "join", "done",
                        "free", "over", "failed"}]
  /\ counter \in 0 .. 2 * MaxPairs - 1
  /\ {startTime, endTime, lastConsumer, held} \subseteq Nat
  /\ hp \in Seq(1 .. 2)

\* No thread passes the barrier before every thread has come to it, and none
\* is left behind in it.
StartsTogether ==
  Barriered /\ ~At(Main, "setup") =>
    /\ \A t \in Live : pc[t] \notin {"unborn", "arrive"}
    /\ counter = 0

Expected == pairs * ((Messages * (Messages + 1)) \div 2)

\* What the drivers print is right: no checked value is wrong; the consumers
\* have added up every message of every producer, although each stops at the
\* first stop it pops, whoever pushed it, and although in Mpmc1 values of one
\* producer may overtake each other; the queues are empty; the time measured
\* is that of a run; and no block of HugePages is leaked.
ResultsRight ==
  /\ TypeOK
  /\ StartsTogether
  /\ \A t \in Thread : ~At(t, "failed")
  /\ At(Main, "over") =>
       /\ \A i \in 1 .. 2 : q[i].stores = q[i].takes
       /\ hp = <<>>
       /\ driver = "sum" =>
            /\ startTime \in 1 .. endTime - 1
            /\ MapThenSumSet(LAMBDA t : sum[t], Live) = Expected

\* Every run ends.
Terminates == <>At(Main, "over")
=============================================================================
