------------------------------- MODULE Orbit -------------------------------
(***************************************************************************)
(* The bounded multi-producer multi-consumer queue of include/orbit.h      *)
(* (orbit::mpmc_queue), a comparator of the benchmarks.  A slot's state is *)
(* a pair of the lap it is in and one of four phases; an operation claims  *)
(* the slot at the index it read with a CAS on this state and then moves   *)
(* the index.  do_push and do_pop are the same code for the two ends of    *)
(* the queue, so one set of actions describes both.                        *)
(*                                                                         *)
(* helping is the template argument NONBLOCKING: indices move by CAS, and  *)
(* a thread that sees the claim of another moves the index for it.         *)
(* compare_exchange_weak fails only if the values differ, as on x86.       *)
(*                                                                         *)
(* Memory.  Every step is one access to shared memory.  The claim acquires *)
(* and the release of the slot comes after the access to the element.      *)
(***************************************************************************)
EXTENDS Integers, Sequences, FiniteSets

CONSTANTS SIZE,        \* the template argument, a power of two
          STEP,        \* distance of consecutive slots, an odd number
          Thread,      \* the threads; each may push and pop
          Watched,     \* the threads whose progress is checked
          MaxTickets   \* bound: pushes and pops in a run, each

\* "An odd step size guarantees full period", SIZE being a power of two: STEP
\* has an inverse modulo SIZE.
ASSUME OrbitAssumption ==
  /\ SIZE \in Nat \ {0} /\ STEP \in Nat
  /\ \E u \in 0 .. SIZE - 1 : (STEP * u) % SIZE = 1 % SIZE
  /\ Watched \subseteq Thread /\ MaxTickets \in Nat

Ticket == 0 .. MaxTickets - 1
Slots == 0 .. SIZE - 1
Slot(i) == (i * STEP) % SIZE

VARIABLES
  helping,         \* chosen once
  back, front,     \* _back and _front
  states,          \* _states: <<lap, phase>>
  elem,            \* _elements: the push that filled the slot
  pc, op, pos,     \* where a thread is, in which operation, and the index
                   \* it read
  stored, taken    \* history: what each ticket stored and took

threadVars == <<pc, op, pos>>
history == <<stored, taken>>
vars == <<helping, back, front, states, elem, threadVars, history>>

Op == {"push", "try_push", "pop", "try_pop", "was_empty", "was_full"}
Phase == {"EMPTY", "FULL", "READING", "WRITING"}

TypeOK ==
  /\ helping \in BOOLEAN
  /\ {back, front} \subseteq Nat
  /\ states \in [Slots -> Nat \X Phase]
  /\ elem \in [Slots -> Nat]
  /\ pc \in [Thread -> {"idle", "load", "claim", "help", "move", "access",
                        "release", "compare"}]
  /\ pos \in [Thread -> Nat] /\ op \in [Thread -> Op \union {"none"}]
  /\ {stored, taken} \subseteq [Ticket -> Seq(Ticket)]

Init ==
  /\ helping \in BOOLEAN
  /\ back = 0 /\ front = 0
  /\ states = [s \in Slots |-> <<0, "EMPTY">>]
  /\ elem = [s \in Slots |-> 0]
  /\ pc = [t \in Thread |-> "idle"]
  /\ pos = [t \in Thread |-> 0] /\ op = [t \in Thread |-> "none"]
  /\ stored = [k \in Ticket |-> <<>>] /\ taken = [k \in Ticket |-> <<>>]

At(t, l) == pc[t] = l
Goto(t, l) == pc' = [pc EXCEPT ![t] = l]
\* The operation returns; its local variables are gone.
Return(t) == /\ Goto(t, "idle")
             /\ pos' = [pos EXCEPT ![t] = 0]
             /\ op' = [op EXCEPT ![t] = "none"]
MySlot(t) == Slot(pos[t])
Back(o) == o \in {"push", "try_push", "was_full"}
Pushes(t) == Back(op[t])
MayFail(t) == op[t] \in {"try_push", "try_pop"}
Cycle(t) == (pos[t] \div SIZE) + 1

\* The index of the thread's end of the queue, and how it changes.
End(t) == IF Pushes(t) THEN back ELSE front
SetEnd(t, i) == IF Pushes(t) THEN back' = i /\ UNCHANGED front
                             ELSE front' = i /\ UNCHANGED back

\* expected_state, desired_state, and the state stored at the end.
Expected(t) == IF Pushes(t) THEN <<Cycle(t) - 1, "EMPTY">>
                            ELSE <<Cycle(t), "FULL">>
Desired(t) == <<Cycle(t), IF Pushes(t) THEN "WRITING" ELSE "READING">>
Released(t) == <<Cycle(t), IF Pushes(t) THEN "FULL" ELSE "EMPTY">>

-----------------------------------------------------------------------------
(* push, try_push, pop, try_pop *)

\* The call, with the load of the index that begins it.
Call(t, o) ==
  /\ At(t, "idle")
  /\ op' = [op EXCEPT ![t] = o]
  /\ pos' = [pos EXCEPT ![t] = IF Back(o) THEN back ELSE front]
  /\ pos'[t] < MaxTickets
  /\ Goto(t, IF o \in {"was_empty", "was_full"} THEN "compare" ELSE "claim")
  /\ UNCHANGED <<helping, back, front, states, elem, history>>

\* The load that begins another attempt.
LoadEnd(t) ==
  /\ At(t, "load")
  /\ pos' = [pos EXCEPT ![t] = End(t)]
  /\ Goto(t, "claim")
  /\ UNCHANGED <<helping, back, front, states, elem, op, history>>

\* Mutant: the phase is compared and the lap is not.
ClaimMutant(t) ==
  /\ At(t, "claim") /\ pos[t] < MaxTickets
  /\ states[MySlot(t)][2] = Expected(t)[2]
  /\ states' = [states EXCEPT ![MySlot(t)] = Desired(t)]
  /\ Goto(t, "move")
  /\ UNCHANGED <<helping, back, front, elem, op, pos, history>>

\* Mutant: any slot of the lap that is not taken yet will do.
ClaimAnyMutant(t) ==
  /\ At(t, "claim") /\ pos[t] < MaxTickets
  /\ states[MySlot(t)][1] \in {Cycle(t) - 1, Cycle(t)}
  /\ states' = [states EXCEPT ![MySlot(t)] = Desired(t)]
  /\ Goto(t, "move")
  /\ UNCHANGED <<helping, back, front, elem, op, pos, history>>

\* The CAS on the slot's state succeeds.
Claim(t) ==
  /\ At(t, "claim") /\ pos[t] < MaxTickets
  /\ states[MySlot(t)] = Expected(t)
  /\ states' = [states EXCEPT ![MySlot(t)] = Desired(t)]
  /\ Goto(t, "move")
  /\ UNCHANGED <<helping, back, front, elem, op, pos, history>>

\* The lap before is not over at this slot: the queue is full, or empty.
LapBehind(t) == states[MySlot(t)][1] = Cycle(t) - 1

\* It fails: give up, or help the thread that was first, or start again.
ClaimFails(t) ==
  /\ At(t, "claim")
  /\ states[MySlot(t)] # Expected(t)
  /\ IF MayFail(t) /\ LapBehind(t) THEN Return(t)
     ELSE /\ Goto(t, IF helping /\ states[MySlot(t)] = Desired(t)
                     THEN "help" ELSE "load")
          /\ UNCHANGED <<op, pos>>
  /\ UNCHANGED <<helping, back, front, states, elem, history>>

\* The index moves on from pos[t] if it is still there.
CasEnd(t) == \/ End(t) = pos[t] /\ SetEnd(t, pos[t] + 1)
             \/ End(t) # pos[t] /\ UNCHANGED <<back, front>>

Help(t) ==
  /\ At(t, "help")
  /\ CasEnd(t)
  /\ Goto(t, "load")
  /\ UNCHANGED <<helping, states, elem, op, pos, history>>

\* Mutant: the thread that claimed the slot relies on the others to move the
\* index.
MoveEndMutant(t) ==
  /\ At(t, "move")
  /\ IF helping THEN UNCHANGED <<back, front>> ELSE SetEnd(t, pos[t] + 1)
  /\ Goto(t, "access")
  /\ UNCHANGED <<helping, states, elem, op, pos, history>>

MoveEnd(t) ==
  /\ At(t, "move")
  /\ IF helping THEN CasEnd(t) ELSE SetEnd(t, pos[t] + 1)
  /\ Goto(t, "access")
  /\ UNCHANGED <<helping, states, elem, op, pos, history>>

Write(t) ==
  /\ At(t, "access") /\ Pushes(t)
  /\ elem' = [elem EXCEPT ![MySlot(t)] = pos[t]]
  /\ stored' = [stored EXCEPT ![pos[t]] = Append(@, pos[t])]
  /\ Goto(t, "release")
  /\ UNCHANGED <<helping, back, front, states, op, pos, taken>>

Read(t) ==
  /\ At(t, "access") /\ ~Pushes(t)
  /\ taken' = [taken EXCEPT ![pos[t]] = Append(@, elem[MySlot(t)])]
  /\ Goto(t, "release")
  /\ UNCHANGED <<helping, back, front, states, elem, op, pos, stored>>

Release(t) ==
  /\ At(t, "release")
  /\ states' = [states EXCEPT ![MySlot(t)] = Released(t)]
  /\ Return(t)
  /\ UNCHANGED <<helping, back, front, elem, history>>

-----------------------------------------------------------------------------
(* was_empty and was_full: the second load, and the comparison *)

SaysEmpty(t) == op[t] = "was_empty" /\ back <= pos[t]
\* Mutant: an off-by-one.
SaysFullMutant(t) == op[t] = "was_full" /\ pos[t] + 1 >= front + SIZE
SaysFull(t) == op[t] = "was_full" /\ pos[t] >= front + SIZE

Compare(t) ==
  /\ At(t, "compare")
  /\ Return(t)
  /\ UNCHANGED <<helping, back, front, states, elem, history>>

-----------------------------------------------------------------------------

Step(t) == \/ LoadEnd(t) \/ Claim(t) \/ ClaimFails(t) \/ Help(t)
           \/ MoveEnd(t) \/ Write(t) \/ Read(t) \/ Release(t)
           \/ Compare(t)

Next == \/ \E t \in Thread : Step(t) \/ \E o \in Op : Call(t, o)

Spec == Init /\ [][Next]_vars

\* Every thread inside an operation takes its next step; calls are free.
FairSpec == Spec /\ \A t \in Thread : WF_vars(Step(t))

-----------------------------------------------------------------------------
(* Properties *)

Owns(t) == pc[t] \in {"move", "access", "release"}

\* A thread that has claimed a slot owns it until it releases it: the state
\* stays the one it stored, and no other thread claims the slot, on whatever
\* lap and however late a stale index was used.
SlotOwned ==
  /\ TypeOK
  /\ \A t \in Thread : Owns(t) => states[MySlot(t)] = Desired(t)
  /\ \A t, u \in Thread :
       t # u /\ Owns(t) /\ Owns(u) => MySlot(t) # MySlot(u)

\* Pop number k returns what push number k stored, each exactly once, and at
\* most SIZE items are stored and not taken.
Tickets == INSTANCE TicketQueue WITH Value <- Ticket, Capacity <- SIZE
ImplementsTickets == Tickets!TicketSpec

\* The answers a call would give now are true.  was_empty and was_full "may
\* return false negative, but not false positive": no item can be popped, no
\* push would find its slot free.  try_push gives up only when the queue is full
\* or a pop is in flight, try_pop only when the queue is empty.
GivesUp(t) == /\ At(t, "claim") /\ MayFail(t)
              /\ states[MySlot(t)] # Expected(t) /\ LapBehind(t)
PopInFlight == \E t \in Thread : Owns(t) /\ ~Pushes(t)
AnswersHonest ==
  \A t \in Thread :
    /\ SaysEmpty(t) => \A s \in Slots : states[s][2] # "FULL"
    /\ SaysFull(t) => states[Slot(back)] # <<back \div SIZE, "EMPTY">>
    /\ GivesUp(t) /\ Pushes(t) => PopInFlight \/ back >= front + SIZE
    /\ GivesUp(t) /\ ~Pushes(t) => back <= front

-----------------------------------------------------------------------------
(* The inductive invariant *)

\* A slot goes through the phases EMPTY, WRITING, FULL, READING lap after lap;
\* its age counts the changes.
Changes(state) ==
  4 * state[1] - (IF state[2] = "WRITING" THEN 3 ELSE IF state[2] = "FULL" THEN 2
                  ELSE IF state[2] = "READING" THEN 1 ELSE 0)
Age(s) == Changes(states[s])

\* Whether the d-th change of the slot in the lap of index k has happened.
Reached(k, d) == Age(Slot(k)) > 4 * (k \div SIZE) + d
PushBegun(k) == Reached(k, 0)
PushDone(k)  == Reached(k, 1)
PopBegun(k)  == Reached(k, 2)
PopDone(k)   == Reached(k, 3)

\* No age is negative, and a slot is read only by a thread that owns it.
AgesRight ==
  \A s \in Slots :
    /\ Age(s) >= 0
    /\ states[s][2] = "READING"
         => \E t \in Thread : Owns(t) /\ ~Pushes(t) /\ MySlot(t) = s

\* An index a thread read is not ahead of the end of the queue; one it helps to
\* move past has been claimed; without helping, the end waits for the claimant.
PositionsRight ==
  \A t \in Thread :
    /\ pos[t] <= End(t)
    /\ Owns(t) => pos[t] \in Ticket
    /\ At(t, "help") =>
         helping /\ IF Pushes(t) THEN PushBegun(pos[t]) ELSE PopBegun(pos[t])
    /\ At(t, "move") /\ ~helping => End(t) = pos[t]

\* The operations begun are those below the ends of the queue and at most the
\* next one of each kind, whose thread is about to move the end.
Moving(t, k) == At(t, "move") /\ pos[t] = k
EndsRight ==
  \A k \in Nat :
    /\ PushBegun(k) <=>
         k < back \/ (k = back /\ \E t \in Thread : Moving(t, k) /\ Pushes(t))
    /\ PopBegun(k) <=>
         k < front \/ (k = front /\ \E t \in Thread : Moving(t, k) /\ ~Pushes(t))

\* What was stored and taken is what the slots' ages say, but for the threads
\* about to release their slot.
Releasing(t, k) == At(t, "release") /\ pos[t] = k
Wrote(k) == PushDone(k) \/ \E t \in Thread : Releasing(t, k) /\ Pushes(t)
Took(k) == PopDone(k) \/ \E t \in Thread : Releasing(t, k) /\ ~Pushes(t)
Recorded ==
  \A k \in Ticket :
    /\ stored[k] # <<>> <=> Wrote(k)
    /\ taken[k] # <<>> <=> Took(k)
    /\ Wrote(k) /\ ~PopDone(k) => stored[k] = <<k>> /\ elem[Slot(k)] = k

IInv == SlotOwned /\ AgesRight /\ PositionsRight /\ EndsRight /\ Recorded

\* A try operation returns, a push returns when there is room and a pop when
\* there is an item, unless the others are served for ever.
Exhausted(t) == End(t) = MaxTickets
Blocked(t) == IF Pushes(t) THEN back >= front + SIZE ELSE back <= front
OpsComplete ==
  \A t \in Watched :
    ~At(t, "idle") ~>
      At(t, "idle") \/ Exhausted(t) \/ (~MayFail(t) /\ Blocked(t))
=============================================================================
