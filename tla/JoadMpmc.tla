------------------------------ MODULE JoadMpmc ------------------------------
(***************************************************************************)
(* jdz::MpmcQueue of include/joad_q.h, a comparator of the benchmarks.  It *)
(* runs the algorithm of MpmcSeq on cells that own their elements: emplace *)
(* constructs, pop moves out and destroys, and the destructor of the queue *)
(* destroys what was never popped.  A cell knows by is_constructed whether *)
(* it holds an object.                                                     *)
(*                                                                         *)
(* The steps are those of MpmcSeq; this module adds what they do to the    *)
(* cells' objects, and the end of the queue's life.                        *)
(***************************************************************************)
EXTENDS MpmcSeq

VARIABLES live,         \* the cells that hold a live object
          constructed,  \* buffer_[i].is_constructed
          open          \* whether the queue object is alive

joadVars == <<vars, live, constructed, open>>

Cells == 0 .. SIZE - 1

\* The constructor puts an empty cell with sequence number i at index i.
JoadInit == /\ Init
            /\ live = [s \in Cells |-> FALSE]
            /\ constructed = [s \in Cells |-> FALSE]
            /\ open = TRUE

\* emplace, push, try_emplace, try_push; pop, try_pop.
Calls(t) ==
  /\ \/ t \in Producer /\ \E v \in Value : Push(t, v) \/ TryPush(t, v)
     \/ t \in Consumer /\ (Pop(t) \/ TryPop(t))
  /\ UNCHANGED <<live, constructed, open>>

\* The part of emplace and try_emplace that owns the cell.
Emplace(t) ==
  \/ /\ WriteVal(t)
     /\ live' = [live EXCEPT ![Slot(pos[t])] = TRUE]
     /\ constructed' = [constructed EXCEPT ![Slot(pos[t])] = TRUE]
     /\ UNCHANGED open
  \/ PushPublish(t) /\ UNCHANGED <<live, constructed, open>>

\* Mutant: the element is moved out and not destroyed.
TakeMutant(t) ==
  \/ ReadVal(t) /\ UNCHANGED <<live, constructed, open>>
  \/ PopPublish(t) /\ UNCHANGED <<live, constructed, open>>

\* The part of pop and try_pop that owns the cell: read and destroy.
Take(t) ==
  \/ /\ ReadVal(t)
     /\ live' = [live EXCEPT ![Slot(pos[t])] = FALSE]
     /\ constructed' = [constructed EXCEPT ![Slot(pos[t])] = FALSE]
     /\ UNCHANGED open
  \/ PopPublish(t) /\ UNCHANGED <<live, constructed, open>>

\* The loads and compare-and-swaps before it.
Claim(t) ==
  /\ \/ PushWait(t) \/ TryPushHead(t) \/ TryPushFull(t) \/ TryPushSeq(t)
     \/ TryPushCas(t)
     \/ PopWait(t) \/ TryPopTail(t) \/ TryPopEmpty(t) \/ TryPopSeq(t)
     \/ TryPopCas(t)
  /\ UNCHANGED <<live, constructed, open>>

\* ~BaseQueue, once every thread is done with the queue: each cell destroys the
\* object it holds, as far as its flag says that it holds one.
Destroy ==
  /\ \A t \in Thread : At(t, "idle")
  /\ live' = [s \in Cells |-> live[s] /\ ~constructed[s]]
  /\ constructed' = [s \in Cells |-> FALSE]
  /\ open' = FALSE
  /\ UNCHANGED vars

JoadStep(t) == Claim(t) \/ Emplace(t) \/ Take(t)

JoadNext == /\ open
            /\ Destroy \/ \E t \in Thread : Calls(t) \/ JoadStep(t)

JoadSpec == JoadInit /\ [][JoadNext]_joadVars

\* Every thread inside an operation takes its next step; calls are free.
JoadFairSpec == JoadSpec /\ \A t \in Thread : WF_joadVars(JoadStep(t))

-----------------------------------------------------------------------------
(* Properties *)

Waiting(s) ==
  {k \in Ticket : Slot(k) = s /\ stored[k] # <<>> /\ taken[k] = <<>>}

\* A cell holds one object exactly while the one item stored in it waits to be
\* popped, and its flag says so: no emplace constructs over a live object, no
\* pop destroys a dead one, and the destructor, which goes by the flags, neither
\* leaves an object behind nor destroys one twice.
LiveCells ==
  /\ constructed = live
  /\ \A s \in Cells : IF open /\ live[s] THEN Cardinality(Waiting(s)) = 1
                      ELSE ~live[s] /\ (open => Waiting(s) = {})
=============================================================================
