--------------------------- MODULE WorkStealDeque ---------------------------
(***************************************************************************)
(* The bounded work-stealing deque of include/work_steal_deque.h.  One     *)
(* owner pushes and pops at the bottom; thieves steal at the top.          *)
(*                                                                         *)
(* Memory.  The build is x86 (the header includes immintrin.h), so the     *)
(* owner's stores, to slots and to published_bottom_, wait in its store    *)
(* buffer and reach memory in order (Drain).  The owner's seq_cst fence    *)
(* and its CAS wait until the buffer is empty.  Thieves store nothing but  *)
(* by CAS, so they need no buffer, and their loads are in program order.   *)
(* buffer_ is not atomic: an element is copied word by word, and a thief   *)
(* may copy a slot while the owner's stores to it drain.                   *)
(***************************************************************************)
EXTENDS Integers, Sequences, FiniteSetsExt

CONSTANTS N,          \* the template argument, a power of two
          WORDS,      \* machine words of an element
          Thief,      \* threads that steal
          None,       \* not an item
          MaxItems,   \* bound: items pushed in a run
          MaxBulk     \* bound: items of one bulk push

CAPACITY == N
Slot(i) == i % N
Item == 0 .. MaxItems - 1      \* items are numbered in the order of their push
Word == 1 .. WORDS

ASSUME DequeAssumption == /\ N \in Nat \ {0}
                          /\ WORDS \in Nat \ {0}
                          /\ MaxItems \in Nat /\ MaxBulk \in Nat \ {0}
                          /\ None \notin Item \union (0 .. N - 1)

VARIABLES
  bottom, topCache,   \* owner_.bottom_, owner_.top_cache_
  top,                \* shared_top_.top_
  pubBottom,          \* published_bottom_.bottom_, as memory holds it
  buf,                \* buffer_, as memory holds it
  sb,                 \* the owner's store buffer, oldest store first
  pc,                 \* where the owner is
  arg,                \* the items the owner's push still has to store
  tPc, tTop, tVal,    \* each thief: where it is, its top, its copy
  pushed,             \* history: how many items were stored
  handed              \* history: how often each item was handed out

ownerVars == <<bottom, topCache, sb, pc, arg, pushed>>
thiefVars == <<tPc, tTop, tVal>>
vars == <<ownerVars, thiefVars, top, pubBottom, buf, handed>>

Init ==
  /\ bottom = 0 /\ topCache = 0 /\ top = 0 /\ pubBottom = 0
  /\ buf = [s \in 0 .. N - 1 |-> [w \in Word |-> None]]
  /\ sb = <<>>
  /\ pc = "idle" /\ arg = <<>>
  /\ tPc = [t \in Thief |-> "idle"]
  /\ tTop = [t \in Thief |-> 0]
  /\ tVal = [t \in Thief |-> [w \in Word |-> None]]
  /\ pushed = 0
  /\ handed = [i \in Item |-> 0]

Store == [slot : 0 .. N - 1, word : Word, val : Item]
           \union [slot : {None}, word : {0}, val : Nat]

TypeOK ==
  /\ {bottom, topCache, top, pubBottom, pushed} \subseteq Nat
  /\ buf \in [0 .. N - 1 -> [Word -> Item \union {None}]]
  /\ sb \in Seq(Store)
  /\ pc \in {"idle", "loadTry", "loadSpin", "storeTry", "storeSpin", "popLoad",
             "fence", "popTop", "popCas"}
  /\ arg \in Seq(Item)
  /\ tPc \in [Thief -> {"idle", "bottom", "copy", "cas"}]
  /\ tTop \in [Thief -> Nat]
  /\ tVal \in [Thief -> [Word -> Item \union {None}]]
  /\ handed \in [Item -> Nat]

HandOut(i) == handed' = [handed EXCEPT ![i] = @ + 1]

-----------------------------------------------------------------------------
(* The owner's stores *)

BottomStore(b) == [slot |-> None, word |-> 0, val |-> b]
SlotStores(i, items) ==   \* items go to the slots from index i on
  [x \in 1 .. Len(items) * WORDS |->
     LET k == (x - 1) \div WORDS
     IN  [slot |-> Slot(i + k), word |-> ((x - 1) % WORDS) + 1, val |-> items[k + 1]]]

\* The oldest buffered store reaches memory.
Drain ==
  /\ sb # <<>>
  /\ sb' = Tail(sb)
  /\ LET s == Head(sb) IN
       IF s.slot = None
       THEN pubBottom' = s.val /\ UNCHANGED buf
       ELSE buf' = [buf EXCEPT ![s.slot][s.word] = s.val] /\ UNCHANGED pubBottom
  /\ UNCHANGED <<bottom, topCache, pc, arg, pushed, thiefVars, top, handed>>

\* What the owner reads from a slot: its own buffered store, if there is one.
OwnerReads(s) ==
  LET mine == {k \in 1 .. Len(sb) : sb[k].slot = s}
  IN  IF mine = {} THEN buf[s][1] ELSE sb[Max(mine)].val

-----------------------------------------------------------------------------
(* try_push_bottom, push_bottom, try_bulk_push_bottom, bulk_push_bottom.     *)
(* A push of one item is a bulk push of one.                                 *)

Used(cache) == bottom - cache

CallPush(n, loadPc) ==
  /\ pc = "idle" /\ pushed + n <= MaxItems
  /\ arg' = [k \in 1 .. n |-> pushed + k - 1]
  /\ pc' = IF Used(topCache) >= CAPACITY THEN loadPc
           ELSE IF loadPc = "loadTry" THEN "storeTry" ELSE "storeSpin"
  /\ UNCHANGED <<bottom, topCache, sb, pushed, thiefVars, top, pubBottom, buf,
                 handed>>

\* Mutant: a full try operation gives up without loading top.
PushLoadTopMutant ==
  /\ pc \in {"loadTry", "loadSpin"}
  /\ pc' = "idle" /\ arg' = <<>>
  /\ UNCHANGED <<bottom, topCache, sb, pushed, thiefVars, top, pubBottom, buf,
                 handed>>

\* Reload the cache.  A full deque sends a try operation home, the others
\* round their loop.
PushLoadTop ==
  /\ pc \in {"loadTry", "loadSpin"}
  /\ topCache' = top
  /\ pc' = IF Used(top) < CAPACITY
           THEN IF pc = "loadTry" THEN "storeTry" ELSE "storeSpin"
           ELSE IF pc = "loadTry" THEN "idle" ELSE "loadSpin"
  /\ arg' = IF pc' = "idle" THEN <<>> ELSE arg
  /\ UNCHANGED <<bottom, sb, pushed, thiefVars, top, pubBottom, buf, handed>>

\* Store as many items as the cached top leaves room for, then the bottom.
\* try_bulk_push_bottom returns their number, bulk_push_bottom goes on with
\* the rest.
Accepted == Min({Len(arg), CAPACITY - Used(topCache)})
\* Mutant: the bottom is published before the slots are stored.
PushStoreMutant ==
  /\ pc \in {"storeTry", "storeSpin"}
  /\ sb' = sb \o <<BottomStore(bottom + 1)>> \o SlotStores(bottom, <<arg[1]>>)
  /\ bottom' = bottom + 1 /\ pushed' = pushed + 1
  /\ pc' = "idle" /\ arg' = <<>>
  /\ UNCHANGED <<topCache, thiefVars, top, pubBottom, buf, handed>>

PushStore ==
  /\ pc \in {"storeTry", "storeSpin"}
  /\ LET n == Accepted
         rest == SubSeq(arg, n + 1, Len(arg))
     IN /\ sb' = sb \o SlotStores(bottom, SubSeq(arg, 1, n))
                   \o <<BottomStore(bottom + n)>>
        /\ bottom' = bottom + n
        /\ pushed' = pushed + n
        /\ IF pc = "storeTry" \/ rest = <<>>
           THEN pc' = "idle" /\ arg' = <<>>
           ELSE pc' = "loadSpin" /\ arg' = rest
  /\ UNCHANGED <<topCache, thiefVars, top, pubBottom, buf, handed>>

-----------------------------------------------------------------------------
(* try_pop_bottom, pop_bottom *)

\* Take the bottom item back: the store of the lower bottom is buffered.
Retract == /\ bottom' = bottom - 1
           /\ sb' = Append(sb, BottomStore(bottom - 1))
           /\ pc' = "fence"

CallPop ==
  /\ pc = "idle"
  /\ IF bottom = topCache THEN pc' = "popLoad" /\ UNCHANGED <<bottom, sb>>
                          ELSE Retract
  /\ UNCHANGED <<topCache, arg, pushed, thiefVars, top, pubBottom, buf, handed>>

PopLoadTop ==
  /\ pc = "popLoad"
  /\ topCache' = top
  /\ IF bottom = top THEN pc' = "idle" /\ UNCHANGED <<bottom, sb>>
                     ELSE Retract
  /\ UNCHANGED <<arg, pushed, thiefVars, top, pubBottom, buf, handed>>

\* Mutant: the fence is missing.
FenceMutant ==
  /\ pc = "fence"
  /\ pc' = "popTop"
  /\ UNCHANGED <<bottom, topCache, sb, arg, pushed, thiefVars, top, pubBottom,
                 buf, handed>>

\* atomic_thread_fence(seq_cst): wait until every store is in memory.
Fence ==
  /\ pc = "fence" /\ sb = <<>>
  /\ pc' = "popTop"
  /\ UNCHANGED <<bottom, topCache, sb, arg, pushed, thiefVars, top, pubBottom,
                 buf, handed>>

\* Set bottom to b, with the matching cache, and leave the operation.
Settle(b, cache) == /\ bottom' = b
                    /\ topCache' = cache
                    /\ sb' = Append(sb, BottomStore(b))
                    /\ pc' = "idle"

\* Mutant: bottom stays retracted after a lost race.
PopLostMutant ==
  /\ pc = "popTop" /\ top > bottom
  /\ Settle(bottom, top)
  /\ UNCHANGED <<arg, pushed, thiefVars, top, pubBottom, buf, handed>>

\* The load of top after the fence: the thieves were faster, or the item is
\* the last one, or it is the owner's.
PopLost ==
  /\ pc = "popTop" /\ top > bottom
  /\ Settle(bottom + 1, top)
  /\ UNCHANGED <<arg, pushed, thiefVars, top, pubBottom, buf, handed>>

PopLast ==
  /\ pc = "popTop" /\ top = bottom
  /\ pc' = "popCas"
  /\ UNCHANGED <<bottom, topCache, sb, arg, pushed, thiefVars, top, pubBottom,
                 buf, handed>>

PopTake ==
  /\ pc = "popTop" /\ top < bottom
  /\ topCache' = top
  /\ pc' = "idle"
  /\ HandOut(OwnerReads(Slot(bottom)))
  /\ UNCHANGED <<bottom, sb, arg, pushed, thiefVars, top, pubBottom, buf>>

\* The owner and the thieves compete for the last item.
PopCas ==
  /\ pc = "popCas" /\ sb = <<>>
  /\ IF top = bottom
     THEN /\ top' = bottom + 1
          /\ Settle(bottom + 1, bottom + 1)
          /\ HandOut(OwnerReads(Slot(bottom)))
     ELSE /\ Settle(top, top)
          /\ UNCHANGED <<top, handed>>
  /\ UNCHANGED <<arg, pushed, thiefVars, pubBottom, buf>>

-----------------------------------------------------------------------------
(* try_steal_top, steal_top, steal_with_feedback *)

StealLoadTop(t) ==
  /\ tPc[t] = "idle"
  /\ tTop' = [tTop EXCEPT ![t] = top]
  /\ tPc' = [tPc EXCEPT ![t] = "bottom"]
  /\ UNCHANGED <<tVal, ownerVars, top, pubBottom, buf, handed>>

\* Mutant: a thief leaves the last item to the owner.
StealLoadBottomMutant(t) ==
  /\ tPc[t] = "bottom"
  /\ tPc' = [tPc EXCEPT ![t] = IF tTop[t] + 1 >= pubBottom THEN "idle"
                                                           ELSE "copy"]
  /\ UNCHANGED <<tTop, tVal, ownerVars, top, pubBottom, buf, handed>>

StealLoadBottom(t) ==
  /\ tPc[t] = "bottom"
  /\ tPc' = [tPc EXCEPT ![t] = IF tTop[t] >= pubBottom THEN "idle" ELSE "copy"]
  /\ UNCHANGED <<tTop, tVal, ownerVars, top, pubBottom, buf, handed>>

\* const T value = slot_ref(top): one word at a time, in order.
StealCopy(t) ==
  /\ tPc[t] = "copy"
  /\ LET w == Min({x \in Word : tVal[t][x] = None}) IN
       /\ tVal' = [tVal EXCEPT ![t][w] = buf[Slot(tTop[t])][w]]
       /\ tPc' = [tPc EXCEPT ![t] = IF w = WORDS THEN "cas" ELSE "copy"]
  /\ UNCHANGED <<tTop, ownerVars, top, pubBottom, buf, handed>>

StealCas(t) ==
  /\ tPc[t] = "cas"
  /\ IF top = tTop[t]
     THEN top' = top + 1 /\ HandOut(tVal[t][1])
     ELSE UNCHANGED <<top, handed>>
  /\ tPc' = [tPc EXCEPT ![t] = "idle"]
  /\ tVal' = [tVal EXCEPT ![t] = [w \in Word |-> None]]
  /\ UNCHANGED <<tTop, ownerVars, pubBottom, buf>>

-----------------------------------------------------------------------------

OwnerStep == \/ PushLoadTop \/ PushStore
             \/ PopLoadTop \/ Fence \/ PopLost \/ PopLast \/ PopTake \/ PopCas
ThiefStep(t) == StealLoadBottom(t) \/ StealCopy(t) \/ StealCas(t)

Next ==
  \/ \E n \in 1 .. MaxBulk, l \in {"loadTry", "loadSpin"} : CallPush(n, l)
  \/ CallPop \/ OwnerStep \/ Drain
  \/ \E t \in Thief : StealLoadTop(t) \/ ThiefStep(t)

Spec == Init /\ [][Next]_vars
\* A thread inside an operation takes its next step and the store buffer
\* drains; thieves steal again and again, as the workers of
\* bench/work_steal_bench.cpp do; the owner calls what it likes.
FairSpec == Spec /\ WF_vars(OwnerStep) /\ WF_vars(Drain)
                 /\ \A t \in Thief : WF_vars(StealLoadTop(t) \/ ThiefStep(t))

-----------------------------------------------------------------------------
(* Properties *)

\* The items in the deque.  While the owner takes the bottom item back, the
\* item is still in until the race for it is decided.
LogicalBottom == IF pc \in {"fence", "popTop", "popCas"} THEN bottom + 1
                                                         ELSE bottom
Contents == [k \in 1 .. LogicalBottom - top |-> OwnerReads(Slot(top + k - 1))]

\* size_t subtractions of the owner never wrap: the cached top is neither
\* ahead of top nor of bottom, and a full deque is recognised, after pops
\* that failed, lost or won the race for the last item.
IndicesSafe == /\ TypeOK
               /\ topCache <= top /\ topCache <= bottom
               /\ bottom - topCache <= CAPACITY
               /\ top <= LogicalBottom

\* A thief whose CAS would succeed holds an intact copy of the top item,
\* although it copied the slot word by word while the owner was free to push,
\* pop and overwrite.
CopyIntact ==
  \A t \in Thief : tPc[t] \in {"copy", "cas"} /\ tTop[t] = top =>
    \A w \in Word : tVal[t][w] # None => /\ Contents # <<>>
                                       /\ tVal[t][w] = Contents[1]

\* What the indices do not say by themselves.  Decided: what the owner found out
\* is still true when it acts on it.  Buffered: memory lags behind the owner, and
\* in the order of its stores: a slot store for index j is seen before any bottom
\* above j.  SlotsRight: every item in the deque is complete in memory but for
\* buffered words, was not handed out and lies above older items.  ThievesRight:
\* a thief whose CAS would succeed copies a slot that memory holds completely.
InDeque == top .. LogicalBottom - 1
ItemAt(j) == OwnerReads(Slot(j))
Decided ==
  /\ LogicalBottom - topCache <= CAPACITY
  /\ pc \in {"storeTry", "storeSpin"} => Used(topCache) < CAPACITY
  /\ pc \in {"loadTry", "loadSpin", "storeTry", "storeSpin"} => arg # <<>>
  /\ \A k \in 1 .. Len(arg) : arg[k] = pushed + k - 1
  /\ pc \in {"popTop", "popCas"} => sb = <<>>
  /\ pc = "popCas" => top >= bottom
IsBottom(m) == sb[m].slot = None
Buffered ==
  /\ IF sb = <<>> THEN pubBottom = bottom ELSE sb[Len(sb)] = BottomStore(bottom)
  /\ pubBottom <= LogicalBottom
  /\ \A m \in 1 .. Len(sb) : IsBottom(m) => sb[m].val <= LogicalBottom
  /\ \A m \in 1 .. Len(sb) : ~IsBottom(m) =>
       \E j \in InDeque :
         /\ sb[m].slot = Slot(j) /\ sb[m].val = ItemAt(j)
         /\ pubBottom <= j
         /\ \A l \in 1 .. m - 1 : IsBottom(l) => sb[l].val <= j
SlotsRight ==
  /\ \A j \in InDeque :
       /\ ItemAt(j) \in Item /\ ItemAt(j) < pushed /\ handed[ItemAt(j)] = 0
       /\ \A w \in Word :
            \/ buf[Slot(j)][w] = ItemAt(j)
            \/ \E m \in 1 .. Len(sb) : sb[m].slot = Slot(j) /\ sb[m].word = w
       /\ \A i \in InDeque : i < j => ItemAt(i) < ItemAt(j)
  /\ \A i \in Item : i >= pushed => handed[i] = 0
ThievesRight ==
  \A t \in Thief :
    /\ tTop[t] <= top
    /\ tPc[t] \in {"idle", "bottom"} => \A w \in Word : tVal[t][w] = None
    /\ tPc[t] \in {"copy", "cas"} /\ tTop[t] = top =>
         /\ top < LogicalBottom
         /\ \A m \in 1 .. Len(sb) : sb[m].slot # Slot(top)
         /\ \A w \in Word : \/ tVal[t][w] = ItemAt(top)
                            \/ tPc[t] = "copy" /\ tVal[t][w] = None

\* The inductive invariant behind the properties of the deque.
IInv == IndicesSafe /\ Decided /\ Buffered /\ SlotsRight /\ ThievesRight

\* Every interleaving of the owner with the thieves is one of instantaneous
\* operations on a deque: no item is handed out twice, lost or out of order.
Deque == INSTANCE StealableDeque WITH Capacity <- CAPACITY, dq <- Contents
ImplementsDeque == Deque!DequeSpec

\* try_push fails only on a full deque and a pop only on an empty one; a
\* steal that starts when the owner is outside an operation and its stores
\* are in memory finds a deque that is not empty.
FailuresHonest ==
  [][/\ PushLoadTop /\ pc' = "idle" => Len(Contents) = CAPACITY
     /\ (PopLoadTop \/ PopLost \/ PopCas) /\ pc' = "idle" /\ handed' = handed
          => Contents = <<>>
     /\ \A t \in Thief :
          StealLoadBottom(t) /\ tPc'[t] = "idle" /\ pc = "idle" /\ sb = <<>>
            => Contents = <<>>]_vars

\* Every pushed item is handed out in the end, to the owner or to a thief.
ItemsGetHandedOut == \A i \in Item : pushed > i ~> handed[i] = 1
=============================================================================
