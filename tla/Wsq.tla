-------------------------------- MODULE Wsq --------------------------------
(***************************************************************************)
(* The two work-stealing queues of include/wsq.h, comparators of the       *)
(* work-stealing benchmark.  One owner pushes and pops at the bottom;      *)
(* thieves steal at the top.  BoundedWSQ has one array and refuses items;  *)
(* UnboundedWSQ copies its items into a larger array when it has no room,  *)
(* and keeps the old arrays, which thieves may still read, until its       *)
(* destructor.                                                             *)
(*                                                                         *)
(* Memory, on x86 as in WorkStealDeque: the owner's stores, to slots, to   *)
(* _array and to _bottom, wait in its store buffer and reach memory in     *)
(* order; its seq_cst fence and its CAS wait for them.  Elements are       *)
(* atomic words.  Thieves store only by CAS.                               *)
(***************************************************************************)
EXTENDS Integers, Sequences, FiniteSetsExt

CONSTANTS Kinds,      \* which of the queues to consider
          FirstSize,  \* of each: BufferSize, the capacity of the first Array
          Thief,      \* threads that steal
          None,       \* not an item
          MaxItems,   \* bound: items pushed in a run
          MaxBulk     \* bound: items of one bulk push

ASSUME WsqAssumption == /\ Kinds \subseteq {"bounded", "unbounded"}
                        /\ FirstSize \in [Kinds -> Nat \ {0}]
                        /\ MaxItems \in Nat /\ MaxBulk \in Nat \ {0}
                        /\ None \notin 0 .. MaxItems - 1

Item == 0 .. MaxItems - 1      \* items are numbered in the order of their push

VARIABLES
  kind,               \* chosen once
  arrays,             \* every array made so far, as memory holds them
  live,               \* the arrays that are not deleted
  array,              \* _array, as memory holds it: a position in arrays
  top,                \* _top
  memBottom,          \* _bottom, as memory holds it
  sb,                 \* the owner's store buffer, oldest store first
  bottom, cachedTop,  \* _bottom as the owner sees it, _cached_top
  pc, arg,            \* where the owner is, the items it still has to store
  tPc, tTop, tArr, tVal,  \* each thief: where it is, its t, a and item
  pushed,             \* history: how many items were stored
  handed              \* history: how often each item was handed out

ownerVars == <<sb, bottom, cachedTop, pc, arg, pushed>>
thiefVars == <<tPc, tTop, tArr, tVal>>
shared == <<arrays, live, array, top, memBottom>>
vars == <<kind, shared, ownerVars, thiefVars, handed>>

NewArray(c) == [s \in 0 .. c - 1 |-> None]
SizeOf == [a \in DOMAIN arrays |-> Cardinality(DOMAIN arrays[a])]
Cell(a, i) == i % SizeOf[a]

Store == [to : {"slot", "array", "bottom"}, a : Nat, i : Nat,
          val : Nat \union {-1}]

TypeOK ==
  /\ kind \in Kinds
  /\ arrays \in Seq({arrays[a] : a \in DOMAIN arrays})
  /\ \A a \in DOMAIN arrays :
       /\ SizeOf[a] \in Nat \ {0}
       /\ arrays[a] \in [0 .. SizeOf[a] - 1 -> Item \union {None}]
  /\ live \subseteq DOMAIN arrays /\ array \in DOMAIN arrays
  /\ sb \in Seq(Store)
  /\ {top, cachedTop, pushed} \subseteq Nat
  /\ {bottom, memBottom} \subseteq Nat \union {-1}
  /\ pc \in {"idle", "load", "store", "fence", "popTop", "popCas", "gone"}
  /\ arg \in Seq(Item)
  /\ tPc \in [Thief -> {"idle", "bottom", "array", "read", "cas"}]
  /\ tTop \in [Thief -> Nat] /\ tArr \in [Thief -> DOMAIN arrays]
  /\ tVal \in [Thief -> Item \union {None}]
  /\ handed \in [Item -> Nat]

Init ==
  /\ kind \in Kinds
  /\ arrays = <<NewArray(FirstSize[kind])>> /\ live = {1} /\ array = 1
  /\ top = 0 /\ memBottom = 0
  /\ sb = <<>> /\ bottom = 0 /\ cachedTop = 0
  /\ pc = "idle" /\ arg = <<>>
  /\ tPc = [t \in Thief |-> "idle"] /\ tTop = [t \in Thief |-> 0]
  /\ tArr = [t \in Thief |-> 1] /\ tVal = [t \in Thief |-> None]
  /\ pushed = 0
  /\ handed = [i \in Item |-> 0]

HandOut(i) == handed' = [handed EXCEPT ![i] = @ + 1]

-----------------------------------------------------------------------------
(* The owner's stores: to a slot of array a, to _array, to _bottom *)

SlotStore(a, i, item) == [to |-> "slot", a |-> a, i |-> i, val |-> item]
ArrayStore(a) == [to |-> "array", a |-> a, i |-> 0, val |-> a]
BottomStore(b) == [to |-> "bottom", a |-> 0, i |-> 0, val |-> b]

\* The oldest buffered store reaches memory.
Drain ==
  /\ sb # <<>>
  /\ sb' = Tail(sb)
  /\ LET s == Head(sb) IN
       /\ arrays' = IF s.to = "slot"
                    THEN [arrays EXCEPT ![s.a][Cell(s.a, s.i)] = s.val]
                    ELSE arrays
       /\ array' = IF s.to = "array" THEN s.val ELSE array
       /\ memBottom' = IF s.to = "bottom" THEN s.val ELSE memBottom
  /\ UNCHANGED <<kind, live, top, bottom, cachedTop, pc, arg, pushed,
                 thiefVars, handed>>

\* The owner's array is the last one made; it sees its own stores.
Mine == Len(arrays)
OwnerReads(i) ==
  LET own == {k \in 1 .. Len(sb) :
                 /\ sb[k].to = "slot" /\ sb[k].a = Mine
                 /\ Cell(Mine, sb[k].i) = Cell(Mine, i)}
  IN  IF own = {} THEN arrays[Mine][Cell(Mine, i)] ELSE sb[Max(own)].val

-----------------------------------------------------------------------------
(* push and bulk_push, try_push and try_bulk_push: a push of one item is a   *)
(* bulk push of one                                                          *)

\* The owner would look at top itself: no room for one item (bounded) or for
\* all of them (unbounded).
NoRoom(n, cache) ==
  bottom - cache + (IF kind = "bounded" THEN 1 ELSE n) > SizeOf[Mine]

CallPush(n) ==
  /\ pc = "idle" /\ pushed + n <= MaxItems
  /\ arg' = [k \in 1 .. n |-> pushed + k - 1]
  /\ pc' = IF NoRoom(n, cachedTop) THEN "load" ELSE "store"
  /\ UNCHANGED <<kind, shared, sb, bottom, cachedTop, pushed, thiefVars,
                 handed>>

\* std::bit_ceil(C + N); for one item 2 * C, the same as sizes are powers of two.
IsPowerOf2(p) == \A d \in 2 .. p : p % d = 0 => d % 2 = 0
BitCeil(n) == Min({p \in n .. 2 * n : IsPowerOf2(p)})

\* Array::resize and _resize_array: nobody sees the new array before the
\* store of its pointer.
Resize(t) ==
  LET c == BitCeil(SizeOf[Mine] + Len(arg))
      copy == [s \in 0 .. c - 1 |->
                 IF \E i \in t .. bottom - 1 : i % c = s
                 THEN OwnerReads(CHOOSE i \in t .. bottom - 1 : i % c = s)
                 ELSE None]
  IN  /\ arrays' = Append(arrays, copy)
      /\ sb' = Append(sb, ArrayStore(Mine + 1))

\* Mutant: the old array is deleted at once.
GrowMutant ==
  /\ kind = "unbounded" /\ pc = "load" /\ NoRoom(Len(arg), top)
  /\ cachedTop' = top
  /\ Resize(top)
  /\ live' = {Mine + 1}
  /\ pc' = "store"
  /\ UNCHANGED <<kind, array, top, memBottom, bottom, arg, pushed, thiefVars,
                 handed>>

\* No room after the reload either: a larger array, the old one to _garbage.
Grow ==
  /\ kind = "unbounded" /\ pc = "load" /\ NoRoom(Len(arg), top)
  /\ cachedTop' = top
  /\ Resize(top)
  /\ live' = live \union {Mine + 1}
  /\ pc' = "store"
  /\ UNCHANGED <<kind, array, top, memBottom, bottom, arg, pushed, thiefVars,
                 handed>>

\* Mutant: the full test is made with the stale bound.
RefuseMutant ==
  /\ kind = "bounded" /\ pc = "load" /\ NoRoom(Len(arg), cachedTop)
  /\ cachedTop' = top
  /\ pc' = "idle" /\ arg' = <<>>
  /\ UNCHANGED <<kind, shared, sb, bottom, pushed, thiefVars, handed>>

Refuse ==
  /\ kind = "bounded" /\ pc = "load" /\ NoRoom(Len(arg), top)
  /\ cachedTop' = top
  /\ pc' = "idle" /\ arg' = <<>>
  /\ UNCHANGED <<kind, shared, sb, bottom, pushed, thiefVars, handed>>

\* The reload found room.
Reload ==
  /\ pc = "load" /\ ~NoRoom(Len(arg), top)
  /\ cachedTop' = top
  /\ pc' = "store"
  /\ UNCHANGED <<kind, shared, sb, bottom, arg, pushed, thiefVars, handed>>

\* try_bulk_push takes as many items as the cached top leaves room for.
Accepted == IF kind = "bounded"
            THEN Min({Len(arg), SizeOf[Mine] - (bottom - cachedTop)})
            ELSE Len(arg)

PushStore ==
  /\ pc = "store"
  /\ sb' = sb \o [k \in 1 .. Accepted |->
                    SlotStore(Mine, bottom + k - 1, arg[k])]
              \o <<BottomStore(bottom + Accepted)>>
  /\ bottom' = bottom + Accepted
  /\ pushed' = pushed + Accepted
  /\ pc' = "idle" /\ arg' = <<>>
  /\ UNCHANGED <<kind, shared, cachedTop, thiefVars, handed>>

-----------------------------------------------------------------------------
(* pop *)

SetBottom(b) == bottom' = b /\ sb' = Append(sb, BottomStore(b))

CallPop ==
  /\ pc = "idle"
  /\ SetBottom(bottom - 1)
  /\ pc' = "fence"
  /\ UNCHANGED <<kind, shared, cachedTop, arg, pushed, thiefVars, handed>>

\* Mutant: the fence is missing.
FenceMutant ==
  /\ pc = "fence"
  /\ pc' = "popTop"
  /\ UNCHANGED <<kind, shared, sb, bottom, cachedTop, arg, pushed, thiefVars,
                 handed>>

\* atomic_thread_fence(seq_cst): wait until every store is in memory.
Fence ==
  /\ pc = "fence" /\ sb = <<>>
  /\ pc' = "popTop"
  /\ UNCHANGED <<kind, shared, sb, bottom, cachedTop, arg, pushed, thiefVars,
                 handed>>

\* The load of top: nothing there, or more than one item, or the last one.
PopEmpty ==
  /\ pc = "popTop" /\ top > bottom
  /\ SetBottom(bottom + 1)
  /\ pc' = "idle"
  /\ UNCHANGED <<kind, shared, cachedTop, arg, pushed, thiefVars, handed>>

PopTake ==
  /\ pc = "popTop" /\ top < bottom
  /\ HandOut(OwnerReads(bottom))
  /\ pc' = "idle"
  /\ UNCHANGED <<kind, shared, sb, bottom, cachedTop, arg, pushed, thiefVars>>

PopLast ==
  /\ pc = "popTop" /\ top = bottom
  /\ pc' = "popCas"
  /\ UNCHANGED <<kind, shared, sb, bottom, cachedTop, arg, pushed, thiefVars,
                 handed>>

\* The owner and the thieves compete for the last item.
PopCas ==
  /\ pc = "popCas" /\ sb = <<>>
  /\ IF top = bottom THEN top' = top + 1 /\ HandOut(OwnerReads(bottom))
                     ELSE UNCHANGED <<top, handed>>
  /\ SetBottom(bottom + 1)
  /\ pc' = "idle"
  /\ UNCHANGED <<kind, arrays, live, array, memBottom, cachedTop, arg, pushed,
                 thiefVars>>

-----------------------------------------------------------------------------
(* steal, steal_with_feedback *)

TGoto(t, l) == tPc' = [tPc EXCEPT ![t] = l]

StealLoadTop(t) ==
  /\ tPc[t] = "idle" /\ pc # "gone"
  /\ tTop' = [tTop EXCEPT ![t] = top]
  /\ TGoto(t, "bottom")
  /\ UNCHANGED <<kind, tArr, tVal, ownerVars, shared, handed>>

StealEmpty(t) ==
  /\ tPc[t] = "bottom" /\ tTop[t] >= memBottom
  /\ TGoto(t, "idle")
  /\ UNCHANGED <<kind, tTop, tArr, tVal, ownerVars, shared, handed>>

\* BoundedWSQ has one array.
StealLoadBottom(t) ==
  /\ tPc[t] = "bottom" /\ tTop[t] < memBottom
  /\ TGoto(t, IF kind = "bounded" THEN "read" ELSE "array")
  /\ UNCHANGED <<kind, tTop, tArr, tVal, ownerVars, shared, handed>>

StealLoadArray(t) ==
  /\ tPc[t] = "array"
  /\ tArr' = [tArr EXCEPT ![t] = array]
  /\ TGoto(t, "read")
  /\ UNCHANGED <<kind, tTop, tVal, ownerVars, shared, handed>>

StealRead(t) ==
  /\ tPc[t] = "read"
  /\ tVal' = [tVal EXCEPT ![t] = arrays[tArr[t]][Cell(tArr[t], tTop[t])]]
  /\ TGoto(t, "cas")
  /\ UNCHANGED <<kind, tTop, tArr, ownerVars, shared, handed>>

StealCas(t) ==
  /\ tPc[t] = "cas"
  /\ IF top = tTop[t] THEN top' = top + 1 /\ HandOut(tVal[t])
                      ELSE UNCHANGED <<top, handed>>
  /\ TGoto(t, "idle")
  /\ tTop' = [tTop EXCEPT ![t] = 0]
  /\ tArr' = [tArr EXCEPT ![t] = 1]
  /\ tVal' = [tVal EXCEPT ![t] = None]
  /\ UNCHANGED <<kind, arrays, live, array, memBottom, ownerVars>>

-----------------------------------------------------------------------------
(* ~UnboundedWSQ, when no thread uses the queue any more *)

Destroy ==
  /\ pc = "idle" /\ \A t \in Thief : tPc[t] = "idle"
  /\ live' = live \ (1 .. Mine)
  /\ pc' = "gone"
  /\ UNCHANGED <<kind, arrays, array, top, memBottom, sb, bottom, cachedTop,
                 arg, pushed, thiefVars, handed>>

-----------------------------------------------------------------------------

OwnerStep == \/ Grow \/ Refuse \/ Reload \/ PushStore
             \/ Fence \/ PopEmpty \/ PopTake \/ PopLast \/ PopCas
ThiefStep(t) == \/ StealEmpty(t) \/ StealLoadBottom(t) \/ StealLoadArray(t)
                \/ StealRead(t) \/ StealCas(t)

Next ==
  \/ \E n \in 1 .. MaxBulk : CallPush(n)
  \/ CallPop \/ OwnerStep \/ Drain \/ Destroy
  \/ \E t \in Thief : StealLoadTop(t) \/ ThiefStep(t)

Spec == Init /\ [][Next]_vars

-----------------------------------------------------------------------------
(* Properties *)

\* The items in the queue.  While the owner takes the bottom item back, the
\* item is still in until the race for it is decided.
LogicalBottom == IF pc \in {"fence", "popTop", "popCas"} THEN bottom + 1
                                                         ELSE bottom
Contents == [k \in 1 .. LogicalBottom - top |-> OwnerReads(top + k - 1)]

\* The array a thief reads is not deleted, however many times the owner has
\* replaced it since; all items fit in the owner's; and the bounds the owner
\* subtracts, in unsigned arithmetic, keep their order.
ArraysSafe ==
  /\ TypeOK
  /\ \A t \in Thief : tPc[t] = "read" => tArr[t] \in live
  /\ pc # "gone" => Mine \in live /\ array \in live
  /\ Len(Contents) <= SizeOf[Mine]
  /\ cachedTop <= top /\ cachedTop <= LogicalBottom /\ top <= LogicalBottom

\* Every interleaving of the owner with the thieves, across any number of
\* growths, is one of instantaneous operations on a deque: no item is handed
\* out twice, lost or out of order.
Deque == INSTANCE StealableDeque WITH Capacity <- MaxItems, dq <- Contents
ImplementsDeque == Deque!DequeSpec

\* try_push fails only on a full queue and pop only on an empty one; a steal
\* finds nothing only if nothing is there, unless the owner is in the middle
\* of an operation.
FailuresHonest ==
  [][/\ Refuse => Len(Contents) = SizeOf[Mine]
     /\ (PopEmpty \/ PopCas) /\ handed' = handed => Contents = <<>>
     /\ \A t \in Thief :
          StealEmpty(t) /\ pc \in {"idle", "gone"} /\ sb = <<>>
            => Contents = <<>>]_vars

\* What these rest on, as one inductive invariant.  Decided: what the owner found
\* out is still true when it acts on it.  Buffered: memory lags behind the owner,
\* in the order of its stores.  SlotsRight: items lie in the order of their push.
\* Homes: from the array on in which an item was pushed, every array holds it, or
\* will when the buffer has drained, and no bottom above the item reaches memory
\* before that array does.  ThievesRight: what a thief that may still win has read
\* is the item at the top, or the array it will read holds it.
InDeque == top .. LogicalBottom - 1
ItemAt == [j \in InDeque |-> OwnerReads(j)]
Decided ==
  /\ kind = "bounded" => Mine = 1
  /\ live = IF pc = "gone" THEN {} ELSE 1 .. Mine
  /\ cachedTop <= top /\ top <= LogicalBottom /\ LogicalBottom <= pushed
  /\ LogicalBottom - cachedTop <= SizeOf[Mine]
  /\ pc \in {"load", "store"} => arg # <<>>
  /\ pc = "store" => ~NoRoom(Len(arg), cachedTop)
  /\ \A k \in 1 .. Len(arg) : arg[k] = pushed + k - 1
  /\ pc \in {"popTop", "popCas"} => sb = <<>>
  /\ pc = "popCas" => top >= bottom

Is(m, to) == sb[m].to = to
Buffered ==
  /\ pc # "store" => IF sb = <<>> THEN memBottom = bottom
                                  ELSE sb[Len(sb)] = BottomStore(bottom)
  /\ memBottom <= LogicalBottom
  /\ array = Mine \/ \E m \in 1 .. Len(sb) : Is(m, "array") /\ sb[m].val = Mine
  /\ \A m \in 1 .. Len(sb) :
       /\ Is(m, "bottom") => sb[m].val <= LogicalBottom
       /\ Is(m, "array") => /\ sb[m].val \in array .. Mine
                            /\ \A l \in 1 .. m - 1 :
                                 Is(l, "array") => sb[l].val <= sb[m].val
       /\ Is(m, "slot") => /\ sb[m].a \in 1 .. Mine /\ sb[m].i \in InDeque
                           /\ sb[m].val = ItemAt[sb[m].i]
                           /\ memBottom <= sb[m].i
                           /\ \A l \in 1 .. m - 1 :
                                Is(l, "bottom") => sb[l].val <= sb[m].i

SlotsRight ==
  /\ \A j \in InDeque :
       /\ ItemAt[j] \in Item /\ ItemAt[j] < pushed /\ handed[ItemAt[j]] = 0
       /\ \A i \in InDeque : i < j => ItemAt[i] < ItemAt[j]
  /\ \A i \in Item : i >= pushed => handed[i] = 0

Buffers(m, a, j) == Is(m, "slot") /\ sb[m].a = a /\ Cell(a, sb[m].i) = Cell(a, j)
Homes ==
  \A j \in InDeque : \E h \in 1 .. Mine :
    /\ \A a \in h .. Mine :
         /\ \/ arrays[a][Cell(a, j)] = ItemAt[j]
            \/ \E m \in 1 .. Len(sb) : Buffers(m, a, j)
         /\ \A m \in 1 .. Len(sb) : Buffers(m, a, j) => sb[m].i = j
    /\ j < memBottom => h <= array
    /\ \A m \in 1 .. Len(sb) : Is(m, "bottom") /\ j < sb[m].val =>
         \/ h <= array
         \/ \E l \in 1 .. m - 1 : Is(l, "array") /\ h <= sb[l].val

Holds(a, j) == /\ arrays[a][Cell(a, j)] = ItemAt[j]
               /\ \A m \in 1 .. Len(sb) : ~Buffers(m, a, j)
ThievesRight ==
  \A t \in Thief :
    /\ tTop[t] <= top
    /\ tPc[t] # "idle" => pc # "gone"
    /\ tPc[t] \in {"array", "read", "cas"} /\ tTop[t] = top =>
         /\ top < LogicalBottom
         /\ \A m \in 1 .. Len(sb) : Is(m, "slot") => sb[m].i # top
         /\ tPc[t] = "array" => \A a \in array .. Mine : Holds(a, top)
         /\ tPc[t] = "read" => Holds(tArr[t], top)
         /\ tPc[t] = "cas" => tVal[t] = ItemAt[top]

IInv == TypeOK /\ Decided /\ Buffered /\ SlotsRight /\ Homes /\ ThievesRight
=============================================================================
