----------------------- MODULE WorkStealDeque_proofs -----------------------
(***************************************************************************)
(* Proofs about WorkStealDeque for every N, WORDS, Thief, MaxItems and     *)
(* MaxBulk.                                                                *)
(***************************************************************************)
EXTENDS WorkStealDeque, SequenceTheorems, WellFoundedInduction, TLAPS

-----------------------------------------------------------------------------
(* Facts about i % n *)

\* An index falls into a ring of n slots.
LEMMA ModRange ==
  ASSUME NEW n \in Nat \ {0}, NEW i \in Nat
  PROVE  i % n \in 0 .. n - 1
OBVIOUS

\* Indices less than a lap apart have different slots.
LEMMA ModInjective ==
  ASSUME NEW n \in Nat \ {0}, NEW i \in Nat, NEW j \in Nat, i < j, j < i + n
  PROVE  i % n # j % n
<1> DEFINE a == i \div n
           b == j \div n
<1>1. /\ a \in Int /\ b \in Int
      /\ i = (n * a) + (i % n)
      /\ j = (n * b) + (j % n)
  OBVIOUS
<1> HIDE DEF a, b
<1>2. SUFFICES ASSUME i % n = j % n PROVE FALSE
  OBVIOUS
<1>3. j - i = n * (b - a)
  BY <1>1, <1>2
<1>4. CASE b - a <= 0
  BY <1>1, <1>3, <1>4
<1>5. CASE b - a >= 1
  BY <1>1, <1>3, <1>5
<1> QED
  BY <1>1, <1>4, <1>5

\* A table of rows with n cells each: cell c of row r has number (n * r) + c, and
\* the number tells row and cell.
LEMMA CellNumber ==
  ASSUME NEW n \in Nat \ {0}, NEW r \in Nat, NEW c \in 0 .. n - 1
  PROVE  ((n * r) + c) \div n = r /\ ((n * r) + c) % n = c
<1> DEFINE x == (n * r) + c
           q == x \div n
           d == x % n
<1>0. x \in Nat
  OBVIOUS
<1>1. q \in Int /\ d \in 0 .. n - 1 /\ x = (n * q) + d
  BY <1>0
<1> HIDE DEF q, d
<1>2. c - d = n * (q - r)
  BY <1>1
<1>3. ~(q - r >= 1) /\ ~(q - r <= -1)
  BY <1>1, <1>2
<1>4. q = r
  BY <1>1, <1>3
<1>5. d = c
  BY <1>1, <1>2, <1>4
<1> QED
  BY <1>4, <1>5 DEF q, d

\* The numbers of m rows are those below n * m.
LEMMA CellRange ==
  ASSUME NEW n \in Nat \ {0}, NEW m \in Nat, NEW x \in 0 .. (n * m) - 1
  PROVE  x \div n \in 0 .. m - 1 /\ x % n \in 0 .. n - 1
<1> DEFINE q == x \div n
           d == x % n
<1>1. q \in Int /\ d \in 0 .. n - 1 /\ x = (n * q) + d
  OBVIOUS
<1> HIDE DEF q, d
<1>2. q >= 0
  BY <1>1
<1>3. q < m
  <2>1. SUFFICES ASSUME q >= m PROVE FALSE
    BY <1>1
  <2>2. n * q >= n * m
    BY <1>1, <2>1
  <2> QED
    BY <1>1, <2>2
<1> QED
  BY <1>1, <1>2, <1>3 DEF q, d

-----------------------------------------------------------------------------

\* The order of the naturals has no infinite descent.
Less == {p \in Nat \X Nat : p[1] < p[2]}
LEMMA LessWellFounded == IsWellFoundedOn(Less, Nat)
BY NatLessThanWellFounded, Zenon DEF OpToRel, Less

\* A set of naturals has a least element.
LEMMA MinIn ==
  ASSUME NEW S, S \subseteq Nat, S # {}
  PROVE  Min(S) \in S /\ \A y \in S : Min(S) <= y
<1>1. PICK x \in S : \A y \in S : ~(<<y, x>> \in Less)
  BY LessWellFounded, WFMin, Zenon
<1>2. \A y \in S : x <= y
  <2> TAKE y \in S
  <2>1. ~(y < x)
    <3>1. <<y, x>> \in Nat \X Nat /\ <<y, x>>[1] = y /\ <<y, x>>[2] = x
      OBVIOUS
    <3> QED
      BY <1>1, <3>1 DEF Less
  <2> QED
    BY <2>1
<1> QED
  BY <1>2 DEF Min

\* A set of naturals up to n has a greatest element.
LEMMA MaxIn ==
  ASSUME NEW n \in Nat, NEW S, S \subseteq 1 .. n, S # {}
  PROVE  Max(S) \in S
<1> DEFINE T == {n - x : x \in S}
<1>1. T \subseteq Nat /\ T # {}
  <2>1. \A x \in S : x \in 1 .. n /\ n - x \in Nat
    OBVIOUS
  <2> QED
    BY <2>1
<1>2. Min(T) \in T /\ \A y \in T : Min(T) <= y
  BY <1>1, MinIn, Zenon
<1> DEFINE k == Min(T)
<1> HIDE DEF k
<1>3. PICK x \in S : k = n - x
  BY <1>2 DEF k
<1>4. \A y \in S : k <= n - y
  BY <1>2 DEF k
<1>5. \A y \in S : x >= y
  BY <1>3, <1>4
<1> QED
  BY <1>5 DEF Max

\* A function on 1 .. n is a sequence of length n.
LEMMA FunctionIsSeq ==
  ASSUME NEW S, NEW n \in Nat, NEW f \in [1 .. n -> S]
  PROVE  f \in Seq(S) /\ Len(f) = n
OBVIOUS

-----------------------------------------------------------------------------
(* What the owner reads *)

\* OwnerReads with memory b and store buffer q.
Mine(q, s) == {k \in 1 .. Len(q) : q[k].slot = s}
ReadsOf(b, q, s) == IF Mine(q, s) = {} THEN b[s][1] ELSE q[Max(Mine(q, s))].val

\* A slot shows one of the stores buffered for it, or else what memory holds.
LEMMA ReadsBuffered ==
  ASSUME NEW b, NEW q \in Seq(Store), NEW s
  PROVE  \/ \E k \in 1 .. Len(q) : q[k].slot = s /\ ReadsOf(b, q, s) = q[k].val
         \/ /\ \A k \in 1 .. Len(q) : q[k].slot # s
            /\ ReadsOf(b, q, s) = b[s][1]
<1>1. CASE Mine(q, s) = {}
  BY <1>1 DEF ReadsOf, Mine
<1>2. CASE Mine(q, s) # {}
  <2>1. Max(Mine(q, s)) \in Mine(q, s)
    <3>1. Mine(q, s) \subseteq 1 .. Len(q) /\ Len(q) \in Nat
      BY DEF Mine
    <3> QED
      BY <1>2, <3>1, MaxIn
  <2> QED
    BY <1>2, <2>1 DEF ReadsOf, Mine
<1> QED
  BY <1>1, <1>2

-----------------------------------------------------------------------------
(* What the invariant says of one item *)

\* An index has a slot, and no slot is taken for the store of a bottom.
LEMMA SlotRange ==
  ASSUME NEW i \in Nat
  PROVE  Slot(i) \in 0 .. N - 1 /\ Slot(i) # None
BY DequeAssumption, ModRange DEF Slot

\* Indices less than a lap apart have different slots.
LEMMA SlotInjective ==
  ASSUME NEW i \in Nat, NEW j \in Nat, i < j, j < i + N
  PROVE  Slot(i) # Slot(j)
BY DequeAssumption, ModInjective DEF Slot

\* The deque fits into its slots, so its indices have different ones.
LEMMA SlotsApart ==
  ASSUME IInv, NEW i \in InDeque, NEW j \in InDeque, Slot(i) = Slot(j)
  PROVE  i = j
<1>1. i \in Nat /\ j \in Nat /\ i < j + N /\ j < i + N
  <2>1. /\ top \in Nat /\ topCache \in Nat /\ bottom \in Nat
        /\ topCache <= top /\ LogicalBottom - topCache <= N /\ N \in Nat
    BY DequeAssumption DEF IInv, IndicesSafe, TypeOK, Decided, CAPACITY
  <2>2. LogicalBottom \in Nat
    BY <2>1 DEF LogicalBottom
  <2>3. LogicalBottom - top <= N
    BY <2>1, <2>2
  <2> QED
    BY <2>1, <2>2, <2>3 DEF InDeque
<1>2. i \notin j + 1 .. j + N - 1 /\ j \notin i + 1 .. i + N - 1
  BY <1>1, SlotInjective
<1> QED
  BY <1>1, <1>2, DequeAssumption

\* The types of the indices.
LEMMA IndexTypes ==
  ASSUME IInv
  PROVE  /\ top \in Nat /\ bottom \in Nat /\ topCache \in Nat /\ pubBottom \in Nat
         /\ LogicalBottom \in Nat /\ top <= LogicalBottom /\ pushed \in Nat
         /\ InDeque \subseteq Nat
         /\ sb \in Seq(Store) /\ Len(sb) \in Nat
BY DEF IInv, IndicesSafe, TypeOK, LogicalBottom, InDeque

\* A buffered store into the slot of an item stores that item, after every
\* bottom that does not yet cover it.
LEMMA BufferedItem ==
  ASSUME IInv, NEW j \in InDeque,
         NEW m \in 1 .. Len(sb), sb[m].slot = Slot(j)
  PROVE  /\ sb[m].val = ItemAt(j)
         /\ pubBottom <= j
         /\ \A l \in 1 .. m - 1 : IsBottom(l) => sb[l].val <= j
<1>1. j \in Nat /\ ~IsBottom(m)
  BY IndexTypes, SlotRange DEF IsBottom
<1>2. PICK i \in InDeque :
         /\ sb[m].slot = Slot(i) /\ sb[m].val = ItemAt(i)
         /\ pubBottom <= i
         /\ \A l \in 1 .. m - 1 : IsBottom(l) => sb[l].val <= i
  BY <1>1 DEF IInv, Buffered
<1>3. i = j
  BY <1>2, SlotsApart
<1> QED
  BY <1>2, <1>3

\* An item stays what it is if every store that is buffered for its slot, or
\* else memory, has it.
LEMMA ItemKept ==
  ASSUME NEW j, NEW v, sb' \in Seq(Store),
         \A m \in 1 .. Len(sb') : sb'[m].slot = Slot(j) => sb'[m].val = v,
         (\A m \in 1 .. Len(sb') : sb'[m].slot # Slot(j)) => buf'[Slot(j)][1] = v
  PROVE  ItemAt(j)' = v
<1>1. ReadsOf(buf', sb', Slot(j)) = v
  BY ReadsBuffered
<1>2. ItemAt(j)' = ReadsOf(buf', sb', Slot(j))
  BY DEF ItemAt, OwnerReads, ReadsOf, Mine
<1> QED
  BY <1>1, <1>2

\* If nothing is buffered for the slot of an item, memory has all its words.
LEMMA ItemInMemory ==
  ASSUME IInv, NEW j \in InDeque,
         \A m \in 1 .. Len(sb) : sb[m].slot # Slot(j)
  PROVE  \A w \in Word : buf[Slot(j)][w] = ItemAt(j)
BY DEF IInv, SlotsRight

\* A thief reads a bottom above its top: the stores of the top item are in memory.
LEMMA CoveredItemDrained ==
  ASSUME IInv, NEW j \in InDeque, j < pubBottom
  PROVE  \A m \in 1 .. Len(sb) : sb[m].slot # Slot(j)
BY BufferedItem, IndexTypes

-----------------------------------------------------------------------------
(* Steps that leave the deque and memory alone *)

\* The fresh deque satisfies the inductive invariant.
LEMMA InitInv == Init => IInv
<1> SUFFICES ASSUME Init PROVE IInv
  OBVIOUS
<1> USE DequeAssumption DEF Init
<1>1. LogicalBottom = 0 /\ InDeque = {}
  BY DEF LogicalBottom, InDeque
<1>2. TypeOK
  BY DEF TypeOK, Item
<1>3. IndicesSafe
  BY <1>1, <1>2 DEF IndicesSafe, CAPACITY
<1>4. Decided
  BY <1>1 DEF Decided, CAPACITY
<1>5. Buffered
  BY <1>1 DEF Buffered
<1>6. SlotsRight
  BY <1>1 DEF SlotsRight
<1>7. ThievesRight
  BY DEF ThievesRight
<1> QED
  BY <1>3, <1>4, <1>5, <1>6, <1>7 DEF IInv

\* Nobody sees a difference: the deque holds the same items, and none left it.
Unseen == /\ LogicalBottom' = LogicalBottom
          /\ UNCHANGED <<top, handed>>
          /\ \A j \in InDeque : ItemAt(j)' = ItemAt(j)

\* The owner moves on without touching bottom, memory or the store buffer.
LEMMA QuietKeeps ==
  ASSUME IInv, LogicalBottom' = LogicalBottom,
         UNCHANGED <<bottom, sb, pushed, thiefVars, top, pubBottom, buf, handed>>
  PROVE  Buffered' /\ SlotsRight' /\ ThievesRight' /\ Unseen
<1> USE DEF thiefVars
<1>1. \A j : ItemAt(j)' = ItemAt(j)
  BY DEF ItemAt, OwnerReads
<1>2. InDeque' = InDeque
  BY DEF InDeque
<1>3. \A m : IsBottom(m)' = IsBottom(m)
  BY DEF IsBottom
<1>4. Buffered'
  BY <1>1, <1>2, <1>3 DEF IInv, Buffered
<1>5. SlotsRight'
  BY <1>1, <1>2 DEF IInv, SlotsRight
<1>6. ThievesRight'
  BY <1>1 DEF IInv, ThievesRight
<1> QED
  BY <1>1, <1>4, <1>5, <1>6 DEF Unseen

\* A push begins: the new items are numbered from pushed on.
LEMMA CallPushInv ==
  ASSUME IInv, NEW n \in 1 .. MaxBulk, NEW l \in {"loadTry", "loadSpin"},
         CallPush(n, l)
  PROVE  IInv' /\ Unseen
<1> USE DEF CallPush
<1>1. LogicalBottom' = LogicalBottom
  BY DEF LogicalBottom
<1>2. Buffered' /\ SlotsRight' /\ ThievesRight' /\ Unseen
  BY <1>1, QuietKeeps
<1>3. /\ arg' = [k \in 1 .. n |-> pushed + k - 1] /\ n \in Nat /\ n >= 1
      /\ pushed \in Nat /\ pushed + n <= MaxItems
  BY DequeAssumption, IndexTypes
<1>4. /\ arg' \in Seq(Item) /\ Len(arg') = n /\ arg' # <<>>
      /\ \A k \in 1 .. n : arg'[k] = pushed + k - 1
  <2>1. \A k \in 1 .. n : pushed + k - 1 \in Item
    BY <1>3, DequeAssumption DEF Item
  <2>2. arg' \in [1 .. n -> Item]
    BY <1>3, <2>1
  <2>3. arg' \in Seq(Item) /\ Len(arg') = n
    <3> HIDE DEF CallPush
    <3> QED
      BY <1>3, <2>2, FunctionIsSeq
  <2>4. arg' # <<>>
    BY <1>3, <2>3
  <2> QED
    BY <1>3, <2>3, <2>4
<1>5. TypeOK'
  BY <1>4 DEF IInv, IndicesSafe, TypeOK, thiefVars
<1>6. IndicesSafe'
  BY <1>1, <1>5 DEF IInv, IndicesSafe
<1>7. Decided'
  <2>1. pc = "idle" /\ pc' \in {"loadTry", "loadSpin", "storeTry", "storeSpin"}
    OBVIOUS
  <2>2. pc' \in {"storeTry", "storeSpin"} => bottom - topCache < CAPACITY
    BY IndexTypes, DequeAssumption DEF Used, CAPACITY
  <2>3. LogicalBottom' - topCache' <= CAPACITY
    BY <1>1 DEF IInv, Decided
  <2>4. Len(arg') = n /\ pushed' = pushed
    BY <1>4
  <2> QED
    BY <1>4, <2>1, <2>2, <2>3, <2>4 DEF Decided, Used
<1> QED
  BY <1>2, <1>6, <1>7 DEF IInv

\* The owner refreshes its copy of top, or sees that there is nothing to do.
LEMMA RefreshInv ==
  ASSUME IInv, PushLoadTop \/ (PopLoadTop /\ bottom = top)
  PROVE  IInv' /\ Unseen
<1>1. /\ pc \in {"loadTry", "loadSpin", "popLoad"} /\ topCache' = top
      /\ pc' \in {"storeTry", "storeSpin", "loadSpin", "idle"}
      /\ pc' # "idle" => arg' = arg /\ arg # <<>>
      /\ arg' = <<>> \/ arg' = arg
      /\ pc' \in {"storeTry", "storeSpin"} => bottom - top < CAPACITY
      /\ UNCHANGED <<bottom, sb, pushed, thiefVars, top, pubBottom, buf, handed>>
  BY DEF PushLoadTop, PopLoadTop, Used, IInv, Decided
<1>2. LogicalBottom' = LogicalBottom /\ LogicalBottom = bottom
  BY <1>1 DEF LogicalBottom
<1>3. Buffered' /\ SlotsRight' /\ ThievesRight' /\ Unseen
  BY <1>1, <1>2, QuietKeeps
<1>4. topCache <= top /\ top <= bottom /\ bottom - topCache <= CAPACITY
  BY <1>2 DEF IInv, IndicesSafe
<1>5. arg' \in Seq(Item)
  <2>1. <<>> \in Seq(Item)
    OBVIOUS
  <2>2. arg \in Seq(Item)
    BY DEF IInv, IndicesSafe, TypeOK
  <2> QED
    BY <1>1, <2>1, <2>2
<1>6. TypeOK'
  BY <1>1, <1>5 DEF IInv, IndicesSafe, TypeOK, thiefVars
<1>7. bottom - top <= CAPACITY
  BY <1>4, IndexTypes, DequeAssumption DEF CAPACITY
<1>8. IndicesSafe'
  BY <1>1, <1>2, <1>4, <1>6, <1>7, IndexTypes DEF IndicesSafe
<1>9. Decided'
  <2>1. \A k \in 1 .. Len(arg') : arg'[k] = pushed + k - 1
    <3>1. Len(<<>>) = 0
      OBVIOUS
    <3> QED
      BY <1>1, <3>1 DEF IInv, Decided
  <2> QED
    BY <1>1, <1>2, <1>7, <2>1 DEF Decided, Used
<1> QED
  BY <1>3, <1>8, <1>9 DEF IInv

\* The owner gets past the fence, finds its cache in need of a load, or finds that
\* it must compete for the last item.
LEMMA PassInv ==
  ASSUME IInv, Fence \/ PopLast \/ (CallPop /\ bottom = topCache)
  PROVE  IInv' /\ Unseen
<1>1. /\ \/ pc = "fence" /\ sb = <<>> /\ pc' = "popTop"
         \/ pc = "popTop" /\ top = bottom /\ pc' = "popCas"
         \/ pc = "idle" /\ pc' = "popLoad"
      /\ UNCHANGED <<bottom, topCache, sb, arg, pushed, thiefVars, top,
                     pubBottom, buf, handed>>
  BY DEF Fence, PopLast, CallPop
<1>2. LogicalBottom' = LogicalBottom
  BY <1>1 DEF LogicalBottom
<1>3. Buffered' /\ SlotsRight' /\ ThievesRight' /\ Unseen
  BY <1>1, <1>2, QuietKeeps
<1>4. TypeOK'
  BY <1>1 DEF IInv, IndicesSafe, TypeOK, thiefVars
<1>5. IndicesSafe'
  BY <1>1, <1>2, <1>4 DEF IInv, IndicesSafe
<1>6. Decided'
  BY <1>1, <1>2, IndexTypes DEF IInv, Decided
<1> QED
  BY <1>3, <1>5, <1>6 DEF IInv

-----------------------------------------------------------------------------
(* Steps of a thief before its CAS *)

\* Such a step leaves the owner's part as it is.
LEMMA ThiefKeeps ==
  ASSUME IInv, UNCHANGED <<ownerVars, top, pubBottom, buf, handed>>,
         tPc' \in [Thief -> {"idle", "bottom", "copy", "cas"}],
         tTop' \in [Thief -> Nat],
         tVal' \in [Thief -> [Word -> Item \union {None}]]
  PROVE  /\ IndicesSafe' /\ Decided' /\ Buffered' /\ SlotsRight'
         /\ LogicalBottom' = LogicalBottom
         /\ \A j : ItemAt(j)' = ItemAt(j)
         /\ Unseen
<1> USE DEF ownerVars
<1>1. LogicalBottom' = LogicalBottom
  BY DEF LogicalBottom
<1>2. \A j : ItemAt(j)' = ItemAt(j)
  BY DEF ItemAt, OwnerReads
<1>3. InDeque' = InDeque /\ \A m : IsBottom(m)' = IsBottom(m)
  BY <1>1 DEF InDeque, IsBottom
<1>4. TypeOK'
  BY DEF IInv, IndicesSafe, TypeOK
<1>5. IndicesSafe'
  BY <1>1, <1>4 DEF IInv, IndicesSafe
<1>6. Decided'
  BY <1>1 DEF IInv, Decided, Used
<1>7. Buffered'
  BY <1>1, <1>2, <1>3 DEF IInv, Buffered
<1>8. SlotsRight'
  BY <1>2, <1>3 DEF IInv, SlotsRight
<1>9. Unseen
  BY <1>1, <1>2 DEF Unseen
<1> QED
  BY <1>1, <1>2, <1>5, <1>6, <1>7, <1>8, <1>9

\* A thief loads top.
LEMMA StealLoadTopInv ==
  ASSUME IInv, NEW t \in Thief, StealLoadTop(t)
  PROVE  IInv' /\ Unseen
<1> USE DEF StealLoadTop
<1>1. /\ tPc' \in [Thief -> {"idle", "bottom", "copy", "cas"}]
      /\ tTop' \in [Thief -> Nat]
      /\ tVal' \in [Thief -> [Word -> Item \union {None}]]
  BY DEF IInv, IndicesSafe, TypeOK
<1>2. /\ IndicesSafe' /\ Decided' /\ Buffered' /\ SlotsRight'
      /\ LogicalBottom' = LogicalBottom /\ \A j : ItemAt(j)' = ItemAt(j)
      /\ Unseen
  BY <1>1, ThiefKeeps
<1>3. ThievesRight'
  <2> SUFFICES ASSUME NEW u \in Thief
               PROVE  /\ tTop'[u] <= top
                      /\ tPc'[u] \in {"idle", "bottom"} => \A w \in Word : tVal'[u][w] = None
                      /\ tPc'[u] \in {"copy", "cas"} /\ tTop'[u] = top =>
                           /\ top < LogicalBottom
                           /\ \A m \in 1 .. Len(sb) : sb[m].slot # Slot(top)
                           /\ \A w \in Word :
                                \/ tVal'[u][w] = ItemAt(top)
                                \/ tPc'[u] = "copy" /\ tVal'[u][w] = None
    BY <1>2 DEF ThievesRight, ownerVars
  <2>1. CASE u = t
    BY <1>1, <2>1, IndexTypes DEF IInv, IndicesSafe, TypeOK, ThievesRight
  <2>2. CASE u # t
    <3>1. tPc'[u] = tPc[u] /\ tTop'[u] = tTop[u] /\ tVal'[u] = tVal[u]
      BY <2>2 DEF IInv, IndicesSafe, TypeOK
    <3> QED
      BY <3>1 DEF IInv, ThievesRight
  <2> QED
    BY <2>1, <2>2
<1> QED
  BY <1>2, <1>3 DEF IInv

\* A thief loads the published bottom: it copies only an item that is in the
\* deque, with all its words in memory.
LEMMA StealLoadBottomInv ==
  ASSUME IInv, NEW t \in Thief, StealLoadBottom(t)
  PROVE  IInv' /\ Unseen
<1> USE DEF StealLoadBottom
<1>1. /\ tPc' \in [Thief -> {"idle", "bottom", "copy", "cas"}]
      /\ tTop' \in [Thief -> Nat]
      /\ tVal' \in [Thief -> [Word -> Item \union {None}]]
  BY DEF IInv, IndicesSafe, TypeOK
<1>2. /\ IndicesSafe' /\ Decided' /\ Buffered' /\ SlotsRight'
      /\ LogicalBottom' = LogicalBottom /\ \A j : ItemAt(j)' = ItemAt(j)
      /\ Unseen
  BY <1>1, ThiefKeeps
<1>3. ThievesRight'
  <2> SUFFICES ASSUME NEW u \in Thief
               PROVE  /\ tTop[u] <= top
                      /\ tPc'[u] \in {"idle", "bottom"} => \A w \in Word : tVal[u][w] = None
                      /\ tPc'[u] \in {"copy", "cas"} /\ tTop[u] = top =>
                           /\ top < LogicalBottom
                           /\ \A m \in 1 .. Len(sb) : sb[m].slot # Slot(top)
                           /\ \A w \in Word :
                                \/ tVal[u][w] = ItemAt(top)
                                \/ tPc'[u] = "copy" /\ tVal[u][w] = None
    BY <1>2 DEF ThievesRight, ownerVars
  <2>0. tTop[u] <= top
    BY DEF IInv, ThievesRight
  <2>1. CASE u = t
    <3>1. /\ \A w \in Word : tVal[t][w] = None
          /\ tPc'[t] \in {"idle", "copy"}
          /\ tPc'[t] = "copy" => tTop[t] < pubBottom
      BY <1>1, IndexTypes DEF IInv, IndicesSafe, TypeOK, ThievesRight
    <3>2. ASSUME tPc'[t] = "copy", tTop[t] = top
          PROVE  /\ top < LogicalBottom
                 /\ \A m \in 1 .. Len(sb) : sb[m].slot # Slot(top)
      <4>1. top < pubBottom /\ pubBottom <= LogicalBottom
        BY <3>1, <3>2 DEF IInv, Buffered
      <4>2. top < LogicalBottom
        BY <4>1, IndexTypes
      <4>3. top \in InDeque
        BY <4>2, IndexTypes DEF InDeque
      <4> QED
        BY <4>1, <4>2, <4>3, CoveredItemDrained
    <3> QED
      BY <2>0, <2>1, <3>1, <3>2
  <2>2. CASE u # t
    <3>1. tPc'[u] = tPc[u]
      BY <2>2 DEF IInv, IndicesSafe, TypeOK
    <3> QED
      BY <3>1 DEF IInv, ThievesRight
  <2> QED
    BY <2>1, <2>2
<1> QED
  BY <1>2, <1>3 DEF IInv

\* A thief copies a word: if top has not moved, it is a word of the top item.
LEMMA StealCopyInv ==
  ASSUME IInv, NEW t \in Thief, StealCopy(t)
  PROVE  IInv' /\ Unseen
<1> DEFINE x == Min({w \in Word : tVal[t][w] = None})
           v == buf[Slot(tTop[t])][x]
<1>0. /\ tPc[t] = "copy"
      /\ tVal' = [tVal EXCEPT ![t][x] = v]
      /\ tPc' = [tPc EXCEPT ![t] = IF x = WORDS THEN "cas" ELSE "copy"]
      /\ UNCHANGED <<tTop, ownerVars, top, pubBottom, buf, handed>>
  BY DEF StealCopy
<1>a. /\ \A w \in Word : tVal[t][w] = None => x \in Word /\ x <= w
  <2>1. ASSUME NEW w \in Word, tVal[t][w] = None
        PROVE  x \in Word /\ x <= w
    <3> DEFINE S == {y \in Word : tVal[t][y] = None}
    <3>1. S \subseteq Nat /\ S # {} /\ w \in S
      BY <2>1 DEF Word
    <3>2. Min(S) \in S /\ \A y \in S : Min(S) <= y
      BY <3>1, MinIn
    <3> QED
      BY <3>1, <3>2
  <2> QED
    BY <2>1
<1>b. Slot(tTop[t]) \in 0 .. N - 1
  BY SlotRange DEF IInv, IndicesSafe, TypeOK
<1>c. x \in Word => v \in Item \union {None}
  BY <1>b DEF IInv, IndicesSafe, TypeOK
<1> HIDE DEF x, v
<1>1. /\ tPc' \in [Thief -> {"idle", "bottom", "copy", "cas"}]
      /\ tTop' \in [Thief -> Nat]
      /\ tVal' \in [Thief -> [Word -> Item \union {None}]]
  <2>1. tVal'[t] \in [Word -> Item \union {None}]
    BY <1>0, <1>c DEF IInv, IndicesSafe, TypeOK
  <2> QED
    BY <1>0, <2>1 DEF IInv, IndicesSafe, TypeOK
<1>2. /\ IndicesSafe' /\ Decided' /\ Buffered' /\ SlotsRight'
      /\ LogicalBottom' = LogicalBottom /\ \A j : ItemAt(j)' = ItemAt(j)
      /\ Unseen
  BY <1>0, <1>1, ThiefKeeps
<1>3. ThievesRight'
  <2> SUFFICES ASSUME NEW u \in Thief
               PROVE  /\ tTop[u] <= top
                      /\ tPc'[u] \in {"idle", "bottom"} => \A w \in Word : tVal'[u][w] = None
                      /\ tPc'[u] \in {"copy", "cas"} /\ tTop[u] = top =>
                           /\ top < LogicalBottom
                           /\ \A m \in 1 .. Len(sb) : sb[m].slot # Slot(top)
                           /\ \A w \in Word :
                                \/ tVal'[u][w] = ItemAt(top)
                                \/ tPc'[u] = "copy" /\ tVal'[u][w] = None
    BY <1>0, <1>2 DEF ThievesRight, ownerVars
  <2>0. tTop[u] <= top
    BY DEF IInv, ThievesRight
  <2>1. CASE u = t
    <3>1. /\ tPc'[t] = IF x = WORDS THEN "cas" ELSE "copy"
          /\ \A w \in Word : tVal'[t][w] = IF w = x THEN v ELSE tVal[t][w]
      BY <1>0 DEF IInv, IndicesSafe, TypeOK
    <3>2. ASSUME tTop[t] = top
          PROVE  /\ top < LogicalBottom
                 /\ \A m \in 1 .. Len(sb) : sb[m].slot # Slot(top)
                 /\ \A w \in Word : tVal[t][w] = ItemAt(top) \/ tVal[t][w] = None
                 /\ x \in Word => v = ItemAt(top)
      <4>1. /\ top < LogicalBottom
            /\ \A m \in 1 .. Len(sb) : sb[m].slot # Slot(top)
            /\ \A w \in Word : tVal[t][w] = ItemAt(top) \/ tVal[t][w] = None
        BY <1>0, <3>2 DEF IInv, ThievesRight
      <4>2. top \in InDeque
        BY <4>1, IndexTypes DEF InDeque
      <4>3. x \in Word => v = ItemAt(top)
        BY <3>2, <4>1, <4>2, ItemInMemory DEF v
      <4> QED
        BY <4>1, <4>3
    <3>3. ASSUME tTop[t] = top, tPc'[t] = "cas", NEW w \in Word
          PROVE  tVal'[t][w] = ItemAt(top)
      <4>1. x = WORDS
        BY <3>1, <3>3
      <4>2. CASE tVal[t][w] = None
        <5>1. x = w
          BY <1>a, <4>1, <4>2, DequeAssumption DEF Word
        <5> QED
          BY <3>1, <3>2, <3>3, <5>1
      <4>3. CASE tVal[t][w] # None
        BY <3>1, <3>2, <3>3, <4>3
      <4> QED
        BY <4>2, <4>3
    <3>4. ASSUME tTop[t] = top, tPc'[t] = "copy", NEW w \in Word
          PROVE  tVal'[t][w] = ItemAt(top) \/ tVal'[t][w] = None
      BY <3>1, <3>2, <3>4
    <3> QED
      BY <2>0, <2>1, <3>1, <3>2, <3>3, <3>4
  <2>2. CASE u # t
    <3>1. tPc'[u] = tPc[u] /\ tVal'[u] = tVal[u]
      BY <1>0, <2>2 DEF IInv, IndicesSafe, TypeOK
    <3> QED
      BY <3>1 DEF IInv, ThievesRight
  <2> QED
    BY <2>1, <2>2
<1> QED
  BY <1>2, <1>3 DEF IInv

-----------------------------------------------------------------------------
(* Pops: the owner buffers a bottom and leaves the slots alone *)

\* What a buffered bottom at the end does to the store buffer.
LEMMA AppendBottom ==
  ASSUME IInv, NEW b \in Nat, sb' = Append(sb, BottomStore(b))
  PROVE  /\ sb' \in Seq(Store) /\ Len(sb') = Len(sb) + 1 /\ sb' # <<>>
         /\ sb'[Len(sb')] = BottomStore(b)
         /\ \A m \in 1 .. Len(sb) : sb'[m] = sb[m] /\ IsBottom(m)' = IsBottom(m)
         /\ \A m \in 1 .. Len(sb') : m = Len(sb') => IsBottom(m)'
         /\ \A s \in 0 .. N - 1, m \in 1 .. Len(sb') :
              sb'[m].slot = s => m \in 1 .. Len(sb)
<1>1. BottomStore(b) \in Store /\ sb \in Seq(Store) /\ Len(sb) \in Nat
  BY IndexTypes DEF BottomStore, Store
<1>2. /\ sb' \in Seq(Store) /\ Len(sb') = Len(sb) + 1
      /\ sb'[Len(sb) + 1] = BottomStore(b)
      /\ \A m \in 1 .. Len(sb) : sb'[m] = sb[m]
  BY <1>1, AppendProperties
<1>3. sb' # <<>>
  BY <1>1, <1>2
<1>4. BottomStore(b).slot = None /\ None \notin 0 .. N - 1
  BY DequeAssumption DEF BottomStore
<1>5. \A s \in 0 .. N - 1, m \in 1 .. Len(sb') :
        sb'[m].slot = s => m \in 1 .. Len(sb)
  BY <1>1, <1>2, <1>4
<1> QED
  BY <1>2, <1>3, <1>4, <1>5 DEF IsBottom

\* The items stay what they are.
LEMMA AppendBottomReads ==
  ASSUME IInv, NEW b \in Nat, sb' = Append(sb, BottomStore(b)), UNCHANGED buf,
         NEW j \in Nat
  PROVE  ItemAt(j)' = ItemAt(j)
<1>1. Slot(j) \in 0 .. N - 1
  BY SlotRange
<1>2. /\ Len(sb') = Len(sb) + 1 /\ Len(sb) \in Nat
      /\ \A m \in 1 .. Len(sb) : sb'[m] = sb[m]
      /\ \A m \in 1 .. Len(sb') : sb'[m].slot = Slot(j) => m \in 1 .. Len(sb)
  BY <1>1, AppendBottom, IndexTypes
<1>3. Mine(sb', Slot(j)) = Mine(sb, Slot(j))
  BY <1>2 DEF Mine
<1>4. ReadsOf(buf, sb', Slot(j)) = ReadsOf(buf, sb, Slot(j))
  <2>1. CASE Mine(sb, Slot(j)) = {}
    BY <1>3, <2>1 DEF ReadsOf
  <2>2. CASE Mine(sb, Slot(j)) # {}
    <3>1. Mine(sb, Slot(j)) \subseteq 1 .. Len(sb)
      BY DEF Mine
    <3>2. Max(Mine(sb, Slot(j))) \in 1 .. Len(sb)
      BY <1>2, <2>2, <3>1, MaxIn
    <3> QED
      BY <1>2, <1>3, <2>2, <3>2 DEF ReadsOf
  <2> QED
    BY <2>1, <2>2
<1>5. ItemAt(j) = ReadsOf(buf, sb, Slot(j)) /\ ItemAt(j)' = ReadsOf(buf', sb', Slot(j))
  BY DEF ItemAt, OwnerReads, ReadsOf, Mine
<1> QED
  BY <1>4, <1>5

\* A bottom that is not beyond the deque is the next one to be published.
LEMMA BottomKeeps ==
  ASSUME IInv, NEW b \in Nat, sb' = Append(sb, BottomStore(b)), bottom' = b,
         b <= LogicalBottom, LogicalBottom' = LogicalBottom,
         UNCHANGED <<pushed, thiefVars, top, pubBottom, buf, handed>>
  PROVE  Buffered' /\ SlotsRight' /\ ThievesRight' /\ Unseen
<1> USE DEF thiefVars
<1>1. /\ sb' \in Seq(Store) /\ Len(sb') = Len(sb) + 1 /\ sb' # <<>>
      /\ sb'[Len(sb')] = BottomStore(b)
      /\ \A m \in 1 .. Len(sb) : sb'[m] = sb[m] /\ IsBottom(m)' = IsBottom(m)
      /\ \A m \in 1 .. Len(sb') : m = Len(sb') => IsBottom(m)'
      /\ \A s \in 0 .. N - 1, m \in 1 .. Len(sb') :
           sb'[m].slot = s => m \in 1 .. Len(sb)
  BY AppendBottom
<1>2. \A j \in Nat : ItemAt(j)' = ItemAt(j)
  BY AppendBottomReads
<1>3. InDeque' = InDeque /\ InDeque \subseteq Nat /\ Len(sb) \in Nat
  BY IndexTypes DEF InDeque
<1>4. \A m \in 1 .. Len(sb') : m \in 1 .. Len(sb) \/ m = Len(sb')
  BY <1>1, <1>3
<1>5. Buffered'
  <2>1. pubBottom <= LogicalBottom
    BY DEF IInv, Buffered
  <2>2. ASSUME NEW m \in 1 .. Len(sb'), IsBottom(m)'
        PROVE  sb'[m].val <= LogicalBottom
    <3>1. CASE m \in 1 .. Len(sb)
      BY <1>1, <2>2, <3>1 DEF IInv, Buffered
    <3>2. CASE m = Len(sb')
      BY <1>1, <3>2 DEF BottomStore
    <3> QED
      BY <1>4, <3>1, <3>2
  <2>3. ASSUME NEW m \in 1 .. Len(sb'), ~IsBottom(m)'
        PROVE  \E j \in InDeque :
                 /\ sb'[m].slot = Slot(j) /\ sb'[m].val = ItemAt(j)'
                 /\ pubBottom <= j
                 /\ \A l \in 1 .. m - 1 : IsBottom(l)' => sb'[l].val <= j
    <3>1. m \in 1 .. Len(sb) /\ ~IsBottom(m)
      BY <1>1, <1>4, <2>3
    <3>2. PICK j \in InDeque :
             /\ sb[m].slot = Slot(j) /\ sb[m].val = ItemAt(j)
             /\ pubBottom <= j
             /\ \A l \in 1 .. m - 1 : IsBottom(l) => sb[l].val <= j
      BY <3>1 DEF IInv, Buffered
    <3>3. \A l \in 1 .. m - 1 : l \in 1 .. Len(sb)
      BY <3>1, <1>3
    <3> QED
      BY <1>1, <1>2, <1>3, <3>1, <3>2, <3>3
  <2> QED
    BY <1>1, <1>3, <2>1, <2>2, <2>3 DEF Buffered
<1>6. SlotsRight'
  <2>1. \A j \in InDeque, w \in Word :
          \/ buf[Slot(j)][w] = ItemAt(j)
          \/ \E m \in 1 .. Len(sb') : sb'[m].slot = Slot(j) /\ sb'[m].word = w
    BY <1>1, <1>3 DEF IInv, SlotsRight
  <2>2. \A j \in InDeque : ItemAt(j)' = ItemAt(j)
    BY <1>2, <1>3
  <2> QED
    BY <1>3, <2>1, <2>2 DEF IInv, SlotsRight
<1>7. ThievesRight'
  <2>1. top \in Nat /\ Slot(top) \in 0 .. N - 1 /\ ItemAt(top)' = ItemAt(top)
    BY <1>2, IndexTypes, SlotRange
  <2>2. (\A m \in 1 .. Len(sb) : sb[m].slot # Slot(top))
          => \A m \in 1 .. Len(sb') : sb'[m].slot # Slot(top)
    BY <1>1, <2>1
  <2> QED
    BY <2>1, <2>2 DEF IInv, ThievesRight
<1>8. Unseen
  BY <1>2, <1>3 DEF Unseen
<1> QED
  BY <1>5, <1>6, <1>7, <1>8

\* The types, when the owner moves bottom and stores no item.
LEMMA TypesKept ==
  ASSUME TypeOK, sb' \in Seq(Store), bottom' \in Nat, topCache' \in Nat,
         pc' \in {"fence", "idle"},
         UNCHANGED <<arg, pushed, tPc, tTop, tVal, top, pubBottom, buf, handed>>
  PROVE  TypeOK'
<1>1. {bottom', topCache', top', pubBottom', pushed'} \subseteq Nat
  BY DEF TypeOK
<1> QED
  BY <1>1 DEF TypeOK

\* The owner takes the bottom item back, and the deque still holds it.
LEMMA RetractInv ==
  ASSUME IInv, \/ CallPop /\ bottom # topCache
               \/ PopLoadTop /\ bottom # top
  PROVE  IInv' /\ Unseen
<1>1. /\ pc \in {"idle", "popLoad"} /\ topCache' \in {topCache, top}
      /\ bottom # topCache'
      /\ bottom' = bottom - 1 /\ sb' = Append(sb, BottomStore(bottom - 1))
      /\ pc' = "fence"
      /\ UNCHANGED <<arg, pushed, thiefVars, top, pubBottom, buf, handed>>
  BY DEF CallPop, PopLoadTop, Retract
<1>2. /\ topCache <= top /\ topCache <= bottom /\ bottom - topCache <= CAPACITY
      /\ top <= bottom /\ LogicalBottom = bottom
  BY <1>1 DEF IInv, IndicesSafe, LogicalBottom
<1>3. /\ bottom - 1 \in Nat /\ topCache' \in Nat /\ topCache' <= bottom - 1
      /\ topCache' <= top /\ bottom - topCache' <= CAPACITY
  BY <1>1, <1>2, IndexTypes, DequeAssumption DEF CAPACITY
<1>4. LogicalBottom' = LogicalBottom
  BY <1>1, <1>2, IndexTypes DEF LogicalBottom
<1>5. Buffered' /\ SlotsRight' /\ ThievesRight' /\ Unseen
  <2>1. bottom - 1 <= LogicalBottom
    BY <1>2, IndexTypes
  <2> QED
    BY <1>1, <1>3, <1>4, <2>1, BottomKeeps
<1>6. TypeOK'
  <2>1. sb' \in Seq(Store)
    BY <1>1, <1>3, AppendBottom
  <2>2. bottom' \in Nat /\ topCache' \in Nat
    BY <1>1, <1>3
  <2>3. UNCHANGED <<arg, pushed, tPc, tTop, tVal, top, pubBottom, buf, handed>>
        /\ pc' = "fence"
    BY <1>1 DEF thiefVars
  <2> QED
    BY <2>1, <2>2, <2>3, TypesKept DEF IInv, IndicesSafe
<1>7. IndicesSafe'
  <2>1. bottom' - topCache' <= CAPACITY
    <3>1. bottom' = bottom - 1 /\ topCache' \in Nat /\ bottom \in Nat
      BY <1>1, <1>3, IndexTypes
    <3>2. CAPACITY \in Nat
      BY DequeAssumption DEF CAPACITY
    <3>3. \A a, b, c \in Nat : a - b <= c => (a - 1) - b <= c
      OBVIOUS
    <3>4. bottom - topCache' <= CAPACITY
      BY <1>3
    <3> QED
      BY <3>1, <3>2, <3>3, <3>4
  <2> QED
    BY <1>1, <1>2, <1>3, <1>4, <1>6, <2>1 DEF IndicesSafe
<1>8. Decided'
  BY <1>1, <1>2, <1>3, <1>4 DEF IInv, Decided
<1> QED
  BY <1>5, <1>7, <1>8 DEF IInv

\* The owner lost the last item to a thief: it raises bottom to top.
LEMMA SettleInv ==
  ASSUME IInv, PopLost \/ (PopCas /\ top # bottom)
  PROVE  IInv' /\ Unseen /\ top = LogicalBottom
<1>1. /\ pc \in {"popTop", "popCas"} /\ pc' = "idle"
      /\ LogicalBottom = bottom + 1
      /\ UNCHANGED <<arg, pushed, thiefVars, top, pubBottom, buf, handed>>
  BY DEF PopLost, PopCas, Settle, LogicalBottom
<1>2. top = bottom + 1
  <2>1. top <= bottom + 1 /\ top >= bottom /\ top # bottom
    BY <1>1, IndexTypes DEF IInv, IndicesSafe, Decided, PopLost, PopCas
  <2> QED
    BY <2>1, IndexTypes
<1>3. /\ bottom' = top /\ topCache' = top /\ sb' = Append(sb, BottomStore(top))
  BY <1>2 DEF PopLost, PopCas, Settle
<1>4. LogicalBottom' = LogicalBottom
  BY <1>1, <1>2, <1>3 DEF LogicalBottom
<1>5. Buffered' /\ SlotsRight' /\ ThievesRight' /\ Unseen
  <2>1. top \in Nat /\ top <= LogicalBottom
    BY <1>1, <1>2, IndexTypes
  <2> QED
    BY <1>1, <1>3, <1>4, <2>1, BottomKeeps
<1>6. TypeOK'
  <2>1. sb' \in Seq(Store)
    BY <1>3, AppendBottom, IndexTypes
  <2> QED
    BY <1>1, <1>3, <2>1 DEF IInv, IndicesSafe, TypeOK, thiefVars
<1>7. /\ topCache' <= top' /\ topCache' <= bottom' /\ top' <= LogicalBottom'
      /\ bottom' - topCache' <= CAPACITY /\ LogicalBottom' - topCache' <= CAPACITY
  <2>1. top <= top /\ top - top = 0 /\ 0 <= CAPACITY
    BY IndexTypes, DequeAssumption DEF CAPACITY
  <2>2. /\ bottom' = top /\ topCache' = top /\ top' = top
        /\ LogicalBottom' = top
    BY <1>1, <1>2, <1>3, <1>4
  <2> QED
    BY <2>1, <2>2
<1>8. IndicesSafe'
  BY <1>6, <1>7 DEF IndicesSafe
<1>9. Decided'
  BY <1>1, <1>7 DEF IInv, Decided
<1> QED
  BY <1>1, <1>2, <1>4, <1>5, <1>8, <1>9 DEF IInv

\* The last item is the owner's: the deque is empty, and a thief that copied the
\* item fails.
LEMMA PopCasWonInv ==
  ASSUME IInv, PopCas, top = bottom
  PROVE  /\ IInv' /\ InDeque = {top} /\ LogicalBottom' = LogicalBottom
         /\ top' = LogicalBottom /\ handed' = [handed EXCEPT ![ItemAt(top)] = @ + 1]
<1>1. /\ pc = "popCas" /\ sb = <<>> /\ pc' = "idle"
      /\ top' = top + 1 /\ bottom' = top + 1 /\ topCache' = top + 1
      /\ sb' = Append(sb, BottomStore(top + 1))
      /\ handed' = [handed EXCEPT ![ItemAt(top)] = @ + 1]
      /\ UNCHANGED <<arg, pushed, thiefVars, pubBottom, buf>>
  BY DEF PopCas, Settle, HandOut, ItemAt
<1>2. top \in Nat /\ top + 1 \in Nat
  BY IndexTypes
<1>3. LogicalBottom = top + 1 /\ LogicalBottom' = top + 1
  BY <1>1 DEF LogicalBottom
<1>4. InDeque = {top} /\ InDeque' = {}
  BY <1>1, <1>2, <1>3 DEF InDeque
<1>5. ItemAt(top) \in Item /\ ItemAt(top) < pushed
  BY <1>4 DEF IInv, SlotsRight
<1>6. /\ sb' \in Seq(Store) /\ Len(sb') = 1 /\ sb' # <<>>
      /\ sb'[1] = BottomStore(top + 1)
  <2>1. Len(sb) = 0
    BY <1>1
  <2> QED
    BY <1>1, <1>2, <2>1, AppendBottom
<1>7. TypeOK'
  BY <1>1, <1>2, <1>5, <1>6 DEF IInv, IndicesSafe, TypeOK, thiefVars
<1>8. IndicesSafe'
  BY <1>1, <1>2, <1>3, <1>7, DequeAssumption DEF IndicesSafe, CAPACITY
<1>9. Decided'
  BY <1>1, <1>2, <1>3, DequeAssumption DEF IInv, Decided, CAPACITY
<1>10. Buffered'
  <2>1. pubBottom' <= LogicalBottom'
    BY <1>1, <1>3 DEF IInv, Buffered
  <2>2. \A m \in 1 .. Len(sb') : m = 1 /\ sb'[m].slot = None /\ sb'[m].val = top + 1
    BY <1>6 DEF BottomStore
  <2>3. sb'[Len(sb')] = BottomStore(bottom')
    BY <1>1, <1>6
  <2> QED
    BY <1>2, <1>3, <1>6, <2>1, <2>2, <2>3 DEF Buffered, IsBottom
<1>11. SlotsRight'
  <2>1. \A i \in Item : i >= pushed => handed'[i] = handed[i]
    BY <1>1, <1>5, IndexTypes DEF IInv, IndicesSafe, TypeOK, Item
  <2> QED
    BY <1>1, <1>4, <2>1 DEF IInv, SlotsRight
<1>12. ThievesRight'
  <2>1. \A t \in Thief : tTop[t] <= top /\ tTop[t] \in Nat
    BY DEF IInv, ThievesRight, IndicesSafe, TypeOK
  <2>2. \A t \in Thief : tTop'[t] <= top' /\ tTop'[t] # top'
    BY <1>1, <1>2, <2>1 DEF thiefVars
  <2> QED
    BY <1>1, <2>2 DEF IInv, ThievesRight, thiefVars
<1> QED
  BY <1>1, <1>3, <1>4, <1>8, <1>9, <1>10, <1>11, <1>12 DEF IInv

\* There is more than one item, so no thief can take the bottom one.
LEMMA PopTakeInv ==
  ASSUME IInv, PopTake
  PROVE  /\ IInv' /\ bottom \in InDeque /\ top' = top
         /\ LogicalBottom = bottom + 1 /\ LogicalBottom' = bottom
         /\ handed' = [handed EXCEPT ![ItemAt(bottom)] = @ + 1]
         /\ \A j : ItemAt(j)' = ItemAt(j)
<1>1. /\ pc = "popTop" /\ pc' = "idle" /\ top < bottom /\ topCache' = top
      /\ handed' = [handed EXCEPT ![ItemAt(bottom)] = @ + 1]
      /\ UNCHANGED <<bottom, sb, arg, pushed, thiefVars, top, pubBottom, buf>>
  BY DEF PopTake, HandOut, ItemAt
<1>2. LogicalBottom = bottom + 1 /\ LogicalBottom' = bottom /\ sb = <<>>
  BY <1>1 DEF LogicalBottom, IInv, Decided
<1>3. /\ bottom \in InDeque /\ bottom \in Nat /\ top \in Nat
      /\ \A j \in InDeque' : j \in InDeque /\ j < bottom
  BY <1>1, <1>2, IndexTypes DEF InDeque
<1>4. \A j : ItemAt(j)' = ItemAt(j)
  BY <1>1 DEF ItemAt, OwnerReads
<1>5. ItemAt(bottom) \in Item /\ ItemAt(bottom) < pushed
  BY <1>3 DEF IInv, SlotsRight
<1>6. bottom - top <= CAPACITY
  BY <1>1, <1>2, IndexTypes, DequeAssumption
     DEF IInv, IndicesSafe, Decided, CAPACITY
<1>7. TypeOK'
  BY <1>1, <1>3, <1>5 DEF IInv, IndicesSafe, TypeOK, thiefVars
<1>8. IndicesSafe'
  BY <1>1, <1>2, <1>3, <1>6, <1>7 DEF IndicesSafe
<1>9. Decided'
  BY <1>1, <1>2, <1>6 DEF IInv, Decided
<1>10. Buffered'
  <2>1. pubBottom = bottom
    BY <1>2 DEF IInv, Buffered
  <2>2. 1 .. Len(sb) = {}
    BY <1>2
  <2> QED
    BY <1>1, <1>2, <1>3, <2>1, <2>2 DEF Buffered
<1>11. SlotsRight'
  <2>1. \A j \in InDeque' : ItemAt(j) \in Item /\ ItemAt(j) < ItemAt(bottom)
    BY <1>3 DEF IInv, SlotsRight
  <2>2. \A j \in InDeque' : handed'[ItemAt(j)] = 0
    <3> SUFFICES ASSUME NEW j \in InDeque' PROVE handed'[ItemAt(j)] = 0
      OBVIOUS
    <3>1. ItemAt(j) # ItemAt(bottom)
      BY <1>5, <2>1 DEF Item
    <3>2. handed[ItemAt(j)] = 0
      BY <1>3 DEF IInv, SlotsRight
    <3> QED
      BY <1>1, <2>1, <3>1, <3>2 DEF IInv, IndicesSafe, TypeOK
  <2>3. \A i \in Item : i >= pushed => handed'[i] = handed[i]
    BY <1>1, <1>5, IndexTypes DEF IInv, IndicesSafe, TypeOK, Item
  <2>4. \A j \in InDeque' :
          /\ ItemAt(j) \in Item /\ ItemAt(j) < pushed
          /\ \A w \in Word :
               \/ buf[Slot(j)][w] = ItemAt(j)
               \/ \E m \in 1 .. Len(sb) : sb[m].slot = Slot(j) /\ sb[m].word = w
          /\ \A i \in InDeque' : i < j => ItemAt(i) < ItemAt(j)
    BY <1>3 DEF IInv, SlotsRight
  <2>5. \A i \in Item : i >= pushed => handed'[i] = 0
    BY <2>3 DEF IInv, SlotsRight
  <2>6. UNCHANGED <<pushed, buf, sb>>
    BY <1>1
  <2> QED
    BY <1>4, <2>2, <2>4, <2>5, <2>6 DEF SlotsRight
<1>12. ThievesRight'
  <2>1. top < LogicalBottom'
    BY <1>1, <1>2
  <2> QED
    BY <1>1, <1>4, <2>1 DEF IInv, ThievesRight, thiefVars
<1> QED
  BY <1>1, <1>2, <1>3, <1>4, <1>8, <1>9, <1>10, <1>11, <1>12 DEF IInv

-----------------------------------------------------------------------------
(* The CAS of a thief *)

\* The thief's own variables after its CAS.
LEMMA StealCasReset ==
  ASSUME IInv, NEW t \in Thief, StealCas(t)
  PROVE  /\ tPc' \in [Thief -> {"idle", "bottom", "copy", "cas"}]
         /\ tTop' \in [Thief -> Nat]
         /\ tVal' \in [Thief -> [Word -> Item \union {None}]]
         /\ tTop' = tTop
         /\ tPc'[t] = "idle" /\ \A w \in Word : tVal'[t][w] = None
         /\ \A u \in Thief : u # t => tPc'[u] = tPc[u] /\ tVal'[u] = tVal[u]
BY DEF StealCas, IInv, IndicesSafe, TypeOK

\* A stale thief fails and changes nothing.
LEMMA StealCasLostInv ==
  ASSUME IInv, NEW t \in Thief, StealCas(t), top # tTop[t]
  PROVE  IInv' /\ Unseen
<1>1. UNCHANGED <<ownerVars, top, pubBottom, buf, handed>>
  BY DEF StealCas
<1>2. /\ IndicesSafe' /\ Decided' /\ Buffered' /\ SlotsRight'
      /\ LogicalBottom' = LogicalBottom /\ \A j : ItemAt(j)' = ItemAt(j)
      /\ Unseen
  BY <1>1, StealCasReset, ThiefKeeps
<1>3. ThievesRight'
  <2> SUFFICES ASSUME NEW u \in Thief
               PROVE  /\ tTop[u] <= top
                      /\ tPc'[u] \in {"idle", "bottom"} => \A w \in Word : tVal'[u][w] = None
                      /\ tPc'[u] \in {"copy", "cas"} /\ tTop[u] = top =>
                           /\ top < LogicalBottom
                           /\ \A m \in 1 .. Len(sb) : sb[m].slot # Slot(top)
                           /\ \A w \in Word :
                                \/ tVal'[u][w] = ItemAt(top)
                                \/ tPc'[u] = "copy" /\ tVal'[u][w] = None
    BY <1>1, <1>2, StealCasReset DEF ThievesRight, ownerVars
  <2>1. CASE u = t
    BY <2>1, StealCasReset DEF IInv, ThievesRight
  <2>2. CASE u # t
    BY <2>2, StealCasReset DEF IInv, ThievesRight
  <2> QED
    BY <2>1, <2>2
<1> QED
  BY <1>2, <1>3 DEF IInv

\* A thief whose CAS succeeds hands out the top item.
LEMMA StealCasWonInv ==
  ASSUME IInv, NEW t \in Thief, StealCas(t), top = tTop[t]
  PROVE  /\ IInv' /\ top \in InDeque /\ top' = top + 1
         /\ LogicalBottom' = LogicalBottom
         /\ handed' = [handed EXCEPT ![ItemAt(top)] = @ + 1]
         /\ \A j : ItemAt(j)' = ItemAt(j)
<1>1. /\ tPc[t] = "cas" /\ top' = top + 1
      /\ handed' = [handed EXCEPT ![tVal[t][1]] = @ + 1]
      /\ UNCHANGED <<bottom, topCache, sb, pc, arg, pushed, pubBottom, buf>>
  BY DEF StealCas, HandOut, ownerVars
<1>2. /\ top < LogicalBottom
      /\ \A m \in 1 .. Len(sb) : sb[m].slot # Slot(top)
      /\ tVal[t][1] = ItemAt(top)
  <2>1. 1 \in Word
    BY DequeAssumption DEF Word
  <2> QED
    BY <1>1, <2>1 DEF IInv, ThievesRight
<1>3. /\ top \in InDeque /\ top \in Nat
      /\ LogicalBottom' = LogicalBottom
      /\ InDeque' = (top + 1) .. (LogicalBottom - 1)
      /\ \A j \in InDeque : j = top \/ j \in InDeque'
      /\ \A j \in InDeque' : j \in InDeque /\ top < j
  <2>1. LogicalBottom' = LogicalBottom
    BY <1>1 DEF LogicalBottom
  <2> QED
    BY <1>1, <1>2, <2>1, IndexTypes DEF InDeque
<1>4. \A j : ItemAt(j)' = ItemAt(j)
  BY <1>1 DEF ItemAt, OwnerReads
<1>5. ItemAt(top) \in Item /\ ItemAt(top) < pushed
  BY <1>3 DEF IInv, SlotsRight
<1>6. TypeOK'
  <2>1. TypeOK
    BY DEF IInv, IndicesSafe
  <2>2. top' \in Nat
    BY <1>1, <1>3
  <2>3. handed' \in [Item -> Nat]
    BY <1>1, <1>2, <1>5, <2>1 DEF TypeOK
  <2>4. /\ tPc' \in [Thief -> {"idle", "bottom", "copy", "cas"}]
        /\ tTop' \in [Thief -> Nat]
        /\ tVal' \in [Thief -> [Word -> Item \union {None}]]
    BY StealCasReset
  <2>5. /\ {bottom', topCache', top', pubBottom', pushed'} \subseteq Nat
        /\ UNCHANGED <<sb, pc, arg, buf>>
    BY <1>1, <2>1, <2>2 DEF StealCas, ownerVars, TypeOK
  <2> QED
    BY <2>1, <2>3, <2>4, <2>5 DEF TypeOK
<1>7. IndicesSafe'
  <2>1. topCache <= top + 1 /\ top + 1 <= LogicalBottom
    BY <1>2, <1>3, IndexTypes DEF IInv, IndicesSafe
  <2> QED
    BY <1>1, <1>3, <1>6, <2>1 DEF IInv, IndicesSafe
<1>8. Decided'
  <2>1. pc = "popCas" => top + 1 >= bottom
    BY IndexTypes DEF IInv, Decided
  <2> QED
    BY <1>1, <1>3, <2>1 DEF IInv, Decided, Used
<1>9. Buffered'
  <2>1. \A m : IsBottom(m)' = IsBottom(m)
    BY <1>1 DEF IsBottom
  <2>2. ASSUME NEW m \in 1 .. Len(sb), ~IsBottom(m)
        PROVE  \E j \in InDeque' :
                 /\ sb[m].slot = Slot(j) /\ sb[m].val = ItemAt(j)
                 /\ pubBottom <= j
                 /\ \A l \in 1 .. m - 1 : IsBottom(l) => sb[l].val <= j
    <3>1. PICK j \in InDeque :
             /\ sb[m].slot = Slot(j) /\ sb[m].val = ItemAt(j)
             /\ pubBottom <= j
             /\ \A l \in 1 .. m - 1 : IsBottom(l) => sb[l].val <= j
      BY <2>2 DEF IInv, Buffered
    <3>2. j \in InDeque'
      BY <1>2, <1>3, <3>1
    <3> QED
      BY <3>1, <3>2
  <2>3. /\ IF sb = <<>> THEN pubBottom = bottom ELSE sb[Len(sb)] = BottomStore(bottom)
        /\ pubBottom <= LogicalBottom
        /\ \A m \in 1 .. Len(sb) : IsBottom(m) => sb[m].val <= LogicalBottom
    BY DEF IInv, Buffered
  <2> QED
    BY <1>1, <1>3, <1>4, <2>1, <2>2, <2>3 DEF Buffered
<1>10. SlotsRight'
  <2>1. ASSUME NEW j \in InDeque'
        PROVE  handed'[ItemAt(j)] = 0
    <3>1. /\ ItemAt(j) \in Item /\ handed[ItemAt(j)] = 0
          /\ ItemAt(top) < ItemAt(j)
      BY <1>3, <2>1 DEF IInv, SlotsRight
    <3>2. ItemAt(j) # ItemAt(top)
      BY <1>5, <3>1 DEF Item
    <3> QED
      BY <1>1, <1>2, <3>1, <3>2 DEF IInv, IndicesSafe, TypeOK
  <2>2. \A i \in Item : i >= pushed => handed'[i] = handed[i]
    BY <1>1, <1>2, <1>5, IndexTypes DEF IInv, IndicesSafe, TypeOK, Item
  <2>3. \A i \in Item : i >= pushed => handed'[i] = 0
    BY <2>2 DEF IInv, SlotsRight
  <2>4. \A j \in InDeque' :
          /\ ItemAt(j) \in Item /\ ItemAt(j) < pushed
          /\ \A w \in Word :
               \/ buf[Slot(j)][w] = ItemAt(j)
               \/ \E m \in 1 .. Len(sb) : sb[m].slot = Slot(j) /\ sb[m].word = w
          /\ \A i \in InDeque' : i < j => ItemAt(i) < ItemAt(j)
    BY <1>3 DEF IInv, SlotsRight
  <2> QED
    BY <1>1, <1>4, <2>1, <2>3, <2>4 DEF SlotsRight
<1>11. ThievesRight'
  <2> SUFFICES ASSUME NEW u \in Thief
               PROVE  /\ tTop[u] <= top' /\ tTop[u] # top'
                      /\ tPc'[u] \in {"idle", "bottom"} => \A w \in Word : tVal'[u][w] = None
    BY StealCasReset DEF ThievesRight
  <2>1. tTop[u] \in Nat /\ tTop[u] <= top
    BY DEF IInv, ThievesRight, IndicesSafe, TypeOK
  <2>2. tTop[u] <= top' /\ tTop[u] # top'
    BY <1>1, <1>3, <2>1
  <2>3. CASE u = t
    BY <2>2, <2>3, StealCasReset
  <2>4. CASE u # t
    BY <2>2, <2>4, StealCasReset DEF IInv, ThievesRight
  <2> QED
    BY <2>3, <2>4
<1> QED
  BY <1>1, <1>2, <1>3, <1>4, <1>7, <1>8, <1>9, <1>10, <1>11 DEF IInv

-----------------------------------------------------------------------------
(* A store reaches memory *)

\* One word of memory changes.
LEMMA WordStored ==
  ASSUME NEW b \in [0 .. N - 1 -> [Word -> Item \union {None}]],
         NEW s \in 0 .. N - 1, NEW x \in Word, NEW v \in Item,
         NEW c, c = [b EXCEPT ![s][x] = v]
  PROVE  /\ c \in [0 .. N - 1 -> [Word -> Item \union {None}]]
         /\ \A r \in 0 .. N - 1, w \in Word :
              c[r][w] = IF r = s /\ w = x THEN v ELSE b[r][w]
OBVIOUS

\* The store buffer without its oldest store.
LEMMA DrainedBuffer ==
  ASSUME IInv, Drain
  PROVE  /\ sb' \in Seq(Store) /\ Len(sb') \in Nat /\ Len(sb) = Len(sb') + 1
         /\ 1 \in 1 .. Len(sb)
         /\ \A m \in 1 .. Len(sb') :
              /\ m + 1 \in 1 .. Len(sb) /\ sb'[m] = sb[m + 1]
              /\ IsBottom(m)' = IsBottom(m + 1)
         /\ \A m \in 1 .. Len(sb) :
              m # 1 => m - 1 \in 1 .. Len(sb') /\ sb'[m - 1] = sb[m]
         /\ \/ /\ IsBottom(1) /\ sb[1].val \in Nat
               /\ pubBottom' = sb[1].val /\ buf' = buf
            \/ /\ ~IsBottom(1) /\ sb[1].slot \in 0 .. N - 1
               /\ sb[1].word \in Word /\ sb[1].val \in Item
               /\ buf' = [buf EXCEPT ![sb[1].slot][sb[1].word] = sb[1].val]
               /\ pubBottom' = pubBottom
<1>1. sb \in Seq(Store) /\ sb # <<>> /\ sb' = Tail(sb) /\ Head(sb) = sb[1]
  BY IndexTypes DEF Drain
<1>2. sb' \in Seq(Store) /\ Len(sb') = Len(sb) - 1 /\ Len(sb) \in Nat \ {0}
  BY <1>1
<1>3. \A m \in 1 .. Len(sb') : sb'[m] = sb[m + 1]
  BY <1>1, <1>2
<1>4. \A m \in 1 .. Len(sb') :
        m + 1 \in 1 .. Len(sb) /\ sb'[m].slot = sb[m + 1].slot
  BY <1>2, <1>3
<1>5. \A m \in 1 .. Len(sb) :
        m # 1 => m - 1 \in 1 .. Len(sb') /\ sb'[m - 1] = sb[m]
  BY <1>2, <1>3
<1>6. 1 \in 1 .. Len(sb) /\ sb[1] \in Store
  BY <1>1, <1>2
<1>7. \/ sb[1].slot = None /\ sb[1].val \in Nat
      \/ /\ sb[1].slot # None /\ sb[1].slot \in 0 .. N - 1
         /\ sb[1].word \in Word /\ sb[1].val \in Item
  BY <1>6, DequeAssumption DEF Store
<1>8. IF sb[1].slot = None
      THEN pubBottom' = sb[1].val /\ buf' = buf
      ELSE /\ buf' = [buf EXCEPT ![sb[1].slot][sb[1].word] = sb[1].val]
           /\ pubBottom' = pubBottom
  BY <1>1 DEF Drain
<1> QED
  BY <1>2, <1>3, <1>4, <1>5, <1>6, <1>7, <1>8 DEF IsBottom

\* Every word of an item is in memory or still to come.
LEMMA DrainedWords ==
  ASSUME IInv, Drain, NEW j \in InDeque, NEW w \in Word
  PROVE  \/ buf'[Slot(j)][w] = ItemAt(j)
         \/ \E m \in 1 .. Len(sb') : sb'[m].slot = Slot(j) /\ sb'[m].word = w
<1>1. Slot(j) \in 0 .. N - 1
  BY SlotRange, IndexTypes
<1>2. buf \in [0 .. N - 1 -> [Word -> Item \union {None}]]
  BY DEF IInv, IndicesSafe, TypeOK
<1>3. CASE sb[1].slot = Slot(j) /\ sb[1].word = w
  <2>1. sb[1].val = ItemAt(j)
    BY <1>3, BufferedItem, DrainedBuffer
  <2>2. ~IsBottom(1)
    BY <1>3, SlotRange, IndexTypes DEF IsBottom
  <2>3. buf' = [buf EXCEPT ![Slot(j)][w] = ItemAt(j)]
    BY <1>3, <2>1, <2>2, DrainedBuffer
  <2> QED
    BY <1>1, <1>2, <2>3
<1>4. CASE ~(sb[1].slot = Slot(j) /\ sb[1].word = w)
  <2>1. buf'[Slot(j)][w] = buf[Slot(j)][w]
    <3>1. CASE IsBottom(1)
      BY <3>1, DrainedBuffer
    <3>2. CASE ~IsBottom(1)
      <4>1. /\ sb[1].slot \in 0 .. N - 1 /\ sb[1].word \in Word /\ sb[1].val \in Item
            /\ buf' = [buf EXCEPT ![sb[1].slot][sb[1].word] = sb[1].val]
        BY <3>2, DrainedBuffer
      <4>2. \A r \in 0 .. N - 1, x \in Word :
              buf'[r][x] = IF r = sb[1].slot /\ x = sb[1].word THEN sb[1].val
                                                              ELSE buf[r][x]
        BY <1>2, <4>1, WordStored
      <4> QED
        BY <1>1, <1>4, <4>2
    <3> QED
      BY <3>1, <3>2
  <2>2. \/ buf[Slot(j)][w] = ItemAt(j)
        \/ \E m \in 1 .. Len(sb) : sb[m].slot = Slot(j) /\ sb[m].word = w
    BY DEF IInv, SlotsRight
  <2>3. ASSUME NEW m \in 1 .. Len(sb), sb[m].slot = Slot(j), sb[m].word = w
        PROVE  \E k \in 1 .. Len(sb') : sb'[k].slot = Slot(j) /\ sb'[k].word = w
    <3>1. m # 1
      BY <1>4, <2>3
    <3>2. m - 1 \in 1 .. Len(sb') /\ sb'[m - 1] = sb[m]
      BY <3>1, DrainedBuffer
    <3> QED
      BY <2>3, <3>2
  <2> QED
    BY <2>1, <2>2, <2>3
<1> QED
  BY <1>3, <1>4

\* An item stays what it is while its words reach memory.
LEMMA DrainedItem ==
  ASSUME IInv, Drain, NEW j \in InDeque
  PROVE  ItemAt(j)' = ItemAt(j)
<1> DEFINE v == ItemAt(j)
<1>1. sb' \in Seq(Store)
  BY DrainedBuffer
<1>2. \A m \in 1 .. Len(sb') : sb'[m].slot = Slot(j) => sb'[m].val = v
  BY DrainedBuffer, BufferedItem
<1>3. 1 \in Word
  BY DequeAssumption DEF Word
<1>4. (\A m \in 1 .. Len(sb') : sb'[m].slot # Slot(j)) => buf'[Slot(j)][1] = v
  BY <1>3, DrainedWords
<1> HIDE DEF v
<1>5. ItemAt(j)' = v
  BY <1>1, <1>2, <1>4, ItemKept
<1> QED
  BY <1>5 DEF v

\* A store of the owner reaches memory.
LEMMA DrainInv ==
  ASSUME IInv, Drain
  PROVE  IInv' /\ Unseen
<1>1. UNCHANGED <<bottom, topCache, pc, arg, pushed, thiefVars, top, handed>>
  BY DEF Drain
<1>2. LogicalBottom' = LogicalBottom /\ InDeque' = InDeque
  BY <1>1 DEF LogicalBottom, InDeque
<1>3. /\ sb' \in Seq(Store) /\ Len(sb') \in Nat /\ Len(sb) = Len(sb') + 1
      /\ 1 \in 1 .. Len(sb)
      /\ \A m \in 1 .. Len(sb') :
           /\ m + 1 \in 1 .. Len(sb) /\ sb'[m] = sb[m + 1]
           /\ IsBottom(m)' = IsBottom(m + 1)
  BY DrainedBuffer
<1>4. TypeOK'
  <2>1. pubBottom' \in Nat
    BY DrainedBuffer, IndexTypes
  <2>2. buf' \in [0 .. N - 1 -> [Word -> Item \union {None}]]
    <3>1. buf \in [0 .. N - 1 -> [Word -> Item \union {None}]]
      BY DEF IInv, IndicesSafe, TypeOK
    <3>2. CASE IsBottom(1)
      BY <3>1, <3>2, DrainedBuffer
    <3>3. CASE ~IsBottom(1)
      BY <3>1, <3>3, DrainedBuffer, WordStored
    <3> QED
      BY <3>2, <3>3
  <2> QED
    BY <1>1, <1>3, <2>1, <2>2 DEF IInv, IndicesSafe, TypeOK, thiefVars
<1>5. IndicesSafe'
  BY <1>1, <1>2, <1>4 DEF IInv, IndicesSafe
<1>6. Decided'
  <2>1. sb # <<>>
    BY DEF Drain
  <2> QED
    BY <1>1, <1>2, <2>1 DEF IInv, Decided, Used
<1>7. Buffered'
  <2>1. IF sb' = <<>> THEN pubBottom' = bottom ELSE sb'[Len(sb')] = BottomStore(bottom)
    <3>1. sb # <<>> /\ sb[Len(sb)] = BottomStore(bottom)
      BY DEF IInv, Buffered, Drain
    <3>2. CASE Len(sb') = 0
      <4>1. sb[1] = BottomStore(bottom) /\ sb' = <<>>
        BY <1>3, <3>1, <3>2
      <4>2. IsBottom(1) /\ sb[1].val = bottom
        BY <4>1 DEF IsBottom, BottomStore
      <4> QED
        BY <4>1, <4>2, DrainedBuffer
    <3>3. CASE Len(sb') # 0
      <4>1. sb' # <<>> /\ Len(sb') \in 1 .. Len(sb')
        BY <1>3, <3>3
      <4> QED
        BY <1>3, <3>1, <4>1
    <3> QED
      BY <3>2, <3>3
  <2>2. pubBottom' <= LogicalBottom
    BY DrainedBuffer DEF IInv, Buffered
  <2>3. \A m \in 1 .. Len(sb') : IsBottom(m)' => sb'[m].val <= LogicalBottom
    BY <1>3 DEF IInv, Buffered
  <2>4. ASSUME NEW m \in 1 .. Len(sb'), ~IsBottom(m)'
        PROVE  \E j \in InDeque :
                 /\ sb'[m].slot = Slot(j) /\ sb'[m].val = ItemAt(j)'
                 /\ pubBottom' <= j
                 /\ \A l \in 1 .. m - 1 : IsBottom(l)' => sb'[l].val <= j
    <3>1. m + 1 \in 1 .. Len(sb) /\ ~IsBottom(m + 1) /\ sb'[m] = sb[m + 1]
      BY <1>3, <2>4
    <3>2. PICK j \in InDeque :
             /\ sb[m + 1].slot = Slot(j) /\ sb[m + 1].val = ItemAt(j)
             /\ pubBottom <= j
             /\ \A l \in 1 .. (m + 1) - 1 : IsBottom(l) => sb[l].val <= j
      BY <3>1 DEF IInv, Buffered
    <3>3. ItemAt(j)' = ItemAt(j)
      BY DrainedItem
    <3>4. pubBottom' <= j
      <4>1. 1 \in 1 .. (m + 1) - 1
        BY <1>3
      <4> QED
        BY <3>2, <4>1, DrainedBuffer
    <3>5. ASSUME NEW l \in 1 .. m - 1, IsBottom(l)'
          PROVE  sb'[l].val <= j
      <4>1. l \in 1 .. Len(sb') /\ l + 1 \in 1 .. (m + 1) - 1
        BY <1>3
      <4>2. sb'[l] = sb[l + 1] /\ IsBottom(l + 1)
        BY <1>3, <3>5, <4>1
      <4> QED
        BY <3>2, <4>1, <4>2
    <3> QED
      BY <3>1, <3>2, <3>3, <3>4, <3>5
  <2> QED
    BY <1>1, <1>2, <2>1, <2>2, <2>3, <2>4 DEF Buffered
<1>8. SlotsRight'
  <2>1. \A j \in InDeque : ItemAt(j)' = ItemAt(j)
    BY DrainedItem
  <2>2. \A j \in InDeque, w \in Word :
          \/ buf'[Slot(j)][w] = ItemAt(j)
          \/ \E m \in 1 .. Len(sb') : sb'[m].slot = Slot(j) /\ sb'[m].word = w
    BY DrainedWords
  <2> QED
    BY <1>1, <1>2, <2>1, <2>2 DEF IInv, SlotsRight
<1>9. ThievesRight'
  <2>1. top < LogicalBottom => top \in InDeque
    BY IndexTypes DEF InDeque
  <2>2. top < LogicalBottom => ItemAt(top)' = ItemAt(top)
    BY <1>1, <2>1, DrainedItem
  <2>3. (\A m \in 1 .. Len(sb) : sb[m].slot # Slot(top))
          => \A m \in 1 .. Len(sb') : sb'[m].slot # Slot(top)
    BY <1>3
  <2>4. ASSUME NEW t \in Thief
        PROVE  /\ tTop[t] <= top
               /\ tPc[t] \in {"idle", "bottom"} => \A w \in Word : tVal[t][w] = None
               /\ tPc[t] \in {"copy", "cas"} /\ tTop[t] = top =>
                    /\ top < LogicalBottom
                    /\ \A m \in 1 .. Len(sb') : sb'[m].slot # Slot(top)
                    /\ \A w \in Word : \/ tVal[t][w] = ItemAt(top)'
                                       \/ tPc[t] = "copy" /\ tVal[t][w] = None
    BY <2>2, <2>3 DEF IInv, ThievesRight
  <2>5. ItemAt(top') = ItemAt(top)
    BY <1>1
  <2> QED
    BY <1>1, <1>2, <2>4 DEF ThievesRight, thiefVars
<1> QED
  BY <1>1, <1>2, <1>5, <1>6, <1>7, <1>8, <1>9, DrainedItem DEF IInv, Unseen

-----------------------------------------------------------------------------
(* The owner stores new items *)

\* Indices of one lap have different slots.
LEMMA SlotsOfLap ==
  ASSUME NEW c \in Nat, NEW i \in c .. c + N - 1, NEW j \in c .. c + N - 1,
         Slot(i) = Slot(j)
  PROVE  i = j
<1>1. i \in Nat /\ j \in Nat /\ i < j + N /\ j < i + N
  BY DequeAssumption
<1>2. i \notin j + 1 .. j + N - 1 /\ j \notin i + 1 .. i + N - 1
  BY <1>1, SlotInjective
<1> QED
  BY <1>1, <1>2, DequeAssumption

\* What a push accepts fits into the deque, and is at least one item.
LEMMA AcceptedFits ==
  ASSUME IInv, PushStore
  PROVE  /\ Accepted \in Nat /\ Accepted >= 1 /\ Accepted <= Len(arg)
         /\ bottom + Accepted <= topCache + N
         /\ topCache <= bottom
         /\ LogicalBottom = bottom /\ LogicalBottom' = bottom + Accepted
         /\ Len(arg) \in Nat /\ arg \in Seq(Item)
         /\ \A k \in 1 .. Len(arg) : arg[k] = pushed + k - 1
<1>1. pc \in {"storeTry", "storeSpin"} /\ pc' \in {"idle", "loadSpin"}
      /\ bottom' = bottom + Accepted
  BY DEF PushStore
<1>2. LogicalBottom = bottom /\ LogicalBottom' = bottom + Accepted
  BY <1>1 DEF LogicalBottom
<1>3. arg \in Seq(Item) /\ arg # <<>> /\ \A k \in 1 .. Len(arg) : arg[k] = pushed + k - 1
  BY <1>1 DEF IInv, IndicesSafe, TypeOK, Decided
<1>4. Len(arg) \in Nat /\ Len(arg) >= 1
  BY <1>3
<1> DEFINE free == CAPACITY - Used(topCache)
<1>5. free \in Nat /\ free >= 1 /\ bottom + free = topCache + N /\ topCache <= bottom
  BY <1>1, IndexTypes, DequeAssumption DEF IInv, Decided, IndicesSafe, CAPACITY, Used
<1>6. Accepted = Min({Len(arg), free})
  BY DEF Accepted
<1> HIDE DEF free
<1>7. /\ Accepted \in {Len(arg), free}
      /\ \A y \in {Len(arg), free} : Accepted <= y
  <2>1. {Len(arg), free} \subseteq Nat /\ {Len(arg), free} # {}
    BY <1>4, <1>5
  <2> QED
    BY <1>6, <2>1, MinIn
<1>8. /\ Accepted \in Nat /\ Accepted >= 1 /\ Accepted <= Len(arg) /\ Accepted <= free
  BY <1>4, <1>5, <1>7
<1>9. bottom + Accepted <= topCache + N
  BY <1>5, <1>8, IndexTypes
<1> QED
  BY <1>2, <1>3, <1>4, <1>5, <1>8, <1>9

\* The slot stores of a push: WORDS stores per item, in the order of the items.
LEMMA SlotStoresOf ==
  ASSUME NEW i \in Nat, NEW items \in Seq(Item)
  PROVE  /\ SlotStores(i, items) \in Seq(Store)
         /\ \A x \in 1 .. Len(SlotStores(i, items)) :
              \E k \in 0 .. Len(items) - 1, w \in Word :
                SlotStores(i, items)[x]
                  = [slot |-> Slot(i + k), word |-> w, val |-> items[k + 1]]
         /\ \A k \in 0 .. Len(items) - 1, w \in Word :
              \E x \in 1 .. Len(SlotStores(i, items)) :
                SlotStores(i, items)[x]
                  = [slot |-> Slot(i + k), word |-> w, val |-> items[k + 1]]
<1> DEFINE n == Len(items)
           M == n * WORDS
           Row(x) == (x - 1) \div WORDS
           Cell(x) == ((x - 1) % WORDS) + 1
           S == SlotStores(i, items)
<1>1. n \in Nat /\ WORDS \in Nat \ {0} /\ M \in Nat /\ M = WORDS * n
  BY DequeAssumption
<1>2. S = [x \in 1 .. M |->
             [slot |-> Slot(i + Row(x)), word |-> Cell(x), val |-> items[Row(x) + 1]]]
  BY DEF SlotStores
<1>3. ASSUME NEW x \in 1 .. M
      PROVE  Row(x) \in 0 .. n - 1 /\ Cell(x) \in Word
  <2>1. x - 1 \in 0 .. (WORDS * n) - 1
    BY <1>1
  <2>2. (x - 1) \div WORDS \in 0 .. n - 1 /\ (x - 1) % WORDS \in 0 .. WORDS - 1
    BY <1>1, <2>1, CellRange
  <2> QED
    BY <1>1, <2>2 DEF Word
<1>4. ASSUME NEW k \in 0 .. n - 1, NEW w \in Word
      PROVE  \E x \in 1 .. M : Row(x) = k /\ Cell(x) = w
  <2> DEFINE x == (WORDS * k) + (w - 1) + 1
  <2>1. k \in Nat /\ w - 1 \in 0 .. WORDS - 1
    BY <1>1 DEF Word
  <2>2. WORDS * k \in Nat /\ WORDS * (n - 1) \in Int /\ WORDS * k <= WORDS * (n - 1)
    BY <1>1, <2>1
  <2>3. WORDS * (n - 1) = M - WORDS
    BY <1>1
  <2>4. x \in 1 .. M /\ x - 1 = (WORDS * k) + (w - 1)
    BY <1>1, <2>1, <2>2, <2>3
  <2>5. ((WORDS * k) + (w - 1)) \div WORDS = k /\ ((WORDS * k) + (w - 1)) % WORDS = w - 1
    BY <1>1, <2>1, CellNumber
  <2>6. Row(x) = k /\ Cell(x) = w
    <3>1. Row(x) = k /\ (x - 1) % WORDS = w - 1
      BY <2>4, <2>5
    <3>2. w \in Int
      BY DEF Word
    <3> QED
      BY <3>1, <3>2
  <2> QED
    BY <2>4, <2>6
<1> HIDE DEF Row, Cell, M, S
<1>5. ASSUME NEW k \in 0 .. n - 1, NEW w \in Word
      PROVE  [slot |-> Slot(i + k), word |-> w, val |-> items[k + 1]] \in Store
  <2>0. \A y \in 0 .. n - 1 : y \in Nat /\ y + 1 \in 1 .. n
    BY <1>1
  <2>1. k \in Nat /\ i + k \in Nat /\ k + 1 \in 1 .. n
    BY <2>0
  <2>2. Slot(i + k) \in 0 .. N - 1
    BY <2>1, SlotRange
  <2>3. items[k + 1] \in Item
    BY <2>1
  <2> QED
    BY <2>2, <2>3 DEF Store
<1>6. S \in [1 .. M -> Store]
  BY <1>2, <1>3, <1>5
<1>7. S \in Seq(Store) /\ Len(S) = M
  BY <1>1, <1>6, FunctionIsSeq
<1>8. \A x \in 1 .. M : \E k \in 0 .. n - 1, w \in Word :
        S[x] = [slot |-> Slot(i + k), word |-> w, val |-> items[k + 1]]
  BY <1>2, <1>3
<1>9. \A k \in 0 .. n - 1, w \in Word : \E x \in 1 .. M :
        S[x] = [slot |-> Slot(i + k), word |-> w, val |-> items[k + 1]]
  BY <1>2, <1>4
<1> QED
  BY <1>7, <1>8, <1>9 DEF S

\* The store buffer after a push: what it held, stores of the new items, the new
\* bottom.
LEMMA PushedBuffer ==
  ASSUME IInv, PushStore
  PROVE  /\ sb' \in Seq(Store) /\ sb' # <<>> /\ Len(sb') \in Nat
         /\ sb'[Len(sb')] = BottomStore(bottom + Accepted)
         /\ \A m \in 1 .. Len(sb) : m \in 1 .. Len(sb') /\ sb'[m] = sb[m]
         /\ \A m \in 1 .. Len(sb') :
              \/ m \in 1 .. Len(sb)
              \/ \E k \in 0 .. Accepted - 1, w \in Word :
                   sb'[m] = [slot |-> Slot(bottom + k), word |-> w, val |-> pushed + k]
              \/ m = Len(sb')
         /\ \A k \in 0 .. Accepted - 1, w \in Word :
              \E m \in 1 .. Len(sb') :
                sb'[m] = [slot |-> Slot(bottom + k), word |-> w, val |-> pushed + k]
<1> DEFINE n == Accepted
           items == SubSeq(arg, 1, n)
           S == SlotStores(bottom, items)
           B == BottomStore(bottom + n)
<1>1. /\ n \in Nat /\ n <= Len(arg) /\ arg \in Seq(Item) /\ Len(arg) \in Nat
      /\ \A k \in 1 .. Len(arg) : arg[k] = pushed + k - 1
      /\ bottom \in Nat /\ pushed \in Nat
  BY AcceptedFits, IndexTypes
<1>2. sb' = (sb \o S) \o <<B>>
  BY DEF PushStore
<1>3. /\ items \in Seq(Item) /\ Len(items) = n
      /\ \A k \in 0 .. n - 1 : items[k + 1] = pushed + k
  <2> HIDE DEF n
  <2>1. items \in Seq(Item) /\ Len(items) = n /\ \A k \in 1 .. n : items[k] = arg[k]
    BY <1>1
  <2>2. \A k \in 0 .. n - 1 : k + 1 \in 1 .. n /\ k + 1 \in 1 .. Len(arg)
    BY <1>1
  <2>3. \A k \in 0 .. n - 1 : arg[k + 1] = pushed + (k + 1) - 1
    BY <1>1, <2>2
  <2>4. \A k \in 0 .. n - 1 : pushed + (k + 1) - 1 = pushed + k
    BY <1>1
  <2> QED
    BY <2>1, <2>2, <2>3, <2>4
<1> HIDE DEF items, n
<1>4. /\ S \in Seq(Store)
      /\ \A x \in 1 .. Len(S) : \E k \in 0 .. n - 1, w \in Word :
           S[x] = [slot |-> Slot(bottom + k), word |-> w, val |-> pushed + k]
      /\ \A k \in 0 .. n - 1, w \in Word : \E x \in 1 .. Len(S) :
           S[x] = [slot |-> Slot(bottom + k), word |-> w, val |-> pushed + k]
  <2>1. /\ S \in Seq(Store)
        /\ \A x \in 1 .. Len(S) : \E k \in 0 .. Len(items) - 1, w \in Word :
             S[x] = [slot |-> Slot(bottom + k), word |-> w, val |-> items[k + 1]]
        /\ \A k \in 0 .. Len(items) - 1, w \in Word : \E x \in 1 .. Len(S) :
             S[x] = [slot |-> Slot(bottom + k), word |-> w, val |-> items[k + 1]]
    BY <1>1, <1>3, SlotStoresOf
  <2> HIDE DEF S
  <2>2. ASSUME NEW x \in 1 .. Len(S)
        PROVE  \E k \in 0 .. n - 1, w \in Word :
                 S[x] = [slot |-> Slot(bottom + k), word |-> w, val |-> pushed + k]
    <3>1. PICK k \in 0 .. Len(items) - 1, w \in Word :
             S[x] = [slot |-> Slot(bottom + k), word |-> w, val |-> items[k + 1]]
      BY <2>1, Zenon
    <3>2. k \in 0 .. n - 1 /\ items[k + 1] = pushed + k
      BY <1>3
    <3> QED
      BY <3>1, <3>2, Zenon
  <2>3. ASSUME NEW k \in 0 .. n - 1, NEW w \in Word
        PROVE  \E x \in 1 .. Len(S) :
                 S[x] = [slot |-> Slot(bottom + k), word |-> w, val |-> pushed + k]
    <3>1. k \in 0 .. Len(items) - 1 /\ items[k + 1] = pushed + k
      BY <1>3
    <3>2. PICK x \in 1 .. Len(S) :
             S[x] = [slot |-> Slot(bottom + k), word |-> w, val |-> items[k + 1]]
      BY <2>1, <3>1, Zenon
    <3> QED
      BY <3>1, <3>2, Zenon
  <2> QED
    BY <2>1, <2>2, <2>3, Zenon
<1> HIDE DEF S
<1>5. B \in Store /\ sb \in Seq(Store) /\ Len(sb) \in Nat /\ Len(S) \in Nat
  BY <1>1, <1>4, IndexTypes DEF BottomStore, Store
<1> HIDE DEF B
<1>6. /\ sb' \in Seq(Store) /\ Len(sb') = Len(sb) + Len(S) + 1
      /\ \A m \in 1 .. Len(sb) : sb'[m] = sb[m]
      /\ \A x \in 1 .. Len(S) : sb'[Len(sb) + x] = S[x]
      /\ sb'[Len(sb')] = B
  <2> DEFINE q == sb \o S
  <2>1. /\ q \in Seq(Store) /\ Len(q) = Len(sb) + Len(S)
        /\ \A m \in 1 .. Len(sb) : q[m] = sb[m]
        /\ \A x \in 1 .. Len(S) : q[Len(sb) + x] = S[x]
    BY <1>4, <1>5
  <2> HIDE DEF q
  <2>2. /\ sb' \in Seq(Store) /\ Len(sb') = Len(q) + 1
        /\ \A m \in 1 .. Len(q) : sb'[m] = q[m]
        /\ sb'[Len(q) + 1] = B
    <3>1. sb' = q \o <<B>>
      BY <1>2 DEF q
    <3>2. sb' = Append(q, B)
      BY <1>5, <2>1, <3>1, AppendIsConcat
    <3> QED
      BY <1>5, <2>1, <3>2, AppendProperties
  <2>3. /\ \A m \in 1 .. Len(sb) : m \in 1 .. Len(q)
        /\ \A x \in 1 .. Len(S) : Len(sb) + x \in 1 .. Len(q)
    BY <1>5, <2>1
  <2> QED
    BY <1>5, <2>1, <2>2, <2>3
<1>7. sb' # <<>> /\ Len(sb') \in Nat
  BY <1>5, <1>6
<1>8. \A m \in 1 .. Len(sb) : m \in 1 .. Len(sb')
  BY <1>5, <1>6
<1>9. ASSUME NEW m \in 1 .. Len(sb')
      PROVE  \/ m \in 1 .. Len(sb)
             \/ \E k \in 0 .. n - 1, w \in Word :
                  sb'[m] = [slot |-> Slot(bottom + k), word |-> w, val |-> pushed + k]
             \/ m = Len(sb')
  <2>1. m \in 1 .. Len(sb) \/ m - Len(sb) \in 1 .. Len(S) \/ m = Len(sb')
    <3>1. \A a, b \in Nat : \A i \in 1 .. a + b + 1 :
            i \in 1 .. a \/ i - a \in 1 .. b \/ i = a + b + 1
      OBVIOUS
    <3>2. Len(sb') = Len(sb) + Len(S) + 1 /\ m \in 1 .. Len(sb) + Len(S) + 1
      BY <1>6
    <3> QED
      BY <1>5, <3>1, <3>2
  <2>2. CASE m - Len(sb) \in 1 .. Len(S)
    <3>1. sb'[Len(sb) + (m - Len(sb))] = S[m - Len(sb)] /\ Len(sb) + (m - Len(sb)) = m
      BY <1>5, <1>6, <2>2
    <3>2. PICK x \in 1 .. Len(S) : x = m - Len(sb)
      BY <2>2
    <3>3. sb'[m] = S[x]
      BY <3>1, <3>2
    <3>4. PICK k \in 0 .. n - 1, w \in Word :
             S[x] = [slot |-> Slot(bottom + k), word |-> w, val |-> pushed + k]
      BY <1>4, Zenon
    <3> QED
      BY <3>3, <3>4, Zenon
  <2> QED
    BY <2>1, <2>2
<1>10. ASSUME NEW k \in 0 .. n - 1, NEW w \in Word
       PROVE  \E m \in 1 .. Len(sb') :
                sb'[m] = [slot |-> Slot(bottom + k), word |-> w, val |-> pushed + k]
  <2>1. PICK x \in 1 .. Len(S) :
           S[x] = [slot |-> Slot(bottom + k), word |-> w, val |-> pushed + k]
    BY <1>4
  <2>2. Len(sb) + x \in 1 .. Len(sb') /\ sb'[Len(sb) + x] = S[x]
    BY <1>5, <1>6
  <2> QED
    BY <2>1, <2>2
<1> QED
  BY <1>6, <1>7, <1>8, <1>9, <1>10 DEF B, n

\* The deque after a push: the old indices and those of the new items, in
\* different slots.
LEMMA PushedIndices ==
  ASSUME IInv, PushStore
  PROVE  /\ InDeque' = top .. bottom + Accepted - 1
         /\ \A j \in InDeque : j \in InDeque' /\ j < bottom
         /\ \A k \in 0 .. Accepted - 1 : bottom + k \in InDeque'
         /\ \A j \in InDeque' :
              j \in InDeque \/ \E k \in 0 .. Accepted - 1 : j = bottom + k
         /\ InDeque' \subseteq Nat
         /\ \A i, j \in InDeque' : Slot(i) = Slot(j) => i = j
<1>1. /\ top' = top /\ LogicalBottom = bottom /\ LogicalBottom' = bottom + Accepted
      /\ Accepted \in Nat /\ bottom + Accepted <= topCache + N
      /\ topCache \in Nat /\ top \in Nat /\ bottom \in Nat /\ top <= bottom
      /\ topCache <= top
  BY AcceptedFits, IndexTypes DEF PushStore, IInv, IndicesSafe
<1>2. InDeque = top .. bottom - 1 /\ InDeque' = top .. bottom + Accepted - 1
  BY <1>1 DEF InDeque
<1>3. \A j \in InDeque' :
        j \in InDeque \/ \E k \in 0 .. Accepted - 1 : j = bottom + k
  <2> SUFFICES ASSUME NEW j \in InDeque', j \notin InDeque
               PROVE  \E k \in 0 .. Accepted - 1 : j = bottom + k
    OBVIOUS
  <2>1. j - bottom \in 0 .. Accepted - 1 /\ j = bottom + (j - bottom)
    BY <1>1, <1>2
  <2> QED
    BY <2>1
<1>4. \A j \in InDeque' : j \in topCache .. topCache + N - 1
  BY <1>1, <1>2, DequeAssumption
<1>5. \A i, j \in InDeque' : Slot(i) = Slot(j) => i = j
  BY <1>1, <1>4, SlotsOfLap
<1> QED
  BY <1>1, <1>2, <1>3, <1>5

\* The items that were there keep their place; the new ones follow.
LEMMA PushedItems ==
  ASSUME IInv, PushStore
  PROVE  /\ \A j \in InDeque : ItemAt(j)' = ItemAt(j)
         /\ \A k \in 0 .. Accepted - 1 : \A j \in {bottom + k} : ItemAt(j)' = pushed + k
<1>0. buf' = buf
  BY DEF PushStore
<1>1. sb' \in Seq(Store) /\ Len(sb') \in Nat /\ bottom \in Nat /\ Accepted \in Nat
  BY PushedBuffer, IndexTypes, AcceptedFits
<1>2. ASSUME NEW j \in InDeque', NEW m \in 1 .. Len(sb'), sb'[m].slot = Slot(j)
      PROVE  \/ m \in 1 .. Len(sb) /\ sb'[m] = sb[m]
             \/ \E k \in 0 .. Accepted - 1 : j = bottom + k /\ sb'[m].val = pushed + k
  <2>1. CASE m \in 1 .. Len(sb)
    BY <2>1, PushedBuffer
  <2>2. CASE \E k \in 0 .. Accepted - 1, w \in Word :
               sb'[m] = [slot |-> Slot(bottom + k), word |-> w, val |-> pushed + k]
    <3>1. PICK k \in 0 .. Accepted - 1, w \in Word :
             sb'[m] = [slot |-> Slot(bottom + k), word |-> w, val |-> pushed + k]
      BY <2>2
    <3>2. Slot(bottom + k) = Slot(j) /\ sb'[m].val = pushed + k
      BY <1>2, <3>1
    <3>3. bottom + k \in InDeque'
      BY PushedIndices
    <3>4. bottom + k = j
      BY <3>2, <3>3, PushedIndices
    <3> QED
      BY <3>2, <3>4
  <2>3. CASE m = Len(sb')
    <3>1. sb'[m].slot = None
      BY <2>3, PushedBuffer DEF BottomStore
    <3>2. j \in Nat
      BY PushedIndices
    <3> QED
      BY <1>2, <3>1, <3>2, SlotRange
  <2> QED
    BY <2>1, <2>2, <2>3, PushedBuffer
<1>3. ASSUME NEW j \in InDeque
      PROVE  ItemAt(j)' = ItemAt(j)
  <2> DEFINE v == ItemAt(j)
  <2>0. j \in InDeque' /\ j < bottom /\ j \in Nat
    BY PushedIndices, IndexTypes
  <2>1. \A m \in 1 .. Len(sb') : sb'[m].slot = Slot(j) => m \in 1 .. Len(sb) /\ sb'[m] = sb[m]
    BY <1>1, <1>2, <2>0
  <2>2. \A m \in 1 .. Len(sb') : sb'[m].slot = Slot(j) => sb'[m].val = v
    BY <2>1, BufferedItem
  <2>3. ASSUME \A m \in 1 .. Len(sb') : sb'[m].slot # Slot(j)
        PROVE  buf'[Slot(j)][1] = v
    <3>1. \A m \in 1 .. Len(sb) : sb[m].slot # Slot(j)
      BY <2>3, PushedBuffer
    <3>2. 1 \in Word
      BY DequeAssumption DEF Word
    <3> QED
      BY <1>0, <3>1, <3>2, ItemInMemory
  <2> HIDE DEF v
  <2>4. ItemAt(j)' = v
    BY <1>1, <2>2, <2>3, ItemKept
  <2> QED
    BY <2>4 DEF v
<1>4. ASSUME NEW k \in 0 .. Accepted - 1, NEW j \in {bottom + k}
      PROVE  ItemAt(j)' = pushed + k
  <2>1. j \in InDeque' /\ j \in Nat /\ ~(j < bottom)
    BY <1>1, PushedIndices
  <2>2. ASSUME NEW m \in 1 .. Len(sb'), sb'[m].slot = Slot(j)
        PROVE  sb'[m].val = pushed + k
    <3>1. CASE m \in 1 .. Len(sb) /\ sb'[m] = sb[m]
      <4>1. sb[m].slot = Slot(j) /\ ~IsBottom(m)
        BY <2>1, <2>2, <3>1, SlotRange DEF IsBottom
      <4>2. PICK i \in InDeque : sb[m].slot = Slot(i)
        BY <3>1, <4>1 DEF IInv, Buffered
      <4>3. i = j /\ i < bottom
        BY <2>1, <4>1, <4>2, PushedIndices
      <4> QED
        BY <2>1, <4>3
    <3>2. CASE \E i \in 0 .. Accepted - 1 : j = bottom + i /\ sb'[m].val = pushed + i
      <4>1. PICK i \in 0 .. Accepted - 1 : j = bottom + i /\ sb'[m].val = pushed + i
        BY <3>2
      <4>2. i = k
        BY <1>1, <4>1
      <4> QED
        BY <4>1, <4>2
    <3> QED
      BY <1>2, <2>1, <2>2, <3>1, <3>2
  <2>3. \E m \in 1 .. Len(sb') : sb'[m].slot = Slot(j)
    <3>1. 1 \in Word
      BY DequeAssumption DEF Word
    <3>2. PICK m \in 1 .. Len(sb') :
             sb'[m] = [slot |-> Slot(bottom + k), word |-> 1, val |-> pushed + k]
      BY <3>1, PushedBuffer
    <3> QED
      BY <3>2
  <2> QED
    BY <1>1, <2>2, <2>3, ItemKept
<1> QED
  BY <1>3, <1>4

\* A push stores as many items as the cached top leaves room for.
LEMMA PushStoreInv ==
  ASSUME IInv, PushStore
  PROVE  IInv' /\ UNCHANGED <<top, handed>>
<1> DEFINE n == Accepted
           rest == SubSeq(arg, n + 1, Len(arg))
<1>1. /\ bottom' = bottom + n /\ pushed' = pushed + n
      /\ \/ pc' = "idle" /\ arg' = <<>>
         \/ pc' = "loadSpin" /\ arg' = rest /\ rest # <<>>
      /\ UNCHANGED <<topCache, thiefVars, top, pubBottom, buf, handed>>
  BY DEF PushStore
<1>2. /\ n \in Nat /\ n >= 1 /\ n <= Len(arg) /\ bottom + n <= topCache + N
      /\ topCache <= bottom /\ LogicalBottom = bottom /\ LogicalBottom' = bottom + n
      /\ Len(arg) \in Nat /\ arg \in Seq(Item)
      /\ \A k \in 1 .. Len(arg) : arg[k] = pushed + k - 1
      /\ bottom \in Nat /\ pushed \in Nat /\ top \in Nat /\ topCache \in Nat
      /\ top <= bottom /\ topCache <= top
  BY AcceptedFits, IndexTypes DEF IInv, IndicesSafe
<1> HIDE DEF n
<1>3. /\ rest \in Seq(Item) /\ Len(rest) = Len(arg) - n
      /\ \A k \in 1 .. Len(rest) : rest[k] = pushed + n + k - 1
  <2>1. /\ rest \in Seq(Item) /\ Len(rest) = Len(arg) - n
        /\ \A k \in 1 .. Len(rest) : k + n \in 1 .. Len(arg) /\ rest[k] = arg[k + n]
    BY <1>2
  <2> HIDE DEF rest
  <2>2. ASSUME NEW k \in 1 .. Len(rest)
        PROVE  rest[k] = pushed + n + k - 1
    <3>1. rest[k] = pushed + (k + n) - 1
      BY <1>2, <2>1
    <3> QED
      BY <1>2, <2>1, <3>1
  <2> QED
    BY <2>1, <2>2
<1> HIDE DEF rest
<1>4. arg' \in Seq(Item) /\ \A k \in 1 .. Len(arg') : arg'[k] = pushed' + k - 1
  <2>1. <<>> \in Seq(Item) /\ Len(<<>>) = 0
    OBVIOUS
  <2>2. CASE arg' = <<>>
    BY <2>1, <2>2
  <2>3. CASE arg' = rest
    <3>1. pushed' = pushed + n
      BY <1>1
    <3> QED
      BY <1>3, <2>3, <3>1
  <2> QED
    BY <1>1, <2>2, <2>3
<1>5. sb' \in Seq(Store) /\ sb' # <<>> /\ Len(sb') \in Nat
      /\ sb'[Len(sb')] = BottomStore(bottom + n)
  BY PushedBuffer DEF n
<1>6. TypeOK'
  <2>1. TypeOK
    BY DEF IInv, IndicesSafe
  <2>2. {bottom', topCache', top', pubBottom', pushed'} \subseteq Nat
    BY <1>1, <1>2, IndexTypes
  <2>3. pc' \in {"idle", "loadSpin"} /\ UNCHANGED <<tPc, tTop, tVal, buf, handed>>
    BY <1>1 DEF thiefVars
  <2> QED
    BY <1>4, <1>5, <2>1, <2>2, <2>3 DEF TypeOK
<1>7. LogicalBottom' - topCache <= CAPACITY /\ top <= LogicalBottom'
      /\ topCache <= bottom'
  BY <1>1, <1>2, DequeAssumption DEF CAPACITY
<1>8. IndicesSafe'
  BY <1>1, <1>2, <1>6, <1>7 DEF IndicesSafe
<1>9. Decided'
  BY <1>1, <1>4, <1>7 DEF Decided
<1>10. Buffered'
  <2>1. pubBottom' <= LogicalBottom'
    <3>1. pubBottom <= bottom
      BY <1>2 DEF IInv, Buffered
    <3> QED
      BY <1>1, <1>2, <3>1, IndexTypes
  <2>2. ASSUME NEW m \in 1 .. Len(sb), IsBottom(m)
        PROVE  sb[m].val \in Nat /\ sb[m].val <= bottom
    <3>1. sb[m] \in Store /\ sb[m].slot = None
      BY <2>2, IndexTypes DEF IsBottom
    <3> QED
      BY <1>2, <2>2, <3>1, DequeAssumption DEF Store, IInv, Buffered
  <2>3. \A m \in 1 .. Len(sb') : IsBottom(m)' => m \in 1 .. Len(sb) \/ m = Len(sb')
    <3> SUFFICES ASSUME NEW m \in 1 .. Len(sb'), IsBottom(m)',
                        NEW k \in 0 .. n - 1, NEW w \in Word,
                        sb'[m] = [slot |-> Slot(bottom + k), word |-> w, val |-> pushed + k]
                 PROVE  FALSE
      BY PushedBuffer DEF n
    <3>1. Slot(bottom + k) # None
      BY <1>2, SlotRange
    <3> QED
      BY <3>1 DEF IsBottom
  <2>4. \A m \in 1 .. Len(sb) : m \in 1 .. Len(sb') /\ sb'[m] = sb[m]
                                /\ IsBottom(m)' = IsBottom(m)
    BY PushedBuffer DEF IsBottom
  <2>5. \A m \in 1 .. Len(sb') : IsBottom(m)' => sb'[m].val <= bottom + n
    <3> SUFFICES ASSUME NEW m \in 1 .. Len(sb'), IsBottom(m)'
                 PROVE  sb'[m].val <= bottom + n
      OBVIOUS
    <3>1. CASE m \in 1 .. Len(sb)
      <4>1. sb'[m].val \in Nat /\ sb'[m].val <= bottom
        BY <2>2, <2>4, <3>1
      <4> QED
        BY <1>2, <4>1
    <3>2. CASE m = Len(sb')
      BY <1>2, <1>5, <3>2 DEF BottomStore
    <3> QED
      BY <2>3, <3>1, <3>2
  <2>6. ASSUME NEW m \in 1 .. Len(sb'), ~IsBottom(m)'
        PROVE  \E j \in InDeque' :
                 /\ sb'[m].slot = Slot(j) /\ sb'[m].val = ItemAt(j)'
                 /\ pubBottom <= j
                 /\ \A l \in 1 .. m - 1 : IsBottom(l)' => sb'[l].val <= j
    <3>1. CASE m \in 1 .. Len(sb)
      <4>1. PICK j \in InDeque :
               /\ sb[m].slot = Slot(j) /\ sb[m].val = ItemAt(j)
               /\ pubBottom <= j
               /\ \A l \in 1 .. m - 1 : IsBottom(l) => sb[l].val <= j
        BY <2>4, <2>6, <3>1 DEF IInv, Buffered
      <4>2. j \in InDeque' /\ ItemAt(j)' = ItemAt(j)
        BY PushedIndices, PushedItems
      <4>3. \A l \in 1 .. m - 1 : l \in 1 .. Len(sb)
        BY <3>1, IndexTypes
      <4> QED
        BY <2>4, <3>1, <4>1, <4>2, <4>3
    <3>2. CASE m \notin 1 .. Len(sb)
      <4>2. m # Len(sb')
        BY <1>5, <2>6 DEF IsBottom, BottomStore
      <4>3. PICK k \in 0 .. n - 1, w \in Word :
               sb'[m] = [slot |-> Slot(bottom + k), word |-> w, val |-> pushed + k]
        BY <3>2, <4>2, PushedBuffer DEF n
      <4>4. bottom + k \in InDeque' /\ bottom + k \in Nat
        BY <1>2, PushedIndices DEF n
      <4> DEFINE j == bottom + k
      <4>5. \A i \in {j} : ItemAt(i)' = pushed + k
        BY PushedItems DEF n
      <4>6. pubBottom <= j
        <5>1. pubBottom <= bottom
          BY <1>2 DEF IInv, Buffered
        <5> QED
          BY <1>2, <5>1, IndexTypes
      <4>a. bottom \in Nat /\ j \in Nat /\ bottom <= j
        BY <1>2
      <4>7. ASSUME NEW l \in 1 .. m - 1, IsBottom(l)'
            PROVE  sb'[l].val <= j
        <5>1. l \in 1 .. Len(sb') /\ l # Len(sb')
          <6>1. \A a \in Nat : \A i \in 1 .. a : \A y \in 1 .. i - 1 :
                  y \in 1 .. a /\ y # a
            OBVIOUS
          <6> QED
            BY <1>5, <6>1
        <5>2. l \in 1 .. Len(sb)
          BY <2>3, <4>7, <5>1
        <5>3. sb'[l] = sb[l] /\ IsBottom(l)
          BY <2>4, <4>7, <5>2, Zenon
        <5>4. sb'[l].val \in Nat /\ sb'[l].val <= bottom
          BY <2>2, <5>2, <5>3
        <5> HIDE DEF j
        <5> QED
          BY <4>a, <5>4
      <4>8. sb'[m].slot = Slot(j) /\ sb'[m].val = pushed + k
        BY <4>3
      <4> HIDE DEF j
      <4>9. \E i \in InDeque' : i = j
        BY <4>4 DEF j
      <4> QED
        BY <4>5, <4>6, <4>7, <4>8, <4>9
    <3> QED
      BY <3>1, <3>2
  <2> QED
    BY <1>1, <1>2, <1>5, <2>1, <2>5, <2>6 DEF Buffered
<1>11. SlotsRight'
  <2>1. ASSUME NEW j \in InDeque
        PROVE  /\ j < bottom
               /\ ItemAt(j)' \in Item /\ ItemAt(j)' < pushed /\ handed[ItemAt(j)'] = 0
               /\ \A w \in Word :
                    \/ buf[Slot(j)][w] = ItemAt(j)'
                    \/ \E m \in 1 .. Len(sb') : sb'[m].slot = Slot(j) /\ sb'[m].word = w
    <3>1. ItemAt(j)' = ItemAt(j) /\ j < bottom
      BY PushedItems, PushedIndices
    <3>2. \A m \in 1 .. Len(sb) : m \in 1 .. Len(sb') /\ sb'[m] = sb[m]
      BY PushedBuffer
    <3> QED
      BY <3>1, <3>2 DEF IInv, SlotsRight
  <2>2. ASSUME NEW k \in 0 .. n - 1, NEW j \in {bottom + k}
        PROVE  /\ ~(j < bottom)
               /\ ItemAt(j)' = pushed + k
               /\ pushed + k \in Item /\ pushed + k < pushed + n /\ ~(pushed + k < pushed)
               /\ handed[pushed + k] = 0
               /\ \A w \in Word :
                    \E m \in 1 .. Len(sb') : sb'[m].slot = Slot(j) /\ sb'[m].word = w
    <3>1. ItemAt(j)' = pushed + k
      BY PushedItems DEF n
    <3>2. pushed + k \in Item
      <4>1. k + 1 \in 1 .. Len(arg) /\ arg[k + 1] \in Item
        BY <1>2
      <4>2. arg[k + 1] = pushed + (k + 1) - 1
        BY <1>2, <4>1
      <4>3. pushed + (k + 1) - 1 = pushed + k
        BY <1>2
      <4> QED
        BY <4>1, <4>2, <4>3
    <3>3. handed[pushed + k] = 0
      <4>1. pushed + k >= pushed
        BY <1>2
      <4> QED
        BY <3>2, <4>1 DEF IInv, SlotsRight
    <3>4. ASSUME NEW w \in Word
          PROVE  \E m \in 1 .. Len(sb') : sb'[m].slot = Slot(j) /\ sb'[m].word = w
      <4>1. PICK m \in 1 .. Len(sb') :
               sb'[m] = [slot |-> Slot(bottom + k), word |-> w, val |-> pushed + k]
        BY PushedBuffer DEF n
      <4> QED
        BY <4>1
    <3> QED
      BY <1>2, <3>1, <3>2, <3>3, <3>4
  <2>3. \A j \in InDeque' : j \in InDeque \/ \E k \in 0 .. n - 1 : j \in {bottom + k}
    BY PushedIndices DEF n
  <2>4. ASSUME NEW j \in InDeque'
        PROVE  /\ ItemAt(j)' \in Item /\ ItemAt(j)' < pushed' /\ handed'[ItemAt(j)'] = 0
               /\ \A w \in Word :
                    \/ buf'[Slot(j)][w] = ItemAt(j)'
                    \/ \E m \in 1 .. Len(sb') : sb'[m].slot = Slot(j) /\ sb'[m].word = w
    <3>1. CASE j \in InDeque
      <4>1. ItemAt(j)' \in Nat
        BY <2>1, <3>1 DEF Item
      <4> QED
        BY <1>1, <1>2, <2>1, <3>1, <4>1
    <3>2. CASE \E k \in 0 .. n - 1 : j \in {bottom + k}
      BY <1>1, <2>2, <3>2
    <3> QED
      BY <2>3, <3>1, <3>2
  <2>5. ASSUME NEW i \in InDeque', NEW j \in InDeque', i < j
        PROVE  ItemAt(i)' < ItemAt(j)'
    <3>0. i \in Nat /\ j \in Nat
      BY PushedIndices
    <3>1. CASE i \in InDeque /\ j \in InDeque
      <4>1. ItemAt(i)' = ItemAt(i) /\ ItemAt(j)' = ItemAt(j)
        BY <3>1, PushedItems
      <4> QED
        BY <2>5, <3>1, <4>1 DEF IInv, SlotsRight
    <3>2. ASSUME i \in InDeque, NEW k \in 0 .. n - 1, j \in {bottom + k}
          PROVE  ItemAt(i)' < ItemAt(j)'
      <4>1. ItemAt(i)' \in Nat /\ ItemAt(i)' < pushed /\ ItemAt(j)' = pushed + k
        BY <2>1, <2>2, <3>2 DEF Item
      <4> QED
        BY <1>2, <4>1
    <3>3. ASSUME NEW k \in 0 .. n - 1, i \in {bottom + k}, j \in InDeque
          PROVE  FALSE
      BY <1>2, <2>1, <2>2, <2>5, <3>0, <3>3
    <3>4. ASSUME NEW k \in 0 .. n - 1, i \in {bottom + k},
                 NEW l \in 0 .. n - 1, j \in {bottom + l}
          PROVE  ItemAt(i)' < ItemAt(j)'
      <4>1. ItemAt(i)' = pushed + k /\ ItemAt(j)' = pushed + l
        BY <2>2, <3>4
      <4>2. k < l
        BY <1>2, <2>5, <3>4
      <4> QED
        BY <1>2, <4>1, <4>2
    <3> QED
      BY <2>3, <3>1, <3>2, <3>3, <3>4
  <2>6. ASSUME NEW i \in Item, i >= pushed'
        PROVE  handed'[i] = 0
    <3>1. i >= pushed
      BY <1>1, <1>2, <2>6 DEF Item
    <3> QED
      BY <1>1, <3>1 DEF IInv, SlotsRight
  <2> QED
    BY <2>4, <2>5, <2>6 DEF SlotsRight
<1>12. ThievesRight'
  <2>1. ASSUME top < LogicalBottom
        PROVE  /\ top \in InDeque /\ ItemAt(top)' = ItemAt(top)
               /\ top < LogicalBottom'
    <3>1. top \in InDeque
      BY <2>1, IndexTypes DEF InDeque
    <3>2. \A j \in {top} : ItemAt(j)' = ItemAt(j)
      BY <3>1, PushedItems
    <3> QED
      BY <1>1, <1>2, <2>1, <3>1, <3>2
  <2>2. ASSUME top < LogicalBottom, \A m \in 1 .. Len(sb) : sb[m].slot # Slot(top),
               NEW m \in 1 .. Len(sb'), sb'[m].slot = Slot(top)
        PROVE  FALSE
    <3>1. top \in InDeque /\ top \in InDeque' /\ top < bottom
      BY <2>1, <2>2, PushedIndices
    <3>2. m \notin 1 .. Len(sb)
      BY <2>2, PushedBuffer
    <3>3. m # Len(sb')
      <4>1. sb'[Len(sb')].slot = None
        BY <1>5 DEF BottomStore
      <4>2. Slot(top) # None
        BY <1>2, SlotRange
      <4> QED
        BY <2>2, <4>1, <4>2
    <3>4. PICK k \in 0 .. n - 1, w \in Word :
             sb'[m] = [slot |-> Slot(bottom + k), word |-> w, val |-> pushed + k]
      BY <3>2, <3>3, PushedBuffer DEF n
    <3>5. bottom + k = top
      <4>1. bottom + k \in InDeque' /\ Slot(bottom + k) = Slot(top)
        BY <2>2, <3>4, PushedIndices DEF n
      <4> QED
        BY <3>1, <4>1, PushedIndices
    <3> QED
      BY <1>2, <3>1, <3>5
  <2>3. ASSUME NEW t \in Thief
        PROVE  /\ tTop[t] <= top
               /\ tPc[t] \in {"idle", "bottom"} => \A w \in Word : tVal[t][w] = None
               /\ tPc[t] \in {"copy", "cas"} /\ tTop[t] = top =>
                    /\ top < LogicalBottom'
                    /\ \A m \in 1 .. Len(sb') : sb'[m].slot # Slot(top)
                    /\ \A w \in Word : \/ tVal[t][w] = ItemAt(top)'
                                       \/ tPc[t] = "copy" /\ tVal[t][w] = None
    BY <2>1, <2>2 DEF IInv, ThievesRight
  <2> QED
    BY <1>1, <2>3 DEF ThievesRight, thiefVars
<1> QED
  BY <1>1, <1>8, <1>9, <1>10, <1>11, <1>12 DEF IInv

-----------------------------------------------------------------------------
(* The invariant *)

\* Four kinds of step take an item in or out; every other one goes unseen.
LEMMA StepKinds ==
  ASSUME IInv, [Next]_vars
  PROVE  /\ IInv'
         /\ \/ Unseen
            \/ PushStore
            \/ PopTake
            \/ PopCas /\ top = bottom
            \/ \E t \in Thief : StealCas(t) /\ top = tTop[t]
<1>1. CASE UNCHANGED vars
  <2>1. UNCHANGED <<bottom, sb, pushed, thiefVars, top, pubBottom, buf, handed,
                    topCache, pc, arg>>
    BY <1>1 DEF vars, ownerVars
  <2>2. LogicalBottom' = LogicalBottom
    BY <2>1 DEF LogicalBottom
  <2>3. Buffered' /\ SlotsRight' /\ ThievesRight' /\ Unseen
    BY <2>1, <2>2, QuietKeeps
  <2>4. IndicesSafe'
    BY <2>1, <2>2 DEF IInv, IndicesSafe, TypeOK, thiefVars
  <2>5. Decided'
    BY <2>1, <2>2 DEF IInv, Decided, Used
  <2> QED
    BY <2>3, <2>4, <2>5 DEF IInv
<1>2. ASSUME NEW n \in 1 .. MaxBulk, NEW l \in {"loadTry", "loadSpin"},
             CallPush(n, l)
      PROVE  IInv' /\ Unseen
  BY <1>2, CallPushInv
<1>3. CASE CallPop
  BY <1>3, PassInv, RetractInv
<1>4. CASE PushLoadTop
  BY <1>4, RefreshInv
<1>5. CASE PushStore
  BY <1>5, PushStoreInv
<1>6. CASE PopLoadTop
  BY <1>6, RefreshInv, RetractInv
<1>7. CASE Fence \/ PopLast
  BY <1>7, PassInv
<1>8. CASE PopLost
  BY <1>8, SettleInv
<1>9. CASE PopTake
  BY <1>9, PopTakeInv
<1>10. CASE PopCas
  BY <1>10, SettleInv, PopCasWonInv
<1>11. CASE Drain
  BY <1>11, DrainInv
<1>12. ASSUME NEW t \in Thief, StealLoadTop(t) \/ ThiefStep(t)
       PROVE  IInv' /\ (Unseen \/ (StealCas(t) /\ top = tTop[t]))
  <2>1. CASE StealLoadTop(t)
    BY <2>1, StealLoadTopInv
  <2>2. CASE StealLoadBottom(t)
    BY <2>2, StealLoadBottomInv
  <2>3. CASE StealCopy(t)
    BY <2>3, StealCopyInv
  <2>4. CASE StealCas(t)
    BY <2>4, StealCasLostInv, StealCasWonInv
  <2> QED
    BY <1>12, <2>1, <2>2, <2>3, <2>4 DEF ThiefStep
<1> QED
  BY <1>1, <1>2, <1>3, <1>4, <1>5, <1>6, <1>7, <1>8, <1>9, <1>10, <1>11, <1>12
     DEF Next, OwnerStep

\* In every reachable state the deque satisfies its inductive invariant.
THEOREM Invariance == Spec => []IInv
<1>1. Init => IInv
  BY InitInv
<1>2. IInv /\ [Next]_vars => IInv'
  BY StepKinds
<1> QED
  BY <1>1, <1>2, PTL DEF Spec

\* The owner's size_t subtractions never wrap and the deque never holds more than
\* CAPACITY items, however pushes, pops and steals interleave.
THEOREM IndicesSafety == Spec => []IndicesSafe
<1>1. IInv => IndicesSafe
  BY DEF IInv
<1> QED
  BY <1>1, Invariance, PTL

-----------------------------------------------------------------------------
(* The contents *)

\* The contents list the items in the order of their indices.
Listed == /\ Contents \in Seq(Item) /\ Len(Contents) = LogicalBottom - top
          /\ Len(Contents) \in Nat
          /\ \A k \in 1 .. Len(Contents) :
               top + k - 1 \in InDeque /\ Contents[k] = ItemAt(top + k - 1)

\* They do in every state that satisfies the invariant.
LEMMA ContentsAre == IInv => Listed
<1> SUFFICES ASSUME IInv PROVE Listed
  OBVIOUS
<1> DEFINE n == LogicalBottom - top
<1>1. n \in Nat /\ top \in Nat
  BY IndexTypes
<1>2. Contents = [k \in 1 .. n |-> ItemAt(top + k - 1)]
  BY DEF Contents, ItemAt
<1>3. \A k \in 1 .. n : top + k - 1 \in InDeque
  BY IndexTypes DEF InDeque
<1>4. \A k \in 1 .. n : ItemAt(top + k - 1) \in Item
  BY <1>3 DEF IInv, SlotsRight
<1> HIDE DEF n
<1>5. Contents \in [1 .. n -> Item]
  BY <1>2, <1>4
<1>6. Contents \in Seq(Item) /\ Len(Contents) = n
  BY <1>1, <1>5, FunctionIsSeq
<1> QED
  BY <1>1, <1>2, <1>3, <1>6 DEF n, Listed

\* The deque is empty if, and only if, top has reached bottom.
LEMMA EmptyContents ==
  ASSUME IInv
  PROVE  Contents = <<>> <=> top = LogicalBottom
<1>1. Contents \in Seq(Item) /\ Len(Contents) = LogicalBottom - top
  BY ContentsAre DEF Listed
<1> QED
  BY <1>1, IndexTypes

\* The first item of a deque that is not empty is the one at top.
LEMMA TopItem ==
  ASSUME IInv, top < LogicalBottom
  PROVE  Contents # <<>> /\ Contents[1] = ItemAt(top)
<1>1. top \in Nat /\ LogicalBottom \in Nat
  BY IndexTypes
<1>2. Contents # <<>> /\ 1 \in 1 .. Len(Contents)
  BY <1>1, ContentsAre, EmptyContents DEF Listed
<1>3. Contents[1] = ItemAt(top + 1 - 1) /\ top + 1 - 1 = top
  BY <1>1, <1>2, ContentsAre DEF Listed
<1> QED
  BY <1>2, <1>3

\* A thief that may still win holds only words of the item at the top.
LEMMA CopyOfTop == IInv => CopyIntact
<1> SUFFICES ASSUME IInv,
                    NEW t \in Thief, tPc[t] \in {"copy", "cas"}, tTop[t] = top,
                    NEW w \in Word, tVal[t][w] # None
             PROVE  Contents # <<>> /\ tVal[t][w] = Contents[1]
  BY DEF CopyIntact
<1>1. top < LogicalBottom /\ tVal[t][w] = ItemAt(top)
  BY DEF IInv, ThievesRight
<1> QED
  BY <1>1, TopItem

\* A thief whose CAS would succeed has copied the top item and nothing else,
\* though it read the slot word by word without any lock.
THEOREM CopySafety == Spec => []CopyIntact
BY CopyOfTop, Invariance, PTL

-----------------------------------------------------------------------------
(* The deque is the abstract one *)

\* Sequences with the same elements are the same.
LEMMA SameSeq ==
  ASSUME NEW S, NEW p \in Seq(S), NEW q \in Seq(S), Len(p) = Len(q),
         \A k \in 1 .. Len(p) : p[k] = q[k]
  PROVE  p = q
OBVIOUS

\* The first n elements of a sequence.
LEMMA Prefix ==
  ASSUME NEW S, NEW q \in Seq(S), NEW n \in 0 .. Len(q)
  PROVE  /\ SubSeq(q, 1, n) \in Seq(S) /\ Len(SubSeq(q, 1, n)) = n
         /\ \A k \in 1 .. n : SubSeq(q, 1, n)[k] = q[k]
OBVIOUS

\* An unseen step leaves the contents alone.
LEMMA UnseenStutters ==
  ASSUME IInv, IInv', Unseen
  PROVE  UNCHANGED <<Contents, handed>>
<1> DEFINE C == Contents
           D == Contents'
<1>1. /\ C \in Seq(Item) /\ Len(C) = LogicalBottom - top
      /\ \A k \in 1 .. Len(C) : top + k - 1 \in InDeque /\ C[k] = ItemAt(top + k - 1)
  BY ContentsAre DEF Listed
<1>2. /\ D \in Seq(Item) /\ Len(D) = LogicalBottom' - top'
      /\ \A k \in 1 .. Len(D) : D[k] = ItemAt(top + k - 1)'
  <2>1. Listed'
    BY ContentsAre, PTL
  <2> QED
    BY <2>1 DEF Listed, Unseen
<1>3. LogicalBottom' = LogicalBottom /\ top' = top /\ handed' = handed
  BY DEF Unseen
<1>4. \A j \in InDeque : ItemAt(j)' = ItemAt(j)
  BY DEF Unseen
<1> HIDE DEF C, D
<1>5. ASSUME NEW k \in 1 .. Len(C)
      PROVE  D[k] = C[k]
  <2>1. PICK j \in InDeque : j = top + k - 1
    BY <1>1
  <2>2. C[k] = ItemAt(j) /\ D[k] = ItemAt(j)'
    BY <1>1, <1>2, <1>3, <2>1
  <2> QED
    BY <1>4, <2>2
<1>6. D = C
  BY <1>1, <1>2, <1>3, <1>5, SameSeq
<1> QED
  BY <1>3, <1>6 DEF C, D

\* The ends of the deque are naturals.
LEMMA TopBottomTypes == IInv => top \in Nat /\ LogicalBottom \in Nat
BY IndexTypes

\* The contents before and after a step, item by item.
LEMMA ContentsStep ==
  ASSUME IInv, IInv'
  PROVE  /\ Contents \in Seq(Item) /\ Len(Contents) = LogicalBottom - top
         /\ Contents' \in Seq(Item) /\ Len(Contents') = LogicalBottom' - top'
         /\ Len(Contents) \in Nat /\ Len(Contents') \in Nat
         /\ \A k \in 1 .. Len(Contents) : \A j \in {top + k - 1} :
              j \in InDeque /\ Contents[k] = ItemAt(j)
         /\ \A k \in 1 .. Len(Contents') : \A j \in {top' + k - 1} :
              j \in InDeque' /\ Contents'[k] = ItemAt(j)'
         /\ top \in Nat /\ LogicalBottom \in Nat /\ top' \in Nat /\ LogicalBottom' \in Nat
         /\ top <= LogicalBottom
<1>1. Listed /\ Listed'
  BY ContentsAre, PTL
<1>2. /\ top \in Nat /\ LogicalBottom \in Nat /\ top <= LogicalBottom
  BY IndexTypes
<1>3. top' \in Nat /\ LogicalBottom' \in Nat
  <2>1. (top \in Nat /\ LogicalBottom \in Nat)'
    BY TopBottomTypes, PTL
  <2> QED
    BY <2>1
<1> QED
  BY <1>1, <1>2, <1>3 DEF Listed

\* A push appends new items that fit.
LEMMA PushIsPush ==
  ASSUME IInv, IInv', PushStore
  PROVE  Deque!PushBottom
<1> DEFINE C == Contents
           D == Contents'
           n == Accepted
<1>1. /\ C \in Seq(Item) /\ D \in Seq(Item) /\ Len(C) \in Nat /\ Len(D) \in Nat
      /\ Len(C) = LogicalBottom - top /\ Len(D) = LogicalBottom' - top'
      /\ \A k \in 1 .. Len(C) : \A j \in {top + k - 1} : j \in InDeque /\ C[k] = ItemAt(j)
      /\ \A k \in 1 .. Len(D) : \A j \in {top' + k - 1} : j \in InDeque' /\ D[k] = ItemAt(j)'
      /\ top \in Nat
  BY ContentsStep
<1>2. /\ top' = top /\ handed' = handed
      /\ LogicalBottom' = bottom + n /\ LogicalBottom = bottom
      /\ n \in Nat /\ n >= 1 /\ bottom \in Nat /\ bottom + n <= topCache + N
      /\ topCache <= top /\ topCache \in Nat
  BY AcceptedFits, PushStoreInv, IndexTypes DEF IInv, IndicesSafe
<1>3. \A j \in InDeque : ItemAt(j)' = ItemAt(j)
  BY PushedItems
<1>4. \A j \in InDeque' :
        /\ ItemAt(j)' \in Item /\ handed'[ItemAt(j)'] = 0
        /\ \A i \in InDeque' : i < j => ItemAt(i)' < ItemAt(j)'
  BY DEF IInv, SlotsRight
<1> HIDE DEF C, D, n
<1>5. Len(D) = Len(C) + n /\ Len(D) <= CAPACITY
  BY <1>1, <1>2, DequeAssumption DEF CAPACITY
<1>6. \A k \in 1 .. Len(C) : D[k] = C[k]
  <2> SUFFICES ASSUME NEW k \in 1 .. Len(C) PROVE D[k] = C[k]
    OBVIOUS
  <2>1. PICK j : j \in {top + k - 1}
    OBVIOUS
  <2>2. k \in 1 .. Len(D) /\ j \in {top' + k - 1}
    BY <1>1, <1>2, <1>5, <2>1
  <2>3. j \in InDeque /\ C[k] = ItemAt(j)
    BY <1>1, <2>1, <2>2
  <2>4. D[k] = ItemAt(j)'
    BY <1>1, <2>1, <2>2
  <2> QED
    BY <1>3, <2>3, <2>4, Zenon
<1>7. SubSeq(D, 1, Len(C)) = C
  <2>1. /\ SubSeq(D, 1, Len(C)) \in Seq(Item) /\ Len(SubSeq(D, 1, Len(C))) = Len(C)
        /\ \A k \in 1 .. Len(C) : SubSeq(D, 1, Len(C))[k] = D[k]
    <3>1. \A a, b \in Nat : a \in 0 .. a + b
      OBVIOUS
    <3>2. Len(C) \in 0 .. Len(D)
      BY <1>1, <1>2, <1>5, <3>1
    <3> HIDE DEF C, D
    <3> QED
      BY <1>1, <3>2, Prefix
  <2> QED
    BY <1>1, <1>6, <2>1, SameSeq
<1>8. ASSUME NEW k \in Len(C) + 1 .. Len(D)
      PROVE  handed[D[k]] = 0 /\ \A l \in 1 .. k - 1 : D[l] # D[k]
  <2>1. PICK j : j \in {top' + k - 1}
    OBVIOUS
  <2>2. k \in 1 .. Len(D)
    BY <1>1
  <2>3. j \in InDeque' /\ D[k] = ItemAt(j)'
    BY <1>1, <2>1, <2>2
  <2>4. ASSUME NEW l \in 1 .. k - 1
        PROVE  D[l] # D[k]
    <3>1. PICK i : i \in {top' + l - 1}
      OBVIOUS
    <3>2. l \in 1 .. Len(D)
      BY <2>2
    <3>3. i \in InDeque' /\ D[l] = ItemAt(i)'
      BY <1>1, <3>1, <3>2
    <3>4. i < j
      BY <1>1, <1>2, <2>1, <3>1
    <3>5. ItemAt(i)' < ItemAt(j)' /\ ItemAt(i)' \in Nat /\ ItemAt(j)' \in Nat
      BY <1>4, <2>3, <3>3, <3>4 DEF Item
    <3> QED
      BY <2>3, <3>3, <3>5
  <2> QED
    BY <1>2, <1>4, <2>3, <2>4
<1>9. Len(C) < Len(D)
  BY <1>1, <1>2, <1>5
<1> QED
  BY <1>1, <1>2, <1>5, <1>7, <1>8, <1>9 DEF Deque!PushBottom, C, D

\* Removing the last item of a sequence.
LEMMA LastRemoved ==
  ASSUME NEW S, NEW p \in Seq(S), NEW q \in Seq(S), Len(p) = Len(q) + 1,
         \A k \in 1 .. Len(q) : q[k] = p[k]
  PROVE  q = SubSeq(p, 1, Len(p) - 1) /\ p # <<>>
<1>1. /\ SubSeq(p, 1, Len(p) - 1) \in Seq(S)
      /\ Len(SubSeq(p, 1, Len(p) - 1)) = Len(q)
      /\ \A k \in 1 .. Len(q) : SubSeq(p, 1, Len(p) - 1)[k] = p[k]
  OBVIOUS
<1>2. q = SubSeq(p, 1, Len(p) - 1)
  BY <1>1, SameSeq
<1>3. p # <<>>
  OBVIOUS
<1> QED
  BY <1>2, <1>3

\* Removing the first item of a sequence.
LEMMA FirstRemoved ==
  ASSUME NEW S, NEW p \in Seq(S), NEW q \in Seq(S), Len(p) = Len(q) + 1,
         \A k \in 1 .. Len(q) : q[k] = p[k + 1]
  PROVE  q = Tail(p) /\ p # <<>> /\ Head(p) = p[1]
<1>1. p # <<>>
  OBVIOUS
<1>2. /\ Tail(p) \in Seq(S) /\ Len(Tail(p)) = Len(q)
      /\ \A k \in 1 .. Len(q) : Tail(p)[k] = p[k + 1]
  BY <1>1
<1>3. q = Tail(p)
  BY <1>2, SameSeq
<1> QED
  BY <1>1, <1>3

\* A pop that did not have to compete takes the bottom item.
LEMMA TakeIsPop ==
  ASSUME IInv, IInv', PopTake
  PROVE  Deque!PopBottom
<1> DEFINE C == Contents
           D == Contents'
<1>1. /\ C \in Seq(Item) /\ D \in Seq(Item) /\ Len(C) \in Nat /\ Len(D) \in Nat
      /\ Len(C) = LogicalBottom - top /\ Len(D) = LogicalBottom' - top'
      /\ \A k \in 1 .. Len(C) : \A j \in {top + k - 1} : j \in InDeque /\ C[k] = ItemAt(j)
      /\ \A k \in 1 .. Len(D) : \A j \in {top' + k - 1} : j \in InDeque' /\ D[k] = ItemAt(j)'
      /\ top \in Nat
  BY ContentsStep
<1>2. /\ bottom \in InDeque /\ top' = top /\ bottom \in Nat
      /\ LogicalBottom = bottom + 1 /\ LogicalBottom' = bottom
      /\ handed' = [handed EXCEPT ![ItemAt(bottom)] = @ + 1]
      /\ \A j : ItemAt(j)' = ItemAt(j)
  BY PopTakeInv, IndexTypes
<1> HIDE DEF C, D
<1>3. Len(C) = Len(D) + 1
  BY <1>1, <1>2
<1>4. \A k \in 1 .. Len(D) : D[k] = C[k]
  <2> SUFFICES ASSUME NEW k \in 1 .. Len(D) PROVE D[k] = C[k]
    OBVIOUS
  <2>1. PICK j : j \in {top + k - 1} /\ j \in {top' + k - 1}
    BY <1>2
  <2>2. k \in 1 .. Len(C)
    BY <1>1, <1>3
  <2>3. j \in InDeque /\ C[k] = ItemAt(j)
    BY <1>1, <2>1, <2>2
  <2>4. D[k] = ItemAt(j)'
    BY <1>1, <2>1, <2>2
  <2> QED
    BY <1>2, <2>3, <2>4
<1>5. C[Len(C)] = ItemAt(bottom)
  <2>1. Len(C) \in 1 .. Len(C) /\ bottom \in {top + Len(C) - 1}
    BY <1>1, <1>2, <1>3
  <2> QED
    BY <1>1, <2>1
<1>6. D = SubSeq(C, 1, Len(C) - 1) /\ C # <<>>
  BY <1>1, <1>3, <1>4, LastRemoved
<1> QED
  BY <1>2, <1>5, <1>6 DEF Deque!PopBottom, Deque!HandOut, C, D

\* A pop that won the race takes the only item.
LEMMA WonIsPop ==
  ASSUME IInv, IInv', PopCas, top = bottom
  PROVE  Deque!PopBottom
<1> DEFINE C == Contents
           D == Contents'
<1>1. /\ C \in Seq(Item) /\ D \in Seq(Item) /\ Len(C) \in Nat /\ Len(D) \in Nat
      /\ Len(C) = LogicalBottom - top /\ Len(D) = LogicalBottom' - top'
      /\ \A k \in 1 .. Len(C) : \A j \in {top + k - 1} : j \in InDeque /\ C[k] = ItemAt(j)
      /\ top \in Nat /\ LogicalBottom \in Nat
  BY ContentsStep
<1>2. /\ InDeque = {top} /\ top' = LogicalBottom /\ LogicalBottom' = LogicalBottom
      /\ handed' = [handed EXCEPT ![ItemAt(top)] = @ + 1]
  BY PopCasWonInv
<1>3. LogicalBottom = top + 1
  BY DEF PopCas, LogicalBottom
<1> HIDE DEF C, D
<1>4. Len(C) = 1 /\ Len(D) = 0
  BY <1>1, <1>2, <1>3
<1>5. C[Len(C)] = ItemAt(top)
  <2>1. \A i \in Nat : i + 1 - 1 = i
    OBVIOUS
  <2>2. top \in {top + 1 - 1} /\ 1 \in 1 .. 1
    BY <1>1, <2>1
  <2> QED
    BY <1>1, <1>4, <2>2
<1>6. D = SubSeq(C, 1, Len(C) - 1) /\ C # <<>>
  <2>1. Len(C) = Len(D) + 1 /\ \A k \in 1 .. Len(D) : D[k] = C[k]
    BY <1>4
  <2> QED
    BY <1>1, <2>1, LastRemoved
<1> QED
  BY <1>2, <1>5, <1>6 DEF Deque!PopBottom, Deque!HandOut, C, D

\* A steal takes the top item.
LEMMA CasIsSteal ==
  ASSUME IInv, IInv', NEW t \in Thief, StealCas(t), top = tTop[t]
  PROVE  Deque!StealTop
<1> DEFINE C == Contents
           D == Contents'
<1>1. /\ C \in Seq(Item) /\ D \in Seq(Item) /\ Len(C) \in Nat /\ Len(D) \in Nat
      /\ Len(C) = LogicalBottom - top /\ Len(D) = LogicalBottom' - top'
      /\ \A k \in 1 .. Len(C) : \A j \in {top + k - 1} : j \in InDeque /\ C[k] = ItemAt(j)
      /\ \A k \in 1 .. Len(D) : \A j \in {top' + k - 1} : j \in InDeque' /\ D[k] = ItemAt(j)'
      /\ top \in Nat /\ LogicalBottom \in Nat
  BY ContentsStep
<1>2. /\ top \in InDeque /\ top' = top + 1 /\ LogicalBottom' = LogicalBottom
      /\ handed' = [handed EXCEPT ![ItemAt(top)] = @ + 1]
      /\ \A j : ItemAt(j)' = ItemAt(j)
  BY StealCasWonInv
<1>3. top < LogicalBottom
  BY <1>1, <1>2 DEF InDeque
<1>4. C[1] = ItemAt(top)
  BY <1>3, TopItem
<1> HIDE DEF C, D
<1>5. Len(C) = Len(D) + 1
  BY <1>1, <1>2
<1>6. \A k \in 1 .. Len(D) : D[k] = C[k + 1]
  <2> SUFFICES ASSUME NEW k \in 1 .. Len(D) PROVE D[k] = C[k + 1]
    OBVIOUS
  <2>1. PICK j : j \in {top + (k + 1) - 1} /\ j \in {top' + k - 1}
    BY <1>1, <1>2
  <2>2. k + 1 \in 1 .. Len(C)
    BY <1>1, <1>5
  <2>3. j \in InDeque /\ C[k + 1] = ItemAt(j)
    BY <1>1, <2>1, <2>2
  <2>4. D[k] = ItemAt(j)'
    BY <1>1, <2>1
  <2> QED
    BY <1>2, <2>3, <2>4
<1>7. D = Tail(C) /\ C # <<>> /\ Head(C) = C[1]
  BY <1>1, <1>5, <1>6, FirstRemoved
<1> QED
  BY <1>2, <1>4, <1>7 DEF Deque!StealTop, Deque!HandOut, C, D

\* Every step is an instantaneous operation on the deque or goes unseen.
LEMMA StepsImplement ==
  ASSUME IInv, IInv', [Next]_vars
  PROVE  [Deque!DequeNext]_(Deque!dequeVars)
<1>1. CASE Unseen
  BY <1>1, UnseenStutters DEF Deque!dequeVars
<1>2. CASE PushStore
  BY <1>2, PushIsPush DEF Deque!DequeNext
<1>3. CASE PopTake
  BY <1>3, TakeIsPop DEF Deque!DequeNext
<1>4. CASE PopCas /\ top = bottom
  BY <1>4, WonIsPop DEF Deque!DequeNext
<1>5. CASE \E t \in Thief : StealCas(t) /\ top = tTop[t]
  BY <1>5, CasIsSteal DEF Deque!DequeNext
<1> QED
  BY <1>1, <1>2, <1>3, <1>4, <1>5, StepKinds

\* Owner and thieves together implement the abstract deque: pushes, pops and
\* steals take effect at one instant each, and no item is lost or handed out twice.
THEOREM Refinement == Spec => ImplementsDeque
<1>1. Init => Deque!DequeInit
  <2> SUFFICES ASSUME Init PROVE Deque!DequeInit
    OBVIOUS
  <2>1. LogicalBottom = 0 /\ top = 0
    BY DEF Init, LogicalBottom
  <2>2. Contents = <<>>
    BY <2>1, InitInv, EmptyContents
  <2> QED
    BY <2>2 DEF Deque!DequeInit, Init
<1>2. IInv /\ IInv' /\ [Next]_vars => [Deque!DequeNext]_(Deque!dequeVars)
  BY StepsImplement
<1> QED
  BY <1>1, <1>2, Invariance, PTL DEF Spec, ImplementsDeque, Deque!DequeSpec

-----------------------------------------------------------------------------
(* What the operations answer *)

\* A push that gives up saw a full deque, a pop that gives up an empty one, and a
\* thief that gives up while the owner rests an empty one as well.
LEMMA StepsHonest ==
  ASSUME IInv, [Next]_vars
  PROVE  /\ PushLoadTop /\ pc' = "idle" => Len(Contents) = CAPACITY
         /\ (PopLoadTop \/ PopLost \/ PopCas) /\ pc' = "idle" /\ handed' = handed
              => Contents = <<>>
         /\ \A t \in Thief :
              StealLoadBottom(t) /\ tPc'[t] = "idle" /\ pc = "idle" /\ sb = <<>>
                => Contents = <<>>
<1>1. ASSUME PushLoadTop, pc' = "idle"
      PROVE  Len(Contents) = CAPACITY
  <2>1. pc \in {"loadTry", "loadSpin"} /\ Used(top) >= CAPACITY
    <3>1. pc \in {"loadTry", "loadSpin"}
      BY <1>1 DEF PushLoadTop
    <3>2. Used(top) < CAPACITY \/ Used(top) >= CAPACITY
      BY IndexTypes, DequeAssumption DEF Used, CAPACITY
    <3>3. Used(top) < CAPACITY => pc' \in {"storeTry", "storeSpin"}
      BY <1>1 DEF PushLoadTop
    <3> QED
      BY <1>1, <3>1, <3>2, <3>3
  <2>2. LogicalBottom = bottom
    BY <2>1 DEF LogicalBottom
  <2>3. bottom - topCache <= CAPACITY /\ topCache <= top
    BY DEF IInv, IndicesSafe
  <2>4. bottom - top = CAPACITY
    BY <2>1, <2>3, IndexTypes, DequeAssumption DEF Used, CAPACITY
  <2>5. Len(Contents) = LogicalBottom - top
    BY ContentsAre DEF Listed
  <2> QED
    BY <2>2, <2>4, <2>5
<1>2. ASSUME PopLoadTop \/ PopLost \/ PopCas, pc' = "idle", handed' = handed
      PROVE  Contents = <<>>
  <2>1. CASE PopLoadTop
    <3>1. bottom = top /\ LogicalBottom = bottom
      BY <1>2, <2>1 DEF PopLoadTop, Retract, LogicalBottom
    <3> QED
      BY <3>1, EmptyContents
  <2>2. CASE PopLost \/ (PopCas /\ top # bottom)
    BY <2>2, SettleInv, EmptyContents
  <2>3. CASE PopCas /\ top = bottom
    <3>1. top \in InDeque /\ handed' = [handed EXCEPT ![ItemAt(top)] = @ + 1]
      BY <2>3, PopCasWonInv
    <3>2. ItemAt(top) \in Item /\ handed[ItemAt(top)] = 0
      BY <3>1 DEF IInv, SlotsRight
    <3>3. handed'[ItemAt(top)] = 1
      BY <3>1, <3>2 DEF IInv, IndicesSafe, TypeOK
    <3> QED
      BY <1>2, <3>2, <3>3
  <2> QED
    BY <1>2, <2>1, <2>2, <2>3
<1>3. ASSUME NEW t \in Thief, StealLoadBottom(t), tPc'[t] = "idle",
             pc = "idle", sb = <<>>
      PROVE  Contents = <<>>
  <2>1. tTop[t] >= pubBottom
    BY <1>3 DEF StealLoadBottom, IInv, IndicesSafe, TypeOK
  <2>2. tTop[t] <= top /\ tTop[t] \in Nat
    BY DEF IInv, ThievesRight, IndicesSafe, TypeOK
  <2>3. LogicalBottom = bottom /\ pubBottom = bottom
    BY <1>3 DEF LogicalBottom, IInv, Buffered
  <2>4. top = LogicalBottom
    BY <2>1, <2>2, <2>3, IndexTypes
  <2> QED
    BY <2>4, EmptyContents
<1> QED
  BY <1>1, <1>2, <1>3

\* No operation reports a full or an empty deque that is not.
THEOREM HonestFailures == Spec => FailuresHonest
<1> DEFINE A == /\ PushLoadTop /\ pc' = "idle" => Len(Contents) = CAPACITY
                /\ (PopLoadTop \/ PopLost \/ PopCas) /\ pc' = "idle" /\ handed' = handed
                     => Contents = <<>>
                /\ \A t \in Thief :
                     StealLoadBottom(t) /\ tPc'[t] = "idle" /\ pc = "idle" /\ sb = <<>>
                       => Contents = <<>>
<1>1. IInv /\ [Next]_vars => [A]_vars
  BY StepsHonest
<1>2. FailuresHonest <=> [][A]_vars
  BY DEF FailuresHonest
<1> HIDE DEF A
<1> QED
  BY <1>1, <1>2, Invariance, PTL DEF Spec

-----------------------------------------------------------------------------
(* Nothing is lost *)

\* Every stored item was handed out once or is still in the deque.
Accounted ==
  \A i \in Item : /\ handed[i] <= 1
                  /\ i < pushed /\ handed[i] = 0 => \E j \in InDeque : ItemAt(j) = i

\* One step keeps the account.
LEMMA AccountKept ==
  ASSUME IInv, IInv', Accounted, [Next]_vars
  PROVE  Accounted'
<1>0. pushed \in Nat /\ InDeque \subseteq Nat /\ handed \in [Item -> Nat]
      /\ top \in Nat /\ LogicalBottom \in Nat
  BY IndexTypes DEF IInv, IndicesSafe, TypeOK
<1>1. CASE Unseen /\ pushed' = pushed
  <2>1. InDeque' = InDeque
    BY <1>1 DEF Unseen, InDeque
  <2> QED
    BY <1>1, <2>1 DEF Unseen, Accounted
<1>2. CASE PushStore
  <2>1. /\ handed' = handed /\ pushed' = pushed + Accepted /\ Accepted \in Nat
        /\ bottom \in Nat
    BY <1>2, PushStoreInv, AcceptedFits, IndexTypes DEF PushStore
  <2> SUFFICES ASSUME NEW i \in Item, i < pushed', handed[i] = 0
               PROVE  \E j \in InDeque' : ItemAt(j)' = i
    BY <2>1 DEF Accounted
  <2>2. CASE i < pushed
    <3>1. PICK j \in InDeque : ItemAt(j) = i
      BY <2>2 DEF Accounted
    <3>2. j \in InDeque' /\ ItemAt(j)' = ItemAt(j)
      BY <1>2, PushedIndices, PushedItems
    <3> QED
      BY <3>1, <3>2
  <2>3. CASE ~(i < pushed)
    <3>1. PICK k \in 0 .. Accepted - 1 : i = pushed + k
      <4>1. i - pushed \in 0 .. Accepted - 1 /\ i = pushed + (i - pushed)
        BY <1>0, <2>1, <2>3 DEF Item
      <4> QED
        BY <4>1
    <3>2. PICK j \in {bottom + k} : j \in InDeque'
      BY <1>2, PushedIndices
    <3>3. ItemAt(j)' = pushed + k
      BY <1>2, PushedItems
    <3> QED
      BY <3>1, <3>2, <3>3
  <2> QED
    BY <2>2, <2>3
<1>3. ASSUME NEW e \in InDeque, pushed' = pushed,
             handed' = [handed EXCEPT ![ItemAt(e)] = @ + 1],
             \A j \in InDeque : j # e => j \in InDeque' /\ ItemAt(j)' = ItemAt(j)
      PROVE  Accounted'
  <2>1. ItemAt(e) \in Item /\ handed[ItemAt(e)] = 0
    BY DEF IInv, SlotsRight
  <2>2. \A i \in Item : handed'[i] = IF i = ItemAt(e) THEN 1 ELSE handed[i]
    BY <1>0, <1>3, <2>1
  <2> SUFFICES ASSUME NEW i \in Item, i < pushed, handed'[i] = 0
               PROVE  \E j \in InDeque' : ItemAt(j)' = i
    BY <1>3, <2>2 DEF Accounted
  <2>3. i # ItemAt(e) /\ handed[i] = 0
    BY <2>2
  <2>4. PICK j \in InDeque : ItemAt(j) = i
    BY <2>3 DEF Accounted
  <2> QED
    BY <1>3, <2>3, <2>4
<1>4. CASE PopTake
  <2>1. pushed' = pushed
    BY <1>4 DEF PopTake
  <2>2. /\ bottom \in InDeque /\ top' = top /\ bottom \in Nat
        /\ LogicalBottom = bottom + 1 /\ LogicalBottom' = bottom
        /\ handed' = [handed EXCEPT ![ItemAt(bottom)] = @ + 1]
        /\ \A j : ItemAt(j)' = ItemAt(j)
    BY <1>4, PopTakeInv, IndexTypes
  <2>3. \A j \in InDeque : j # bottom => j \in InDeque'
    BY <1>0, <2>2 DEF InDeque
  <2> QED
    BY <1>3, <2>1, <2>2, <2>3
<1>5. CASE PopCas /\ top = bottom
  <2>1. pushed' = pushed
    BY <1>5 DEF PopCas
  <2> QED
    BY <1>3, <1>5, <2>1, PopCasWonInv
<1>6. ASSUME NEW t \in Thief, StealCas(t), top = tTop[t]
      PROVE  Accounted'
  <2>1. pushed' = pushed
    BY <1>6 DEF StealCas, ownerVars
  <2>2. /\ top \in InDeque /\ top' = top + 1 /\ LogicalBottom' = LogicalBottom
        /\ handed' = [handed EXCEPT ![ItemAt(top)] = @ + 1]
        /\ \A j : ItemAt(j)' = ItemAt(j)
    BY <1>6, StealCasWonInv
  <2>3. \A j \in InDeque : j # top => j \in InDeque'
    BY <1>0, <2>2 DEF InDeque
  <2> QED
    BY <1>3, <2>1, <2>2, <2>3
<1>7. pushed' = pushed \/ PushStore
  BY DEF Next, OwnerStep, ThiefStep, vars, ownerVars, CallPush, CallPop, PushLoadTop,
         PopLoadTop, Fence, PopLost, PopLast, PopTake, PopCas, Drain, StealLoadTop,
         StealLoadBottom, StealCopy, StealCas
<1> QED
  BY <1>1, <1>2, <1>4, <1>5, <1>6, <1>7, StepKinds

\* Whatever is pushed is handed out at most once, and is in the deque until then:
\* neither a lost race for the last item nor a stale thief loses or doubles it.
THEOREM NothingLost == Spec => []Accounted
<1>1. Init => Accounted
  <2> SUFFICES ASSUME Init PROVE Accounted
    OBVIOUS
  <2>1. pushed = 0 /\ handed = [i \in Item |-> 0]
    BY DEF Init
  <2> QED
    BY <2>1 DEF Accounted, Item
<1>2. IInv /\ IInv' /\ Accounted /\ [Next]_vars => Accounted'
  BY AccountKept
<1> QED
  BY <1>1, <1>2, Invariance, PTL DEF Spec
=============================================================================
