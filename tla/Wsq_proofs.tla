----------------------------- MODULE Wsq_proofs -----------------------------
(***************************************************************************)
(* Proofs about Wsq for every choice of Kinds, FirstSize, Thief, MaxItems  *)
(* and MaxBulk.                                                            *)
(***************************************************************************)
EXTENDS Wsq, SequenceTheorems, FiniteSetTheorems, WellFoundedInduction, TLAPS

-----------------------------------------------------------------------------
(* Facts about i % n *)

\* An index falls into a ring of n slots.
LEMMA ModRange ==
  ASSUME NEW n \in Nat \ {0}, NEW i \in Nat
  PROVE  i % n \in 0 .. n - 1
OBVIOUS

\* Indices less than a lap apart have different slots.
LEMMA ModInjective ==
  ASSUME NEW n \in Nat \ {0}, NEW i \in Nat, NEW j \in Nat, i < j, j < i + n
  PROVE  i % n # j % n
<1> DEFINE a == i \div n
           b == j \div n
<1>1. /\ a \in Int /\ b \in Int
      /\ i = (n * a) + (i % n)
      /\ j = (n * b) + (j % n)
  OBVIOUS
<1> HIDE DEF a, b
<1>2. SUFFICES ASSUME i % n = j % n PROVE FALSE
  OBVIOUS
<1>3. j - i = n * (b - a)
  BY <1>1, <1>2
<1>4. CASE b - a <= 0
  BY <1>1, <1>3, <1>4
<1>5. CASE b - a >= 1
  BY <1>1, <1>3, <1>5
<1> QED
  BY <1>1, <1>4, <1>5

\* A table of rows with n cells each: cell c of row r has number (n * r) + c, and
\* the number tells row and cell.
LEMMA CellNumber ==
  ASSUME NEW n \in Nat \ {0}, NEW r \in Nat, NEW c \in 0 .. n - 1
  PROVE  ((n * r) + c) \div n = r /\ ((n * r) + c) % n = c
<1> DEFINE x == (n * r) + c
           q == x \div n
           d == x % n
<1>0. x \in Nat
  OBVIOUS
<1>1. q \in Int /\ d \in 0 .. n - 1 /\ x = (n * q) + d
  BY <1>0
<1> HIDE DEF q, d
<1>2. c - d = n * (q - r)
  BY <1>1
<1>3. ~(q - r >= 1) /\ ~(q - r <= -1)
  BY <1>1, <1>2
<1>4. q = r
  BY <1>1, <1>3
<1>5. d = c
  BY <1>1, <1>2, <1>4
<1> QED
  BY <1>4, <1>5 DEF q, d

-----------------------------------------------------------------------------

\* The order of the naturals has no infinite descent.
Less == {p \in Nat \X Nat : p[1] < p[2]}
LEMMA LessWellFounded == IsWellFoundedOn(Less, Nat)
BY NatLessThanWellFounded, Zenon DEF OpToRel, Less

\* A set of naturals has a least element.
LEMMA MinIn ==
  ASSUME NEW S, S \subseteq Nat, S # {}
  PROVE  Min(S) \in S /\ \A y \in S : Min(S) <= y
<1>1. PICK x \in S : \A y \in S : ~(<<y, x>> \in Less)
  BY LessWellFounded, WFMin, Zenon
<1>2. \A y \in S : x <= y
  <2> TAKE y \in S
  <2>1. ~(y < x)
    <3>1. <<y, x>> \in Nat \X Nat /\ <<y, x>>[1] = y /\ <<y, x>>[2] = x
      OBVIOUS
    <3> QED
      BY <1>1, <3>1 DEF Less
  <2> QED
    BY <2>1
<1> QED
  BY <1>2 DEF Min

\* A set of naturals up to n has a greatest element.
LEMMA MaxIn ==
  ASSUME NEW n \in Nat, NEW S, S \subseteq 1 .. n, S # {}
  PROVE  Max(S) \in S
<1> DEFINE T == {n - x : x \in S}
<1>1. T \subseteq Nat /\ T # {}
  <2>1. \A x \in S : x \in 1 .. n /\ n - x \in Nat
    OBVIOUS
  <2> QED
    BY <2>1
<1>2. Min(T) \in T /\ \A y \in T : Min(T) <= y
  BY <1>1, MinIn, Zenon
<1> DEFINE k == Min(T)
<1> HIDE DEF k
<1>3. PICK x \in S : k = n - x
  BY <1>2 DEF k
<1>4. \A y \in S : k <= n - y
  BY <1>2 DEF k
<1>5. \A y \in S : x >= y
  BY <1>3, <1>4
<1> QED
  BY <1>5 DEF Max

\* A function on 1 .. n is a sequence of length n.
LEMMA FunctionIsSeq ==
  ASSUME NEW S, NEW n \in Nat, NEW f \in [1 .. n -> S]
  PROVE  f \in Seq(S) /\ Len(f) = n
OBVIOUS

-----------------------------------------------------------------------------
(* The size of a new array *)

\* The double of a power of two is one.
LEMMA DoubledPower ==
  ASSUME NEW c \in Nat \ {0}, IsPowerOf2(c)
  PROVE  IsPowerOf2(2 * c)
<1> SUFFICES ASSUME NEW d \in 2 .. 2 * c, (2 * c) % d = 0, d % 2 # 0
             PROVE  FALSE
  BY DEF IsPowerOf2
<1> DEFINE q == (2 * c) \div d
           e == d \div 2
           r == q \div 2
<1>1. q \in Nat /\ 2 * c = d * q
  OBVIOUS
<1>2. e \in Nat /\ d = (2 * e) + 1
  OBVIOUS
<1> HIDE DEF q, e
<1>3. r \in Nat /\ q = (2 * r) + (q % 2) /\ q % 2 \in {0, 1}
  BY <1>1
<1> HIDE DEF r
<1>4. q = 2 * r
  <2>1. CASE q % 2 = 1
    <3>1. d * q = 2 * ((2 * (e * r)) + e + r) + 1
      BY <1>2, <1>3, <2>1
    <3>2. e * r \in Nat
      BY <1>2, <1>3
    <3> QED
      BY <1>1, <1>2, <1>3, <3>1, <3>2
  <2> QED
    BY <1>3, <2>1
<1>5. c = d * r
  <2>1. 2 * c = 2 * (d * r) /\ d * r \in Int
    BY <1>1, <1>3, <1>4
  <2> QED
    BY <2>1
<1>6. d <= c
  <2>1. r >= 1
    BY <1>3, <1>5
  <2> QED
    BY <1>3, <1>5, <2>1
<1>7. c % d = 0
  <2>1. ((d * r) + 0) % d = 0
    <3>1. d \in Nat \ {0} /\ 0 \in 0 .. d - 1
      OBVIOUS
    <3> QED
      BY <1>3, <3>1, CellNumber
  <2>2. (d * r) + 0 = c
    BY <1>5
  <2> QED
    BY <2>1, <2>2
<1> QED
  BY <1>6, <1>7 DEF IsPowerOf2

\* There is a power of two from n to 2 * n.
LEMMA PowerBetween ==
  \A n \in Nat \ {0} : \E c \in n .. 2 * n : IsPowerOf2(c)
<1> DEFINE Found(n) == \E c \in n .. 2 * n : IsPowerOf2(c)
           T == {n \in Nat \ {0} : ~Found(n)}
<1>1. SUFFICES ASSUME T # {} PROVE FALSE
  OBVIOUS
<1>2. PICK n \in T : \A y \in T : n <= y
  <2>1. T \subseteq Nat
    OBVIOUS
  <2> HIDE DEF T
  <2> QED
    BY <1>1, <2>1, MinIn
<1>3. n \in Nat /\ n > 1
  <2>1. n \in Nat \ {0}
    OBVIOUS
  <2>2. IsPowerOf2(1) /\ 1 \in 1 .. 2
    BY DEF IsPowerOf2
  <2>3. n # 1
    BY <2>2
  <2> QED
    BY <2>1, <2>3
<1>4. Found(n - 1)
  <2>1. n - 1 \in Nat \ {0} /\ ~(n <= n - 1)
    BY <1>3
  <2> QED
    BY <1>2, <2>1
<1>5. PICK c \in n - 1 .. 2 * (n - 1) : IsPowerOf2(c)
  BY <1>4
<1>6. CASE c >= n
  <2>1. c \in n .. 2 * n
    BY <1>3, <1>6
  <2> QED
    BY <1>5, <2>1
<1>7. CASE c = n - 1
  <2>1. c \in Nat \ {0} /\ 2 * c \in n .. 2 * n
    BY <1>3, <1>7
  <2>2. IsPowerOf2(2 * c)
    BY <1>5, <2>1, DoubledPower
  <2> QED
    BY <2>1, <2>2
<1> QED
  BY <1>3, <1>6, <1>7

\* A new array has room for what it was made for.
LEMMA BitCeilFits ==
  ASSUME NEW n \in Nat \ {0}
  PROVE  BitCeil(n) \in Nat /\ n <= BitCeil(n)
<1> DEFINE S == {p \in n .. 2 * n : IsPowerOf2(p)}
<1>1. S \subseteq Nat /\ S # {} /\ \A p \in S : n <= p
  BY PowerBetween
<1>2. BitCeil(n) = Min(S)
  BY DEF BitCeil
<1> HIDE DEF S
<1>3. Min(S) \in S
  BY <1>1, MinIn
<1> QED
  BY <1>1, <1>2, <1>3

-----------------------------------------------------------------------------
(* What the owner reads *)

\* OwnerReads with arrays A, of the sizes S, the last being M, and store buffer q.
StoredAt(M, S, q, i) == {k \in 1 .. Len(q) : /\ q[k].to = "slot" /\ q[k].a = M
                                             /\ q[k].i % S[M] = i % S[M]}
ReadsOf(A, M, S, q, i) ==
  IF StoredAt(M, S, q, i) = {} THEN A[M][i % S[M]]
                               ELSE q[Max(StoredAt(M, S, q, i))].val

\* If stores are buffered for a cell, the youngest of them is one.
LEMMA YoungestStored ==
  ASSUME NEW M, NEW S, NEW q \in Seq(Store), NEW i, StoredAt(M, S, q, i) # {}
  PROVE  Max(StoredAt(M, S, q, i)) \in StoredAt(M, S, q, i)
<1>1. StoredAt(M, S, q, i) \subseteq 1 .. Len(q) /\ Len(q) \in Nat
  BY DEF StoredAt
<1> QED
  BY <1>1, MaxIn

\* After a step, the owner sees nothing but v at index j.
OnlySees(j, v) ==
  /\ \A m \in 1 .. Len(sb') :
       (/\ sb'[m].to = "slot" /\ sb'[m].a = Mine'
        /\ sb'[m].i % SizeOf'[Mine'] = j % SizeOf'[Mine'])
         => sb'[m].val = v
  /\ (\A m \in 1 .. Len(sb') :
        ~(/\ sb'[m].to = "slot" /\ sb'[m].a = Mine'
          /\ sb'[m].i % SizeOf'[Mine'] = j % SizeOf'[Mine']))
       => arrays'[Mine'][j % SizeOf'[Mine']] = v

\* The item at an index is what the stores buffered for its cell, or else memory,
\* agree on.
LEMMA ItemIs ==
  ASSUME NEW j \in InDeque', NEW v, sb' \in Seq(Store), OnlySees(j, v)
  PROVE  ItemAt'[j] = v
<1> USE DEF OnlySees
<1>1. ReadsOf(arrays', Mine', SizeOf', sb', j) = v
  <2>1. \A k \in StoredAt(Mine', SizeOf', sb', j) : sb'[k].val = v
    BY DEF StoredAt
  <2>2. StoredAt(Mine', SizeOf', sb', j) = {}
          => arrays'[Mine'][j % SizeOf'[Mine']] = v
    BY DEF StoredAt
  <2>3. CASE StoredAt(Mine', SizeOf', sb', j) = {}
    BY <2>2, <2>3 DEF ReadsOf
  <2>4. CASE StoredAt(Mine', SizeOf', sb', j) # {}
    <3>1. Max(StoredAt(Mine', SizeOf', sb', j)) \in StoredAt(Mine', SizeOf', sb', j)
      BY <2>4, YoungestStored
    <3> QED
      BY <2>1, <2>4, <3>1 DEF ReadsOf
  <2> QED
    BY <2>3, <2>4
<1>2. ItemAt'[j] = ReadsOf(arrays', Mine', SizeOf', sb', j)
  BY DEF ItemAt, OwnerReads, ReadsOf, StoredAt, Cell
<1> QED
  BY <1>1, <1>2

\* The same of the items before a step.
LEMMA ItemReads ==
  ASSUME NEW j \in InDeque, sb \in Seq(Store)
  PROVE  \/ \E m \in 1 .. Len(sb) : /\ Buffers(m, Mine, j)
                                    /\ ItemAt[j] = sb[m].val
         \/ /\ \A m \in 1 .. Len(sb) : ~Buffers(m, Mine, j)
            /\ ItemAt[j] = arrays[Mine][Cell(Mine, j)]
<1>1. ItemAt[j] = ReadsOf(arrays, Mine, SizeOf, sb, j)
  BY DEF ItemAt, OwnerReads, ReadsOf, StoredAt, Cell
<1>2. \A m \in 1 .. Len(sb) :
        m \in StoredAt(Mine, SizeOf, sb, j) <=> Buffers(m, Mine, j)
  BY DEF StoredAt, Buffers, Is, Cell
<1>3. StoredAt(Mine, SizeOf, sb, j) \subseteq 1 .. Len(sb)
  BY DEF StoredAt
<1>4. CASE StoredAt(Mine, SizeOf, sb, j) = {}
  <2>1. ItemAt[j] = arrays[Mine][Cell(Mine, j)]
    BY <1>1, <1>4 DEF ReadsOf, Cell
  <2> QED
    BY <1>2, <1>4, <2>1
<1>5. CASE StoredAt(Mine, SizeOf, sb, j) # {}
  <2> DEFINE k == Max(StoredAt(Mine, SizeOf, sb, j))
  <2>1. k \in StoredAt(Mine, SizeOf, sb, j)
    BY <1>5, YoungestStored
  <2>2. ItemAt[j] = sb[k].val
    BY <1>1, <1>5 DEF ReadsOf
  <2> QED
    BY <1>2, <1>3, <2>1, <2>2
<1> QED
  BY <1>4, <1>5

\* The owner reads the items in the deque.
LEMMA ItemAtIs == \A j \in InDeque : ItemAt[j] = OwnerReads(j)
BY DEF ItemAt

-----------------------------------------------------------------------------
(* Types *)

\* The types of the indices and of the store buffer.
LEMMA IndexTypes ==
  ASSUME IInv
  PROVE  /\ top \in Nat /\ cachedTop \in Nat /\ pushed \in Nat
         /\ bottom \in Int /\ bottom \in Nat \union {-1}
         /\ memBottom \in Int /\ memBottom \in Nat \union {-1}
         /\ LogicalBottom \in Nat /\ top <= LogicalBottom /\ cachedTop <= top
         /\ InDeque \subseteq Nat /\ InDeque = top .. LogicalBottom - 1
         /\ sb \in Seq(Store) /\ Len(sb) \in Nat
<1>1. /\ top \in Nat /\ cachedTop \in Nat /\ pushed \in Nat
      /\ bottom \in Nat \union {-1} /\ memBottom \in Nat \union {-1}
      /\ sb \in Seq(Store)
  BY DEF IInv, TypeOK
<1>2. LogicalBottom \in Nat /\ top <= LogicalBottom /\ cachedTop <= top
  BY <1>1 DEF IInv, Decided, LogicalBottom
<1> QED
  BY <1>1, <1>2 DEF InDeque

\* The types of the arrays.
LEMMA ArrayTypes ==
  ASSUME IInv
  PROVE  /\ Mine \in Nat \ {0} /\ DOMAIN arrays = 1 .. Mine /\ array \in 1 .. Mine
         /\ DOMAIN SizeOf = 1 .. Mine
         /\ \A a \in 1 .. Mine :
              /\ SizeOf[a] \in Nat \ {0}
              /\ arrays[a] \in [0 .. SizeOf[a] - 1 -> Item \union {None}]
         /\ \A a \in 1 .. Mine, i \in Nat :
              /\ Cell(a, i) \in 0 .. SizeOf[a] - 1
              /\ Cell(a, i) = i % SizeOf[a]
         /\ Mine \in 1 .. Mine /\ SizeOf[Mine] \in Nat \ {0}
<1>1. /\ arrays \in Seq({arrays[a] : a \in DOMAIN arrays})
      /\ array \in DOMAIN arrays
      /\ \A a \in DOMAIN arrays :
           /\ SizeOf[a] \in Nat \ {0}
           /\ arrays[a] \in [0 .. SizeOf[a] - 1 -> Item \union {None}]
  BY DEF IInv, TypeOK
<1>2. Mine \in Nat \ {0} /\ DOMAIN arrays = 1 .. Mine
  <2>1. Mine \in Nat /\ DOMAIN arrays = 1 .. Mine
    BY <1>1, LenProperties DEF Mine
  <2> QED
    BY <1>1, <2>1
<1>3. DOMAIN SizeOf = 1 .. Mine
  BY <1>2 DEF SizeOf
<1>4. ASSUME NEW a \in 1 .. Mine, NEW i \in Nat
      PROVE  Cell(a, i) \in 0 .. SizeOf[a] - 1 /\ Cell(a, i) = i % SizeOf[a]
  <2>1. SizeOf[a] \in Nat \ {0}
    BY <1>1, <1>2
  <2> QED
    BY <2>1, ModRange DEF Cell
<1>5. Mine \in 1 .. Mine
  <2>1. \A n \in Nat \ {0} : n \in 1 .. n
    OBVIOUS
  <2> QED
    BY <1>2, <2>1
<1> QED
  BY <1>1, <1>2, <1>3, <1>4, <1>5

\* The deque fits into the owner's array.
LEMMA DequeFits ==
  ASSUME IInv
  PROVE  LogicalBottom - top <= SizeOf[Mine]
<1> DEFINE n == SizeOf[Mine]
<1>1. n \in Nat
  BY ArrayTypes
<1>2. LogicalBottom - cachedTop <= n
  BY DEF IInv, Decided
<1> HIDE DEF n
<1>3. LogicalBottom - top <= n
  BY <1>1, <1>2, IndexTypes
<1> QED
  BY <1>3 DEF n

\* Indices less than an array apart have different cells.
LEMMA CellsApart ==
  ASSUME NEW n \in Nat \ {0}, NEW c \in Nat,
         NEW i \in c .. c + n - 1, NEW j \in c .. c + n - 1, i % n = j % n
  PROVE  i = j
<1>1. i \in Nat /\ j \in Nat /\ i < j + n /\ j < i + n
  OBVIOUS
<1>2. ~(i < j) /\ ~(j < i)
  BY <1>1, ModInjective
<1> QED
  BY <1>1, <1>2

\* The deque fits into the owner's array, so its indices have different cells.
LEMMA ItemsApart ==
  ASSUME IInv, NEW i \in InDeque, NEW j \in InDeque, Cell(Mine, i) = Cell(Mine, j)
  PROVE  i = j
<1> DEFINE n == SizeOf[Mine]
<1>1. /\ n \in Nat \ {0} /\ LogicalBottom - cachedTop <= n
      /\ i % n = j % n
  <2>1. n \in Nat \ {0}
    BY ArrayTypes
  <2>2. LogicalBottom - cachedTop <= n
    BY DEF IInv, Decided
  <2>3. i % n = j % n
    BY DEF Cell
  <2> QED
    BY <2>1, <2>2, <2>3
<1> HIDE DEF n
<1>2. i \in cachedTop .. cachedTop + n - 1 /\ j \in cachedTop .. cachedTop + n - 1
  BY <1>1, IndexTypes
<1>3. cachedTop \in Nat
  BY IndexTypes
<1> QED
  BY <1>1, <1>2, <1>3, CellsApart

\* A buffered store of an item.
LEMMA BufferedItem ==
  ASSUME IInv, NEW m \in 1 .. Len(sb), Is(m, "slot")
  PROVE  /\ sb[m].a \in 1 .. Mine /\ sb[m].i \in InDeque /\ sb[m].i \in Nat
         /\ sb[m].val = ItemAt[sb[m].i] /\ memBottom <= sb[m].i
         /\ \A l \in 1 .. m - 1 : Is(l, "bottom") => sb[l].val <= sb[m].i
         /\ ItemAt[sb[m].i] \in Item
BY IndexTypes DEF IInv, Buffered, SlotsRight

\* The stores of the store buffer are stores.
LEMMA StoreTypes ==
  ASSUME NEW q \in Seq(Store), NEW m \in 1 .. Len(q)
  PROVE  /\ q[m].to \in {"slot", "array", "bottom"} /\ q[m].a \in Nat
         /\ q[m].i \in Nat /\ q[m].val \in Int /\ q[m].val \in Nat \union {-1}
<1>1. q[m] \in Store
  OBVIOUS
<1> QED
  BY <1>1 DEF Store

-----------------------------------------------------------------------------
(* Steps that leave the deque and memory alone *)

\* The fresh deque satisfies the inductive invariant.
LEMMA InitInv == Init => IInv
<1> SUFFICES ASSUME Init PROVE IInv
  OBVIOUS
<1> USE DEF Init
<1>0. FirstSize[kind] \in Nat \ {0}
  BY WsqAssumption
<1> DEFINE c == FirstSize[kind]
           A == NewArray(c)
<1>1. /\ arrays = <<A>> /\ DOMAIN arrays = 1 .. 1 /\ Len(arrays) = 1 /\ arrays[1] = A
  OBVIOUS
<1>2. A \in [0 .. c - 1 -> Item \union {None}] /\ DOMAIN A = 0 .. c - 1
  BY DEF NewArray
<1>3. Cardinality(0 .. c - 1) = c
  <2>1. 0 \in Int /\ c - 1 \in Int /\ ~(0 > c - 1) /\ (c - 1) - 0 + 1 = c
    BY <1>0
  <2> HIDE DEF c
  <2> QED
    BY <2>1, FS_Interval
<1> HIDE DEF A, c
<1>4. SizeOf[1] = c /\ Mine = 1
  BY <1>1, <1>2, <1>3 DEF SizeOf, Mine
<1>5. LogicalBottom = 0 /\ InDeque = {}
  BY DEF LogicalBottom, InDeque
<1>6. TypeOK
  <2>1. arrays \in Seq({arrays[a] : a \in DOMAIN arrays})
    BY <1>1
  <2>2. \A a \in DOMAIN arrays :
          /\ SizeOf[a] \in Nat \ {0}
          /\ arrays[a] \in [0 .. SizeOf[a] - 1 -> Item \union {None}]
    BY <1>0, <1>1, <1>2, <1>4 DEF c
  <2> QED
    BY <1>1, <2>1, <2>2 DEF TypeOK
<1>7. Decided
  BY <1>0, <1>4, <1>5 DEF Decided, c
<1>8. Buffered
  BY <1>4, <1>5 DEF Buffered
<1>9. SlotsRight /\ Homes
  BY <1>5 DEF SlotsRight, Homes
<1>10. ThievesRight
  BY DEF ThievesRight
<1> QED
  BY <1>6, <1>7, <1>8, <1>9, <1>10 DEF IInv

\* Nobody sees a difference: the deque holds the same items, and none left it.
Unseen == /\ LogicalBottom' = LogicalBottom
          /\ UNCHANGED <<top, handed>>
          /\ \A j \in InDeque : ItemAt'[j] = ItemAt[j]

\* The memory, its store buffer and the bounds of the deque stay as they are.
LEMMA MemoryKept ==
  ASSUME IInv, LogicalBottom' = LogicalBottom,
         UNCHANGED <<arrays, array, top, memBottom, sb, bottom, pushed, handed>>,
         pc = "store" => pc' = "store"
  PROVE  /\ Buffered' /\ SlotsRight' /\ Homes' /\ Unseen
         /\ SizeOf' = SizeOf /\ ItemAt' = ItemAt /\ InDeque' = InDeque
<1>1. InDeque' = InDeque
  BY DEF InDeque
<1>2. SizeOf' = SizeOf /\ Mine' = Mine
  BY DEF SizeOf, Mine
<1>3. ItemAt' = ItemAt
  BY <1>1, <1>2 DEF ItemAt, OwnerReads, Cell
<1>4. Buffered'
  BY <1>1, <1>2, <1>3 DEF IInv, Buffered, Is
<1>5. SlotsRight'
  BY <1>1, <1>3 DEF IInv, SlotsRight
<1>6. Homes'
  BY <1>1, <1>2, <1>3 DEF IInv, Homes, Is, Buffers, Cell
<1>7. Unseen
  BY <1>3 DEF Unseen
<1> QED
  BY <1>1, <1>2, <1>3, <1>4, <1>5, <1>6, <1>7

\* The owner moves on, without touching memory.
LEMMA QuietKeeps ==
  ASSUME IInv, LogicalBottom' = LogicalBottom,
         UNCHANGED <<kind, arrays, array, top, memBottom, sb, bottom, pushed, handed,
                     thiefVars>>,
         pc = "store" => pc' = "store",
         pc' = "gone" => \A t \in Thief : tPc[t] = "idle",
         pc' \in {"idle", "load", "store", "fence", "popTop", "popCas", "gone"},
         arg' \in Seq(Item), cachedTop' \in Nat, live' \subseteq DOMAIN arrays
  PROVE  /\ TypeOK' /\ Buffered' /\ SlotsRight' /\ Homes' /\ ThievesRight' /\ Unseen
         /\ SizeOf' = SizeOf /\ Mine' = Mine
<1> USE DEF thiefVars
<1>1. /\ Buffered' /\ SlotsRight' /\ Homes' /\ Unseen
      /\ SizeOf' = SizeOf /\ ItemAt' = ItemAt /\ InDeque' = InDeque
  BY MemoryKept
<1>2. Mine' = Mine
  BY DEF Mine
<1>3. TypeOK'
  <2>1. TypeOK /\ SizeOf' = SizeOf
    BY <1>1 DEF IInv
  <2>2. /\ kind' \in Kinds
        /\ arrays' \in Seq({arrays'[a] : a \in DOMAIN arrays'})
        /\ \A a \in DOMAIN arrays' :
             /\ SizeOf'[a] \in Nat \ {0}
             /\ arrays'[a] \in [0 .. SizeOf'[a] - 1 -> Item \union {None}]
        /\ live' \subseteq DOMAIN arrays' /\ array' \in DOMAIN arrays'
    BY <2>1 DEF TypeOK
  <2>3. /\ {top', cachedTop', pushed'} \subseteq Nat /\ sb' \in Seq(Store)
        /\ {bottom', memBottom'} \subseteq Nat \union {-1}
    BY <2>1 DEF TypeOK
  <2>4. /\ tPc' \in [Thief -> {"idle", "bottom", "array", "read", "cas"}]
        /\ tTop' \in [Thief -> Nat] /\ tArr' \in [Thief -> DOMAIN arrays']
        /\ tVal' \in [Thief -> Item \union {None}]
        /\ handed' \in [Item -> Nat]
    BY <2>1 DEF TypeOK
  <2> QED
    BY <2>2, <2>3, <2>4, Zenon DEF TypeOK
<1>4. ThievesRight'
  <2>1. \A a, j : Holds(a, j)' <=> Holds(a, j)
    BY <1>1 DEF Holds, Buffers, Is, Cell
  <2>2. UNCHANGED <<top, LogicalBottom, array, sb, tPc, tTop, tArr, tVal>>
    OBVIOUS
  <2> QED
    BY <1>1, <1>2, <2>1, <2>2 DEF IInv, ThievesRight, Is
<1> QED
  BY <1>1, <1>2, <1>3, <1>4

\* A push begins: the new items are numbered from pushed on.
LEMMA CallPushInv ==
  ASSUME IInv, NEW n \in 1 .. MaxBulk, CallPush(n)
  PROVE  IInv' /\ Unseen
<1>1. /\ pc = "idle" /\ pushed + n <= MaxItems
      /\ arg' = [k \in 1 .. n |-> pushed + k - 1]
      /\ pc' = IF NoRoom(n, cachedTop) THEN "load" ELSE "store"
      /\ UNCHANGED <<kind, shared, sb, bottom, cachedTop, pushed, thiefVars, handed>>
  BY DEF CallPush
<1>2. n \in Nat /\ n >= 1 /\ pushed \in Nat
  BY WsqAssumption, IndexTypes
<1>3. /\ arg' \in Seq(Item) /\ Len(arg') = n /\ arg' # <<>>
      /\ \A k \in 1 .. n : arg'[k] = pushed + k - 1
  <2>1. \A k \in 1 .. n : pushed + k - 1 \in Item
    BY <1>1, <1>2, WsqAssumption DEF Item
  <2>2. arg' \in [1 .. n -> Item]
    BY <1>1, <2>1
  <2>3. arg' \in Seq(Item) /\ Len(arg') = n
    BY <1>2, <2>2, FunctionIsSeq
  <2>4. arg' # <<>>
    BY <1>2, <2>3
  <2> QED
    BY <1>1, <2>3, <2>4
<1>4. LogicalBottom' = LogicalBottom
  BY <1>1 DEF LogicalBottom
<1>5. /\ TypeOK' /\ Buffered' /\ SlotsRight' /\ Homes' /\ ThievesRight' /\ Unseen
      /\ SizeOf' = SizeOf /\ Mine' = Mine
  <2>1. cachedTop' \in Nat /\ live' \subseteq DOMAIN arrays
    BY <1>1, IndexTypes DEF shared, IInv, TypeOK
  <2>2. pc' \in {"load", "store"}
    BY <1>1
  <2> QED
    BY <1>1, <1>3, <1>4, <2>1, <2>2, QuietKeeps DEF shared
<1>6. Decided'
  <2>1. pc' = "store" => ~NoRoom(n, cachedTop)
    BY <1>1
  <2>2. pc' = "store" => ~NoRoom(Len(arg), cachedTop)'
    BY <1>1, <1>3, <1>5, <2>1 DEF NoRoom, shared
  <2>3. pc' \in {"load", "store"} /\ Len(arg') = n /\ pushed' = pushed
    BY <1>1, <1>3
  <2>4. /\ kind' = kind /\ live' = live /\ cachedTop' = cachedTop /\ top' = top
        /\ Mine' = Mine /\ SizeOf' = SizeOf
    BY <1>1, <1>5 DEF shared
  <2> QED
    BY <1>1, <1>3, <1>4, <2>2, <2>3, <2>4 DEF IInv, Decided
<1> QED
  BY <1>5, <1>6 DEF IInv

\* The owner refreshes its copy of top: there is room, or a full queue refuses.
LEMMA RefreshInv ==
  ASSUME IInv, Refuse \/ Reload
  PROVE  IInv' /\ Unseen
<1>1. /\ pc = "load" /\ cachedTop' = top
      /\ \/ pc' = "idle" /\ arg' = <<>>
         \/ pc' = "store" /\ arg' = arg /\ ~NoRoom(Len(arg), top)
      /\ UNCHANGED <<kind, shared, sb, bottom, pushed, thiefVars, handed>>
  BY DEF Refuse, Reload
<1>2. LogicalBottom' = LogicalBottom /\ LogicalBottom = bottom
  BY <1>1 DEF LogicalBottom
<1>3. arg \in Seq(Item) /\ <<>> \in Seq(Item) /\ Len(<<>>) = 0
  BY DEF IInv, TypeOK
<1>4. /\ TypeOK' /\ Buffered' /\ SlotsRight' /\ Homes' /\ ThievesRight' /\ Unseen
      /\ SizeOf' = SizeOf /\ Mine' = Mine
  <2>1. cachedTop' \in Nat /\ live' \subseteq DOMAIN arrays /\ arg' \in Seq(Item)
    BY <1>1, <1>3, IndexTypes DEF shared, IInv, TypeOK
  <2>2. pc' \in {"idle", "store"}
    BY <1>1
  <2> QED
    BY <1>1, <1>2, <2>1, <2>2, QuietKeeps DEF shared
<1>5. LogicalBottom - top <= SizeOf[Mine]
  BY DequeFits
<1>6. Decided'
  <2>1. pc' = "store" => ~NoRoom(Len(arg), cachedTop)'
    BY <1>1, <1>4 DEF NoRoom, shared
  <2>2. \A k \in 1 .. Len(arg') : arg'[k] = pushed' + k - 1
    BY <1>1, <1>3 DEF IInv, Decided
  <2>3. pc' = "store" => arg' # <<>>
    BY <1>1 DEF IInv, Decided
  <2>4. /\ kind' = kind /\ live' = live /\ cachedTop' = top /\ top' = top
        /\ Mine' = Mine /\ SizeOf' = SizeOf /\ pushed' = pushed
    BY <1>1, <1>4 DEF shared
  <2>5. top <= top
    BY IndexTypes
  <2>6. pc' \in {"idle", "store"}
    BY <1>1
  <2> QED
    BY <1>1, <1>2, <1>5, <2>1, <2>2, <2>3, <2>4, <2>5, <2>6 DEF IInv, Decided
<1> QED
  BY <1>4, <1>6 DEF IInv

\* The owner gets past the fence, or finds that it must compete for the last item;
\* or the queue is destroyed.
LEMMA PassInv ==
  ASSUME IInv, Fence \/ PopLast \/ Destroy \/ UNCHANGED vars
  PROVE  IInv' /\ Unseen
<1>1. /\ \/ pc = "fence" /\ sb = <<>> /\ pc' = "popTop" /\ live' = live
         \/ pc = "popTop" /\ top = bottom /\ pc' = "popCas" /\ live' = live
         \/ /\ pc = "idle" /\ pc' = "gone" /\ live' = live \ (1 .. Mine)
            /\ \A t \in Thief : tPc[t] = "idle"
         \/ pc' = pc /\ live' = live
      /\ UNCHANGED <<kind, arrays, array, top, memBottom, sb, bottom, cachedTop,
                     arg, pushed, thiefVars, handed>>
  BY DEF Fence, PopLast, Destroy, shared, vars, ownerVars
<1>2. LogicalBottom' = LogicalBottom
  BY <1>1 DEF LogicalBottom
<1>3. /\ TypeOK' /\ Buffered' /\ SlotsRight' /\ Homes' /\ ThievesRight' /\ Unseen
      /\ SizeOf' = SizeOf /\ Mine' = Mine
  <2>1. cachedTop' \in Nat /\ live' \subseteq DOMAIN arrays /\ arg' \in Seq(Item)
    BY <1>1 DEF IInv, TypeOK
  <2>2. pc' \in {"idle", "load", "store", "fence", "popTop", "popCas", "gone"}
    BY <1>1 DEF IInv, TypeOK
  <2>3. pc = "store" => pc' = "store"
    BY <1>1
  <2>4. pc' = "gone" => \A t \in Thief : tPc[t] = "idle"
    BY <1>1 DEF IInv, ThievesRight
  <2> QED
    BY <1>1, <1>2, <2>1, <2>2, <2>3, <2>4, QuietKeeps
<1>4. Decided'
  <2>1. live' = IF pc' = "gone" THEN {} ELSE 1 .. Mine'
    BY <1>1, <1>3 DEF IInv, Decided
  <2>2. pc' = "store" => ~NoRoom(Len(arg), cachedTop)'
    BY <1>1, <1>3 DEF NoRoom, IInv, Decided
  <2>3. /\ pc' \in {"load", "store"} => pc' = pc
        /\ pc' \in {"popTop", "popCas"} => sb = <<>>
        /\ pc' = "popCas" => top >= bottom
    BY <1>1, IndexTypes DEF IInv, Decided
  <2>4. /\ kind' = kind /\ cachedTop' = cachedTop /\ top' = top /\ sb' = sb
        /\ Mine' = Mine /\ SizeOf' = SizeOf /\ pushed' = pushed /\ arg' = arg
        /\ bottom' = bottom
    BY <1>1, <1>3
  <2> QED
    BY <1>2, <2>1, <2>2, <2>3, <2>4 DEF IInv, Decided
<1> QED
  BY <1>3, <1>4 DEF IInv

-----------------------------------------------------------------------------
(* Steps of a thief before its CAS *)

\* ThievesRight of one thief, which is at l with top i, array a and value v.
ThiefRight(l, i, a, v) ==
  /\ i <= top
  /\ l # "idle" => pc # "gone"
  /\ l \in {"array", "read", "cas"} /\ i = top =>
       /\ top < LogicalBottom
       /\ \A m \in 1 .. Len(sb) : Is(m, "slot") => sb[m].i # top
       /\ l = "array" => \A b \in array .. Mine : Holds(b, top)
       /\ l = "read" => Holds(a, top)
       /\ l = "cas" => v = ItemAt[top]

\* The types of a thief's variables.
ThiefTypes == /\ tPc \in [Thief -> {"idle", "bottom", "array", "read", "cas"}]
              /\ tTop \in [Thief -> Nat] /\ tArr \in [Thief -> DOMAIN arrays]
              /\ tVal \in [Thief -> Item \union {None}]

\* Only a thief moves, and it is right about what it knows.
LEMMA ThiefKeeps ==
  ASSUME IInv, NEW t \in Thief,
         UNCHANGED <<kind, shared, ownerVars, handed>>, ThiefTypes',
         \A u \in Thief : u # t => /\ tPc'[u] = tPc[u] /\ tTop'[u] = tTop[u]
                                   /\ tArr'[u] = tArr[u] /\ tVal'[u] = tVal[u],
         ThiefRight(tPc'[t], tTop'[t], tArr'[t], tVal'[t])
  PROVE  IInv' /\ Unseen
<1> USE DEF shared, ownerVars
<1>1. LogicalBottom' = LogicalBottom /\ Mine' = Mine
  BY DEF LogicalBottom, Mine
<1>2. /\ Buffered' /\ SlotsRight' /\ Homes' /\ Unseen
      /\ SizeOf' = SizeOf /\ ItemAt' = ItemAt /\ InDeque' = InDeque
  BY <1>1, MemoryKept
<1>3. TypeOK'
  <2>1. TypeOK
    BY DEF IInv
  <2>2. UNCHANGED <<kind, arrays, live, array, top, memBottom, sb, bottom, cachedTop,
                    pc, arg, pushed, handed>>
    OBVIOUS
  <2>3. /\ tPc' \in [Thief -> {"idle", "bottom", "array", "read", "cas"}]
        /\ tTop' \in [Thief -> Nat] /\ tArr' \in [Thief -> DOMAIN arrays']
        /\ tVal' \in [Thief -> Item \union {None}]
    BY DEF ThiefTypes
  <2>4. /\ arrays' \in Seq({arrays'[a] : a \in DOMAIN arrays'})
        /\ \A a \in DOMAIN arrays' :
             /\ SizeOf'[a] \in Nat \ {0}
             /\ arrays'[a] \in [0 .. SizeOf'[a] - 1 -> Item \union {None}]
    <3>1. arrays' = arrays /\ SizeOf' = SizeOf
      BY <1>2, <2>2
    <3> QED
      BY <2>1, <3>1 DEF TypeOK
  <2>5. kind' \in Kinds /\ live' \subseteq DOMAIN arrays' /\ array' \in DOMAIN arrays'
    BY <2>1, <2>2, Zenon DEF TypeOK
  <2>6. /\ sb' \in Seq(Store) /\ {top', cachedTop', pushed'} \subseteq Nat
        /\ {bottom', memBottom'} \subseteq Nat \union {-1}
        /\ pc' \in {"idle", "load", "store", "fence", "popTop", "popCas", "gone"}
        /\ arg' \in Seq(Item) /\ handed' \in [Item -> Nat]
    BY <2>1, <2>2, Zenon DEF TypeOK
  <2> QED
    BY <2>3, <2>4, <2>5, <2>6, Zenon DEF TypeOK
<1>4. Decided'
  BY <1>1, <1>2 DEF IInv, Decided, NoRoom
<1>5. \A u \in Thief : ThiefRight(tPc'[u], tTop'[u], tArr'[u], tVal'[u])
  <2>1. \A u \in Thief : ThiefRight(tPc[u], tTop[u], tArr[u], tVal[u])
    BY DEF IInv, ThievesRight, ThiefRight
  <2> QED
    BY <2>1
<1>6. ThievesRight'
  BY <1>1, <1>2, <1>5 DEF ThievesRight, ThiefRight, Is, Holds, Buffers, Cell
<1> QED
  BY <1>2, <1>3, <1>4, <1>6 DEF IInv

\* What the invariant says of one thief.
LEMMA ThiefIs ==
  ASSUME IInv, NEW t \in Thief
  PROVE  /\ ThiefRight(tPc[t], tTop[t], tArr[t], tVal[t]) /\ ThiefTypes
         /\ tTop[t] \in Nat /\ tArr[t] \in 1 .. Mine
         /\ tVal[t] \in Item \union {None}
<1>1. ThiefTypes
  BY DEF IInv, TypeOK, ThiefTypes
<1>2. tTop[t] \in Nat /\ tArr[t] \in 1 .. Mine /\ tVal[t] \in Item \union {None}
  BY <1>1, ArrayTypes DEF ThiefTypes
<1>3. ThiefRight(tPc[t], tTop[t], tArr[t], tVal[t])
  BY DEF IInv, ThievesRight, ThiefRight
<1> QED
  BY <1>1, <1>2, <1>3

\* A thief loads top.
LEMMA StealLoadTopInv ==
  ASSUME IInv, NEW t \in Thief, StealLoadTop(t)
  PROVE  IInv' /\ Unseen
<1>1. /\ tPc[t] = "idle" /\ pc # "gone"
      /\ tTop' = [tTop EXCEPT ![t] = top] /\ tPc' = [tPc EXCEPT ![t] = "bottom"]
      /\ UNCHANGED <<kind, tArr, tVal, ownerVars, shared, handed>>
  BY DEF StealLoadTop, TGoto
<1>2. ThiefTypes' /\ tTop'[t] = top /\ tPc'[t] = "bottom"
  BY <1>1, ThiefIs, IndexTypes DEF ThiefTypes, shared
<1>3. ThiefRight(tPc'[t], tTop'[t], tArr'[t], tVal'[t])
  BY <1>1, <1>2, IndexTypes DEF ThiefRight
<1>4. \A u \in Thief : u # t => /\ tPc'[u] = tPc[u] /\ tTop'[u] = tTop[u]
                                /\ tArr'[u] = tArr[u] /\ tVal'[u] = tVal[u]
  BY <1>1, ThiefIs DEF ThiefTypes
<1> QED
  BY <1>1, <1>2, <1>3, <1>4, ThiefKeeps

\* A thief finds nothing.
LEMMA StealEmptyInv ==
  ASSUME IInv, NEW t \in Thief, StealEmpty(t)
  PROVE  IInv' /\ Unseen
<1>1. /\ tPc' = [tPc EXCEPT ![t] = "idle"]
      /\ UNCHANGED <<kind, tTop, tArr, tVal, ownerVars, shared, handed>>
  BY DEF StealEmpty, TGoto
<1>2. ThiefTypes' /\ tPc'[t] = "idle"
  BY <1>1, ThiefIs DEF ThiefTypes, shared
<1>3. ThiefRight(tPc'[t], tTop'[t], tArr'[t], tVal'[t])
  BY <1>1, <1>2, ThiefIs DEF ThiefRight
<1>4. \A u \in Thief : u # t => /\ tPc'[u] = tPc[u] /\ tTop'[u] = tTop[u]
                                /\ tArr'[u] = tArr[u] /\ tVal'[u] = tVal[u]
  BY <1>1, ThiefIs DEF ThiefTypes
<1> QED
  BY <1>1, <1>2, <1>3, <1>4, ThiefKeeps

\* Once memory shows a bottom above an index of the deque, every array that can be
\* loaded holds its item, and no store to it is buffered.
LEMMA CoveredItem ==
  ASSUME IInv, NEW j \in InDeque, j < memBottom
  PROVE  /\ \A m \in 1 .. Len(sb) : Is(m, "slot") => sb[m].i # j
         /\ \A a \in array .. Mine : Holds(a, j)
<1>1. j \in Nat /\ memBottom \in Int
  BY IndexTypes
<1>2. \A m \in 1 .. Len(sb) : Is(m, "slot") => sb[m].i # j
  BY <1>1, BufferedItem
<1>3. PICK h \in 1 .. Mine :
         /\ \A a \in h .. Mine :
              /\ \/ arrays[a][Cell(a, j)] = ItemAt[j]
                 \/ \E m \in 1 .. Len(sb) : Buffers(m, a, j)
              /\ \A m \in 1 .. Len(sb) : Buffers(m, a, j) => sb[m].i = j
         /\ h <= array
  BY DEF IInv, Homes
<1>4. \A a \in array .. Mine : a \in h .. Mine
  BY <1>3, ArrayTypes
<1>5. ASSUME NEW a \in array .. Mine
      PROVE  Holds(a, j)
  <2>1. \A m \in 1 .. Len(sb) : ~Buffers(m, a, j)
    BY <1>2, <1>3, <1>4 DEF Buffers
  <2> QED
    BY <1>3, <1>4, <2>1 DEF Holds
<1> QED
  BY <1>2, <1>5

\* A thief loads the bottom in memory: it goes on only if there is an item, and the
\* arrays it may read hold it.
LEMMA StealLoadBottomInv ==
  ASSUME IInv, NEW t \in Thief, StealLoadBottom(t)
  PROVE  IInv' /\ Unseen
<1>1. /\ tPc[t] = "bottom" /\ tTop[t] < memBottom
      /\ tPc' = [tPc EXCEPT ![t] = IF kind = "bounded" THEN "read" ELSE "array"]
      /\ UNCHANGED <<kind, tTop, tArr, tVal, ownerVars, shared, handed>>
  BY DEF StealLoadBottom, TGoto
<1>2. /\ ThiefTypes' /\ tPc'[t] = IF kind = "bounded" THEN "read" ELSE "array"
      /\ tTop'[t] = tTop[t] /\ tArr'[t] = tArr[t]
  BY <1>1, ThiefIs DEF ThiefTypes, shared
<1>3. ThiefRight(tPc'[t], tTop'[t], tArr'[t], tVal'[t])
  <2>1. tTop[t] <= top /\ pc # "gone"
    BY <1>1, ThiefIs DEF ThiefRight
  <2>2. ASSUME tTop[t] = top
        PROVE  /\ top < LogicalBottom
               /\ \A m \in 1 .. Len(sb) : Is(m, "slot") => sb[m].i # top
               /\ \A b \in array .. Mine : Holds(b, top)
               /\ kind = "bounded" => Holds(tArr[t], top)
    <3>1. top < memBottom /\ memBottom <= LogicalBottom
      BY <1>1, <2>2 DEF IInv, Buffered
    <3>2. top < LogicalBottom /\ top \in InDeque
      BY <3>1, IndexTypes
    <3>3. /\ \A m \in 1 .. Len(sb) : Is(m, "slot") => sb[m].i # top
          /\ \A b \in array .. Mine : Holds(b, top)
      BY <3>1, <3>2, CoveredItem
    <3>4. kind = "bounded" => tArr[t] \in array .. Mine
      <4>1. kind = "bounded" => Mine = 1
        BY DEF IInv, Decided
      <4>2. tArr[t] \in 1 .. Mine /\ array \in 1 .. Mine
        BY ThiefIs, ArrayTypes
      <4>3. \A x, y \in 1 .. 1 : x \in y .. 1
        OBVIOUS
      <4> QED
        BY <4>1, <4>2, <4>3
    <3> QED
      BY <3>2, <3>3, <3>4
  <2> QED
    BY <1>2, <2>1, <2>2 DEF ThiefRight
<1>4. \A u \in Thief : u # t => /\ tPc'[u] = tPc[u] /\ tTop'[u] = tTop[u]
                                /\ tArr'[u] = tArr[u] /\ tVal'[u] = tVal[u]
  BY <1>1, ThiefIs DEF ThiefTypes
<1> QED
  BY <1>1, <1>2, <1>3, <1>4, ThiefKeeps

\* A thief loads the array.
LEMMA StealLoadArrayInv ==
  ASSUME IInv, NEW t \in Thief, StealLoadArray(t)
  PROVE  IInv' /\ Unseen
<1>1. /\ tPc[t] = "array"
      /\ tArr' = [tArr EXCEPT ![t] = array] /\ tPc' = [tPc EXCEPT ![t] = "read"]
      /\ UNCHANGED <<kind, tTop, tVal, ownerVars, shared, handed>>
  BY DEF StealLoadArray, TGoto
<1>2. /\ ThiefTypes' /\ tPc'[t] = "read" /\ tTop'[t] = tTop[t] /\ tArr'[t] = array
  BY <1>1, ThiefIs, ArrayTypes DEF ThiefTypes, shared
<1>3. ThiefRight(tPc'[t], tTop'[t], tArr'[t], tVal'[t])
  <2>1. array \in array .. Mine
    BY ArrayTypes
  <2> QED
    BY <1>1, <1>2, <2>1, ThiefIs DEF ThiefRight
<1>4. \A u \in Thief : u # t => /\ tPc'[u] = tPc[u] /\ tTop'[u] = tTop[u]
                                /\ tArr'[u] = tArr[u] /\ tVal'[u] = tVal[u]
  BY <1>1, ThiefIs DEF ThiefTypes
<1> QED
  BY <1>1, <1>2, <1>3, <1>4, ThiefKeeps

\* A thief reads the item: if top has not moved, it is the top item.
LEMMA StealReadInv ==
  ASSUME IInv, NEW t \in Thief, StealRead(t)
  PROVE  IInv' /\ Unseen
<1> DEFINE v == arrays[tArr[t]][Cell(tArr[t], tTop[t])]
<1>1. /\ tPc[t] = "read"
      /\ tVal' = [tVal EXCEPT ![t] = v] /\ tPc' = [tPc EXCEPT ![t] = "cas"]
      /\ UNCHANGED <<kind, tTop, tArr, ownerVars, shared, handed>>
  BY DEF StealRead, TGoto
<1>2. v \in Item \union {None}
  <2>1. tArr[t] \in 1 .. Mine /\ tTop[t] \in Nat
    BY ThiefIs
  <2> QED
    BY <2>1, ArrayTypes
<1>3. tTop[t] = top => (Holds(tArr[t], top) => v = ItemAt[top])
  BY DEF Holds
<1> HIDE DEF v
<1>4. /\ ThiefTypes' /\ tPc'[t] = "cas" /\ tTop'[t] = tTop[t] /\ tVal'[t] = v
  BY <1>1, <1>2, ThiefIs DEF ThiefTypes, shared
<1>5. ThiefRight(tPc'[t], tTop'[t], tArr'[t], tVal'[t])
  BY <1>1, <1>3, <1>4, ThiefIs DEF ThiefRight
<1>6. \A u \in Thief : u # t => /\ tPc'[u] = tPc[u] /\ tTop'[u] = tTop[u]
                                /\ tArr'[u] = tArr[u] /\ tVal'[u] = tVal[u]
  BY <1>1, ThiefIs DEF ThiefTypes
<1> QED
  BY <1>1, <1>4, <1>5, <1>6, ThiefKeeps

-----------------------------------------------------------------------------
(* The CAS of a thief *)

\* The arrays stay: what else has to keep its type.
LEMMA TypesKept ==
  ASSUME IInv, kind' = kind, arrays' = arrays, live' = live, array' = array,
         sb' \in Seq(Store), top' \in Nat, cachedTop' \in Nat, pushed' \in Nat,
         bottom' \in Nat \union {-1}, memBottom' \in Nat \union {-1},
         pc' \in {"idle", "load", "store", "fence", "popTop", "popCas", "gone"},
         arg' \in Seq(Item), ThiefTypes', handed' \in [Item -> Nat]
  PROVE  TypeOK' /\ SizeOf' = SizeOf /\ Mine' = Mine
<1>1. SizeOf' = SizeOf /\ Mine' = Mine
  BY DEF SizeOf, Mine
<1>2. /\ arrays' \in Seq({arrays'[a] : a \in DOMAIN arrays'})
      /\ \A a \in DOMAIN arrays' :
           /\ SizeOf'[a] \in Nat \ {0}
           /\ arrays'[a] \in [0 .. SizeOf'[a] - 1 -> Item \union {None}]
  <2>1. TypeOK /\ arrays' = arrays /\ SizeOf' = SizeOf
    BY <1>1 DEF IInv
  <2> QED
    BY <2>1 DEF TypeOK
<1>3. kind' \in Kinds /\ live' \subseteq DOMAIN arrays' /\ array' \in DOMAIN arrays'
  BY DEF IInv, TypeOK
<1>4. /\ tPc' \in [Thief -> {"idle", "bottom", "array", "read", "cas"}]
      /\ tTop' \in [Thief -> Nat] /\ tArr' \in [Thief -> DOMAIN arrays']
      /\ tVal' \in [Thief -> Item \union {None}]
  BY DEF ThiefTypes
<1>5. {top', cachedTop', pushed'} \subseteq Nat
      /\ {bottom', memBottom'} \subseteq Nat \union {-1}
  OBVIOUS
<1> QED
  BY <1>1, <1>2, <1>3, <1>4, <1>5, Zenon DEF TypeOK

\* Items leave the deque, and memory stays as it is.
LEMMA ShrunkKeeps ==
  ASSUME IInv, UNCHANGED <<arrays, array, memBottom, sb>>, InDeque' \subseteq InDeque
  PROVE  /\ SizeOf' = SizeOf /\ Mine' = Mine
         /\ \A j \in InDeque' : ItemAt'[j] = ItemAt[j]
         /\ Homes'
<1>1. SizeOf' = SizeOf /\ Mine' = Mine
  BY DEF SizeOf, Mine
<1>2. \A j \in InDeque' : ItemAt'[j] = ItemAt[j]
  BY <1>1 DEF ItemAt, OwnerReads, Cell
<1>3. Homes'
  <2>1. \A m, a, j : Buffers(m, a, j)' <=> Buffers(m, a, j)
    BY <1>1 DEF Buffers, Is, Cell
  <2>2. \A a, j : Cell(a, j)' = Cell(a, j)
    BY <1>1 DEF Cell
  <2>3. \A j \in InDeque' : j \in InDeque
    OBVIOUS
  <2>4. Homes
    BY DEF IInv
  <2> QED
    BY <1>1, <1>2, <2>1, <2>2, <2>3, <2>4 DEF Homes, Is
<1> QED
  BY <1>1, <1>2, <1>3

\* An item is handed out as it leaves the deque.
LEMMA RemovedRight ==
  ASSUME IInv, NEW k \in InDeque, InDeque' \subseteq InDeque \ {k},
         \A j \in InDeque' : ItemAt'[j] = ItemAt[j],
         handed' = [handed EXCEPT ![ItemAt[k]] = @ + 1], pushed' = pushed
  PROVE  SlotsRight' /\ handed' \in [Item -> Nat]
<1>1. /\ ItemAt[k] \in Item /\ ItemAt[k] < pushed /\ ItemAt[k] \in Nat
      /\ pushed \in Nat /\ handed \in [Item -> Nat] /\ k \in Nat
  <2>1. ItemAt[k] \in Item /\ ItemAt[k] < pushed
    BY DEF IInv, SlotsRight
  <2>2. handed \in [Item -> Nat]
    BY DEF IInv, TypeOK
  <2> QED
    BY <2>1, <2>2, IndexTypes DEF Item
<1>2. ASSUME NEW j \in InDeque'
      PROVE  /\ ItemAt'[j] \in Item /\ ItemAt'[j] < pushed'
             /\ handed'[ItemAt'[j]] = 0
             /\ \A i \in InDeque' : i < j => ItemAt'[i] < ItemAt'[j]
  <2>1. j \in InDeque /\ j # k /\ j \in Nat
    BY IndexTypes
  <2>2. /\ ItemAt[j] \in Item /\ ItemAt[j] < pushed /\ handed[ItemAt[j]] = 0
        /\ ItemAt[j] \in Nat
        /\ \A i \in InDeque : i < j => ItemAt[i] < ItemAt[j]
    BY <2>1 DEF IInv, SlotsRight, Item
  <2>3. ItemAt[j] # ItemAt[k]
    <3>1. k < j \/ j < k
      BY <1>1, <2>1
    <3>2. j < k => ItemAt[j] < ItemAt[k]
      BY <2>1 DEF IInv, SlotsRight
    <3> QED
      BY <1>1, <2>2, <3>1, <3>2
  <2>4. handed'[ItemAt[j]] = 0
    BY <1>1, <2>2, <2>3
  <2> QED
    BY <2>1, <2>2, <2>4
<1>3. \A i \in Item : i >= pushed => handed'[i] = 0
  BY <1>1 DEF IInv, SlotsRight, Item
<1>4. handed' \in [Item -> Nat]
  BY <1>1
<1> QED
  BY <1>2, <1>3, <1>4 DEF SlotsRight

\* The thief's own variables after its CAS.
LEMMA StealCasReset ==
  ASSUME IInv, NEW t \in Thief, StealCas(t)
  PROVE  /\ ThiefTypes' /\ tPc'[t] = "idle" /\ tTop'[t] = 0
         /\ \A u \in Thief : u # t => /\ tPc'[u] = tPc[u] /\ tTop'[u] = tTop[u]
                                      /\ tArr'[u] = tArr[u] /\ tVal'[u] = tVal[u]
<1>1. /\ tPc' = [tPc EXCEPT ![t] = "idle"] /\ tTop' = [tTop EXCEPT ![t] = 0]
      /\ tArr' = [tArr EXCEPT ![t] = 1] /\ tVal' = [tVal EXCEPT ![t] = None]
      /\ arrays' = arrays
  BY DEF StealCas, TGoto
<1>2. ThiefTypes /\ 1 \in DOMAIN arrays
  <2>1. \A n \in Nat \ {0} : 1 \in 1 .. n
    OBVIOUS
  <2> QED
    BY <2>1, ThiefIs, ArrayTypes
<1> QED
  BY <1>1, <1>2 DEF ThiefTypes

\* A stale thief fails and changes nothing.
LEMMA StealCasLostInv ==
  ASSUME IInv, NEW t \in Thief, StealCas(t), top # tTop[t]
  PROVE  IInv' /\ Unseen
<1>1. UNCHANGED <<kind, shared, ownerVars, handed>>
  BY DEF StealCas, shared
<1>2. ThiefRight(tPc'[t], tTop'[t], tArr'[t], tVal'[t])
  BY StealCasReset, IndexTypes DEF ThiefRight
<1> QED
  BY <1>1, <1>2, StealCasReset, ThiefKeeps

\* A thief whose CAS succeeds hands out the top item.
LEMMA StealCasWonInv ==
  ASSUME IInv, NEW t \in Thief, StealCas(t), top = tTop[t]
  PROVE  /\ IInv' /\ top \in InDeque /\ top' = top + 1
         /\ LogicalBottom' = LogicalBottom
         /\ handed' = [handed EXCEPT ![ItemAt[top]] = @ + 1]
         /\ \A j \in InDeque' : j \in InDeque /\ ItemAt'[j] = ItemAt[j]
<1>1. /\ tPc[t] = "cas" /\ top' = top + 1
      /\ handed' = [handed EXCEPT ![tVal[t]] = @ + 1]
      /\ UNCHANGED <<kind, arrays, live, array, memBottom, sb, bottom, cachedTop, pc,
                     arg, pushed>>
  BY DEF StealCas, HandOut, ownerVars
<1>2. /\ top < LogicalBottom /\ pc # "gone"
      /\ \A m \in 1 .. Len(sb) : Is(m, "slot") => sb[m].i # top
      /\ tVal[t] = ItemAt[top]
  BY <1>1, ThiefIs DEF ThiefRight
<1>3. /\ top \in InDeque /\ top \in Nat /\ top + 1 \in Nat
      /\ LogicalBottom' = LogicalBottom
      /\ \A j \in InDeque : j = top \/ j \in InDeque'
      /\ InDeque' \subseteq InDeque \ {top}
  <2>1. LogicalBottom' = LogicalBottom
    BY <1>1 DEF LogicalBottom
  <2> QED
    BY <1>1, <1>2, <2>1, IndexTypes DEF InDeque
<1>4. /\ SizeOf' = SizeOf /\ Mine' = Mine
      /\ \A j \in InDeque' : ItemAt'[j] = ItemAt[j]
      /\ Homes'
  BY <1>1, <1>3, ShrunkKeeps
<1>5. handed' = [handed EXCEPT ![ItemAt[top]] = @ + 1]
  BY <1>1, <1>2
<1>6. SlotsRight' /\ handed' \in [Item -> Nat]
  BY <1>1, <1>3, <1>4, <1>5, RemovedRight
<1>7. TypeOK'
  <2>1. /\ sb' \in Seq(Store) /\ top' \in Nat /\ cachedTop' \in Nat /\ pushed' \in Nat
        /\ bottom' \in Nat \union {-1} /\ memBottom' \in Nat \union {-1}
    BY <1>1, <1>3, IndexTypes
  <2>2. /\ pc' \in {"idle", "load", "store", "fence", "popTop", "popCas", "gone"}
        /\ arg' \in Seq(Item)
    BY <1>1 DEF IInv, TypeOK
  <2> QED
    BY <1>1, <1>6, <2>1, <2>2, StealCasReset, TypesKept
<1>8. Decided'
  <2>1. cachedTop <= top' /\ top' <= LogicalBottom /\ (top >= bottom => top' >= bottom)
    BY <1>1, <1>2, IndexTypes
  <2> QED
    BY <1>1, <1>3, <1>4, <2>1 DEF IInv, Decided, NoRoom
<1>9. Buffered'
  <2>1. ASSUME NEW m \in 1 .. Len(sb), Is(m, "slot")
        PROVE  /\ sb[m].a \in 1 .. Mine /\ sb[m].i \in InDeque'
               /\ sb[m].val = ItemAt'[sb[m].i]
               /\ memBottom <= sb[m].i
               /\ \A l \in 1 .. m - 1 : Is(l, "bottom") => sb[l].val <= sb[m].i
    BY <1>2, <1>3, <1>4, <2>1, BufferedItem
  <2>2. \A m \in 1 .. Len(sb) :
          /\ Is(m, "bottom") => sb[m].val <= LogicalBottom
          /\ Is(m, "array") => /\ sb[m].val \in array .. Mine
                               /\ \A l \in 1 .. m - 1 :
                                    Is(l, "array") => sb[l].val <= sb[m].val
    BY DEF IInv, Buffered
  <2>3. /\ pc # "store" => IF sb = <<>> THEN memBottom = bottom
                                        ELSE sb[Len(sb)] = BottomStore(bottom)
        /\ memBottom <= LogicalBottom
        /\ array = Mine \/ \E m \in 1 .. Len(sb) : Is(m, "array") /\ sb[m].val = Mine
    BY DEF IInv, Buffered
  <2> QED
    BY <1>1, <1>3, <1>4, <2>1, <2>2, <2>3 DEF Buffered, Is
<1>10. ThievesRight'
  <2>1. \A u \in Thief : tTop'[u] < top'
    <3>1. \A u \in Thief : tTop[u] <= top /\ tTop[u] \in Nat
      BY ThiefIs DEF ThiefRight
    <3>2. \A u \in Thief : tTop'[u] = tTop[u] \/ tTop'[u] = 0
      BY StealCasReset
    <3> QED
      BY <1>1, <1>3, <3>1, <3>2
  <2>2. \A u \in Thief : tTop'[u] <= top' /\ tTop'[u] # top'
    <3>1. \A u \in Thief : tTop'[u] \in Nat
      BY StealCasReset DEF ThiefTypes
    <3> QED
      BY <1>1, <1>3, <2>1, <3>1
  <2>3. pc' # "gone"
    BY <1>1, <1>2
  <2> QED
    BY <2>2, <2>3 DEF ThievesRight
<1> QED
  BY <1>1, <1>3, <1>4, <1>5, <1>6, <1>7, <1>8, <1>9, <1>10 DEF IInv

-----------------------------------------------------------------------------
(* pop *)

\* A store of _bottom joins the store buffer.
LEMMA AppendBottom ==
  ASSUME sb \in Seq(Store), NEW b \in Nat \union {-1}, sb' = Append(sb, BottomStore(b))
  PROVE  /\ sb' \in Seq(Store) /\ Len(sb) \in Nat
         /\ Len(sb') = Len(sb) + 1 /\ sb' # <<>> /\ sb'[Len(sb')] = BottomStore(b)
         /\ \A m \in 1 .. Len(sb) : sb'[m] = sb[m] /\ m \in 1 .. Len(sb')
         /\ \A m \in 1 .. Len(sb') : m \in 1 .. Len(sb) \/ m = Len(sb) + 1
         /\ LET s == sb'[Len(sb) + 1] IN s.to = "bottom" /\ s.val = b
<1>1. BottomStore(b) \in Store
  BY DEF BottomStore, Store
<1>2. /\ sb' \in Seq(Store) /\ Len(sb') = Len(sb) + 1 /\ Len(sb) \in Nat
      /\ \A m \in 1 .. Len(sb) : sb'[m] = sb[m]
      /\ sb'[Len(sb) + 1] = BottomStore(b)
  BY <1>1, AppendProperties
<1>3. sb' # <<>>
  BY <1>2
<1>4. /\ \A m \in 1 .. Len(sb) : m \in 1 .. Len(sb')
      /\ \A m \in 1 .. Len(sb') : m \in 1 .. Len(sb) \/ m = Len(sb) + 1
  BY <1>2
<1>5. LET s == sb'[Len(sb) + 1] IN s.to = "bottom" /\ s.val = b
  BY <1>2 DEF BottomStore
<1> QED
  BY <1>2, <1>3, <1>4, <1>5

\* The owner moves bottom within a deque that stays the same.
LEMMA BottomKeeps ==
  ASSUME IInv, NEW b \in Nat \union {-1}, b <= LogicalBottom, bottom' = b,
         sb' = Append(sb, BottomStore(b)), LogicalBottom' = LogicalBottom,
         UNCHANGED <<kind, arrays, live, array, top, memBottom, cachedTop, arg, pushed,
                     thiefVars, handed>>,
         pc' \in {"idle", "fence"}
  PROVE  /\ TypeOK' /\ Buffered' /\ SlotsRight' /\ Homes' /\ ThievesRight' /\ Unseen
         /\ SizeOf' = SizeOf /\ Mine' = Mine
<1> USE DEF thiefVars
<1>0. sb \in Seq(Store)
  BY IndexTypes
<1>1. /\ sb' \in Seq(Store) /\ Len(sb) \in Nat
      /\ Len(sb') = Len(sb) + 1 /\ sb' # <<>> /\ sb'[Len(sb')] = BottomStore(b)
      /\ \A m \in 1 .. Len(sb) : sb'[m] = sb[m] /\ m \in 1 .. Len(sb')
      /\ \A m \in 1 .. Len(sb') : m \in 1 .. Len(sb) \/ m = Len(sb) + 1
      /\ sb'[Len(sb) + 1].to = "bottom" /\ sb'[Len(sb) + 1].val = b
  BY <1>0, AppendBottom
<1>2. TypeOK' /\ SizeOf' = SizeOf /\ Mine' = Mine
  <2>1. /\ top' \in Nat /\ cachedTop' \in Nat /\ pushed' \in Nat
        /\ bottom' \in Nat \union {-1} /\ memBottom' \in Nat \union {-1}
    BY IndexTypes
  <2>2. /\ pc' \in {"idle", "load", "store", "fence", "popTop", "popCas", "gone"}
        /\ arg' \in Seq(Item) /\ handed' \in [Item -> Nat] /\ ThiefTypes'
    BY DEF IInv, TypeOK, ThiefTypes
  <2> QED
    BY <1>1, <2>1, <2>2, TypesKept
<1>3. InDeque' = InDeque
  BY DEF InDeque
<1>4. \A m \in 1 .. Len(sb') : sb'[m].to # "bottom" =>
        m \in 1 .. Len(sb) /\ sb'[m] = sb[m]
  BY <1>1
<1>5. ASSUME NEW j \in InDeque
      PROVE  ItemAt'[j] = ItemAt[j]
  <2> DEFINE B(m) == sb[m].to = "slot" /\ sb[m].a = Mine
                       /\ sb[m].i % SizeOf[Mine] = j % SizeOf[Mine]
  <2>1. \A m \in 1 .. Len(sb) : B(m) => sb[m].val = ItemAt[j]
    <3> SUFFICES ASSUME NEW m \in 1 .. Len(sb), B(m) PROVE sb[m].val = ItemAt[j]
      OBVIOUS
    <3>1. Is(m, "slot") /\ sb[m].i \in InDeque /\ sb[m].val = ItemAt[sb[m].i]
      BY BufferedItem DEF Is
    <3>2. Cell(Mine, sb[m].i) = Cell(Mine, j)
      BY DEF Cell
    <3> QED
      BY <3>1, <3>2, ItemsApart
  <2>2. (\A m \in 1 .. Len(sb) : ~B(m)) => arrays[Mine][j % SizeOf[Mine]] = ItemAt[j]
    BY <1>0, ItemReads DEF Buffers, Is, Cell
  <2>3. OnlySees(j, ItemAt[j])
    <3>1. \A m \in 1 .. Len(sb') :
            (/\ sb'[m].to = "slot" /\ sb'[m].a = Mine'
             /\ sb'[m].i % SizeOf'[Mine'] = j % SizeOf'[Mine'])
              => sb'[m].val = ItemAt[j]
      <4> SUFFICES ASSUME NEW m \in 1 .. Len(sb'),
                          sb'[m].to = "slot", sb'[m].a = Mine',
                          sb'[m].i % SizeOf'[Mine'] = j % SizeOf'[Mine']
                   PROVE  sb'[m].val = ItemAt[j]
        OBVIOUS
      <4>1. m \in 1 .. Len(sb) /\ sb'[m] = sb[m]
        BY <1>4
      <4>2. B(m)
        BY <1>2, <4>1
      <4> QED
        BY <2>1, <4>1, <4>2
    <3>2. (\A m \in 1 .. Len(sb') :
             ~(/\ sb'[m].to = "slot" /\ sb'[m].a = Mine'
               /\ sb'[m].i % SizeOf'[Mine'] = j % SizeOf'[Mine']))
            => arrays'[Mine'][j % SizeOf'[Mine']] = ItemAt[j]
      BY <1>1, <1>2, <2>2
    <3> QED
      BY <3>1, <3>2 DEF OnlySees
  <2>4. j \in InDeque' /\ sb' \in Seq(Store)
    BY <1>1, <1>3
  <2> QED
    BY <2>3, <2>4, ItemIs
<1>6. Unseen
  BY <1>5 DEF Unseen
<1>7. SlotsRight'
  BY <1>3, <1>5 DEF IInv, SlotsRight
<1>8. Buffered'
  <2>1. sb' # <<>> /\ sb'[Len(sb')] = BottomStore(bottom') /\ memBottom' <= LogicalBottom'
    BY <1>1 DEF IInv, Buffered
  <2>2. array' = Mine' \/ \E m \in 1 .. Len(sb') : sb'[m].to = "array" /\ sb'[m].val = Mine'
    BY <1>1, <1>2 DEF IInv, Buffered, Is
  <2>3. ASSUME NEW m \in 1 .. Len(sb')
        PROVE  /\ sb'[m].to = "bottom" => sb'[m].val <= LogicalBottom'
               /\ sb'[m].to = "array" =>
                    /\ sb'[m].val \in array' .. Mine'
                    /\ \A l \in 1 .. m - 1 :
                         sb'[l].to = "array" => sb'[l].val <= sb'[m].val
               /\ sb'[m].to = "slot" =>
                    /\ sb'[m].a \in 1 .. Mine' /\ sb'[m].i \in InDeque'
                    /\ sb'[m].val = ItemAt'[sb'[m].i]
                    /\ memBottom' <= sb'[m].i
                    /\ \A l \in 1 .. m - 1 :
                         sb'[l].to = "bottom" => sb'[l].val <= sb'[m].i
    <3>1. CASE m = Len(sb) + 1
      BY <1>1, <3>1
    <3>2. CASE m \in 1 .. Len(sb)
      <4>1. sb'[m] = sb[m] /\ \A l \in 1 .. m - 1 : sb'[l] = sb[l]
        BY <1>1, <3>2
      <4> QED
        BY <1>2, <1>3, <1>5, <3>2, <4>1 DEF IInv, Buffered, Is
    <3> QED
      BY <1>1, <3>1, <3>2
  <2> QED
    BY <2>1, <2>2, <2>3 DEF Buffered, Is
<1>9. Homes'
  <2> DEFINE Slots(m, a, j) ==
        sb'[m].to = "slot" /\ sb'[m].a = a /\ Cell(a, sb'[m].i) = Cell(a, j)
  <2>0. /\ \A m, a, j : Buffers(m, a, j)' <=> Slots(m, a, j)
        /\ \A a, j : Cell(a, j)' = Cell(a, j)
    BY <1>2 DEF Buffers, Is, Cell
  <2> SUFFICES ASSUME NEW j \in InDeque
               PROVE  \E h \in 1 .. Mine :
                 /\ \A a \in h .. Mine :
                      /\ \/ arrays[a][Cell(a, j)] = ItemAt[j]
                         \/ \E m \in 1 .. Len(sb') : Slots(m, a, j)
                      /\ \A m \in 1 .. Len(sb') : Slots(m, a, j) => sb'[m].i = j
                 /\ j < memBottom => h <= array
                 /\ \A m \in 1 .. Len(sb') : sb'[m].to = "bottom" /\ j < sb'[m].val =>
                      \/ h <= array
                      \/ \E l \in 1 .. m - 1 : sb'[l].to = "array" /\ h <= sb'[l].val
    <3>1. InDeque' = InDeque /\ \A j \in InDeque : ItemAt'[j] = ItemAt[j]
      BY <1>3, <1>5
    <3> HIDE DEF Slots
    <3> QED
      BY <1>2, <2>0, <3>1 DEF Homes, Is
  <2>1. PICK h \in 1 .. Mine :
          /\ \A a \in h .. Mine :
               /\ \/ arrays[a][Cell(a, j)] = ItemAt[j]
                  \/ \E m \in 1 .. Len(sb) : Buffers(m, a, j)
               /\ \A m \in 1 .. Len(sb) : Buffers(m, a, j) => sb[m].i = j
          /\ j < memBottom => h <= array
          /\ \A m \in 1 .. Len(sb) : Is(m, "bottom") /\ j < sb[m].val =>
               \/ h <= array
               \/ \E l \in 1 .. m - 1 : Is(l, "array") /\ h <= sb[l].val
    BY DEF IInv, Homes
  <2>2. ASSUME NEW a \in h .. Mine
        PROVE  /\ \/ arrays[a][Cell(a, j)] = ItemAt[j]
                  \/ \E m \in 1 .. Len(sb') :
                       sb'[m].to = "slot" /\ sb'[m].a = a /\ Cell(a, sb'[m].i) = Cell(a, j)
               /\ \A m \in 1 .. Len(sb') :
                    sb'[m].to = "slot" /\ sb'[m].a = a /\ Cell(a, sb'[m].i) = Cell(a, j)
                      => sb'[m].i = j
    BY <1>1, <1>4, <2>1 DEF Buffers, Is
  <2>3. ASSUME NEW m \in 1 .. Len(sb'), sb'[m].to = "bottom", j < sb'[m].val
        PROVE  \/ h <= array
               \/ \E l \in 1 .. m - 1 : sb'[l].to = "array" /\ h <= sb'[l].val
    <3>1. CASE m = Len(sb) + 1
      <4>1. array = Mine \/ \E l \in 1 .. Len(sb) : Is(l, "array") /\ sb[l].val = Mine
        BY DEF IInv, Buffered
      <4>2. h <= Mine /\ Len(sb) = m - 1
        BY <1>1, <3>1, ArrayTypes
      <4>3. CASE array = Mine
        BY <4>2, <4>3
      <4>4. CASE \E l \in 1 .. Len(sb) : Is(l, "array") /\ sb[l].val = Mine
        <5>1. PICK l \in 1 .. Len(sb) : Is(l, "array") /\ sb[l].val = Mine
          BY <4>4
        <5>2. l \in 1 .. m - 1 /\ sb'[l].to = "array" /\ h <= sb'[l].val
          BY <1>1, <4>2, <5>1 DEF Is
        <5> QED
          BY <5>2
      <4> QED
        BY <4>1, <4>3, <4>4
    <3>2. CASE m \in 1 .. Len(sb)
      <4>1. sb'[m] = sb[m] /\ \A l \in 1 .. m - 1 : sb'[l] = sb[l]
        BY <1>1, <3>2
      <4> QED
        BY <2>1, <2>3, <3>2, <4>1 DEF Is
    <3> QED
      BY <1>1, <3>1, <3>2
  <2> QED
    BY <2>1, <2>2, <2>3
<1>10. ThievesRight'
  <2> SUFFICES ASSUME NEW t \in Thief
               PROVE  /\ tTop[t] <= top
                      /\ tPc[t] \in {"array", "read", "cas"} /\ tTop[t] = top =>
                           /\ top < LogicalBottom
                           /\ \A m \in 1 .. Len(sb') : sb'[m].to = "slot" => sb'[m].i # top
                           /\ tPc[t] = "array" => \A a \in array .. Mine : Holds(a, top)'
                           /\ tPc[t] = "read" => Holds(tArr[t], top)'
                           /\ tPc[t] = "cas" => tVal[t] = ItemAt'[top]
    BY <1>2 DEF ThievesRight, Is, Holds, Buffers, Cell
  <2>1. ThiefRight(tPc[t], tTop[t], tArr[t], tVal[t])
    BY ThiefIs
  <2>2. ASSUME NEW a, top \in InDeque, Holds(a, top)
        PROVE  Holds(a, top)'
    BY <1>1, <1>2, <1>4, <1>5, <2>2 DEF Holds, Buffers, Is, Cell
  <2>3. top < LogicalBottom => top \in InDeque
    BY IndexTypes
  <2> QED
    BY <1>4, <1>5, <2>1, <2>2, <2>3 DEF ThiefRight, Is
<1> QED
  BY <1>2, <1>6, <1>7, <1>8, <1>9, <1>10

\* The owner takes the bottom item back, and the deque still holds it.
LEMMA CallPopInv ==
  ASSUME IInv, CallPop
  PROVE  IInv' /\ Unseen
<1>1. /\ pc = "idle" /\ pc' = "fence" /\ bottom' = bottom - 1
      /\ sb' = Append(sb, BottomStore(bottom - 1))
      /\ UNCHANGED <<kind, arrays, live, array, top, memBottom, cachedTop, arg, pushed,
                     thiefVars, handed>>
  BY DEF CallPop, SetBottom, shared
<1>2. LogicalBottom = bottom /\ LogicalBottom' = (bottom - 1) + 1
  BY <1>1 DEF LogicalBottom
<1>3. /\ bottom - 1 \in Nat \union {-1} /\ bottom - 1 <= LogicalBottom
      /\ LogicalBottom' = LogicalBottom
  BY <1>2, IndexTypes
<1>4. /\ TypeOK' /\ Buffered' /\ SlotsRight' /\ Homes' /\ ThievesRight' /\ Unseen
      /\ SizeOf' = SizeOf /\ Mine' = Mine
  BY <1>1, <1>3, BottomKeeps
<1>5. Decided'
  <2>1. /\ kind' = kind /\ live' = live /\ cachedTop' = cachedTop /\ top' = top
        /\ pushed' = pushed /\ arg' = arg
    BY <1>1
  <2> QED
    BY <1>1, <1>3, <1>4, <2>1 DEF IInv, Decided
<1> QED
  BY <1>4, <1>5 DEF IInv

\* The owner finds the queue empty, or loses the last item to a thief: it gives up.
LEMMA SettleInv ==
  ASSUME IInv, PopEmpty \/ (PopCas /\ top # bottom)
  PROVE  IInv' /\ Unseen /\ top = LogicalBottom
<1>1. /\ pc \in {"popTop", "popCas"} /\ pc' = "idle" /\ bottom' = bottom + 1
      /\ sb' = Append(sb, BottomStore(bottom + 1))
      /\ UNCHANGED <<kind, arrays, live, array, top, memBottom, cachedTop, arg, pushed,
                     thiefVars, handed>>
  BY DEF PopEmpty, PopCas, SetBottom, shared
<1>2. LogicalBottom = bottom + 1 /\ LogicalBottom' = bottom + 1
  BY <1>1 DEF LogicalBottom
<1>3. top = LogicalBottom
  <2>1. top > bottom
    BY IndexTypes DEF PopEmpty, PopCas, IInv, Decided
  <2> QED
    BY <1>2, <2>1, IndexTypes
<1>4. /\ TypeOK' /\ Buffered' /\ SlotsRight' /\ Homes' /\ ThievesRight' /\ Unseen
      /\ SizeOf' = SizeOf /\ Mine' = Mine
  <2>1. bottom + 1 \in Nat \union {-1} /\ bottom + 1 <= LogicalBottom
    BY <1>2, IndexTypes
  <2> QED
    BY <1>1, <1>2, <2>1, BottomKeeps
<1>5. Decided'
  <2>1. /\ kind' = kind /\ live' = live /\ cachedTop' = cachedTop /\ top' = top
        /\ pushed' = pushed /\ arg' = arg /\ LogicalBottom' = LogicalBottom
    BY <1>1, <1>2
  <2> QED
    BY <1>1, <1>4, <2>1 DEF IInv, Decided
<1> QED
  BY <1>3, <1>4, <1>5 DEF IInv

\* The last item is the owner's: the queue is empty, and a thief that read the item
\* fails.
LEMMA PopCasWonInv ==
  ASSUME IInv, PopCas, top = bottom
  PROVE  /\ IInv' /\ InDeque = {top} /\ LogicalBottom' = LogicalBottom
         /\ top' = LogicalBottom /\ handed' = [handed EXCEPT ![ItemAt[top]] = @ + 1]
<1>1. /\ pc = "popCas" /\ sb = <<>> /\ pc' = "idle"
      /\ top' = top + 1 /\ bottom' = top + 1
      /\ sb' = Append(sb, BottomStore(top + 1))
      /\ handed' = [handed EXCEPT ![OwnerReads(top)] = @ + 1]
      /\ UNCHANGED <<kind, arrays, live, array, memBottom, cachedTop, arg, pushed,
                     thiefVars>>
  BY DEF PopCas, SetBottom, HandOut
<1>2. top \in Nat /\ top + 1 \in Nat
  BY IndexTypes
<1>3. LogicalBottom = top + 1 /\ LogicalBottom' = top + 1
  BY <1>1 DEF LogicalBottom
<1>4. InDeque = {top} /\ InDeque' = {}
  BY <1>1, <1>2, <1>3 DEF InDeque
<1>5. handed' = [handed EXCEPT ![ItemAt[top]] = @ + 1]
  BY <1>1, <1>4, ItemAtIs
<1>6. SlotsRight' /\ handed' \in [Item -> Nat]
  <2>1. top \in InDeque /\ InDeque' \subseteq InDeque \ {top}
    BY <1>4
  <2>2. \A j \in InDeque' : ItemAt'[j] = ItemAt[j]
    BY <1>4
  <2> QED
    BY <1>1, <1>5, <2>1, <2>2, RemovedRight
<1>7. /\ sb' \in Seq(Store) /\ Len(sb') = 1 /\ sb' # <<>>
      /\ sb'[1] = BottomStore(top + 1)
  <2>1. Len(sb) = 0 /\ sb \in Seq(Store)
    BY <1>1
  <2> QED
    BY <1>1, <1>2, <2>1, AppendBottom
<1>8. TypeOK' /\ SizeOf' = SizeOf /\ Mine' = Mine
  <2>1. /\ top' \in Nat /\ cachedTop' \in Nat /\ pushed' \in Nat
        /\ bottom' \in Nat \union {-1} /\ memBottom' \in Nat \union {-1}
    BY <1>1, <1>2, IndexTypes
  <2>2. arg' \in Seq(Item) /\ ThiefTypes'
    BY <1>1 DEF IInv, TypeOK, ThiefTypes, thiefVars
  <2>3. pc' \in {"idle", "load", "store", "fence", "popTop", "popCas", "gone"}
    BY <1>1
  <2> QED
    BY <1>1, <1>6, <1>7, <2>1, <2>2, <2>3, TypesKept
<1>9. Decided'
  <2>1. cachedTop' <= top' /\ top' <= LogicalBottom'
    BY <1>1, <1>2, <1>3, IndexTypes
  <2>2. /\ kind' = kind /\ live' = live /\ cachedTop' = cachedTop /\ pc # "gone"
        /\ pushed' = pushed /\ arg' = arg /\ LogicalBottom' = LogicalBottom
    BY <1>1, <1>3
  <2> QED
    BY <1>1, <1>8, <2>1, <2>2 DEF IInv, Decided
<1>10. Buffered'
  <2>1. memBottom' <= LogicalBottom'
    BY <1>1, <1>3 DEF IInv, Buffered
  <2>2. array' = Mine'
    BY <1>1, <1>8 DEF IInv, Buffered
  <2>3. \A m \in 1 .. Len(sb') : m = 1 /\ sb'[m].to = "bottom" /\ sb'[m].val = top + 1
    BY <1>7 DEF BottomStore
  <2>4. sb'[Len(sb')] = BottomStore(bottom')
    BY <1>1, <1>7
  <2> QED
    BY <1>2, <1>3, <1>7, <2>1, <2>2, <2>3, <2>4 DEF Buffered, Is
<1>11. Homes'
  BY <1>4 DEF Homes
<1>12. ThievesRight'
  <2>1. \A t \in Thief : tTop[t] <= top /\ tTop[t] \in Nat
    BY ThiefIs DEF ThiefRight
  <2>2. \A t \in Thief : tTop'[t] <= top' /\ tTop'[t] # top'
    BY <1>1, <1>2, <2>1 DEF thiefVars
  <2> QED
    BY <1>1, <2>2 DEF ThievesRight
<1> QED
  BY <1>1, <1>3, <1>4, <1>5, <1>6, <1>8, <1>9, <1>10, <1>11, <1>12 DEF IInv

\* There is more than one item, so no thief can take the bottom one.
LEMMA PopTakeInv ==
  ASSUME IInv, PopTake
  PROVE  /\ IInv' /\ bottom \in InDeque /\ top' = top
         /\ LogicalBottom = bottom + 1 /\ LogicalBottom' = bottom
         /\ handed' = [handed EXCEPT ![ItemAt[bottom]] = @ + 1]
         /\ \A j \in InDeque' : j \in InDeque /\ ItemAt'[j] = ItemAt[j]
<1>1. /\ pc = "popTop" /\ pc' = "idle" /\ top < bottom
      /\ handed' = [handed EXCEPT ![OwnerReads(bottom)] = @ + 1]
      /\ UNCHANGED <<kind, arrays, live, array, top, memBottom, sb, bottom, cachedTop,
                     arg, pushed, thiefVars>>
  BY DEF PopTake, HandOut, shared
<1>2. LogicalBottom = bottom + 1 /\ LogicalBottom' = bottom /\ sb = <<>>
  BY <1>1 DEF LogicalBottom, IInv, Decided
<1>3. /\ bottom \in InDeque /\ bottom \in Nat /\ top \in Nat
      /\ InDeque' \subseteq InDeque \ {bottom}
  BY <1>1, <1>2, IndexTypes DEF InDeque
<1>4. /\ SizeOf' = SizeOf /\ Mine' = Mine
      /\ \A j \in InDeque' : ItemAt'[j] = ItemAt[j]
      /\ Homes'
  BY <1>1, <1>3, ShrunkKeeps
<1>5. handed' = [handed EXCEPT ![ItemAt[bottom]] = @ + 1]
  BY <1>1, <1>3, ItemAtIs
<1>6. SlotsRight' /\ handed' \in [Item -> Nat]
  BY <1>1, <1>3, <1>4, <1>5, RemovedRight
<1>7. TypeOK'
  <2>1. /\ sb' \in Seq(Store) /\ top' \in Nat /\ cachedTop' \in Nat /\ pushed' \in Nat
        /\ bottom' \in Nat \union {-1} /\ memBottom' \in Nat \union {-1}
    BY <1>1, IndexTypes
  <2>2. arg' \in Seq(Item) /\ ThiefTypes'
    BY <1>1 DEF IInv, TypeOK, ThiefTypes, thiefVars
  <2>3. pc' \in {"idle", "load", "store", "fence", "popTop", "popCas", "gone"}
    BY <1>1
  <2> QED
    BY <1>1, <1>6, <2>1, <2>2, <2>3, TypesKept
<1>8. Decided'
  <2>1. /\ top <= bottom /\ cachedTop <= top /\ bottom <= pushed
        /\ bottom - cachedTop <= SizeOf[Mine]
    <3>1. LogicalBottom - cachedTop <= SizeOf[Mine] /\ LogicalBottom <= pushed
      BY DEF IInv, Decided
    <3>2. SizeOf[Mine] \in Nat
      BY ArrayTypes
    <3>3. \A x, y, z \in Nat : (x + 1) - y <= z => x - y <= z
      OBVIOUS
    <3> QED
      BY <1>1, <1>2, <1>3, <3>1, <3>2, <3>3, IndexTypes
  <2>2. /\ kind' = kind /\ live' = live /\ cachedTop' = cachedTop /\ top' = top
        /\ pushed' = pushed /\ arg' = arg
    BY <1>1
  <2> QED
    BY <1>1, <1>2, <1>4, <2>1, <2>2 DEF IInv, Decided
<1>9. Buffered'
  <2>1. memBottom = bottom /\ array = Mine
    BY <1>1, <1>2 DEF IInv, Buffered
  <2>2. 1 .. Len(sb) = {}
    BY <1>2
  <2> QED
    BY <1>1, <1>2, <1>3, <1>4, <2>1, <2>2 DEF Buffered
<1>10. ThievesRight'
  <2>1. top < LogicalBottom' /\ top \in InDeque' /\ pc' # "gone"
    BY <1>1, <1>2, <1>3 DEF InDeque
  <2> SUFFICES ASSUME NEW t \in Thief
               PROVE  /\ tTop[t] <= top
                      /\ tPc[t] \in {"array", "read", "cas"} /\ tTop[t] = top =>
                           /\ \A m \in 1 .. Len(sb) : sb[m].to = "slot" => sb[m].i # top
                           /\ tPc[t] = "array" => \A a \in array .. Mine : Holds(a, top)'
                           /\ tPc[t] = "read" => Holds(tArr[t], top)'
                           /\ tPc[t] = "cas" => tVal[t] = ItemAt'[top]
    BY <1>1, <1>4, <2>1 DEF ThievesRight, Is, Holds, Buffers, Cell, thiefVars
  <2>2. ThiefRight(tPc[t], tTop[t], tArr[t], tVal[t])
    BY ThiefIs
  <2>3. ASSUME NEW a, Holds(a, top)
        PROVE  Holds(a, top)'
    BY <1>1, <1>4, <2>1, <2>3 DEF Holds, Buffers, Is, Cell
  <2>4. /\ ItemAt'[top] = ItemAt[top] /\ \A m \in 1 .. Len(sb) : sb[m].to # "slot"
        /\ tArr' = tArr /\ top' = top
    BY <1>1, <1>2, <1>4, <2>1 DEF thiefVars
  <2>5. tTop[t] <= top
    BY <2>2 DEF ThiefRight
  <2>6. ASSUME tPc[t] \in {"array", "read", "cas"}, tTop[t] = top
        PROVE  /\ tPc[t] = "array" => \A a \in array .. Mine : Holds(a, top)
               /\ tPc[t] = "read" => Holds(tArr[t], top)
               /\ tPc[t] = "cas" => tVal[t] = ItemAt[top]
    BY <2>2, <2>6 DEF ThiefRight
  <2> QED
    BY <2>3, <2>4, <2>5, <2>6
<1> QED
  BY <1>1, <1>2, <1>3, <1>4, <1>5, <1>6, <1>7, <1>8, <1>9, <1>10 DEF IInv

-----------------------------------------------------------------------------
(* A larger array *)

\* The new array: it is large enough, and holds the items of the deque.
NewSize == BitCeil(SizeOf[Mine] + Len(arg))
Copy == [s \in 0 .. NewSize - 1 |->
           IF \E i \in top .. bottom - 1 : i % NewSize = s
           THEN OwnerReads(CHOOSE i \in top .. bottom - 1 : i % NewSize = s)
           ELSE None]

LEMMA CopyRight ==
  ASSUME IInv, LogicalBottom = bottom
  PROVE  /\ NewSize \in Nat \ {0} /\ SizeOf[Mine] + Len(arg) <= NewSize
         /\ Copy \in [0 .. NewSize - 1 -> Item \union {None}]
         /\ \A j \in InDeque : Copy[j % NewSize] = ItemAt[j]
<1>1. NewSize \in Nat \ {0} /\ SizeOf[Mine] + Len(arg) <= NewSize
  <2> DEFINE n == SizeOf[Mine]
  <2>1. n \in Nat \ {0} /\ Len(arg) \in Nat
    BY ArrayTypes DEF IInv, TypeOK
  <2> HIDE DEF n
  <2>2. n + Len(arg) \in Nat \ {0}
    BY <2>1
  <2>3. BitCeil(n + Len(arg)) \in Nat /\ n + Len(arg) <= BitCeil(n + Len(arg))
    BY <2>2, BitCeilFits
  <2> QED
    BY <2>2, <2>3 DEF NewSize, n
<1> DEFINE c == NewSize
<1>2. InDeque = top .. bottom - 1 /\ top \in Nat /\ \A i \in InDeque : i \in Nat
  BY IndexTypes
<1>3. InDeque \subseteq top .. top + c - 1
  <2> DEFINE n == SizeOf[Mine]
  <2>1. n \in Nat /\ LogicalBottom - top <= n /\ n <= c
    <3>1. n \in Nat /\ LogicalBottom - top <= n
      BY ArrayTypes, DequeFits
    <3>2. Len(arg) \in Nat /\ n + Len(arg) <= c /\ c \in Nat
      BY <1>1 DEF IInv, TypeOK
    <3> HIDE DEF n, c
    <3> QED
      BY <3>1, <3>2
  <2> HIDE DEF n, c
  <2>2. c \in Nat
    BY <1>1 DEF c
  <2> QED
    BY <2>1, <2>2, IndexTypes
<1>4. \A i \in InDeque : OwnerReads(i) = ItemAt[i] /\ ItemAt[i] \in Item
  BY ItemAtIs DEF IInv, SlotsRight
<1>5. Copy = [s \in 0 .. c - 1 |->
                IF \E i \in InDeque : i % c = s
                THEN OwnerReads(CHOOSE i \in InDeque : i % c = s)
                ELSE None]
  BY <1>2 DEF Copy
<1> HIDE DEF c
<1>6. c \in Nat \ {0}
  BY <1>1 DEF c
<1>7. Copy \in [0 .. c - 1 -> Item \union {None}]
  <2> SUFFICES ASSUME NEW s \in 0 .. c - 1, NEW i \in InDeque, i % c = s
               PROVE  OwnerReads(CHOOSE k \in InDeque : k % c = s) \in Item
    BY <1>5
  <2>1. (CHOOSE k \in InDeque : k % c = s) \in InDeque
    OBVIOUS
  <2> QED
    BY <1>4, <2>1
<1>8. ASSUME NEW j \in InDeque
      PROVE  Copy[j % c] = ItemAt[j]
  <2> DEFINE k == CHOOSE i \in InDeque : i % c = j % c
  <2>1. j % c \in 0 .. c - 1
    BY <1>2, <1>6, ModRange
  <2>2. k \in InDeque /\ k % c = j % c
    OBVIOUS
  <2>3. Copy[j % c] = OwnerReads(k)
    BY <1>5, <2>1
  <2> HIDE DEF k
  <2>4. k \in top .. top + c - 1 /\ j \in top .. top + c - 1
    BY <1>3, <2>2
  <2>5. k = j
    BY <1>2, <1>6, <2>2, <2>4, CellsApart
  <2> QED
    BY <1>4, <2>3, <2>5
<1> QED
  BY <1>1, <1>7, <1>8 DEF c

\* The new array joins the others, and the store of its pointer the store buffer.
LEMMA Grown ==
  ASSUME IInv, Grow
  PROVE  /\ pc = "load" /\ pc' = "store" /\ kind = "unbounded"
         /\ cachedTop' = top /\ live' = 1 .. Mine + 1
         /\ UNCHANGED <<kind, array, top, memBottom, bottom, arg, pushed, thiefVars,
                        handed>>
         /\ LogicalBottom = bottom /\ LogicalBottom' = bottom /\ InDeque' = InDeque
         /\ Mine' = Mine + 1 /\ DOMAIN arrays' = 1 .. Mine + 1
         /\ arrays'[Mine + 1] = Copy
         /\ SizeOf'[Mine + 1] = NewSize
         /\ \A a \in 1 .. Mine : arrays'[a] = arrays[a] /\ SizeOf'[a] = SizeOf[a]
<1>1. /\ pc = "load" /\ pc' = "store" /\ kind = "unbounded" /\ cachedTop' = top
      /\ live' = live \union {Mine + 1}
      /\ arrays' = Append(arrays, Copy)
      /\ UNCHANGED <<kind, array, top, memBottom, bottom, arg, pushed, thiefVars, handed>>
  BY DEF Grow, Resize, Copy, NewSize
<1>2. LogicalBottom = bottom /\ LogicalBottom' = bottom /\ InDeque' = InDeque
  BY <1>1 DEF LogicalBottom, InDeque
<1>3. live' = 1 .. Mine + 1
  <2>1. live = 1 .. Mine /\ Mine \in Nat
    BY <1>1, ArrayTypes DEF IInv, Decided
  <2> QED
    BY <1>1, <2>1
<1>4. /\ Mine' = Mine + 1 /\ DOMAIN arrays' = 1 .. Mine + 1
      /\ arrays'[Mine + 1] = Copy
      /\ \A a \in 1 .. Mine : arrays'[a] = arrays[a]
  <2> DEFINE S == {arrays[a] : a \in DOMAIN arrays} \union {Copy}
  <2>1. arrays \in Seq(S) /\ Copy \in S
    BY DEF IInv, TypeOK
  <2> HIDE DEF S
  <2> QED
    BY <1>1, <2>1, AppendProperties DEF Mine
<1>5. SizeOf'[Mine + 1] = NewSize
  <2>1. DOMAIN Copy = 0 .. NewSize - 1
    BY DEF Copy
  <2>2. NewSize \in Nat \ {0}
    BY <1>2, CopyRight
  <2>3. Cardinality(0 .. NewSize - 1) = NewSize
    <3>1. /\ 0 \in Int /\ NewSize - 1 \in Int /\ ~(0 > NewSize - 1)
          /\ (NewSize - 1) - 0 + 1 = NewSize
      BY <2>2
    <3> QED
      BY <3>1, FS_Interval
  <2>4. Mine + 1 \in DOMAIN arrays'
    <3>1. \A n \in Nat : n + 1 \in 1 .. n + 1
      OBVIOUS
    <3> QED
      BY <1>4, <3>1, ArrayTypes
  <2> QED
    BY <1>4, <2>1, <2>3, <2>4 DEF SizeOf
<1>6. \A a \in 1 .. Mine : SizeOf'[a] = SizeOf[a]
  <2>1. \A a \in 1 .. Mine : a \in DOMAIN arrays /\ a \in DOMAIN arrays'
    BY <1>4, ArrayTypes
  <2> QED
    BY <1>4, <2>1 DEF SizeOf
<1> QED
  BY <1>1, <1>2, <1>3, <1>4, <1>5, <1>6

\* The store buffer after a growth.
LEMMA GrownBuffer ==
  ASSUME IInv, Grow
  PROVE  /\ sb' \in Seq(Store) /\ Len(sb') = Len(sb) + 1 /\ Len(sb) \in Nat
         /\ sb'[Len(sb) + 1].to = "array" /\ sb'[Len(sb) + 1].val = Mine + 1
         /\ \A m \in 1 .. Len(sb) : sb'[m] = sb[m] /\ m \in 1 .. Len(sb')
         /\ \A m \in 1 .. Len(sb') : m \in 1 .. Len(sb) \/ m = Len(sb) + 1
         /\ \A m \in 1 .. Len(sb') : sb'[m].to # "array" =>
              m \in 1 .. Len(sb) /\ sb'[m] = sb[m]
         /\ \A m \in 1 .. Len(sb') : sb'[m].to = "slot" => sb'[m].a \in 1 .. Mine
<1>1. sb' = Append(sb, ArrayStore(Mine + 1))
  BY DEF Grow, Resize
<1>2. ArrayStore(Mine + 1) \in Store /\ sb \in Seq(Store)
  <2>1. Mine + 1 \in Nat
    <3>1. Mine \in Nat
      BY ArrayTypes
    <3> QED
      BY <3>1
  <2> QED
    BY <2>1, IndexTypes DEF ArrayStore, Store
<1>3. /\ sb' \in Seq(Store) /\ Len(sb') = Len(sb) + 1 /\ Len(sb) \in Nat
      /\ \A m \in 1 .. Len(sb) : sb'[m] = sb[m]
      /\ sb'[Len(sb) + 1] = ArrayStore(Mine + 1)
  BY <1>1, <1>2, AppendProperties
<1>4. sb'[Len(sb) + 1].to = "array" /\ sb'[Len(sb) + 1].val = Mine + 1
  BY <1>3 DEF ArrayStore
<1>5. /\ \A m \in 1 .. Len(sb) : m \in 1 .. Len(sb')
      /\ \A m \in 1 .. Len(sb') : m \in 1 .. Len(sb) \/ m = Len(sb) + 1
  BY <1>3
<1>6. \A m \in 1 .. Len(sb') : sb'[m].to # "array" =>
        m \in 1 .. Len(sb) /\ sb'[m] = sb[m]
  BY <1>3, <1>4, <1>5
<1>7. \A m \in 1 .. Len(sb') : sb'[m].to = "slot" => sb'[m].a \in 1 .. Mine
  <2> SUFFICES ASSUME NEW m \in 1 .. Len(sb'), sb'[m].to = "slot"
               PROVE  sb'[m].a \in 1 .. Mine
    OBVIOUS
  <2>1. m \in 1 .. Len(sb) /\ sb'[m] = sb[m]
    BY <1>6
  <2> QED
    BY <2>1, BufferedItem DEF Is
<1> QED
  BY <1>3, <1>4, <1>5, <1>6, <1>7

\* Every array that held an item still does, and so does the new one.
LEMMA GrownHolds ==
  ASSUME IInv, Grow
  PROVE  /\ \A j \in InDeque : ItemAt'[j] = ItemAt[j]
         /\ \A j \in InDeque, a \in 1 .. Mine :
              Cell(a, j)' = Cell(a, j) /\ arrays'[a] = arrays[a]
         /\ \A j \in InDeque, a \in {Mine + 1} : arrays'[a][Cell(a, j)'] = ItemAt[j]
<1>1. LogicalBottom = bottom /\ Mine' = Mine + 1 /\ SizeOf'[Mine'] = NewSize
      /\ arrays'[Mine'] = Copy /\ InDeque' = InDeque
  BY Grown
<1>2. \A j \in InDeque : arrays'[Mine'][j % SizeOf'[Mine']] = ItemAt[j]
  BY <1>1, CopyRight
<1>3. ASSUME NEW j \in InDeque
      PROVE  ItemAt'[j] = ItemAt[j]
  <2>1. \A m \in 1 .. Len(sb') : ~(sb'[m].to = "slot" /\ sb'[m].a = Mine')
    <3>1. \A a \in 1 .. Mine : a # Mine + 1
      BY ArrayTypes
    <3> QED
      BY <1>1, <3>1, GrownBuffer
  <2>2. OnlySees(j, ItemAt[j])
    BY <1>2, <2>1 DEF OnlySees
  <2>3. j \in InDeque' /\ sb' \in Seq(Store)
    BY <1>1, GrownBuffer
  <2> QED
    BY <2>2, <2>3, ItemIs
<1>4. \A j \in InDeque, a \in 1 .. Mine :
        Cell(a, j)' = Cell(a, j) /\ arrays'[a] = arrays[a]
  BY Grown DEF Cell
<1>5. \A j \in InDeque, a \in {Mine + 1} : arrays'[a][Cell(a, j)'] = ItemAt[j]
  BY <1>1, <1>2 DEF Cell
<1> QED
  BY <1>3, <1>4, <1>5

\* Growth keeps the types.
LEMMA GrownTypes ==
  ASSUME IInv, Grow
  PROVE  TypeOK'
<1>1. Mine \in Nat
  BY ArrayTypes
<1>2. \A a \in 1 .. Mine + 1 : a \in 1 .. Mine \/ a = Mine + 1
  BY <1>1
<1>3. \A a \in DOMAIN arrays' :
        /\ SizeOf'[a] \in Nat \ {0}
        /\ arrays'[a] \in [0 .. SizeOf'[a] - 1 -> Item \union {None}]
  <2> SUFFICES ASSUME NEW a \in 1 .. Mine + 1
               PROVE  /\ SizeOf'[a] \in Nat \ {0}
                      /\ arrays'[a] \in [0 .. SizeOf'[a] - 1 -> Item \union {None}]
    BY Grown
  <2>1. CASE a \in 1 .. Mine
    <3>1. arrays'[a] = arrays[a] /\ SizeOf'[a] = SizeOf[a]
      BY <2>1, Grown
    <3> QED
      BY <2>1, <3>1, ArrayTypes
  <2>2. CASE a = Mine + 1
    <3>1. arrays'[a] = Copy /\ SizeOf'[a] = NewSize /\ LogicalBottom = bottom
      BY <2>2, Grown
    <3> QED
      BY <3>1, CopyRight
  <2> QED
    BY <1>2, <2>1, <2>2
<1>4. arrays' \in Seq({arrays'[a] : a \in DOMAIN arrays'})
  <2> DEFINE S == {arrays[a] : a \in DOMAIN arrays} \union {Copy}
  <2>1. arrays \in Seq(S) /\ Copy \in S
    BY DEF IInv, TypeOK
  <2> HIDE DEF S
  <2>2. arrays' = Append(arrays, Copy)
    BY DEF Grow, Resize, Copy, NewSize
  <2>3. arrays' \in Seq(S)
    BY <2>1, <2>2, AppendProperties
  <2> DEFINE n == Len(arrays')
             T == {arrays'[a] : a \in DOMAIN arrays'}
  <2>4. n \in Nat /\ DOMAIN arrays' = 1 .. n /\ arrays' = [a \in 1 .. n |-> arrays'[a]]
    BY <2>3
  <2>5. \A a \in 1 .. n : arrays'[a] \in T
    BY <2>4
  <2> HIDE DEF n, T
  <2>6. arrays' \in [1 .. n -> T]
    BY <2>4, <2>5
  <2>7. arrays' \in Seq(T)
    BY <2>4, <2>6, FunctionIsSeq
  <2> QED
    BY <2>7 DEF T
<1>5. DOMAIN arrays \subseteq DOMAIN arrays' /\ live' \subseteq DOMAIN arrays'
  <2>1. DOMAIN arrays = 1 .. Mine /\ DOMAIN arrays' = 1 .. Mine + 1
        /\ live' = 1 .. Mine + 1
    BY ArrayTypes, Grown
  <2> QED
    BY <1>1, <2>1
<1>6. kind' \in Kinds /\ array' \in DOMAIN arrays'
  BY <1>5, Grown DEF IInv, TypeOK
<1>7. /\ tPc' \in [Thief -> {"idle", "bottom", "array", "read", "cas"}]
      /\ tTop' \in [Thief -> Nat] /\ tArr' \in [Thief -> DOMAIN arrays']
      /\ tVal' \in [Thief -> Item \union {None}]
  <2>1. UNCHANGED <<tPc, tTop, tArr, tVal>>
    BY Grown DEF thiefVars
  <2>2. tArr' \in [Thief -> DOMAIN arrays']
    BY <1>5, <2>1 DEF IInv, TypeOK
  <2> QED
    BY <2>1, <2>2 DEF IInv, TypeOK
<1>8. /\ sb' \in Seq(Store) /\ {top', cachedTop', pushed'} \subseteq Nat
      /\ {bottom', memBottom'} \subseteq Nat \union {-1}
      /\ pc' \in {"idle", "load", "store", "fence", "popTop", "popCas", "gone"}
      /\ arg' \in Seq(Item) /\ handed' \in [Item -> Nat]
  <2>1. /\ cachedTop' = top /\ pc' = "store"
        /\ UNCHANGED <<top, memBottom, bottom, arg, pushed, handed>>
    BY Grown
  <2> QED
    BY <2>1, GrownBuffer, IndexTypes DEF IInv, TypeOK
<1> QED
  BY <1>3, <1>4, <1>5, <1>6, <1>7, <1>8, Zenon DEF TypeOK

\* A growth: the thieves may read the old arrays or the new one.
LEMMA GrowInv ==
  ASSUME IInv, Grow
  PROVE  IInv' /\ Unseen
<1>1. /\ pc = "load" /\ pc' = "store" /\ kind = "unbounded"
      /\ cachedTop' = top /\ live' = 1 .. Mine + 1
      /\ UNCHANGED <<kind, array, top, memBottom, bottom, arg, pushed, thiefVars, handed>>
      /\ LogicalBottom = bottom /\ LogicalBottom' = bottom /\ InDeque' = InDeque
      /\ Mine' = Mine + 1
  BY Grown
<1>2. /\ Mine \in Nat \ {0} /\ array \in 1 .. Mine
      /\ \A a \in 1 .. Mine + 1 : a \in 1 .. Mine \/ a = Mine + 1
      /\ \A a \in 1 .. Mine : a \in 1 .. Mine + 1 /\ a # Mine + 1
  <2>1. Mine \in Nat \ {0} /\ array \in 1 .. Mine
    BY ArrayTypes
  <2> QED
    BY <2>1
<1>3. \A j \in InDeque : ItemAt'[j] = ItemAt[j]
  BY GrownHolds
<1>4. Unseen
  BY <1>1, <1>3 DEF Unseen
<1>5. Decided'
  <2> DEFINE n == SizeOf[Mine]
             c == SizeOf'[Mine']
             l == Len(arg)
  <2>1. /\ n \in Nat /\ l \in Nat /\ c \in Nat /\ n + l <= c
        /\ LogicalBottom - top <= n /\ bottom \in Nat /\ top \in Nat
    <3>1. c = NewSize
      BY Grown
    <3>2. n \in Nat /\ LogicalBottom - top <= n
      BY ArrayTypes, DequeFits
    <3>3. l \in Nat /\ bottom \in Nat /\ top \in Nat
      BY <1>1, IndexTypes DEF IInv, TypeOK
    <3> QED
      BY <1>1, <3>1, <3>2, <3>3, CopyRight
  <2>2. LogicalBottom' - cachedTop' <= c
    <3> HIDE DEF n, c, l
    <3> QED
      BY <1>1, <2>1
  <2>3. ~NoRoom(Len(arg), cachedTop)'
    <3>1. bottom - top + l <= c
      <4> HIDE DEF n, c, l
      <4> QED
        BY <1>1, <2>1
    <3>2. ~(bottom - top + l > c)
      <4> HIDE DEF n, c, l
      <4> QED
        BY <2>1, <3>1
    <3> QED
      BY <1>1, <3>2 DEF NoRoom
  <2>4. /\ cachedTop' <= top' /\ top' <= LogicalBottom' /\ LogicalBottom' <= pushed'
        /\ arg' # <<>> /\ \A k \in 1 .. Len(arg') : arg'[k] = pushed' + k - 1
    BY <1>1, IndexTypes DEF IInv, Decided
  <2> HIDE DEF n, l
  <2> QED
    BY <1>1, <2>2, <2>3, <2>4 DEF Decided, c
<1>6. SlotsRight'
  BY <1>1, <1>3 DEF IInv, SlotsRight
<1>7. Buffered'
  <2>1. memBottom' <= LogicalBottom'
    BY <1>1 DEF IInv, Buffered
  <2>2. \E m \in 1 .. Len(sb') : sb'[m].to = "array" /\ sb'[m].val = Mine'
    <3>1. Len(sb) + 1 \in 1 .. Len(sb')
      BY GrownBuffer
    <3> QED
      BY <1>1, <3>1, GrownBuffer
  <2>3. ASSUME NEW m \in 1 .. Len(sb')
        PROVE  /\ sb'[m].to = "bottom" => sb'[m].val <= LogicalBottom'
               /\ sb'[m].to = "array" =>
                    /\ sb'[m].val \in array' .. Mine'
                    /\ \A l \in 1 .. m - 1 :
                         sb'[l].to = "array" => sb'[l].val <= sb'[m].val
               /\ sb'[m].to = "slot" =>
                    /\ sb'[m].a \in 1 .. Mine' /\ sb'[m].i \in InDeque'
                    /\ sb'[m].val = ItemAt'[sb'[m].i]
                    /\ memBottom' <= sb'[m].i
                    /\ \A l \in 1 .. m - 1 :
                         sb'[l].to = "bottom" => sb'[l].val <= sb'[m].i
    <3>0. \A l \in 1 .. Len(sb) : sb[l].to = "array" => sb[l].val \in array .. Mine
      BY DEF IInv, Buffered, Is
    <3>1. CASE m = Len(sb) + 1
      <4>1. sb'[m].to = "array" /\ sb'[m].val = Mine + 1
        BY <3>1, GrownBuffer
      <4>2. Mine + 1 \in array .. Mine + 1
        BY <1>2
      <4>3. ASSUME NEW l \in 1 .. m - 1, sb'[l].to = "array"
            PROVE  sb'[l].val <= Mine + 1
        <5>1. l \in 1 .. Len(sb) /\ sb'[l] = sb[l]
          BY <3>1, GrownBuffer
        <5>2. sb[l].val \in array .. Mine
          BY <3>0, <4>3, <5>1
        <5> QED
          BY <1>2, <5>1, <5>2
      <4> QED
        BY <1>1, <4>1, <4>2, <4>3
    <3>2. CASE m \in 1 .. Len(sb)
      <4>1. sb'[m] = sb[m] /\ \A l \in 1 .. m - 1 : sb'[l] = sb[l]
        BY <3>2, GrownBuffer
      <4>2. \A x \in array .. Mine : x \in array .. Mine + 1
        BY <1>2
      <4>3. /\ sb[m].to = "bottom" => sb[m].val <= LogicalBottom
            /\ sb[m].to = "array" =>
                 /\ sb[m].val \in array .. Mine
                 /\ \A l \in 1 .. m - 1 :
                      sb[l].to = "array" => sb[l].val <= sb[m].val
            /\ sb[m].to = "slot" =>
                 /\ sb[m].a \in 1 .. Mine /\ sb[m].i \in InDeque
                 /\ sb[m].val = ItemAt[sb[m].i] /\ memBottom <= sb[m].i
                 /\ \A l \in 1 .. m - 1 :
                      sb[l].to = "bottom" => sb[l].val <= sb[m].i
        BY <3>2 DEF IInv, Buffered, Is
      <4> QED
        BY <1>1, <1>2, <1>3, <4>1, <4>2, <4>3
    <3> QED
      BY <3>1, <3>2, GrownBuffer
  <2> QED
    BY <1>1, <2>1, <2>2, <2>3 DEF Buffered, Is
<1>8. Homes'
  <2> SUFFICES ASSUME NEW j \in InDeque
               PROVE  \E h \in 1 .. Mine' :
                 /\ \A a \in h .. Mine' :
                      /\ \/ arrays'[a][Cell(a, j)'] = ItemAt[j]
                         \/ \E m \in 1 .. Len(sb') : Buffers(m, a, j)'
                      /\ \A m \in 1 .. Len(sb') : Buffers(m, a, j)' => sb'[m].i = j
                 /\ j < memBottom => h <= array
                 /\ \A m \in 1 .. Len(sb') : sb'[m].to = "bottom" /\ j < sb'[m].val =>
                      \/ h <= array
                      \/ \E l \in 1 .. m - 1 : sb'[l].to = "array" /\ h <= sb'[l].val
    BY <1>1, <1>3 DEF Homes, Is
  <2>1. PICK h \in 1 .. Mine :
          /\ \A a \in h .. Mine :
               /\ \/ arrays[a][Cell(a, j)] = ItemAt[j]
                  \/ \E m \in 1 .. Len(sb) : Buffers(m, a, j)
               /\ \A m \in 1 .. Len(sb) : Buffers(m, a, j) => sb[m].i = j
          /\ j < memBottom => h <= array
          /\ \A m \in 1 .. Len(sb) : Is(m, "bottom") /\ j < sb[m].val =>
               \/ h <= array
               \/ \E l \in 1 .. m - 1 : Is(l, "array") /\ h <= sb[l].val
    BY DEF IInv, Homes
  <2>2. ASSUME NEW a \in h .. Mine'
        PROVE  /\ \/ arrays'[a][Cell(a, j)'] = ItemAt[j]
                  \/ \E m \in 1 .. Len(sb') : Buffers(m, a, j)'
               /\ \A m \in 1 .. Len(sb') : Buffers(m, a, j)' => sb'[m].i = j
    <3>1. CASE a = Mine + 1
      <4>1. \A m \in 1 .. Len(sb') : ~Buffers(m, a, j)'
        BY <1>2, <3>1, GrownBuffer DEF Buffers, Is
      <4> QED
        BY <3>1, <4>1, GrownHolds
    <3>2. CASE a \in h .. Mine
      <4>1. a \in 1 .. Mine
        BY <1>2, <3>2
      <4>2. Cell(a, j)' = Cell(a, j) /\ arrays'[a] = arrays[a] /\ SizeOf'[a] = SizeOf[a]
        BY <4>1, GrownHolds, Grown
      <4>3. \A m \in 1 .. Len(sb') : Buffers(m, a, j)' =>
              m \in 1 .. Len(sb) /\ sb'[m] = sb[m] /\ Buffers(m, a, j)
        BY <4>2, GrownBuffer DEF Buffers, Is, Cell
      <4>4. \A m \in 1 .. Len(sb) : Buffers(m, a, j) =>
              m \in 1 .. Len(sb') /\ Buffers(m, a, j)'
        BY <4>2, GrownBuffer DEF Buffers, Is, Cell
      <4> QED
        BY <2>1, <3>2, <4>2, <4>3, <4>4
    <3>3. a \in h .. Mine + 1
      BY <1>1
    <3> QED
      BY <1>2, <3>1, <3>2, <3>3
  <2>3. ASSUME NEW m \in 1 .. Len(sb'), sb'[m].to = "bottom", j < sb'[m].val
        PROVE  \/ h <= array
               \/ \E l \in 1 .. m - 1 : sb'[l].to = "array" /\ h <= sb'[l].val
    <3>1. m \in 1 .. Len(sb) /\ sb'[m] = sb[m] /\ \A l \in 1 .. m - 1 : sb'[l] = sb[l]
      BY <2>3, GrownBuffer
    <3> QED
      BY <2>1, <2>3, <3>1 DEF Is
  <2>4. h \in 1 .. Mine'
    BY <1>1, <1>2
  <2> QED
    BY <2>1, <2>2, <2>3, <2>4
<1>9. ThievesRight'
  <2> SUFFICES ASSUME NEW t \in Thief
               PROVE  /\ tTop[t] <= top
                      /\ tPc[t] \in {"array", "read", "cas"} /\ tTop[t] = top =>
                           /\ top < LogicalBottom
                           /\ \A m \in 1 .. Len(sb') : sb'[m].to = "slot" => sb'[m].i # top
                           /\ tPc[t] = "array" => \A a \in array .. Mine + 1 : Holds(a, top)'
                           /\ tPc[t] = "read" => Holds(tArr[t], top)'
                           /\ tPc[t] = "cas" => tVal[t] = ItemAt'[top]
    BY <1>1 DEF ThievesRight, Is, Holds, Buffers, Cell, thiefVars
  <2>1. ThiefRight(tPc[t], tTop[t], tArr[t], tVal[t]) /\ tArr[t] \in 1 .. Mine
    BY ThiefIs
  <2>2. top < LogicalBottom => top \in InDeque
    BY IndexTypes
  <2>3. ASSUME NEW a \in 1 .. Mine, top \in InDeque, Holds(a, top)
        PROVE  Holds(a, top)'
    <3>1. /\ Cell(a, top)' = Cell(a, top) /\ arrays'[a] = arrays[a]
          /\ SizeOf'[a] = SizeOf[a] /\ top' = top
      BY <1>1, <2>3, GrownHolds, Grown DEF Cell
    <3>2. \A m \in 1 .. Len(sb') : ~Buffers(m, a, top)'
      BY <2>3, <3>1, GrownBuffer DEF Holds, Buffers, Is, Cell
    <3> QED
      BY <1>3, <2>3, <3>1, <3>2 DEF Holds
  <2>4. ASSUME NEW a, a = Mine + 1, top \in InDeque
        PROVE  Holds(a, top)'
    <3>1. \A m \in 1 .. Len(sb') : ~(sb'[m].to = "slot" /\ sb'[m].a = a)
      BY <1>2, <2>4, GrownBuffer
    <3>2. \A m \in 1 .. Len(sb') : ~Buffers(m, a, top)'
      BY <3>1 DEF Buffers, Is
    <3>3. arrays'[a][Cell(a, top)'] = ItemAt'[top] /\ top' = top
      BY <1>1, <1>3, <2>4, GrownHolds
    <3> QED
      BY <3>2, <3>3 DEF Holds, Cell
  <2> QED
    BY <1>1, <1>2, <1>3, <2>1, <2>2, <2>3, <2>4, GrownBuffer DEF ThiefRight, Is, thiefVars
<1> QED
  BY <1>4, <1>5, <1>6, <1>7, <1>8, <1>9, GrownTypes DEF IInv

-----------------------------------------------------------------------------
(* A store of the owner reaches memory *)

\* A function on 1 .. n is a sequence of its own values.
LEMMA SequenceOfValues ==
  ASSUME NEW n \in Nat, NEW f, f = [a \in 1 .. n |-> f[a]]
  PROVE  f \in Seq({f[a] : a \in DOMAIN f}) /\ Len(f) = n
<1> DEFINE T == {f[a] : a \in DOMAIN f}
<1>1. DOMAIN f = 1 .. n
  OBVIOUS
<1>2. \A a \in 1 .. n : f[a] \in T
  BY <1>1
<1> HIDE DEF T
<1>3. f \in [1 .. n -> T]
  BY <1>2
<1>4. f \in Seq(T) /\ Len(f) = n
  BY <1>3, FunctionIsSeq
<1> QED
  BY <1>4 DEF T

\* The store buffer without its oldest store.
LEMMA DrainedBuffer ==
  ASSUME IInv, Drain
  PROVE  /\ sb' \in Seq(Store) /\ Len(sb') \in Nat /\ Len(sb) = Len(sb') + 1
         /\ sb # <<>> /\ 1 \in 1 .. Len(sb)
         /\ \A m \in 1 .. Len(sb') : m + 1 \in 1 .. Len(sb) /\ sb'[m] = sb[m + 1]
         /\ \A m \in 1 .. Len(sb) :
              m # 1 => m - 1 \in 1 .. Len(sb') /\ sb'[m - 1] = sb[m]
         /\ UNCHANGED <<kind, live, top, bottom, cachedTop, pc, arg, pushed, thiefVars,
                        handed>>
<1>1. sb \in Seq(Store) /\ sb # <<>> /\ sb' = Tail(sb)
  BY IndexTypes DEF Drain
<1>2. sb' \in Seq(Store) /\ Len(sb') = Len(sb) - 1 /\ Len(sb) \in Nat \ {0}
  BY <1>1
<1>3. \A m \in 1 .. Len(sb') : sb'[m] = sb[m + 1]
  BY <1>1, <1>2
<1>4. \A m \in 1 .. Len(sb') : m + 1 \in 1 .. Len(sb)
  BY <1>2
<1>5. \A m \in 1 .. Len(sb) :
        m # 1 => m - 1 \in 1 .. Len(sb') /\ sb'[m - 1] = sb[m]
  BY <1>2, <1>3
<1>6. 1 \in 1 .. Len(sb) /\ Len(sb) = Len(sb') + 1 /\ Len(sb') \in Nat
  BY <1>2
<1> QED
  BY <1>1, <1>2, <1>3, <1>4, <1>5, <1>6 DEF Drain

\* What the oldest store does to the pointer and to the bottom in memory.
LEMMA DrainedHead ==
  ASSUME IInv, Drain
  PROVE  /\ array' \in array .. Mine
         /\ Is(1, "array") => array' = sb[1].val /\ memBottom' = memBottom
         /\ Is(1, "bottom") => array' = array /\ memBottom' = sb[1].val
         /\ Is(1, "slot") => array' = array /\ memBottom' = memBottom
         /\ Is(1, "array") \/ Is(1, "bottom") \/ Is(1, "slot")
         /\ memBottom' \in Nat \union {-1} /\ memBottom' <= LogicalBottom
<1>1. Head(sb) = sb[1] /\ 1 \in 1 .. Len(sb) /\ sb \in Seq(Store)
  BY DrainedBuffer, IndexTypes
<1>2. /\ array' = IF sb[1].to = "array" THEN sb[1].val ELSE array
      /\ memBottom' = IF sb[1].to = "bottom" THEN sb[1].val ELSE memBottom
  BY <1>1 DEF Drain
<1>3. sb[1].to \in {"slot", "array", "bottom"} /\ sb[1].val \in Nat \union {-1}
  BY <1>1, StoreTypes
<1>4. /\ sb[1].to = "array" => sb[1].val \in array .. Mine
      /\ sb[1].to = "bottom" => sb[1].val <= LogicalBottom
      /\ memBottom <= LogicalBottom
  BY <1>1 DEF IInv, Buffered, Is
<1>5. array \in array .. Mine
  <2>1. \A n \in Nat : \A a \in 1 .. n : a \in a .. n
    OBVIOUS
  <2> QED
    BY <2>1, ArrayTypes
<1>6. memBottom \in Nat \union {-1}
  BY IndexTypes
<1> QED
  BY <1>2, <1>3, <1>4, <1>5, <1>6 DEF Is

\* What it does to the arrays.
LEMMA DrainedArrays ==
  ASSUME IInv, Drain
  PROVE  /\ SizeOf' = SizeOf /\ Mine' = Mine /\ DOMAIN arrays' = 1 .. Mine
         /\ arrays' \in Seq({arrays'[a] : a \in DOMAIN arrays'})
         /\ \A a \in 1 .. Mine :
              arrays'[a] \in [0 .. SizeOf[a] - 1 -> Item \union {None}]
         /\ \A a \in 1 .. Mine, j \in Nat :
              arrays'[a][Cell(a, j)] = IF Buffers(1, a, j) THEN sb[1].val
                                                           ELSE arrays[a][Cell(a, j)]
<1> DEFINE s == sb[1]
<1>1. Head(sb) = s /\ 1 \in 1 .. Len(sb)
  BY DrainedBuffer, IndexTypes
<1>2. arrays' = IF s.to = "slot" THEN [arrays EXCEPT ![s.a][Cell(s.a, s.i)] = s.val]
                                 ELSE arrays
  BY <1>1 DEF Drain
<1>3. /\ Mine \in Nat /\ DOMAIN arrays = 1 .. Mine
      /\ arrays = [a \in 1 .. Mine |-> arrays[a]]
  BY ArrayTypes DEF IInv, TypeOK
<1>4. ASSUME s.to = "slot"
      PROVE  /\ s.a \in 1 .. Mine /\ s.val \in Item
             /\ Cell(s.a, s.i) \in 0 .. SizeOf[s.a] - 1
  BY <1>1, <1>4, BufferedItem, ArrayTypes DEF Is
<1> HIDE DEF s
<1>5. arrays' = [a \in 1 .. Mine |-> arrays'[a]] /\ DOMAIN arrays' = 1 .. Mine
  <2>1. CASE s.to = "slot"
    <3>1. arrays' = [arrays EXCEPT ![s.a][Cell(s.a, s.i)] = s.val]
      BY <1>2, <2>1
    <3> QED
      BY <1>3, <3>1
  <2>2. CASE s.to # "slot"
    BY <1>2, <1>3, <2>2
  <2> QED
    BY <2>1, <2>2
<1>6. arrays' \in Seq({arrays'[a] : a \in DOMAIN arrays'}) /\ Mine' = Mine
  <2>1. arrays' \in Seq({arrays'[a] : a \in DOMAIN arrays'}) /\ Len(arrays') = Mine
    BY <1>3, <1>5, SequenceOfValues
  <2> QED
    BY <2>1 DEF Mine
<1>7. ASSUME NEW a \in 1 .. Mine
      PROVE  /\ arrays'[a] \in [0 .. SizeOf[a] - 1 -> Item \union {None}]
             /\ \A c \in 0 .. SizeOf[a] - 1 :
                  arrays'[a][c] = IF s.to = "slot" /\ s.a = a /\ c = Cell(s.a, s.i)
                                  THEN s.val ELSE arrays[a][c]
             /\ DOMAIN arrays'[a] = DOMAIN arrays[a]
  <2>1. arrays[a] \in [0 .. SizeOf[a] - 1 -> Item \union {None}]
    BY ArrayTypes
  <2>2. CASE s.to = "slot" /\ s.a = a
    <3>1. arrays' = [arrays EXCEPT ![s.a][Cell(s.a, s.i)] = s.val]
      BY <1>2, <2>2
    <3>2. arrays'[a] = [arrays[a] EXCEPT ![Cell(s.a, s.i)] = s.val]
      BY <1>3, <2>2, <3>1
    <3> QED
      BY <1>4, <2>1, <2>2, <3>2
  <2>3. CASE ~(s.to = "slot" /\ s.a = a)
    <3>1. arrays'[a] = arrays[a]
      BY <1>2, <1>3, <2>3
    <3> QED
      BY <2>1, <2>3, <3>1
  <2> QED
    BY <2>2, <2>3
<1>8. SizeOf' = SizeOf
  BY <1>3, <1>5, <1>7 DEF SizeOf
<1>9. ASSUME NEW a \in 1 .. Mine, NEW j \in Nat
      PROVE  arrays'[a][Cell(a, j)] = IF Buffers(1, a, j) THEN s.val
                                                          ELSE arrays[a][Cell(a, j)]
  <2>1. Cell(a, j) \in 0 .. SizeOf[a] - 1
    BY ArrayTypes
  <2>2. Buffers(1, a, j) <=> s.to = "slot" /\ s.a = a /\ Cell(a, j) = Cell(s.a, s.i)
    BY DEF Buffers, Is, s
  <2> QED
    BY <1>7, <2>1, <2>2
<1> QED
  BY <1>5, <1>6, <1>7, <1>8, <1>9 DEF s

\* The owner sees no difference.
LEMMA DrainedItem ==
  ASSUME IInv, Drain, NEW j \in InDeque
  PROVE  ItemAt'[j] = ItemAt[j]
<1>1. /\ InDeque' = InDeque /\ sb' \in Seq(Store) /\ j \in Nat
      /\ SizeOf' = SizeOf /\ Mine' = Mine
  BY DrainedBuffer, DrainedArrays, IndexTypes DEF InDeque, LogicalBottom
<1>2. \A m \in 1 .. Len(sb) : Buffers(m, Mine, j) => sb[m].val = ItemAt[j]
  <2> SUFFICES ASSUME NEW m \in 1 .. Len(sb), Buffers(m, Mine, j)
               PROVE  sb[m].val = ItemAt[j]
    OBVIOUS
  <2>1. /\ Is(m, "slot") /\ sb[m].i \in InDeque /\ sb[m].val = ItemAt[sb[m].i]
        /\ Cell(Mine, sb[m].i) = Cell(Mine, j)
    BY BufferedItem DEF Buffers
  <2> QED
    BY <2>1, ItemsApart
<1>3. ASSUME NEW m \in 1 .. Len(sb'), sb'[m].to = "slot", sb'[m].a = Mine',
             sb'[m].i % SizeOf'[Mine'] = j % SizeOf'[Mine']
      PROVE  sb'[m].val = ItemAt[j]
  <2>1. m + 1 \in 1 .. Len(sb) /\ sb'[m] = sb[m + 1]
    BY DrainedBuffer
  <2>2. Buffers(m + 1, Mine, j)
    BY <1>1, <1>3, <2>1 DEF Buffers, Is, Cell
  <2> QED
    BY <1>2, <2>1, <2>2
<1>4. ASSUME \A m \in 1 .. Len(sb') :
               ~(/\ sb'[m].to = "slot" /\ sb'[m].a = Mine'
                 /\ sb'[m].i % SizeOf'[Mine'] = j % SizeOf'[Mine'])
      PROVE  arrays'[Mine'][j % SizeOf'[Mine']] = ItemAt[j]
  <2>1. arrays'[Mine][Cell(Mine, j)] = IF Buffers(1, Mine, j) THEN sb[1].val
                                       ELSE arrays[Mine][Cell(Mine, j)]
    BY <1>1, DrainedArrays, ArrayTypes
  <2>2. CASE Buffers(1, Mine, j)
    <3>1. sb[1].val = ItemAt[j]
      BY <1>2, <2>2, DrainedBuffer
    <3> QED
      BY <1>1, <2>1, <2>2, <3>1 DEF Cell
  <2>3. CASE ~Buffers(1, Mine, j)
    <3>1. ASSUME NEW m \in 1 .. Len(sb), Buffers(m, Mine, j)
          PROVE  FALSE
      <4>1. m - 1 \in 1 .. Len(sb') /\ sb'[m - 1] = sb[m]
        BY <2>3, <3>1, DrainedBuffer
      <4> QED
        BY <1>1, <1>4, <3>1, <4>1 DEF Buffers, Is, Cell
    <3>2. ItemAt[j] = arrays[Mine][Cell(Mine, j)]
      BY <3>1, ItemReads, IndexTypes
    <3> QED
      BY <1>1, <2>1, <2>3, <3>2 DEF Cell
  <2> QED
    BY <2>2, <2>3
<1>5. OnlySees(j, ItemAt[j])
  BY <1>3, <1>4 DEF OnlySees
<1> QED
  BY <1>1, <1>5, ItemIs

\* What a store buffered before the step was, and where it is after it.
LEMMA DrainedBuffers ==
  ASSUME IInv, Drain, NEW a \in 1 .. Mine, NEW j \in InDeque
  PROVE  /\ \A m \in 1 .. Len(sb') : Buffers(m, a, j)' =>
              m + 1 \in 1 .. Len(sb) /\ Buffers(m + 1, a, j) /\ sb'[m] = sb[m + 1]
         /\ \A m \in 1 .. Len(sb) : Buffers(m, a, j) /\ m # 1 =>
              m - 1 \in 1 .. Len(sb') /\ \E l \in 1 .. Len(sb') : Buffers(l, a, j)'
<1>1. SizeOf' = SizeOf
  BY DrainedArrays
<1>2. ASSUME NEW m \in 1 .. Len(sb'), Buffers(m, a, j)'
      PROVE  m + 1 \in 1 .. Len(sb) /\ Buffers(m + 1, a, j) /\ sb'[m] = sb[m + 1]
  <2>1. m + 1 \in 1 .. Len(sb) /\ sb'[m] = sb[m + 1]
    BY DrainedBuffer
  <2> QED
    BY <1>1, <1>2, <2>1 DEF Buffers, Is, Cell
<1>3. ASSUME NEW m \in 1 .. Len(sb), Buffers(m, a, j), m # 1
      PROVE  m - 1 \in 1 .. Len(sb') /\ \E l \in 1 .. Len(sb') : Buffers(l, a, j)'
  <2>1. m - 1 \in 1 .. Len(sb') /\ sb'[m - 1] = sb[m]
    BY <1>3, DrainedBuffer
  <2>2. ASSUME NEW l, l = m - 1
        PROVE  Buffers(l, a, j)'
    BY <1>1, <1>3, <2>1, <2>2 DEF Buffers, Is, Cell
  <2> QED
    BY <2>1, <2>2
<1> QED
  BY <1>2, <1>3

\* A draining store keeps the types.
LEMMA DrainedTypes ==
  ASSUME IInv, Drain
  PROVE  TypeOK'
<1>1. /\ sb' \in Seq(Store)
      /\ UNCHANGED <<kind, live, top, bottom, cachedTop, pc, arg, pushed, thiefVars, handed>>
  BY DrainedBuffer
<1>2. /\ arrays' \in Seq({arrays'[a] : a \in DOMAIN arrays'})
      /\ \A a \in DOMAIN arrays' :
           /\ SizeOf'[a] \in Nat \ {0}
           /\ arrays'[a] \in [0 .. SizeOf'[a] - 1 -> Item \union {None}]
  <2>1. /\ SizeOf' = SizeOf /\ DOMAIN arrays' = 1 .. Mine
        /\ arrays' \in Seq({arrays'[a] : a \in DOMAIN arrays'})
        /\ \A a \in 1 .. Mine :
             arrays'[a] \in [0 .. SizeOf[a] - 1 -> Item \union {None}]
    BY DrainedArrays
  <2>2. \A a \in 1 .. Mine : SizeOf[a] \in Nat \ {0}
    BY ArrayTypes
  <2> QED
    BY <2>1, <2>2
<1>3. DOMAIN arrays' = DOMAIN arrays
  BY DrainedArrays, ArrayTypes
<1>4. kind' \in Kinds /\ live' \subseteq DOMAIN arrays' /\ array' \in DOMAIN arrays'
  <2>1. array' \in 1 .. Mine
    <3>1. \A n \in Nat : \A a \in 1 .. n : a .. n \subseteq 1 .. n
      OBVIOUS
    <3> QED
      BY <3>1, DrainedHead, ArrayTypes
  <2>2. kind \in Kinds /\ live \subseteq DOMAIN arrays
    BY DEF IInv, TypeOK
  <2> QED
    BY <1>1, <1>3, <2>1, <2>2, ArrayTypes
<1>5. /\ tPc' \in [Thief -> {"idle", "bottom", "array", "read", "cas"}]
      /\ tTop' \in [Thief -> Nat] /\ tArr' \in [Thief -> DOMAIN arrays']
      /\ tVal' \in [Thief -> Item \union {None}]
  <2>1. UNCHANGED <<tPc, tTop, tArr, tVal>>
    BY <1>1 DEF thiefVars
  <2> QED
    BY <1>3, <2>1 DEF IInv, TypeOK
<1>6. /\ {top', cachedTop', pushed'} \subseteq Nat
      /\ {bottom', memBottom'} \subseteq Nat \union {-1}
      /\ pc' \in {"idle", "load", "store", "fence", "popTop", "popCas", "gone"}
      /\ arg' \in Seq(Item) /\ handed' \in [Item -> Nat]
  <2>1. memBottom' \in Nat \union {-1}
    BY DrainedHead
  <2> QED
    BY <1>1, <2>1 DEF IInv, TypeOK
<1> QED
  BY <1>1, <1>2, <1>4, <1>5, <1>6, Zenon DEF TypeOK

\* A store of the owner reaches memory.
LEMMA DrainInv ==
  ASSUME IInv, Drain
  PROVE  IInv' /\ Unseen
<1>1. /\ sb # <<>> /\ Len(sb') \in Nat /\ Len(sb) = Len(sb') + 1 /\ 1 \in 1 .. Len(sb)
      /\ UNCHANGED <<kind, live, top, bottom, cachedTop, pc, arg, pushed, thiefVars, handed>>
      /\ \A m \in 1 .. Len(sb') : m + 1 \in 1 .. Len(sb) /\ sb'[m] = sb[m + 1]
      /\ \A m \in 1 .. Len(sb) :
           m # 1 => m - 1 \in 1 .. Len(sb') /\ sb'[m - 1] = sb[m]
  BY DrainedBuffer
<1>2. LogicalBottom' = LogicalBottom /\ InDeque' = InDeque
  BY <1>1 DEF LogicalBottom, InDeque
<1>3. SizeOf' = SizeOf /\ Mine' = Mine
  BY DrainedArrays
<1>4. \A j \in InDeque : ItemAt'[j] = ItemAt[j]
  BY DrainedItem
<1>5. Unseen
  BY <1>1, <1>2, <1>4 DEF Unseen
<1>6. Decided'
  BY <1>1, <1>2, <1>3 DEF IInv, Decided, NoRoom
<1>7. SlotsRight'
  BY <1>1, <1>2, <1>4 DEF IInv, SlotsRight
<1>8. Buffered'
  <2>1. pc' # "store" => IF sb' = <<>> THEN memBottom' = bottom
                                       ELSE sb'[Len(sb')] = BottomStore(bottom)
    <3> SUFFICES ASSUME pc # "store"
                 PROVE  IF sb' = <<>> THEN memBottom' = bottom
                                      ELSE sb'[Len(sb')] = BottomStore(bottom)
      BY <1>1
    <3>1. sb[Len(sb)] = BottomStore(bottom)
      BY <1>1 DEF IInv, Buffered
    <3>2. CASE Len(sb') = 0
      <4>1. sb[1] = BottomStore(bottom) /\ sb' = <<>>
        BY <1>1, <3>1, <3>2, DrainedBuffer
      <4>2. Is(1, "bottom") /\ sb[1].val = bottom
        BY <4>1 DEF Is, BottomStore
      <4> QED
        BY <4>1, <4>2, DrainedHead
    <3>3. CASE Len(sb') # 0
      <4>1. sb' # <<>> /\ Len(sb') \in 1 .. Len(sb')
        BY <1>1, <3>3
      <4> QED
        BY <1>1, <3>1, <4>1
    <3> QED
      BY <3>2, <3>3
  <2>2. memBottom' <= LogicalBottom
    BY DrainedHead
  <2>3. array' = Mine \/ \E m \in 1 .. Len(sb') : sb'[m].to = "array" /\ sb'[m].val = Mine
    <3>1. CASE array = Mine
      <4>1. \A n \in Nat : \A x \in n .. n : x = n
        OBVIOUS
      <4> QED
        BY <3>1, <4>1, DrainedHead, ArrayTypes
    <3>2. CASE \E m \in 1 .. Len(sb) : Is(m, "array") /\ sb[m].val = Mine
      <4>1. PICK m \in 1 .. Len(sb) : Is(m, "array") /\ sb[m].val = Mine
        BY <3>2
      <4>2. CASE m = 1
        BY <4>1, <4>2, DrainedHead
      <4>3. CASE m # 1
        BY <1>1, <4>1, <4>3 DEF Is
      <4> QED
        BY <4>2, <4>3
    <3> QED
      BY <3>1, <3>2 DEF IInv, Buffered
  <2>4. ASSUME NEW m \in 1 .. Len(sb')
        PROVE  /\ sb'[m].to = "bottom" => sb'[m].val <= LogicalBottom
               /\ sb'[m].to = "array" =>
                    /\ sb'[m].val \in array' .. Mine
                    /\ \A l \in 1 .. m - 1 :
                         sb'[l].to = "array" => sb'[l].val <= sb'[m].val
               /\ sb'[m].to = "slot" =>
                    /\ sb'[m].a \in 1 .. Mine /\ sb'[m].i \in InDeque
                    /\ sb'[m].val = ItemAt[sb'[m].i]
                    /\ memBottom' <= sb'[m].i
                    /\ \A l \in 1 .. m - 1 :
                         sb'[l].to = "bottom" => sb'[l].val <= sb'[m].i
    <3>1. /\ m + 1 \in 1 .. Len(sb) /\ sb'[m] = sb[m + 1]
          /\ \A l \in 1 .. m - 1 : l + 1 \in 1 .. (m + 1) - 1 /\ sb'[l] = sb[l + 1]
          /\ 1 \in 1 .. (m + 1) - 1
      BY <1>1
    <3>2. /\ Is(m + 1, "bottom") => sb[m + 1].val <= LogicalBottom
          /\ Is(m + 1, "array") =>
               /\ sb[m + 1].val \in array .. Mine
               /\ \A l \in 1 .. (m + 1) - 1 :
                    Is(l, "array") => sb[l].val <= sb[m + 1].val
          /\ Is(m + 1, "slot") =>
               /\ sb[m + 1].a \in 1 .. Mine /\ sb[m + 1].i \in InDeque
               /\ sb[m + 1].val = ItemAt[sb[m + 1].i]
               /\ memBottom <= sb[m + 1].i
               /\ \A l \in 1 .. (m + 1) - 1 :
                    Is(l, "bottom") => sb[l].val <= sb[m + 1].i
      BY <3>1 DEF IInv, Buffered
    <3>3. ASSUME Is(m + 1, "array")
          PROVE  /\ sb'[m].val \in array' .. Mine
                 /\ \A l \in 1 .. m - 1 :
                      sb'[l].to = "array" => sb'[l].val <= sb'[m].val
      <4>1. CASE Is(1, "array")
        <5>1. array' = sb[1].val /\ sb[1].val <= sb[m + 1].val
              /\ sb[m + 1].val \in array .. Mine /\ array' \in array .. Mine
          BY <3>1, <3>2, <3>3, <4>1, DrainedHead
        <5>2. array \in Nat /\ Mine \in Nat
          <6>1. \A n \in Nat : \A x \in 1 .. n : x \in Nat
            OBVIOUS
          <6> QED
            BY <6>1, ArrayTypes
        <5>3. sb[m + 1].val \in array' .. Mine
          BY <5>1, <5>2
        <5> QED
          BY <3>1, <3>2, <3>3, <5>3 DEF Is
      <4>2. CASE ~Is(1, "array")
        <5>1. array' = array
          BY <4>2, DrainedHead
        <5> QED
          BY <3>1, <3>2, <3>3, <5>1 DEF Is
      <4> QED
        BY <4>1, <4>2
    <3>4. ASSUME Is(m + 1, "slot")
          PROVE  /\ sb'[m].a \in 1 .. Mine /\ sb'[m].i \in InDeque
                 /\ sb'[m].val = ItemAt[sb'[m].i]
                 /\ memBottom' <= sb'[m].i
                 /\ \A l \in 1 .. m - 1 :
                      sb'[l].to = "bottom" => sb'[l].val <= sb'[m].i
      <4>1. memBottom' <= sb[m + 1].i
        BY <3>1, <3>2, <3>4, DrainedHead
      <4> QED
        BY <3>1, <3>2, <3>4, <4>1 DEF Is
    <3> QED
      BY <3>1, <3>2, <3>3, <3>4 DEF Is
  <2>5. \A m \in 1 .. Len(sb') : sb'[m].to = "slot" =>
          ItemAt'[sb'[m].i] = ItemAt[sb'[m].i]
    BY <1>4, <2>4
  <2> QED
    BY <1>1, <1>2, <1>3, <2>1, <2>2, <2>3, <2>4, <2>5 DEF Buffered, Is
<1>9. Homes'
  <2> SUFFICES ASSUME NEW j \in InDeque
               PROVE  \E h \in 1 .. Mine :
                 /\ \A a \in h .. Mine :
                      /\ \/ arrays'[a][Cell(a, j)'] = ItemAt[j]
                         \/ \E m \in 1 .. Len(sb') : Buffers(m, a, j)'
                      /\ \A m \in 1 .. Len(sb') : Buffers(m, a, j)' => sb'[m].i = j
                 /\ j < memBottom' => h <= array'
                 /\ \A m \in 1 .. Len(sb') : sb'[m].to = "bottom" /\ j < sb'[m].val =>
                      \/ h <= array'
                      \/ \E l \in 1 .. m - 1 : sb'[l].to = "array" /\ h <= sb'[l].val
    BY <1>2, <1>3, <1>4 DEF Homes, Is
  <2>1. PICK h \in 1 .. Mine :
          /\ \A a \in h .. Mine :
               /\ \/ arrays[a][Cell(a, j)] = ItemAt[j]
                  \/ \E m \in 1 .. Len(sb) : Buffers(m, a, j)
               /\ \A m \in 1 .. Len(sb) : Buffers(m, a, j) => sb[m].i = j
          /\ j < memBottom => h <= array
          /\ \A m \in 1 .. Len(sb) : Is(m, "bottom") /\ j < sb[m].val =>
               \/ h <= array
               \/ \E l \in 1 .. m - 1 : Is(l, "array") /\ h <= sb[l].val
    BY DEF IInv, Homes
  <2>2. ASSUME NEW a \in h .. Mine
        PROVE  /\ \/ arrays'[a][Cell(a, j)'] = ItemAt[j]
                  \/ \E m \in 1 .. Len(sb') : Buffers(m, a, j)'
               /\ \A m \in 1 .. Len(sb') : Buffers(m, a, j)' => sb'[m].i = j
    <3>1. a \in 1 .. Mine /\ j \in Nat
      <4>1. \A n \in Nat : \A x \in 1 .. n : x .. n \subseteq 1 .. n
        OBVIOUS
      <4> QED
        BY <4>1, ArrayTypes, IndexTypes
    <3>2. Cell(a, j)' = Cell(a, j)
      BY <1>3 DEF Cell
    <3>3. arrays'[a][Cell(a, j)] = IF Buffers(1, a, j) THEN sb[1].val
                                                       ELSE arrays[a][Cell(a, j)]
      BY <3>1, DrainedArrays
    <3>4. \A m \in 1 .. Len(sb') : Buffers(m, a, j)' => sb'[m].i = j
      BY <2>1, <3>1, DrainedBuffers
    <3>5. CASE Buffers(1, a, j)
      <4>1. Is(1, "slot") /\ sb[1].i = j
        BY <1>1, <2>1, <3>5 DEF Buffers
      <4>2. sb[1].val = ItemAt[j]
        BY <1>1, <4>1, BufferedItem
      <4> QED
        BY <3>2, <3>3, <3>4, <3>5, <4>2
    <3>6. CASE ~Buffers(1, a, j)
      <4>1. arrays[a][Cell(a, j)] = ItemAt[j] \/ \E m \in 1 .. Len(sb) : Buffers(m, a, j)
        BY <2>1
      <4>2. (\E m \in 1 .. Len(sb) : Buffers(m, a, j))
              => \E m \in 1 .. Len(sb') : Buffers(m, a, j)'
        BY <3>1, <3>6, DrainedBuffers
      <4> QED
        BY <3>2, <3>3, <3>4, <3>6, <4>1, <4>2
    <3> QED
      BY <3>5, <3>6
  <2>3. array <= array' /\ array \in Nat /\ array' \in Nat /\ h \in Nat
    <3>1. Mine \in Nat /\ array \in 1 .. Mine /\ array' \in array .. Mine
      BY DrainedHead, ArrayTypes
    <3>2. array \in Nat /\ array' \in Nat /\ array <= array'
      BY <3>1
    <3> QED
      BY <3>1, <3>2
  <2>4. \A x \in 1 .. Mine : x \in Nat
    OBVIOUS
  <2>5. j < memBottom' => h <= array'
    <3>1. CASE Is(1, "bottom")
      <4>1. ~(\E l \in 1 .. 1 - 1 : Is(l, "array") /\ h <= sb[l].val)
        OBVIOUS
      <4>2. j < sb[1].val => h <= array
        BY <1>1, <2>1, <3>1, <4>1
      <4> QED
        BY <3>1, <4>2, DrainedHead
    <3>2. CASE ~Is(1, "bottom")
      <4>1. memBottom' = memBottom
        BY <3>2, DrainedHead
      <4> QED
        BY <2>1, <2>3, <4>1
    <3> QED
      BY <3>1, <3>2
  <2>6. ASSUME NEW m \in 1 .. Len(sb'), sb'[m].to = "bottom", j < sb'[m].val
        PROVE  \/ h <= array'
               \/ \E l \in 1 .. m - 1 : sb'[l].to = "array" /\ h <= sb'[l].val
    <3>1. m + 1 \in 1 .. Len(sb) /\ sb'[m] = sb[m + 1]
      BY <1>1
    <3>2. \/ h <= array
          \/ \E l \in 1 .. (m + 1) - 1 : Is(l, "array") /\ h <= sb[l].val
      BY <2>1, <2>6, <3>1 DEF Is
    <3>3. CASE h <= array
      BY <2>3, <3>3
    <3>4. CASE \E l \in 1 .. (m + 1) - 1 : Is(l, "array") /\ h <= sb[l].val
      <4>1. PICK l \in 1 .. (m + 1) - 1 : Is(l, "array") /\ h <= sb[l].val
        BY <3>4
      <4>2. CASE l = 1
        BY <4>1, <4>2, DrainedHead
      <4>3. CASE l # 1
        <5>1. l \in 1 .. Len(sb) /\ l - 1 \in 1 .. m - 1
          BY <1>1, <4>3
        <5>2. sb'[l - 1] = sb[l]
          BY <1>1, <4>3, <5>1
        <5> QED
          BY <4>1, <5>1, <5>2 DEF Is
      <4> QED
        BY <4>2, <4>3
    <3> QED
      BY <3>2, <3>3, <3>4
  <2> QED
    BY <2>1, <2>2, <2>5, <2>6
<1>10. ThievesRight'
  <2> SUFFICES ASSUME NEW t \in Thief
               PROVE  /\ tTop[t] <= top
                      /\ tPc[t] # "idle" => pc # "gone"
                      /\ tPc[t] \in {"array", "read", "cas"} /\ tTop[t] = top =>
                           /\ top < LogicalBottom
                           /\ \A m \in 1 .. Len(sb') : sb'[m].to = "slot" => sb'[m].i # top
                           /\ tPc[t] = "array" => \A a \in array' .. Mine : Holds(a, top)'
                           /\ tPc[t] = "read" => Holds(tArr[t], top)'
                           /\ tPc[t] = "cas" => tVal[t] = ItemAt'[top]
    BY <1>1, <1>2, <1>3 DEF ThievesRight, Is, thiefVars
  <2>1. ThiefRight(tPc[t], tTop[t], tArr[t], tVal[t]) /\ tArr[t] \in 1 .. Mine
    BY ThiefIs
  <2>2. top < LogicalBottom => top \in InDeque
    BY IndexTypes
  <2>3. ASSUME NEW a \in 1 .. Mine, top \in InDeque, Holds(a, top)
        PROVE  Holds(a, top)'
    <3>1. Cell(a, top)' = Cell(a, top) /\ top' = top /\ top \in Nat
      BY <1>1, <1>3, IndexTypes DEF Cell
    <3>2. arrays'[a][Cell(a, top)] = arrays[a][Cell(a, top)]
      BY <1>1, <2>3, <3>1, DrainedArrays DEF Holds
    <3>3. ASSUME NEW m \in 1 .. Len(sb'), NEW j, j = top, Buffers(m, a, j)'
          PROVE  FALSE
      BY <2>3, <3>3, DrainedBuffers DEF Holds
    <3>4. \A m \in 1 .. Len(sb') : ~Buffers(m, a, top)'
      BY <3>1, <3>3 DEF Buffers, Cell
    <3> QED
      BY <1>4, <2>3, <3>1, <3>2, <3>4 DEF Holds
  <2>4. \A a \in array' .. Mine : a \in array .. Mine /\ a \in 1 .. Mine
    <3>1. \A n \in Nat : \A x \in 1 .. n : \A y \in x .. n : \A z \in y .. n :
            z \in x .. n /\ z \in 1 .. n
      OBVIOUS
    <3> QED
      BY <3>1, DrainedHead, ArrayTypes
  <2>5. ASSUME \A m \in 1 .. Len(sb) : Is(m, "slot") => sb[m].i # top
        PROVE  \A m \in 1 .. Len(sb') : sb'[m].to = "slot" => sb'[m].i # top
    BY <1>1, <2>5 DEF Is
  <2>6. /\ tTop[t] <= top /\ (tPc[t] # "idle" => pc # "gone")
        /\ (tPc[t] \in {"array", "read", "cas"} /\ tTop[t] = top) =>
             /\ top < LogicalBottom
             /\ \A m \in 1 .. Len(sb) : Is(m, "slot") => sb[m].i # top
             /\ tPc[t] = "array" => \A a \in array .. Mine : Holds(a, top)
             /\ tPc[t] = "read" => Holds(tArr[t], top)
             /\ tPc[t] = "cas" => tVal[t] = ItemAt[top]
    BY <2>1 DEF ThiefRight
  <2>7. tArr' = tArr /\ top' = top
    BY <1>1 DEF thiefVars
  <2> QED
    BY <1>4, <2>1, <2>2, <2>3, <2>4, <2>5, <2>6, <2>7
<1> QED
  BY <1>5, <1>6, <1>7, <1>8, <1>9, <1>10, DrainedTypes DEF IInv

-----------------------------------------------------------------------------
(* The owner stores new items *)

\* What a push accepts fits into the owner's array, and is at least one item.
LEMMA AcceptedFits ==
  ASSUME IInv, PushStore
  PROVE  /\ Accepted \in Nat /\ Accepted >= 1 /\ Accepted <= Len(arg)
         /\ bottom + Accepted <= cachedTop + SizeOf[Mine]
         /\ LogicalBottom = bottom /\ LogicalBottom' = bottom + Accepted
         /\ bottom \in Nat /\ Len(arg) \in Nat /\ arg \in Seq(Item)
         /\ \A k \in 1 .. Len(arg) : arg[k] = pushed + k - 1
<1>1. pc = "store" /\ pc' = "idle" /\ bottom' = bottom + Accepted
  BY DEF PushStore
<1>2. LogicalBottom = bottom /\ LogicalBottom' = bottom + Accepted
  BY <1>1 DEF LogicalBottom
<1>3. arg \in Seq(Item) /\ arg # <<>> /\ \A k \in 1 .. Len(arg) : arg[k] = pushed + k - 1
  BY <1>1 DEF IInv, TypeOK, Decided
<1>4. Len(arg) \in Nat /\ Len(arg) >= 1
  BY <1>3
<1> DEFINE c == SizeOf[Mine]
           free == c - (bottom - cachedTop)
<1>5. c \in Nat /\ bottom \in Nat /\ cachedTop \in Nat /\ cachedTop <= bottom
  <2>1. c \in Nat
    BY ArrayTypes
  <2> HIDE DEF c
  <2> QED
    BY <1>2, <2>1, IndexTypes
<1>6. ~(bottom - cachedTop + (IF kind = "bounded" THEN 1 ELSE Len(arg)) > c)
  BY <1>1 DEF IInv, Decided, NoRoom
<1>7. Accepted = IF kind = "bounded" THEN Min({Len(arg), free}) ELSE Len(arg)
  BY DEF Accepted
<1> HIDE DEF c
<1>8. CASE kind = "bounded"
  <2>1. free \in Nat /\ free >= 1 /\ bottom + free = cachedTop + c
    BY <1>5, <1>6, <1>8
  <2> HIDE DEF free
  <2>2. /\ Accepted \in {Len(arg), free}
        /\ \A y \in {Len(arg), free} : Accepted <= y
    <3>1. {Len(arg), free} \subseteq Nat /\ {Len(arg), free} # {}
      BY <1>4, <2>1
    <3> QED
      BY <1>7, <1>8, <3>1, MinIn
  <2>3. Accepted \in Nat /\ Accepted >= 1 /\ Accepted <= Len(arg) /\ Accepted <= free
    BY <1>4, <2>1, <2>2
  <2>4. bottom + Accepted <= cachedTop + c
    BY <1>5, <2>1, <2>3
  <2> QED
    BY <1>2, <1>3, <1>4, <1>5, <2>3, <2>4 DEF c
<1>9. CASE kind # "bounded"
  <2>1. Accepted = Len(arg)
    BY <1>7, <1>9
  <2>2. bottom + Accepted <= cachedTop + c
    BY <1>4, <1>5, <1>6, <1>9, <2>1
  <2> QED
    BY <1>2, <1>3, <1>4, <1>5, <2>1, <2>2 DEF c
<1> QED
  BY <1>8, <1>9

\* The store buffer after a push: what it held, stores of the new items, the new
\* bottom.
LEMMA PushedBuffer ==
  ASSUME IInv, PushStore
  PROVE  /\ sb' \in Seq(Store) /\ sb' # <<>> /\ Len(sb) \in Nat
         /\ Len(sb') = Len(sb) + Accepted + 1
         /\ sb'[Len(sb')] = BottomStore(bottom + Accepted)
         /\ \A m \in 1 .. Len(sb) : m \in 1 .. Len(sb') /\ sb'[m] = sb[m]
         /\ \A k \in 0 .. Accepted - 1 :
              /\ Len(sb) + k + 1 \in 1 .. Len(sb')
              /\ sb'[Len(sb) + k + 1] = SlotStore(Mine, bottom + k, pushed + k)
              /\ pushed + k \in Item
         /\ \A m \in 1 .. Len(sb') :
              \/ m \in 1 .. Len(sb)
              \/ \E k \in 0 .. Accepted - 1 : m = Len(sb) + k + 1
              \/ m = Len(sb')
<1> DEFINE n == Accepted
           S == [k \in 1 .. n |-> SlotStore(Mine, bottom + k - 1, arg[k])]
           B == BottomStore(bottom + n)
<1>1. /\ n \in Nat /\ n <= Len(arg) /\ arg \in Seq(Item) /\ Len(arg) \in Nat
      /\ \A k \in 1 .. Len(arg) : arg[k] = pushed + k - 1
      /\ bottom \in Nat /\ pushed \in Nat
  BY AcceptedFits, IndexTypes
<1>2. sb' = (sb \o S) \o <<B>>
  BY DEF PushStore
<1> HIDE DEF n
<1>3. Mine \in Nat
  BY ArrayTypes
<1>4. S \in Seq(Store) /\ Len(S) = n
  <2>1. ASSUME NEW k \in 1 .. n
        PROVE  SlotStore(Mine, bottom + k - 1, arg[k]) \in Store
    <3>1. bottom + k - 1 \in Nat /\ arg[k] \in Item
      BY <1>1
    <3>2. arg[k] \in Nat
      BY <3>1 DEF Item
    <3> QED
      BY <1>3, <3>1, <3>2 DEF SlotStore, Store
  <2>2. S \in [1 .. n -> Store]
    BY <2>1
  <2> QED
    BY <1>1, <2>2, FunctionIsSeq
<1>5. \A k \in 0 .. n - 1 :
        /\ k + 1 \in 1 .. n /\ S[k + 1] = SlotStore(Mine, bottom + k, pushed + k)
        /\ pushed + k \in Item
  <2> SUFFICES ASSUME NEW k \in 0 .. n - 1
               PROVE  /\ k + 1 \in 1 .. n
                      /\ S[k + 1] = SlotStore(Mine, bottom + k, pushed + k)
                      /\ pushed + k \in Item
    OBVIOUS
  <2>1. k + 1 \in 1 .. n /\ k + 1 \in 1 .. Len(arg)
    BY <1>1
  <2>2. arg[k + 1] = pushed + k /\ bottom + (k + 1) - 1 = bottom + k
    BY <1>1, <2>1
  <2>3. S[k + 1] = SlotStore(Mine, bottom + (k + 1) - 1, arg[k + 1])
    BY <2>1
  <2>4. arg[k + 1] \in Item
    BY <1>1, <2>1
  <2> QED
    BY <2>1, <2>2, <2>3, <2>4
<1> HIDE DEF S
<1>6. B \in Store /\ sb \in Seq(Store) /\ Len(sb) \in Nat
  BY <1>1, IndexTypes DEF BottomStore, Store
<1> HIDE DEF B
<1>7. /\ sb' \in Seq(Store) /\ Len(sb') = Len(sb) + n + 1
      /\ \A m \in 1 .. Len(sb) : sb'[m] = sb[m]
      /\ \A x \in 1 .. n : sb'[Len(sb) + x] = S[x]
      /\ sb'[Len(sb')] = B
  <2> DEFINE q == sb \o S
  <2>1. /\ q \in Seq(Store) /\ Len(q) = Len(sb) + n
        /\ \A m \in 1 .. Len(sb) : q[m] = sb[m]
        /\ \A x \in 1 .. n : q[Len(sb) + x] = S[x]
    BY <1>4, <1>6
  <2> HIDE DEF q
  <2>2. /\ sb' \in Seq(Store) /\ Len(sb') = Len(q) + 1
        /\ \A m \in 1 .. Len(q) : sb'[m] = q[m]
        /\ sb'[Len(q) + 1] = B
    <3>1. sb' = q \o <<B>>
      BY <1>2 DEF q
    <3>2. sb' = Append(q, B)
      BY <1>6, <2>1, <3>1, AppendIsConcat
    <3> QED
      BY <1>6, <2>1, <3>2, AppendProperties
  <2>3. /\ \A m \in 1 .. Len(sb) : m \in 1 .. Len(q)
        /\ \A x \in 1 .. n : Len(sb) + x \in 1 .. Len(q)
    BY <1>1, <1>6, <2>1
  <2> QED
    BY <1>6, <2>1, <2>2, <2>3
<1>8. sb' # <<>> /\ \A m \in 1 .. Len(sb) : m \in 1 .. Len(sb')
  BY <1>1, <1>6, <1>7
<1>9. ASSUME NEW k \in 0 .. n - 1
      PROVE  /\ Len(sb) + k + 1 \in 1 .. Len(sb')
             /\ sb'[Len(sb) + k + 1] = SlotStore(Mine, bottom + k, pushed + k)
             /\ pushed + k \in Item
  <2>1. k + 1 \in 1 .. n /\ S[k + 1] = SlotStore(Mine, bottom + k, pushed + k)
        /\ pushed + k \in Item
    BY <1>5
  <2>2. Len(sb) + (k + 1) = Len(sb) + k + 1 /\ Len(sb) + k + 1 \in 1 .. Len(sb')
    BY <1>1, <1>6, <1>7
  <2>3. sb'[Len(sb) + (k + 1)] = S[k + 1]
    BY <1>7, <2>1
  <2> QED
    BY <2>1, <2>2, <2>3
<1>10. ASSUME NEW m \in 1 .. Len(sb')
       PROVE  \/ m \in 1 .. Len(sb)
              \/ \E k \in 0 .. n - 1 : m = Len(sb) + k + 1
              \/ m = Len(sb')
  <2> SUFFICES ASSUME m \notin 1 .. Len(sb), m # Len(sb')
               PROVE  \E k \in 0 .. n - 1 : m = Len(sb) + k + 1
    OBVIOUS
  <2>1. m - Len(sb) - 1 \in 0 .. n - 1 /\ m = Len(sb) + (m - Len(sb) - 1) + 1
    BY <1>1, <1>6, <1>7
  <2> QED
    BY <2>1
<1> QED
  BY <1>6, <1>7, <1>8, <1>9, <1>10 DEF B, n

\* The deque after a push: the old indices and those of the new items, in
\* different cells.
LEMMA PushedIndices ==
  ASSUME IInv, PushStore
  PROVE  /\ InDeque' = top .. bottom + Accepted - 1
         /\ \A j \in InDeque : j \in InDeque' /\ j < bottom
         /\ \A k \in 0 .. Accepted - 1 : bottom + k \in InDeque'
         /\ \A j \in InDeque' :
              j \in InDeque \/ \E k \in 0 .. Accepted - 1 : j = bottom + k
         /\ InDeque' \subseteq Nat
         /\ \A i, j \in InDeque' : Cell(Mine, i) = Cell(Mine, j) => i = j
<1> DEFINE c == SizeOf[Mine]
<1>1. /\ top' = top /\ LogicalBottom = bottom /\ LogicalBottom' = bottom + Accepted
      /\ Accepted \in Nat /\ bottom + Accepted <= cachedTop + c
      /\ cachedTop \in Nat /\ top \in Nat /\ bottom \in Nat /\ top <= bottom
      /\ cachedTop <= top
  <2>1. /\ LogicalBottom = bottom /\ LogicalBottom' = bottom + Accepted
        /\ Accepted \in Nat /\ bottom + Accepted <= cachedTop + c /\ bottom \in Nat
    BY AcceptedFits
  <2>2. top' = top
    BY DEF PushStore, shared
  <2>3. cachedTop \in Nat /\ top \in Nat /\ top <= LogicalBottom /\ cachedTop <= top
    BY IndexTypes
  <2> HIDE DEF c
  <2> QED
    BY <2>1, <2>2, <2>3
<1>2. c \in Nat \ {0}
  BY ArrayTypes
<1>3. \A i, j : Cell(Mine, i) = Cell(Mine, j) <=> i % c = j % c
  BY DEF Cell
<1> HIDE DEF c
<1>4. InDeque = top .. bottom - 1 /\ InDeque' = top .. bottom + Accepted - 1
  BY <1>1 DEF InDeque
<1>5. \A j \in InDeque' :
        j \in InDeque \/ \E k \in 0 .. Accepted - 1 : j = bottom + k
  <2> SUFFICES ASSUME NEW j \in InDeque', j \notin InDeque
               PROVE  \E k \in 0 .. Accepted - 1 : j = bottom + k
    OBVIOUS
  <2>1. j - bottom \in 0 .. Accepted - 1 /\ j = bottom + (j - bottom)
    BY <1>1, <1>4
  <2> QED
    BY <2>1
<1>6. \A j \in InDeque' : j \in cachedTop .. cachedTop + c - 1
  BY <1>1, <1>2, <1>4
<1>7. ASSUME NEW i \in InDeque', NEW j \in InDeque', Cell(Mine, i) = Cell(Mine, j)
      PROVE  i = j
  BY <1>1, <1>2, <1>3, <1>6, <1>7, CellsApart
<1>8. /\ \A j \in InDeque : j \in InDeque' /\ j < bottom
      /\ \A k \in 0 .. Accepted - 1 : bottom + k \in InDeque'
      /\ InDeque' \subseteq Nat
  BY <1>1, <1>4
<1> QED
  BY <1>4, <1>5, <1>7, <1>8

\* The slot stores after a push: the old ones and those of the new items.
LEMMA PushedSlots ==
  ASSUME IInv, PushStore, NEW m \in 1 .. Len(sb'), sb'[m].to = "slot"
  PROVE  \/ m \in 1 .. Len(sb) /\ sb'[m] = sb[m] /\ Is(m, "slot")
         \/ \E k \in 0 .. Accepted - 1 :
              /\ m = Len(sb) + k + 1
              /\ sb'[m].a = Mine /\ sb'[m].i = bottom + k /\ sb'[m].val = pushed + k
<1>1. CASE m \in 1 .. Len(sb)
  BY <1>1, PushedBuffer DEF Is
<1>2. CASE \E k \in 0 .. Accepted - 1 : m = Len(sb) + k + 1
  <2>1. PICK k \in 0 .. Accepted - 1 : m = Len(sb) + k + 1
    BY <1>2
  <2>2. sb'[m] = SlotStore(Mine, bottom + k, pushed + k)
    BY <2>1, PushedBuffer
  <2>3. sb'[m].a = Mine /\ sb'[m].i = bottom + k /\ sb'[m].val = pushed + k
    BY <2>2 DEF SlotStore
  <2> QED
    BY <2>1, <2>3
<1>3. CASE m = Len(sb')
  BY <1>3, PushedBuffer DEF BottomStore
<1> QED
  BY <1>1, <1>2, <1>3, PushedBuffer

\* The items that were there keep their place; the new ones follow.
LEMMA PushedItems ==
  ASSUME IInv, PushStore
  PROVE  /\ SizeOf' = SizeOf /\ Mine' = Mine
         /\ \A j \in InDeque : ItemAt'[j] = ItemAt[j]
         /\ \A k \in 0 .. Accepted - 1 : ItemAt'[bottom + k] = pushed + k
<1>1. arrays' = arrays
  BY DEF PushStore, shared
<1>2. SizeOf' = SizeOf /\ Mine' = Mine
  BY <1>1 DEF SizeOf, Mine
<1>3. sb' \in Seq(Store) /\ sb \in Seq(Store)
  BY PushedBuffer, IndexTypes
<1>4. ASSUME NEW j \in InDeque', NEW m \in 1 .. Len(sb'), sb'[m].to = "slot",
             sb'[m].a = Mine', sb'[m].i % SizeOf'[Mine'] = j % SizeOf'[Mine']
      PROVE  \/ j \in InDeque /\ sb'[m].val = ItemAt[j]
             \/ \E k \in 0 .. Accepted - 1 : j = bottom + k /\ sb'[m].val = pushed + k
  <2>1. Cell(Mine, sb'[m].i) = Cell(Mine, j)
    BY <1>2, <1>4 DEF Cell
  <2>2. CASE m \in 1 .. Len(sb) /\ sb'[m] = sb[m] /\ Is(m, "slot")
    <3>1. sb[m].i \in InDeque /\ sb[m].val = ItemAt[sb[m].i]
      BY <2>2, BufferedItem
    <3>2. sb[m].i = j
      BY <2>1, <2>2, <3>1, PushedIndices
    <3> QED
      BY <2>2, <3>1, <3>2
  <2>3. CASE \E k \in 0 .. Accepted - 1 :
               sb'[m].a = Mine /\ sb'[m].i = bottom + k /\ sb'[m].val = pushed + k
    <3>1. PICK k \in 0 .. Accepted - 1 :
             sb'[m].a = Mine /\ sb'[m].i = bottom + k /\ sb'[m].val = pushed + k
      BY <2>3
    <3>2. bottom + k \in InDeque'
      BY PushedIndices
    <3>3. bottom + k = j
      BY <2>1, <3>1, <3>2, PushedIndices
    <3> QED
      BY <3>1, <3>3
  <2> QED
    BY <1>4, <2>2, <2>3, PushedSlots
<1>5. ASSUME NEW j \in InDeque
      PROVE  ItemAt'[j] = ItemAt[j]
  <2>1. j \in InDeque' /\ j < bottom /\ j \in Nat /\ bottom \in Nat
    BY PushedIndices, IndexTypes, AcceptedFits
  <2>2. ASSUME NEW m \in 1 .. Len(sb'), sb'[m].to = "slot",
               sb'[m].a = Mine', sb'[m].i % SizeOf'[Mine'] = j % SizeOf'[Mine']
        PROVE  sb'[m].val = ItemAt[j]
    <3>1. ~(\E k \in 0 .. Accepted - 1 : j = bottom + k)
      BY <2>1
    <3> QED
      BY <1>4, <2>1, <2>2, <3>1
  <2>3. ASSUME \A m \in 1 .. Len(sb') :
                 ~(/\ sb'[m].to = "slot" /\ sb'[m].a = Mine'
                   /\ sb'[m].i % SizeOf'[Mine'] = j % SizeOf'[Mine'])
        PROVE  arrays'[Mine'][j % SizeOf'[Mine']] = ItemAt[j]
    <3>1. ASSUME NEW m \in 1 .. Len(sb), Buffers(m, Mine, j)
          PROVE  FALSE
      <4>1. m \in 1 .. Len(sb') /\ sb'[m] = sb[m]
        BY PushedBuffer
      <4> QED
        BY <1>2, <2>3, <3>1, <4>1 DEF Buffers, Is, Cell
    <3>2. ItemAt[j] = arrays[Mine][Cell(Mine, j)]
      BY <1>3, <3>1, ItemReads
    <3> QED
      BY <1>1, <1>2, <3>2 DEF Cell
  <2>4. OnlySees(j, ItemAt[j])
    BY <2>2, <2>3 DEF OnlySees
  <2> QED
    BY <1>3, <2>1, <2>4, ItemIs
<1>6. ASSUME NEW k \in 0 .. Accepted - 1
      PROVE  ItemAt'[bottom + k] = pushed + k
  <2> DEFINE j == bottom + k
  <2>1. j \in InDeque' /\ bottom \in Nat /\ j \notin InDeque
    <3>1. j \in InDeque' /\ bottom \in Nat /\ \A i \in InDeque : i < bottom
      BY PushedIndices, AcceptedFits
    <3> QED
      BY <3>1
  <2>2. ASSUME NEW m \in 1 .. Len(sb'), sb'[m].to = "slot",
               sb'[m].a = Mine', sb'[m].i % SizeOf'[Mine'] = j % SizeOf'[Mine']
        PROVE  sb'[m].val = pushed + k
    <3>1. PICK l \in 0 .. Accepted - 1 : j = bottom + l /\ sb'[m].val = pushed + l
      BY <1>4, <2>1, <2>2
    <3>2. l = k
      BY <2>1, <3>1
    <3> QED
      BY <3>1, <3>2
  <2>3. ~(\A m \in 1 .. Len(sb') :
            ~(/\ sb'[m].to = "slot" /\ sb'[m].a = Mine'
              /\ sb'[m].i % SizeOf'[Mine'] = j % SizeOf'[Mine']))
    <3>1. Len(sb) + k + 1 \in 1 .. Len(sb')
      BY PushedBuffer
    <3>2. sb'[Len(sb) + k + 1] = SlotStore(Mine, j, pushed + k)
      BY PushedBuffer
    <3> HIDE DEF j
    <3>3. LET s == sb'[Len(sb) + k + 1] IN s.to = "slot" /\ s.a = Mine /\ s.i = j
      BY <3>2 DEF SlotStore
    <3> QED
      BY <1>2, <3>1, <3>3
  <2> HIDE DEF j
  <2>4. OnlySees(j, pushed + k)
    BY <2>2, <2>3 DEF OnlySees
  <2>5. ItemAt'[j] = pushed + k
    BY <1>3, <2>1, <2>4, ItemIs
  <2> QED
    BY <2>5 DEF j
<1> QED
  BY <1>2, <1>5, <1>6

\* A push stores as many items as the cached top leaves room for.
LEMMA PushStoreInv ==
  ASSUME IInv, PushStore
  PROVE  IInv' /\ UNCHANGED <<top, handed>>
<1> DEFINE n == Accepted
<1>1. /\ bottom' = bottom + n /\ pushed' = pushed + n
      /\ pc = "store" /\ pc' = "idle" /\ arg' = <<>>
      /\ UNCHANGED <<kind, arrays, live, array, top, memBottom, cachedTop, thiefVars,
                     handed>>
  BY DEF PushStore, shared
<1>2. /\ n \in Nat /\ n >= 1
      /\ bottom + n <= cachedTop + SizeOf[Mine]
      /\ LogicalBottom = bottom /\ LogicalBottom' = bottom + n
      /\ bottom \in Nat /\ pushed \in Nat /\ top \in Nat /\ cachedTop \in Nat
      /\ top <= bottom /\ cachedTop <= top /\ memBottom \in Int /\ memBottom <= bottom
  BY AcceptedFits, IndexTypes DEF IInv, Buffered
<1>3. /\ SizeOf' = SizeOf /\ Mine' = Mine
      /\ \A j \in InDeque : ItemAt'[j] = ItemAt[j]
      /\ \A k \in 0 .. n - 1 : ItemAt'[bottom + k] = pushed + k
  BY PushedItems
<1>4. /\ \A j \in InDeque : j \in InDeque' /\ j < bottom /\ j \in Nat
      /\ \A j \in InDeque' :
           j \in InDeque \/ \E k \in 0 .. n - 1 : j = bottom + k
      /\ \A k \in 0 .. n - 1 : bottom + k \in InDeque'
  BY PushedIndices, IndexTypes
<1>5. /\ \A k \in 0 .. n - 1 : pushed + k \in Item
      /\ Len(sb) \in Nat /\ Len(sb') = Len(sb) + n + 1
      /\ \A m \in 1 .. Len(sb) : m \in 1 .. Len(sb') /\ sb'[m] = sb[m]
      /\ sb' \in Seq(Store) /\ sb' # <<>>
      /\ sb'[Len(sb')].to = "bottom" /\ sb'[Len(sb')].val = bottom + n
      /\ sb'[Len(sb')] = BottomStore(bottom + n)
      /\ Len(sb') \in Nat
  <2>1. /\ \A k \in 0 .. n - 1 : pushed + k \in Item
        /\ Len(sb) \in Nat /\ Len(sb') = Len(sb) + n + 1
        /\ \A m \in 1 .. Len(sb) : m \in 1 .. Len(sb') /\ sb'[m] = sb[m]
        /\ sb' \in Seq(Store) /\ sb' # <<>>
        /\ sb'[Len(sb')] = BottomStore(bottom + n)
    BY PushedBuffer
  <2> HIDE DEF n
  <2>2. sb'[Len(sb')].to = "bottom" /\ sb'[Len(sb')].val = bottom + n
    BY <2>1 DEF BottomStore
  <2>3. Len(sb') \in Nat
    BY <1>2, <2>1
  <2> QED
    BY <2>1, <2>2, <2>3
<1> HIDE DEF n
<1>6. TypeOK'
  <2>1. /\ cachedTop' \in Nat /\ pushed' \in Nat /\ top' \in Nat
        /\ bottom' \in Nat \union {-1} /\ memBottom' \in Nat \union {-1}
    BY <1>1, <1>2, IndexTypes
  <2>2. ThiefTypes' /\ handed' \in [Item -> Nat]
    BY <1>1 DEF IInv, TypeOK, ThiefTypes, thiefVars
  <2>3. /\ pc' \in {"idle", "load", "store", "fence", "popTop", "popCas", "gone"}
        /\ arg' \in Seq(Item)
    BY <1>1
  <2> QED
    BY <1>1, <1>5, <2>1, <2>2, <2>3, TypesKept
<1>7. Decided'
  <2>1. (bottom + n) - cachedTop <= SizeOf[Mine]
    <3> DEFINE c == SizeOf[Mine]
    <3>1. c \in Nat
      BY ArrayTypes
    <3> HIDE DEF c
    <3>2. (bottom + n) - cachedTop <= c
      BY <1>2, <3>1 DEF c
    <3> QED
      BY <3>2 DEF c
  <2>2. bottom <= pushed
    BY <1>2 DEF IInv, Decided
  <2>3. /\ cachedTop' <= top' /\ top' <= LogicalBottom' /\ LogicalBottom' <= pushed'
        /\ LogicalBottom' - cachedTop' <= SizeOf'[Mine']
    BY <1>1, <1>2, <1>3, <2>1, <2>2
  <2>4. /\ kind' = kind /\ live' = live /\ pc = "store" /\ pc' = "idle"
        /\ Len(arg') = 0 /\ Mine' = Mine
    BY <1>1, <1>3
  <2> QED
    BY <2>3, <2>4 DEF IInv, Decided
<1>8. \A m \in 1 .. Len(sb') :
        \/ m \in 1 .. Len(sb)
        \/ \E k \in 0 .. n - 1 :
             /\ m = Len(sb) + k + 1 /\ sb'[m].to = "slot"
             /\ sb'[m].a = Mine /\ sb'[m].i = bottom + k /\ sb'[m].val = pushed + k
        \/ m = Len(sb')
  <2> SUFFICES ASSUME NEW m \in 1 .. Len(sb'), m \notin 1 .. Len(sb), m # Len(sb')
               PROVE  \E k \in 0 .. n - 1 :
                        /\ m = Len(sb) + k + 1 /\ sb'[m].to = "slot"
                        /\ sb'[m].a = Mine /\ sb'[m].i = bottom + k
                        /\ sb'[m].val = pushed + k
    OBVIOUS
  <2>1. PICK k \in 0 .. n - 1 : m = Len(sb) + k + 1
    BY PushedBuffer DEF n
  <2>2. sb'[m] = SlotStore(Mine, bottom + k, pushed + k)
    BY <2>1, PushedBuffer DEF n
  <2>3. /\ sb'[m].to = "slot" /\ sb'[m].a = Mine /\ sb'[m].i = bottom + k
        /\ sb'[m].val = pushed + k
    BY <2>2 DEF SlotStore
  <2> QED
    BY <2>1, <2>3
<1>9. SlotsRight'
  <2>1. \A j \in InDeque :
          /\ ItemAt[j] \in Item /\ ItemAt[j] < pushed /\ handed[ItemAt[j]] = 0
          /\ ItemAt[j] \in Nat
          /\ \A i \in InDeque : i < j => ItemAt[i] < ItemAt[j]
    BY DEF IInv, SlotsRight, Item
  <2>2. ASSUME NEW j \in InDeque
        PROVE  /\ ItemAt'[j] \in Item /\ ItemAt'[j] < pushed'
               /\ handed'[ItemAt'[j]] = 0
               /\ \A i \in InDeque' : i < j => ItemAt'[i] < ItemAt'[j]
    <3>1. ItemAt'[j] \in Item /\ ItemAt'[j] < pushed' /\ handed'[ItemAt'[j]] = 0
      BY <1>1, <1>2, <1>3, <2>1
    <3>2. ASSUME NEW i \in InDeque', i < j
          PROVE  ItemAt'[i] < ItemAt'[j]
      <4>1. i \in InDeque
        BY <1>2, <1>4, <3>2
      <4> QED
        BY <1>3, <2>1, <3>2, <4>1
    <3> QED
      BY <3>1, <3>2
  <2>3. ASSUME NEW k \in 0 .. n - 1, NEW j, j = bottom + k
        PROVE  /\ ItemAt'[j] \in Item /\ ItemAt'[j] < pushed'
               /\ handed'[ItemAt'[j]] = 0
               /\ \A i \in InDeque' : i < j => ItemAt'[i] < ItemAt'[j]
    <3>1. ItemAt'[j] = pushed + k /\ pushed + k \in Item
      BY <1>3, <1>5, <2>3
    <3>2. pushed + k < pushed' /\ pushed + k >= pushed
      BY <1>1, <1>2
    <3>3. handed'[pushed + k] = 0
      BY <1>1, <3>1, <3>2 DEF IInv, SlotsRight
    <3>4. ASSUME NEW i \in InDeque', i < j
          PROVE  ItemAt'[i] < ItemAt'[j]
      <4>1. CASE i \in InDeque
        <5>1. ItemAt'[i] = ItemAt[i] /\ ItemAt[i] < pushed /\ ItemAt[i] \in Nat
          BY <1>3, <2>1, <4>1
        <5> QED
          BY <1>2, <3>1, <3>2, <5>1
      <4>2. CASE \E l \in 0 .. n - 1 : i = bottom + l
        <5>1. PICK l \in 0 .. n - 1 : i = bottom + l
          BY <4>2
        <5>2. ItemAt'[i] = pushed + l
          BY <1>3, <5>1
        <5> QED
          BY <1>2, <2>3, <3>1, <3>4, <5>1, <5>2
      <4> QED
        BY <1>4, <4>1, <4>2
    <3> QED
      BY <3>1, <3>2, <3>3, <3>4
  <2>4. \A i \in Item : i >= pushed' => handed'[i] = 0
    <3>1. \A i \in Item : i >= pushed' => i >= pushed
      BY <1>1, <1>2 DEF Item
    <3> QED
      BY <1>1, <3>1 DEF IInv, SlotsRight
  <2> QED
    BY <1>4, <2>2, <2>3, <2>4 DEF SlotsRight
<1>10. Buffered'
  <2>1. sb' # <<>> /\ sb'[Len(sb')] = BottomStore(bottom') /\ memBottom' <= LogicalBottom'
    BY <1>1, <1>2, <1>5
  <2>2. array' = Mine' \/ \E m \in 1 .. Len(sb') : sb'[m].to = "array" /\ sb'[m].val = Mine'
    <3>1. array = Mine \/ \E m \in 1 .. Len(sb) : Is(m, "array") /\ sb[m].val = Mine
      BY DEF IInv, Buffered
    <3> QED
      BY <1>1, <1>3, <1>5, <3>1 DEF Is
  <2>3. \A m \in 1 .. Len(sb) :
          /\ sb[m].to = "bottom" => sb[m].val <= LogicalBottom
          /\ sb[m].to = "array" =>
               /\ sb[m].val \in array .. Mine
               /\ \A l \in 1 .. m - 1 :
                    sb[l].to = "array" => sb[l].val <= sb[m].val
          /\ sb[m].to = "slot" =>
               /\ sb[m].a \in 1 .. Mine /\ sb[m].i \in InDeque
               /\ sb[m].val = ItemAt[sb[m].i] /\ memBottom <= sb[m].i
               /\ \A l \in 1 .. m - 1 :
                    sb[l].to = "bottom" => sb[l].val <= sb[m].i
    BY DEF IInv, Buffered, Is
  <2>4. \A m \in 1 .. Len(sb) : sb[m].val \in Int
    BY StoreTypes, IndexTypes
  <2>5. ASSUME NEW m \in 1 .. Len(sb')
        PROVE  /\ sb'[m].to = "bottom" => sb'[m].val <= LogicalBottom'
               /\ sb'[m].to = "array" =>
                    /\ sb'[m].val \in array' .. Mine'
                    /\ \A l \in 1 .. m - 1 :
                         sb'[l].to = "array" => sb'[l].val <= sb'[m].val
               /\ sb'[m].to = "slot" =>
                    /\ sb'[m].a \in 1 .. Mine' /\ sb'[m].i \in InDeque'
                    /\ sb'[m].val = ItemAt'[sb'[m].i]
                    /\ memBottom' <= sb'[m].i
                    /\ \A l \in 1 .. m - 1 :
                         sb'[l].to = "bottom" => sb'[l].val <= sb'[m].i
    <3>1. CASE m \in 1 .. Len(sb)
      <4>1. sb'[m] = sb[m] /\ \A l \in 1 .. m - 1 : sb'[l] = sb[l]
        BY <1>5, <3>1
      <4>2. sb[m].to = "bottom" => sb[m].val <= LogicalBottom'
        BY <1>2, <2>3, <2>4, <3>1
      <4>3. sb[m].to = "slot" => /\ sb[m].i \in InDeque'
                                 /\ ItemAt'[sb[m].i] = ItemAt[sb[m].i]
        BY <1>3, <1>4, <2>3, <3>1
      <4> QED
        BY <1>1, <1>3, <2>3, <3>1, <4>1, <4>2, <4>3
    <3>2. CASE \E k \in 0 .. n - 1 :
                 /\ m = Len(sb) + k + 1 /\ sb'[m].to = "slot"
                 /\ sb'[m].a = Mine /\ sb'[m].i = bottom + k /\ sb'[m].val = pushed + k
      <4>1. PICK k \in 0 .. n - 1 :
               /\ m = Len(sb) + k + 1 /\ sb'[m].to = "slot"
               /\ sb'[m].a = Mine /\ sb'[m].i = bottom + k /\ sb'[m].val = pushed + k
        BY <3>2
      <4>2. Mine \in 1 .. Mine
        BY ArrayTypes
      <4>3. bottom + k \in InDeque' /\ ItemAt'[bottom + k] = pushed + k
        BY <1>3, <1>4
      <4>4. memBottom' <= bottom + k
        BY <1>1, <1>2
      <4>5. ASSUME NEW l \in 1 .. m - 1, sb'[l].to = "bottom"
            PROVE  sb'[l].val <= bottom + k
        <5>1. l \in 1 .. Len(sb') /\ l # Len(sb')
          BY <1>2, <1>5, <4>1
        <5>2. l \in 1 .. Len(sb)
          BY <1>8, <4>5, <5>1
        <5>3. sb'[l] = sb[l] /\ sb[l].val <= bottom /\ sb[l].val \in Int
          BY <1>2, <1>5, <2>3, <2>4, <4>5, <5>2
        <5> QED
          BY <1>2, <5>3
      <4> QED
        BY <1>3, <4>1, <4>2, <4>3, <4>4, <4>5
    <3>3. CASE m = Len(sb')
      BY <1>2, <1>5, <3>3
    <3> QED
      BY <1>8, <3>1, <3>2, <3>3
  <2> QED
    BY <2>1, <2>2, <2>5 DEF Buffered, Is
<1>11. Homes'
  <2> SUFFICES ASSUME NEW j \in InDeque'
               PROVE  \E h \in 1 .. Mine :
                 /\ \A a \in h .. Mine :
                      /\ \/ arrays[a][Cell(a, j)] = ItemAt'[j]
                         \/ \E m \in 1 .. Len(sb') : Buffers(m, a, j)'
                      /\ \A m \in 1 .. Len(sb') : Buffers(m, a, j)' => sb'[m].i = j
                 /\ j < memBottom => h <= array
                 /\ \A m \in 1 .. Len(sb') : sb'[m].to = "bottom" /\ j < sb'[m].val =>
                      \/ h <= array
                      \/ \E l \in 1 .. m - 1 : sb'[l].to = "array" /\ h <= sb'[l].val
    BY <1>1, <1>3 DEF Homes, Is, Cell
  <2>1. Mine \in Nat /\ array \in 1 .. Mine
    BY ArrayTypes
  <2>2. ASSUME NEW h \in 1 .. Mine
        PROVE  \/ h <= array
               \/ \E l \in 1 .. Len(sb') - 1 : sb'[l].to = "array" /\ h <= sb'[l].val
    <3>1. CASE array = Mine
      BY <2>1, <3>1
    <3>2. CASE \E l \in 1 .. Len(sb) : Is(l, "array") /\ sb[l].val = Mine
      <4>1. PICK l \in 1 .. Len(sb) : Is(l, "array") /\ sb[l].val = Mine
        BY <3>2
      <4>2. l \in 1 .. Len(sb') - 1
        BY <1>2, <1>5
      <4>3. sb'[l].to = "array" /\ h <= sb'[l].val
        BY <1>5, <2>1, <4>1 DEF Is
      <4> QED
        BY <4>2, <4>3
    <3> QED
      BY <3>1, <3>2 DEF IInv, Buffered
  <2>3. \A i : \A a : Cell(a, i)' = Cell(a, i)
    BY <1>3 DEF Cell
  <2>4. CASE j \in InDeque
    <3>1. PICK h \in 1 .. Mine :
            /\ \A a \in h .. Mine :
                 /\ \/ arrays[a][Cell(a, j)] = ItemAt[j]
                    \/ \E m \in 1 .. Len(sb) : Buffers(m, a, j)
                 /\ \A m \in 1 .. Len(sb) : Buffers(m, a, j) => sb[m].i = j
            /\ j < memBottom => h <= array
            /\ \A m \in 1 .. Len(sb) : Is(m, "bottom") /\ j < sb[m].val =>
                 \/ h <= array
                 \/ \E l \in 1 .. m - 1 : Is(l, "array") /\ h <= sb[l].val
      BY <2>4 DEF IInv, Homes
    <3>2. ASSUME NEW a \in h .. Mine
          PROVE  /\ \/ arrays[a][Cell(a, j)] = ItemAt'[j]
                    \/ \E m \in 1 .. Len(sb') : Buffers(m, a, j)'
                 /\ \A m \in 1 .. Len(sb') : Buffers(m, a, j)' => sb'[m].i = j
      <4>1. ASSUME NEW m \in 1 .. Len(sb), Buffers(m, a, j)
            PROVE  \E l \in 1 .. Len(sb') : Buffers(l, a, j)'
        <5>1. m \in 1 .. Len(sb') /\ sb'[m] = sb[m]
          BY <1>5
        <5>2. Buffers(m, a, j)'
          BY <1>3, <4>1, <5>1 DEF Buffers, Is, Cell
        <5> QED
          BY <5>1, <5>2
      <4>2. ASSUME NEW m \in 1 .. Len(sb'), Buffers(m, a, j)'
            PROVE  sb'[m].i = j
        <5>1. sb'[m].to = "slot" /\ sb'[m].a = a
              /\ sb'[m].i % SizeOf[a] = j % SizeOf[a]
          BY <1>3, <4>2 DEF Buffers, Is, Cell
        <5>2. CASE m \in 1 .. Len(sb) /\ sb'[m] = sb[m]
          <6>1. Buffers(m, a, j)
            BY <5>1, <5>2 DEF Buffers, Is, Cell
          <6> QED
            BY <3>1, <5>2, <6>1
        <5>3. CASE \E k \in 0 .. n - 1 : sb'[m].a = Mine /\ sb'[m].i = bottom + k
          <6>1. PICK k \in 0 .. n - 1 : sb'[m].a = Mine /\ sb'[m].i = bottom + k
            BY <5>3
          <6>2. Cell(Mine, bottom + k) = Cell(Mine, j)
            BY <5>1, <6>1 DEF Cell
          <6> QED
            BY <1>4, <6>1, <6>2, PushedIndices
        <5> QED
          BY <5>1, <5>2, <5>3, PushedSlots DEF n
      <4> QED
        BY <1>3, <2>4, <3>1, <4>1, <4>2
    <3>3. ASSUME NEW m \in 1 .. Len(sb'), sb'[m].to = "bottom", j < sb'[m].val
          PROVE  \/ h <= array
                 \/ \E l \in 1 .. m - 1 : sb'[l].to = "array" /\ h <= sb'[l].val
      <4>1. CASE m \in 1 .. Len(sb)
        <5>1. sb'[m] = sb[m] /\ \A l \in 1 .. m - 1 : sb'[l] = sb[l]
          BY <1>5, <4>1
        <5> QED
          BY <3>1, <3>3, <4>1, <5>1 DEF Is
      <4>2. CASE m = Len(sb')
        BY <2>2, <4>2
      <4> QED
        BY <1>8, <3>3, <4>1, <4>2
    <3> QED
      BY <3>1, <3>2, <3>3
  <2>5. CASE \E k \in 0 .. n - 1 : j = bottom + k
    <3>1. PICK k \in 0 .. n - 1 : j = bottom + k
      BY <2>5
    <3>2. Mine \in 1 .. Mine /\ \A a \in Mine .. Mine : a = Mine
      <4>1. \A x \in Nat : \A a \in x .. x : a = x
        OBVIOUS
      <4> QED
        BY <2>1, <4>1, ArrayTypes
    <3>3. ASSUME NEW a, a = Mine
          PROVE  \E m \in 1 .. Len(sb') : Buffers(m, a, j)'
      <4>1. Len(sb) + k + 1 \in 1 .. Len(sb')
            /\ sb'[Len(sb) + k + 1] = SlotStore(Mine, bottom + k, pushed + k)
        BY PushedBuffer DEF n
      <4>2. PICK m \in 1 .. Len(sb') : sb'[m] = SlotStore(Mine, j, pushed + k)
        BY <3>1, <4>1
      <4>3. sb'[m].to = "slot" /\ sb'[m].a = a /\ sb'[m].i = j
        BY <3>3, <4>2 DEF SlotStore
      <4>4. Buffers(m, a, j)'
        BY <4>3 DEF Buffers, Is, Cell
      <4> QED
        BY <4>4
    <3>4. ASSUME NEW a, a = Mine, NEW m \in 1 .. Len(sb'), Buffers(m, a, j)'
          PROVE  sb'[m].i = j
      <4>1. /\ sb'[m].to = "slot" /\ sb'[m].a = Mine
            /\ sb'[m].i % SizeOf[Mine] = j % SizeOf[Mine]
        BY <1>3, <3>4 DEF Buffers, Is, Cell
      <4>2. sb'[m].i \in InDeque'
        <5>1. \/ m \in 1 .. Len(sb) /\ sb'[m] = sb[m] /\ Is(m, "slot")
              \/ \E l \in 0 .. n - 1 : sb'[m].i = bottom + l
          BY <4>1, PushedSlots DEF n
        <5>2. m \in 1 .. Len(sb) /\ Is(m, "slot") => sb[m].i \in InDeque
          BY BufferedItem
        <5> QED
          BY <1>4, <5>1, <5>2
      <4>3. Cell(Mine, sb'[m].i) = Cell(Mine, j)
        BY <4>1 DEF Cell
      <4> QED
        BY <4>2, <4>3, PushedIndices
    <3>5. ~(j < memBottom)
      BY <1>2, <3>1
    <3>6. ASSUME NEW m \in 1 .. Len(sb'), sb'[m].to = "bottom", j < sb'[m].val
          PROVE  \/ Mine <= array
                 \/ \E l \in 1 .. m - 1 : sb'[l].to = "array" /\ Mine <= sb'[l].val
      <4>1. CASE m \in 1 .. Len(sb)
        <5>1. sb'[m] = sb[m] /\ Is(m, "bottom")
          BY <1>5, <3>6, <4>1 DEF Is
        <5>2. sb[m].val <= bottom /\ sb[m].val \in Int
          BY <1>2, <4>1, <5>1, StoreTypes, IndexTypes DEF IInv, Buffered
        <5> QED
          BY <1>2, <3>1, <3>6, <5>1, <5>2
      <4>2. CASE m = Len(sb')
        BY <2>2, <3>2, <4>2
      <4> QED
        BY <1>8, <3>6, <4>1, <4>2
    <3> QED
      BY <3>2, <3>3, <3>4, <3>5, <3>6
  <2> QED
    BY <1>4, <2>4, <2>5
<1>12. ThievesRight'
  <2> SUFFICES ASSUME NEW t \in Thief
               PROVE  /\ tTop[t] <= top
                      /\ tPc[t] \in {"array", "read", "cas"} /\ tTop[t] = top =>
                           /\ top < LogicalBottom'
                           /\ \A m \in 1 .. Len(sb') : sb'[m].to = "slot" => sb'[m].i # top
                           /\ tPc[t] = "array" => \A a \in array .. Mine : Holds(a, top)'
                           /\ tPc[t] = "read" => Holds(tArr[t], top)'
                           /\ tPc[t] = "cas" => tVal[t] = ItemAt'[top]
    BY <1>1, <1>3 DEF ThievesRight, Is, thiefVars
  <2>1. /\ tTop[t] <= top
        /\ tPc[t] \in {"array", "read", "cas"} /\ tTop[t] = top =>
             /\ top < LogicalBottom
             /\ \A m \in 1 .. Len(sb) : Is(m, "slot") => sb[m].i # top
             /\ tPc[t] = "array" => \A a \in array .. Mine : Holds(a, top)
             /\ tPc[t] = "read" => Holds(tArr[t], top)
             /\ tPc[t] = "cas" => tVal[t] = ItemAt[top]
    BY ThiefIs DEF ThiefRight
  <2>2. top < LogicalBottom => top \in InDeque /\ top < bottom /\ top < LogicalBottom'
    BY <1>2, IndexTypes
  <2>3. ASSUME top < bottom,
               \A m \in 1 .. Len(sb) : Is(m, "slot") => sb[m].i # top
        PROVE  \A m \in 1 .. Len(sb') : sb'[m].to = "slot" => sb'[m].i # top
    <3> SUFFICES ASSUME NEW m \in 1 .. Len(sb'), sb'[m].to = "slot"
                 PROVE  sb'[m].i # top
      OBVIOUS
    <3>1. \A k \in 0 .. n - 1 : bottom + k # top
      BY <1>2, <2>3
    <3> QED
      BY <2>3, <3>1, PushedSlots DEF n
  <2>4. ASSUME NEW a, top \in InDeque, Holds(a, top),
               \A m \in 1 .. Len(sb') : sb'[m].to = "slot" => sb'[m].i # top
        PROVE  Holds(a, top)'
    <3>1. ASSUME NEW m \in 1 .. Len(sb'), Buffers(m, a, top)'
          PROVE  FALSE
      <4>1. /\ sb'[m].to = "slot" /\ sb'[m].a = a
            /\ sb'[m].i % SizeOf[a] = top % SizeOf[a]
        BY <1>1, <1>3, <3>1 DEF Buffers, Is, Cell
      <4>2. CASE m \in 1 .. Len(sb) /\ sb'[m] = sb[m]
        <5>1. Buffers(m, a, top)
          BY <4>1, <4>2 DEF Buffers, Is, Cell
        <5> QED
          BY <2>4, <4>2, <5>1 DEF Holds
      <4>3. CASE \E k \in 0 .. n - 1 : sb'[m].a = Mine /\ sb'[m].i = bottom + k
        <5>1. PICK k \in 0 .. n - 1 : sb'[m].a = Mine /\ sb'[m].i = bottom + k
          BY <4>3
        <5>2. Cell(Mine, bottom + k) = Cell(Mine, top)
          BY <4>1, <5>1 DEF Cell
        <5>3. bottom + k = top
          BY <1>4, <2>4, <5>2, PushedIndices
        <5> QED
          BY <2>4, <4>1, <5>1, <5>3
      <4> QED
        BY <4>1, <4>2, <4>3, PushedSlots DEF n
    <3>2. arrays[a][top % SizeOf[a]] = ItemAt[top]
      BY <2>4 DEF Holds, Cell
    <3> QED
      BY <1>1, <1>3, <2>4, <3>1, <3>2 DEF Holds, Cell
  <2>5. top' = top /\ tArr' = tArr
    BY <1>1 DEF thiefVars
  <2> QED
    BY <1>3, <2>1, <2>2, <2>3, <2>4, <2>5
<1> QED
  BY <1>1, <1>6, <1>7, <1>9, <1>10, <1>11, <1>12 DEF IInv

-----------------------------------------------------------------------------
(* The invariant *)

\* Four kinds of step take an item in or out; every other one goes unseen.
LEMMA StepKinds ==
  ASSUME IInv, [Next]_vars
  PROVE  /\ IInv'
         /\ \/ Unseen
            \/ PushStore
            \/ PopTake
            \/ PopCas /\ top = bottom
            \/ \E t \in Thief : StealCas(t) /\ top = tTop[t]
<1>1. CASE Fence \/ PopLast \/ Destroy \/ UNCHANGED vars
  BY <1>1, PassInv
<1>2. ASSUME NEW n \in 1 .. MaxBulk, CallPush(n)
      PROVE  IInv' /\ Unseen
  BY <1>2, CallPushInv
<1>3. CASE CallPop
  BY <1>3, CallPopInv
<1>4. CASE Refuse \/ Reload
  BY <1>4, RefreshInv
<1>5. CASE Grow
  BY <1>5, GrowInv
<1>6. CASE PushStore
  BY <1>6, PushStoreInv
<1>7. CASE PopEmpty
  BY <1>7, SettleInv
<1>8. CASE PopTake
  BY <1>8, PopTakeInv
<1>9. CASE PopCas
  BY <1>9, SettleInv, PopCasWonInv
<1>10. CASE Drain
  BY <1>10, DrainInv
<1>11. ASSUME NEW t \in Thief, StealLoadTop(t) \/ ThiefStep(t)
       PROVE  IInv' /\ (Unseen \/ (StealCas(t) /\ top = tTop[t]))
  <2>1. CASE StealLoadTop(t)
    BY <2>1, StealLoadTopInv
  <2>2. CASE StealEmpty(t)
    BY <2>2, StealEmptyInv
  <2>3. CASE StealLoadBottom(t)
    BY <2>3, StealLoadBottomInv
  <2>4. CASE StealLoadArray(t)
    BY <2>4, StealLoadArrayInv
  <2>5. CASE StealRead(t)
    BY <2>5, StealReadInv
  <2>6. CASE StealCas(t)
    BY <2>6, StealCasLostInv, StealCasWonInv
  <2> QED
    BY <1>11, <2>1, <2>2, <2>3, <2>4, <2>5, <2>6 DEF ThiefStep
<1> QED
  BY <1>1, <1>2, <1>3, <1>4, <1>5, <1>6, <1>7, <1>8, <1>9, <1>10, <1>11
     DEF Next, OwnerStep

\* In every reachable state the queue satisfies its inductive invariant.
THEOREM Invariance == Spec => []IInv
<1>1. Init => IInv
  BY InitInv
<1>2. IInv /\ [Next]_vars => IInv'
  BY StepKinds
<1> QED
  BY <1>1, <1>2, PTL DEF Spec

-----------------------------------------------------------------------------
(* The contents *)

\* The contents list the items in the order of their indices.
Listed == /\ Contents \in Seq(Item) /\ Len(Contents) = LogicalBottom - top
          /\ Len(Contents) \in Nat
          /\ \A k \in 1 .. Len(Contents) :
               top + k - 1 \in InDeque /\ Contents[k] = ItemAt[top + k - 1]

\* They do in every state that satisfies the invariant.
LEMMA ContentsAre == IInv => Listed
<1> SUFFICES ASSUME IInv PROVE Listed
  OBVIOUS
<1> DEFINE n == LogicalBottom - top
<1>1. n \in Nat /\ top \in Nat
  BY IndexTypes
<1>2. \A k \in 1 .. n : top + k - 1 \in InDeque
  BY IndexTypes DEF InDeque
<1>3. \A k \in 1 .. n : OwnerReads(top + k - 1) = ItemAt[top + k - 1]
  BY <1>2, ItemAtIs
<1>4. \A k \in 1 .. n : ItemAt[top + k - 1] \in Item
  BY <1>2 DEF IInv, SlotsRight
<1> DEFINE f == [k \in 1 .. n |-> OwnerReads(top + k - 1)]
<1>5. Contents = f
  BY DEF Contents
<1> HIDE DEF n
<1>6. f \in [1 .. n -> Item] /\ \A k \in 1 .. n : f[k] = ItemAt[top + k - 1]
  BY <1>3, <1>4
<1> HIDE DEF f
<1>7. f \in Seq(Item) /\ Len(f) = n
  BY <1>1, <1>6, FunctionIsSeq
<1> QED
  BY <1>1, <1>2, <1>5, <1>6, <1>7 DEF n, Listed

\* The array a thief reads is not deleted, however many times the owner replaced
\* it since; the items fit in the owner's array; and no subtraction of two bounds
\* wraps, in every interleaving of the owner with the thieves.
THEOREM ArraysSafety == Spec => []ArraysSafe
<1>1. IInv => ArraysSafe
  <2> SUFFICES ASSUME IInv PROVE ArraysSafe
    OBVIOUS
  <2>1. /\ Mine \in 1 .. Mine /\ array \in 1 .. Mine /\ DOMAIN arrays = 1 .. Mine
        /\ SizeOf[Mine] \in Nat
    BY ArrayTypes
  <2>2. live = IF pc = "gone" THEN {} ELSE 1 .. Mine
    BY DEF IInv, Decided
  <2>3. \A t \in Thief : tPc[t] = "read" => tArr[t] \in live
    <3> SUFFICES ASSUME NEW t \in Thief, tPc[t] = "read" PROVE tArr[t] \in live
      OBVIOUS
    <3>1. pc # "gone"
      BY DEF IInv, ThievesRight
    <3>2. tArr[t] \in 1 .. Mine
      BY <2>1 DEF IInv, TypeOK
    <3> QED
      BY <2>2, <3>1, <3>2
  <2>4. pc # "gone" => Mine \in live /\ array \in live
    BY <2>1, <2>2
  <2>5. Len(Contents) <= SizeOf[Mine]
    BY ContentsAre, DequeFits DEF Listed
  <2>6. cachedTop <= top /\ cachedTop <= LogicalBottom /\ top <= LogicalBottom
    BY IndexTypes
  <2> QED
    BY <2>3, <2>4, <2>5, <2>6 DEF ArraysSafe, IInv
<1> QED
  BY <1>1, Invariance, PTL

\* The deque is empty if, and only if, top has reached bottom.
LEMMA EmptyContents ==
  ASSUME IInv
  PROVE  Contents = <<>> <=> top = LogicalBottom
<1>1. Contents \in Seq(Item) /\ Len(Contents) = LogicalBottom - top
  BY ContentsAre DEF Listed
<1> QED
  BY <1>1, IndexTypes

\* The first item of a deque that is not empty is the one at top.
LEMMA TopItem ==
  ASSUME IInv, top < LogicalBottom
  PROVE  Contents # <<>> /\ Contents[1] = ItemAt[top]
<1>1. top \in Nat /\ LogicalBottom \in Nat
  BY IndexTypes
<1>2. Contents # <<>> /\ 1 \in 1 .. Len(Contents)
  BY <1>1, ContentsAre, EmptyContents DEF Listed
<1>3. Contents[1] = ItemAt[top + 1 - 1] /\ top + 1 - 1 = top
  BY <1>1, <1>2, ContentsAre DEF Listed
<1> QED
  BY <1>2, <1>3

-----------------------------------------------------------------------------
(* The deque is the abstract one *)

\* Sequences with the same elements are the same.
LEMMA SameSeq ==
  ASSUME NEW S, NEW p \in Seq(S), NEW q \in Seq(S), Len(p) = Len(q),
         \A k \in 1 .. Len(p) : p[k] = q[k]
  PROVE  p = q
OBVIOUS

\* The first n elements of a sequence.
LEMMA Prefix ==
  ASSUME NEW S, NEW q \in Seq(S), NEW n \in 0 .. Len(q)
  PROVE  /\ SubSeq(q, 1, n) \in Seq(S) /\ Len(SubSeq(q, 1, n)) = n
         /\ \A k \in 1 .. n : SubSeq(q, 1, n)[k] = q[k]
OBVIOUS

\* An unseen step leaves the contents alone.
LEMMA UnseenStutters ==
  ASSUME IInv, IInv', Unseen
  PROVE  UNCHANGED <<Contents, handed>>
<1> DEFINE C == Contents
           D == Contents'
<1>1. /\ C \in Seq(Item) /\ Len(C) = LogicalBottom - top
      /\ \A k \in 1 .. Len(C) : top + k - 1 \in InDeque /\ C[k] = ItemAt[top + k - 1]
  BY ContentsAre DEF Listed
<1>2. /\ D \in Seq(Item) /\ Len(D) = LogicalBottom' - top'
      /\ \A k \in 1 .. Len(D) : D[k] = ItemAt'[top + k - 1]
  <2>1. Listed'
    BY ContentsAre, PTL
  <2> QED
    BY <2>1 DEF Listed, Unseen
<1>3. LogicalBottom' = LogicalBottom /\ top' = top /\ handed' = handed
  BY DEF Unseen
<1>4. \A j \in InDeque : ItemAt'[j] = ItemAt[j]
  BY DEF Unseen
<1> HIDE DEF C, D
<1>5. ASSUME NEW k \in 1 .. Len(C)
      PROVE  D[k] = C[k]
  <2>1. PICK j \in InDeque : j = top + k - 1
    BY <1>1
  <2>2. C[k] = ItemAt[j] /\ D[k] = ItemAt'[j]
    BY <1>1, <1>2, <1>3, <2>1
  <2> QED
    BY <1>4, <2>2
<1>6. D = C
  BY <1>1, <1>2, <1>3, <1>5, SameSeq
<1> QED
  BY <1>3, <1>6 DEF C, D

\* The ends of the deque are naturals.
LEMMA TopBottomTypes == IInv => top \in Nat /\ LogicalBottom \in Nat
BY IndexTypes

\* The contents before and after a step, item by item.
LEMMA ContentsStep ==
  ASSUME IInv, IInv'
  PROVE  /\ Contents \in Seq(Item) /\ Len(Contents) = LogicalBottom - top
         /\ Contents' \in Seq(Item) /\ Len(Contents') = LogicalBottom' - top'
         /\ Len(Contents) \in Nat /\ Len(Contents') \in Nat
         /\ \A k \in 1 .. Len(Contents) : \A j \in {top + k - 1} :
              j \in InDeque /\ Contents[k] = ItemAt[j]
         /\ \A k \in 1 .. Len(Contents') : \A j \in {top' + k - 1} :
              j \in InDeque' /\ Contents'[k] = ItemAt'[j]
         /\ top \in Nat /\ LogicalBottom \in Nat /\ top' \in Nat /\ LogicalBottom' \in Nat
         /\ top <= LogicalBottom
<1>1. Listed /\ Listed'
  BY ContentsAre, PTL
<1>2. /\ top \in Nat /\ LogicalBottom \in Nat /\ top <= LogicalBottom
  BY IndexTypes
<1>3. top' \in Nat /\ LogicalBottom' \in Nat
  <2>1. (top \in Nat /\ LogicalBottom \in Nat)'
    BY TopBottomTypes, PTL
  <2> QED
    BY <2>1
<1> QED
  BY <1>1, <1>2, <1>3 DEF Listed

\* A push appends new items that fit.
LEMMA PushIsPush ==
  ASSUME IInv, IInv', PushStore
  PROVE  Deque!PushBottom
<1> DEFINE C == Contents
           D == Contents'
           n == Accepted
<1>1. /\ C \in Seq(Item) /\ D \in Seq(Item) /\ Len(C) \in Nat /\ Len(D) \in Nat
      /\ Len(C) = LogicalBottom - top /\ Len(D) = LogicalBottom' - top'
      /\ \A k \in 1 .. Len(C) : \A j \in {top + k - 1} : j \in InDeque /\ C[k] = ItemAt[j]
      /\ \A k \in 1 .. Len(D) : \A j \in {top' + k - 1} : j \in InDeque' /\ D[k] = ItemAt'[j]
      /\ top \in Nat
  BY ContentsStep
<1>2. /\ top' = top /\ handed' = handed
      /\ LogicalBottom' = bottom + n /\ LogicalBottom = bottom
      /\ n \in Nat /\ n >= 1 /\ bottom \in Nat /\ bottom <= pushed /\ pushed \in Nat
  <2>1. LogicalBottom = bottom /\ LogicalBottom <= pushed
    BY AcceptedFits DEF IInv, Decided
  <2> QED
    BY <2>1, AcceptedFits, PushStoreInv, IndexTypes
<1>3. \A j \in InDeque : ItemAt'[j] = ItemAt[j]
  BY PushedItems
<1>4. \A j \in InDeque' :
        /\ ItemAt'[j] \in Item /\ handed'[ItemAt'[j]] = 0
        /\ \A i \in InDeque' : i < j => ItemAt'[i] < ItemAt'[j]
  BY DEF IInv, SlotsRight
<1> HIDE DEF C, D, n
<1>5. Len(D) = Len(C) + n /\ Len(D) <= MaxItems
  <2>1. n - 1 \in 0 .. n - 1
    BY <1>2
  <2>2. pushed + (n - 1) \in Item
    BY <2>1, PushedBuffer DEF n
  <2>3. pushed + n <= MaxItems /\ MaxItems \in Nat
    BY <1>2, <2>2, WsqAssumption DEF Item
  <2> QED
    BY <1>1, <1>2, <2>3
<1>6. \A k \in 1 .. Len(C) : D[k] = C[k]
  <2> SUFFICES ASSUME NEW k \in 1 .. Len(C) PROVE D[k] = C[k]
    OBVIOUS
  <2>1. PICK j : j \in {top + k - 1}
    OBVIOUS
  <2>2. k \in 1 .. Len(D) /\ j \in {top' + k - 1}
    BY <1>1, <1>2, <1>5, <2>1
  <2>3. j \in InDeque /\ C[k] = ItemAt[j]
    BY <1>1, <2>1, <2>2
  <2>4. D[k] = ItemAt'[j]
    BY <1>1, <2>1, <2>2
  <2> QED
    BY <1>3, <2>3, <2>4, Zenon
<1>7. SubSeq(D, 1, Len(C)) = C
  <2>1. /\ SubSeq(D, 1, Len(C)) \in Seq(Item) /\ Len(SubSeq(D, 1, Len(C))) = Len(C)
        /\ \A k \in 1 .. Len(C) : SubSeq(D, 1, Len(C))[k] = D[k]
    <3>1. \A a, b \in Nat : a \in 0 .. a + b
      OBVIOUS
    <3>2. Len(C) \in 0 .. Len(D)
      BY <1>1, <1>2, <1>5, <3>1
    <3> HIDE DEF C, D
    <3> QED
      BY <1>1, <3>2, Prefix
  <2> QED
    BY <1>1, <1>6, <2>1, SameSeq
<1>8. ASSUME NEW k \in Len(C) + 1 .. Len(D)
      PROVE  handed[D[k]] = 0 /\ \A l \in 1 .. k - 1 : D[l] # D[k]
  <2>1. PICK j : j \in {top' + k - 1}
    OBVIOUS
  <2>2. k \in 1 .. Len(D)
    BY <1>1
  <2>3. j \in InDeque' /\ D[k] = ItemAt'[j]
    BY <1>1, <2>1, <2>2
  <2>4. ASSUME NEW l \in 1 .. k - 1
        PROVE  D[l] # D[k]
    <3>1. PICK i : i \in {top' + l - 1}
      OBVIOUS
    <3>2. l \in 1 .. Len(D)
      BY <2>2
    <3>3. i \in InDeque' /\ D[l] = ItemAt'[i]
      BY <1>1, <3>1, <3>2
    <3>4. i < j
      BY <1>1, <1>2, <2>1, <3>1
    <3>5. ItemAt'[i] < ItemAt'[j] /\ ItemAt'[i] \in Nat /\ ItemAt'[j] \in Nat
      BY <1>4, <2>3, <3>3, <3>4 DEF Item
    <3> QED
      BY <2>3, <3>3, <3>5
  <2> QED
    BY <1>2, <1>4, <2>3, <2>4
<1>9. Len(C) < Len(D)
  BY <1>1, <1>2, <1>5
<1> QED
  BY <1>1, <1>2, <1>5, <1>7, <1>8, <1>9 DEF Deque!PushBottom, C, D

\* Removing the last item of a sequence.
LEMMA LastRemoved ==
  ASSUME NEW S, NEW p \in Seq(S), NEW q \in Seq(S), Len(p) = Len(q) + 1,
         \A k \in 1 .. Len(q) : q[k] = p[k]
  PROVE  q = SubSeq(p, 1, Len(p) - 1) /\ p # <<>>
<1>1. /\ SubSeq(p, 1, Len(p) - 1) \in Seq(S)
      /\ Len(SubSeq(p, 1, Len(p) - 1)) = Len(q)
      /\ \A k \in 1 .. Len(q) : SubSeq(p, 1, Len(p) - 1)[k] = p[k]
  OBVIOUS
<1>2. q = SubSeq(p, 1, Len(p) - 1)
  BY <1>1, SameSeq
<1>3. p # <<>>
  OBVIOUS
<1> QED
  BY <1>2, <1>3

\* Removing the first item of a sequence.
LEMMA FirstRemoved ==
  ASSUME NEW S, NEW p \in Seq(S), NEW q \in Seq(S), Len(p) = Len(q) + 1,
         \A k \in 1 .. Len(q) : q[k] = p[k + 1]
  PROVE  q = Tail(p) /\ p # <<>> /\ Head(p) = p[1]
<1>1. p # <<>>
  OBVIOUS
<1>2. /\ Tail(p) \in Seq(S) /\ Len(Tail(p)) = Len(q)
      /\ \A k \in 1 .. Len(q) : Tail(p)[k] = p[k + 1]
  BY <1>1
<1>3. q = Tail(p)
  BY <1>2, SameSeq
<1> QED
  BY <1>1, <1>3

\* A pop that did not have to compete takes the bottom item.
LEMMA TakeIsPop ==
  ASSUME IInv, IInv', PopTake
  PROVE  Deque!PopBottom
<1> DEFINE C == Contents
           D == Contents'
<1>1. /\ C \in Seq(Item) /\ D \in Seq(Item) /\ Len(C) \in Nat /\ Len(D) \in Nat
      /\ Len(C) = LogicalBottom - top /\ Len(D) = LogicalBottom' - top'
      /\ \A k \in 1 .. Len(C) : \A j \in {top + k - 1} : j \in InDeque /\ C[k] = ItemAt[j]
      /\ \A k \in 1 .. Len(D) : \A j \in {top' + k - 1} : j \in InDeque' /\ D[k] = ItemAt'[j]
      /\ top \in Nat
  BY ContentsStep
<1>2. /\ bottom \in InDeque /\ top' = top /\ bottom \in Nat
      /\ LogicalBottom = bottom + 1 /\ LogicalBottom' = bottom
      /\ handed' = [handed EXCEPT ![ItemAt[bottom]] = @ + 1]
      /\ \A j \in InDeque' : j \in InDeque /\ ItemAt'[j] = ItemAt[j]
  BY PopTakeInv, IndexTypes
<1> HIDE DEF C, D
<1>3. Len(C) = Len(D) + 1
  BY <1>1, <1>2
<1>4. \A k \in 1 .. Len(D) : D[k] = C[k]
  <2> SUFFICES ASSUME NEW k \in 1 .. Len(D) PROVE D[k] = C[k]
    OBVIOUS
  <2>1. PICK j : j \in {top + k - 1} /\ j \in {top' + k - 1}
    BY <1>2
  <2>2. k \in 1 .. Len(C)
    BY <1>1, <1>3
  <2>3. j \in InDeque /\ C[k] = ItemAt[j]
    BY <1>1, <2>1, <2>2
  <2>4. j \in InDeque' /\ D[k] = ItemAt'[j]
    BY <1>1, <2>1, <2>2
  <2> QED
    BY <1>2, <2>3, <2>4
<1>5. C[Len(C)] = ItemAt[bottom]
  <2>1. Len(C) \in 1 .. Len(C) /\ bottom \in {top + Len(C) - 1}
    BY <1>1, <1>2, <1>3
  <2> QED
    BY <1>1, <2>1
<1>6. D = SubSeq(C, 1, Len(C) - 1) /\ C # <<>>
  BY <1>1, <1>3, <1>4, LastRemoved
<1> QED
  BY <1>2, <1>5, <1>6 DEF Deque!PopBottom, Deque!HandOut, C, D

\* A pop that won the race takes the only item.
LEMMA WonIsPop ==
  ASSUME IInv, IInv', PopCas, top = bottom
  PROVE  Deque!PopBottom
<1> DEFINE C == Contents
           D == Contents'
<1>1. /\ C \in Seq(Item) /\ D \in Seq(Item) /\ Len(C) \in Nat /\ Len(D) \in Nat
      /\ Len(C) = LogicalBottom - top /\ Len(D) = LogicalBottom' - top'
      /\ \A k \in 1 .. Len(C) : \A j \in {top + k - 1} : j \in InDeque /\ C[k] = ItemAt[j]
      /\ top \in Nat /\ LogicalBottom \in Nat
  BY ContentsStep
<1>2. /\ InDeque = {top} /\ top' = LogicalBottom /\ LogicalBottom' = LogicalBottom
      /\ handed' = [handed EXCEPT ![ItemAt[top]] = @ + 1]
  BY PopCasWonInv
<1>3. LogicalBottom = top + 1
  BY DEF PopCas, LogicalBottom
<1> HIDE DEF C, D
<1>4. Len(C) = 1 /\ Len(D) = 0
  BY <1>1, <1>2, <1>3
<1>5. C[Len(C)] = ItemAt[top]
  <2>1. \A i \in Nat : i + 1 - 1 = i
    OBVIOUS
  <2>2. top \in {top + 1 - 1} /\ 1 \in 1 .. 1
    BY <1>1, <2>1
  <2> QED
    BY <1>1, <1>4, <2>2
<1>6. D = SubSeq(C, 1, Len(C) - 1) /\ C # <<>>
  <2>1. Len(C) = Len(D) + 1 /\ \A k \in 1 .. Len(D) : D[k] = C[k]
    BY <1>4
  <2> QED
    BY <1>1, <2>1, LastRemoved
<1> QED
  BY <1>2, <1>5, <1>6 DEF Deque!PopBottom, Deque!HandOut, C, D

\* A steal takes the top item.
LEMMA CasIsSteal ==
  ASSUME IInv, IInv', NEW t \in Thief, StealCas(t), top = tTop[t]
  PROVE  Deque!StealTop
<1> DEFINE C == Contents
           D == Contents'
<1>1. /\ C \in Seq(Item) /\ D \in Seq(Item) /\ Len(C) \in Nat /\ Len(D) \in Nat
      /\ Len(C) = LogicalBottom - top /\ Len(D) = LogicalBottom' - top'
      /\ \A k \in 1 .. Len(C) : \A j \in {top + k - 1} : j \in InDeque /\ C[k] = ItemAt[j]
      /\ \A k \in 1 .. Len(D) : \A j \in {top' + k - 1} : j \in InDeque' /\ D[k] = ItemAt'[j]
      /\ top \in Nat /\ LogicalBottom \in Nat
  BY ContentsStep
<1>2. /\ top \in InDeque /\ top' = top + 1 /\ LogicalBottom' = LogicalBottom
      /\ handed' = [handed EXCEPT ![ItemAt[top]] = @ + 1]
      /\ \A j \in InDeque' : j \in InDeque /\ ItemAt'[j] = ItemAt[j]
  BY StealCasWonInv
<1>3. top < LogicalBottom
  BY <1>1, <1>2 DEF InDeque
<1>4. C[1] = ItemAt[top]
  BY <1>3, TopItem
<1> HIDE DEF C, D
<1>5. Len(C) = Len(D) + 1
  BY <1>1, <1>2
<1>6. \A k \in 1 .. Len(D) : D[k] = C[k + 1]
  <2> SUFFICES ASSUME NEW k \in 1 .. Len(D) PROVE D[k] = C[k + 1]
    OBVIOUS
  <2>1. PICK j : j \in {top + (k + 1) - 1} /\ j \in {top' + k - 1}
    BY <1>1, <1>2
  <2>2. k + 1 \in 1 .. Len(C)
    BY <1>1, <1>5
  <2>3. j \in InDeque /\ C[k + 1] = ItemAt[j]
    BY <1>1, <2>1, <2>2
  <2>4. j \in InDeque' /\ D[k] = ItemAt'[j]
    BY <1>1, <2>1
  <2> QED
    BY <1>2, <2>3, <2>4
<1>7. D = Tail(C) /\ C # <<>> /\ Head(C) = C[1]
  BY <1>1, <1>5, <1>6, FirstRemoved
<1> QED
  BY <1>2, <1>4, <1>7 DEF Deque!StealTop, Deque!HandOut, C, D

\* Every step is an instantaneous operation on the deque or goes unseen.
LEMMA StepsImplement ==
  ASSUME IInv, IInv', [Next]_vars
  PROVE  [Deque!DequeNext]_(Deque!dequeVars)
<1>1. CASE Unseen
  BY <1>1, UnseenStutters DEF Deque!dequeVars
<1>2. CASE PushStore
  BY <1>2, PushIsPush DEF Deque!DequeNext
<1>3. CASE PopTake
  BY <1>3, TakeIsPop DEF Deque!DequeNext
<1>4. CASE PopCas /\ top = bottom
  BY <1>4, WonIsPop DEF Deque!DequeNext
<1>5. CASE \E t \in Thief : StealCas(t) /\ top = tTop[t]
  BY <1>5, CasIsSteal DEF Deque!DequeNext
<1> QED
  BY <1>1, <1>2, <1>3, <1>4, <1>5, StepKinds

\* Owner and thieves together implement the abstract deque: pushes, pops and
\* steals take effect at one instant each, and no item is lost or handed out twice.
THEOREM Refinement == Spec => ImplementsDeque
<1>1. Init => Deque!DequeInit
  <2> SUFFICES ASSUME Init PROVE Deque!DequeInit
    OBVIOUS
  <2>1. LogicalBottom = 0 /\ top = 0
    BY DEF Init, LogicalBottom
  <2>2. Contents = <<>>
    BY <2>1, InitInv, EmptyContents
  <2> QED
    BY <2>2 DEF Deque!DequeInit, Init
<1>2. IInv /\ IInv' /\ [Next]_vars => [Deque!DequeNext]_(Deque!dequeVars)
  BY StepsImplement
<1> QED
  BY <1>1, <1>2, Invariance, PTL DEF Spec, ImplementsDeque, Deque!DequeSpec

-----------------------------------------------------------------------------
(* What the operations answer *)

\* A push that gives up saw a full queue, a pop that gives up an empty one, and a
\* thief that gives up while the owner rests an empty one as well.
LEMMA StepsHonest ==
  ASSUME IInv
  PROVE  /\ Refuse => Len(Contents) = SizeOf[Mine]
         /\ (PopEmpty \/ PopCas) /\ handed' = handed => Contents = <<>>
         /\ \A t \in Thief :
              StealEmpty(t) /\ pc \in {"idle", "gone"} /\ sb = <<>>
                => Contents = <<>>
<1>1. ASSUME Refuse
      PROVE  Len(Contents) = SizeOf[Mine]
  <2> DEFINE c == SizeOf[Mine]
  <2>1. LogicalBottom = bottom /\ bottom - top + 1 > c
    BY <1>1 DEF Refuse, NoRoom, LogicalBottom
  <2>2. LogicalBottom - top <= c /\ c \in Nat
    BY DequeFits, ArrayTypes
  <2>3. Len(Contents) = LogicalBottom - top
    BY ContentsAre DEF Listed
  <2> HIDE DEF c
  <2>4. Len(Contents) = c
    BY <2>1, <2>2, <2>3, IndexTypes
  <2> QED
    BY <2>4 DEF c
<1>2. ASSUME PopEmpty \/ PopCas, handed' = handed
      PROVE  Contents = <<>>
  <2>1. CASE PopEmpty \/ (PopCas /\ top # bottom)
    BY <2>1, SettleInv, EmptyContents
  <2>2. CASE PopCas /\ top = bottom
    <3>1. top \in InDeque /\ handed' = [handed EXCEPT ![ItemAt[top]] = @ + 1]
      BY <2>2, PopCasWonInv
    <3>2. ItemAt[top] \in Item /\ handed[ItemAt[top]] = 0
      BY <3>1 DEF IInv, SlotsRight
    <3>3. handed'[ItemAt[top]] = 1
      BY <3>1, <3>2 DEF IInv, TypeOK
    <3> QED
      BY <1>2, <3>2, <3>3
  <2> QED
    BY <1>2, <2>1, <2>2
<1>3. ASSUME NEW t \in Thief, StealEmpty(t), pc \in {"idle", "gone"}, sb = <<>>
      PROVE  Contents = <<>>
  <2>1. tTop[t] >= memBottom
    BY <1>3 DEF StealEmpty
  <2>2. tTop[t] <= top /\ tTop[t] \in Nat
    BY DEF IInv, ThievesRight, TypeOK
  <2>3. LogicalBottom = bottom /\ memBottom = bottom
    BY <1>3 DEF LogicalBottom, IInv, Buffered
  <2>4. top = LogicalBottom
    BY <2>1, <2>2, <2>3, IndexTypes
  <2> QED
    BY <2>4, EmptyContents
<1> QED
  BY <1>1, <1>2, <1>3

\* No operation reports a full or an empty queue that is not.
THEOREM HonestFailures == Spec => FailuresHonest
<1> DEFINE A == /\ Refuse => Len(Contents) = SizeOf[Mine]
                /\ (PopEmpty \/ PopCas) /\ handed' = handed => Contents = <<>>
                /\ \A t \in Thief :
                     StealEmpty(t) /\ pc \in {"idle", "gone"} /\ sb = <<>>
                       => Contents = <<>>
<1>1. IInv /\ [Next]_vars => [A]_vars
  BY StepsHonest
<1>2. FailuresHonest <=> [][A]_vars
  BY DEF FailuresHonest
<1> HIDE DEF A
<1> QED
  BY <1>1, <1>2, Invariance, PTL DEF Spec

-----------------------------------------------------------------------------
(* Nothing is lost *)

\* Every stored item was handed out once or is still in the queue.
Accounted ==
  \A i \in Item : /\ handed[i] <= 1
                  /\ i < pushed /\ handed[i] = 0 => \E j \in InDeque : ItemAt[j] = i

\* One step keeps the account.
LEMMA AccountKept ==
  ASSUME IInv, IInv', Accounted, [Next]_vars
  PROVE  Accounted'
<1>0. pushed \in Nat /\ InDeque \subseteq Nat /\ handed \in [Item -> Nat]
      /\ top \in Nat /\ LogicalBottom \in Nat
  BY IndexTypes DEF IInv, TypeOK
<1>1. CASE Unseen /\ pushed' = pushed
  <2>1. InDeque' = InDeque
    BY <1>1 DEF Unseen, InDeque
  <2> QED
    BY <1>1, <2>1 DEF Unseen, Accounted
<1>2. CASE PushStore
  <2>1. /\ handed' = handed /\ pushed' = pushed + Accepted /\ Accepted \in Nat
        /\ bottom \in Nat
    BY <1>2, PushStoreInv, AcceptedFits, IndexTypes DEF PushStore
  <2> SUFFICES ASSUME NEW i \in Item, i < pushed', handed[i] = 0
               PROVE  \E j \in InDeque' : ItemAt'[j] = i
    BY <2>1 DEF Accounted
  <2>2. CASE i < pushed
    <3>1. PICK j \in InDeque : ItemAt[j] = i
      BY <2>2 DEF Accounted
    <3>2. j \in InDeque' /\ ItemAt'[j] = ItemAt[j]
      BY <1>2, PushedIndices, PushedItems
    <3> QED
      BY <3>1, <3>2
  <2>3. CASE ~(i < pushed)
    <3>1. PICK k \in 0 .. Accepted - 1 : i = pushed + k
      <4>1. i - pushed \in 0 .. Accepted - 1 /\ i = pushed + (i - pushed)
        BY <1>0, <2>1, <2>3 DEF Item
      <4> QED
        BY <4>1
    <3>2. PICK j \in {bottom + k} : j \in InDeque'
      BY <1>2, PushedIndices
    <3>3. ItemAt'[j] = pushed + k
      BY <1>2, PushedItems
    <3> QED
      BY <3>1, <3>2, <3>3
  <2> QED
    BY <2>2, <2>3
<1>3. ASSUME NEW e \in InDeque, pushed' = pushed,
             handed' = [handed EXCEPT ![ItemAt[e]] = @ + 1],
             \A j \in InDeque : j # e => j \in InDeque' /\ ItemAt'[j] = ItemAt[j]
      PROVE  Accounted'
  <2>1. ItemAt[e] \in Item /\ handed[ItemAt[e]] = 0
    BY DEF IInv, SlotsRight
  <2>2. \A i \in Item : handed'[i] = IF i = ItemAt[e] THEN 1 ELSE handed[i]
    BY <1>0, <1>3, <2>1
  <2> SUFFICES ASSUME NEW i \in Item, i < pushed, handed'[i] = 0
               PROVE  \E j \in InDeque' : ItemAt'[j] = i
    BY <1>3, <2>2 DEF Accounted
  <2>3. i # ItemAt[e] /\ handed[i] = 0
    BY <2>2
  <2>4. PICK j \in InDeque : ItemAt[j] = i
    BY <2>3 DEF Accounted
  <2> QED
    BY <1>3, <2>3, <2>4
<1>4. CASE PopTake
  <2>1. pushed' = pushed
    BY <1>4 DEF PopTake
  <2>2. /\ bottom \in InDeque /\ top' = top /\ bottom \in Nat
        /\ LogicalBottom = bottom + 1 /\ LogicalBottom' = bottom
        /\ handed' = [handed EXCEPT ![ItemAt[bottom]] = @ + 1]
        /\ \A j \in InDeque' : ItemAt'[j] = ItemAt[j]
    BY <1>4, PopTakeInv, IndexTypes
  <2>3. \A j \in InDeque : j # bottom => j \in InDeque'
    BY <1>0, <2>2 DEF InDeque
  <2> QED
    BY <1>3, <2>1, <2>2, <2>3
<1>5. CASE PopCas /\ top = bottom
  <2>1. pushed' = pushed
    BY <1>5 DEF PopCas
  <2> QED
    BY <1>3, <1>5, <2>1, PopCasWonInv
<1>6. ASSUME NEW t \in Thief, StealCas(t), top = tTop[t]
      PROVE  Accounted'
  <2>1. pushed' = pushed
    BY <1>6 DEF StealCas, ownerVars
  <2>2. /\ top \in InDeque /\ top' = top + 1 /\ LogicalBottom' = LogicalBottom
        /\ handed' = [handed EXCEPT ![ItemAt[top]] = @ + 1]
        /\ \A j \in InDeque' : ItemAt'[j] = ItemAt[j]
    BY <1>6, StealCasWonInv
  <2>3. \A j \in InDeque : j # top => j \in InDeque'
    BY <1>0, <2>2 DEF InDeque
  <2> QED
    BY <1>3, <2>1, <2>2, <2>3
<1>7. pushed' = pushed \/ PushStore
  BY DEF Next, OwnerStep, ThiefStep, vars, ownerVars, CallPush, CallPop, Grow, Refuse,
         Reload, Fence, PopEmpty, PopLast, PopTake, PopCas, Drain, Destroy, StealLoadTop,
         StealEmpty, StealLoadBottom, StealLoadArray, StealRead, StealCas
<1> QED
  BY <1>1, <1>2, <1>4, <1>5, <1>6, <1>7, StepKinds

\* Whatever is pushed is handed out at most once, and is in the queue until then:
\* neither a lost race for the last item nor a stale thief loses or doubles it.
THEOREM NothingLost == Spec => []Accounted
<1>1. Init => Accounted
  <2> SUFFICES ASSUME Init PROVE Accounted
    OBVIOUS
  <2>1. pushed = 0 /\ handed = [i \in Item |-> 0]
    BY DEF Init
  <2> QED
    BY <2>1 DEF Accounted, Item
<1>2. IInv /\ IInv' /\ Accounted /\ [Next]_vars => Accounted'
  BY AccountKept
<1> QED
  BY <1>1, <1>2, Invariance, PTL DEF Spec
=============================================================================
