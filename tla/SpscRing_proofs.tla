-------------------------- MODULE SpscRing_proofs --------------------------
(***************************************************************************)
(* Proofs about SpscRing for every SIZE, Value and number of elements, and *)
(* for all of its queues but "joadClang", of which what they state is      *)
(* false.                                                                  *)
(***************************************************************************)
EXTENDS SpscRing, SequenceTheorems, TLAPS

-----------------------------------------------------------------------------
(* Facts about i % n *)

\* An index falls into a ring of n slots.
LEMMA ModRange ==
  ASSUME NEW n \in Nat \ {0}, NEW i \in Nat
  PROVE  i % n \in 0 .. n - 1
OBVIOUS

\* A slot number is at most the index it comes from.
LEMMA ModSmall ==
  ASSUME NEW n \in Nat \ {0}, NEW i \in Nat
  PROVE  i % n <= i
<1> DEFINE q == i \div n
<1>1. q \in Nat /\ i = (n * q) + (i % n)
  OBVIOUS
<1> HIDE DEF q
<1>2. n * q >= 0
  BY <1>1
<1> QED
  BY <1>1, <1>2

\* Indices less than a lap apart have different slots.
LEMMA ModInjective ==
  ASSUME NEW n \in Nat \ {0}, NEW i \in Nat, NEW j \in Nat, i < j, j < i + n
  PROVE  i % n # j % n
<1> DEFINE a == i \div n
           b == j \div n
<1>1. /\ a \in Int /\ b \in Int
      /\ i = (n * a) + (i % n)
      /\ j = (n * b) + (j % n)
  OBVIOUS
<1> HIDE DEF a, b
<1>2. SUFFICES ASSUME i % n = j % n PROVE FALSE
  OBVIOUS
<1>3. j - i = n * (b - a)
  BY <1>1, <1>2
<1>4. CASE b - a <= 0
  BY <1>1, <1>3, <1>4
<1>5. CASE b - a >= 1
  BY <1>1, <1>3, <1>5
<1> QED
  BY <1>1, <1>4, <1>5

\* An index and the one a lap later share a slot.
LEMMA ModLap ==
  ASSUME NEW n \in Nat \ {0}, NEW i \in Nat
  PROVE  i % n = (i + n) % n
<1> DEFINE a == i \div n
           b == (i + n) \div n
<1>1. /\ a \in Int /\ b \in Int
      /\ i = (n * a) + (i % n) /\ i % n \in 0 .. n - 1
      /\ i + n = (n * b) + ((i + n) % n) /\ (i + n) % n \in 0 .. n - 1
  OBVIOUS
<1> HIDE DEF a, b
<1>2. (i % n) - ((i + n) % n) = n * (b - a - 1)
  BY <1>1
<1>3. ~(b - a - 1 >= 1) /\ ~(b - a - 1 <= -1)
  BY <1>1, <1>2
<1>4. n * (b - a - 1) = 0
  BY <1>1, <1>3
<1>5. i % n \in Int /\ (i + n) % n \in Int
  BY <1>1
<1> QED
  BY <1>2, <1>4, <1>5

\* A table of rows with n cells each: cell c of row r has number (n * r) + c, and
\* the number tells row and cell.
LEMMA CellNumber ==
  ASSUME NEW n \in Nat \ {0}, NEW r \in Nat, NEW c \in 0 .. n - 1
  PROVE  ((n * r) + c) \div n = r /\ ((n * r) + c) % n = c
<1> DEFINE x == (n * r) + c
           q == x \div n
           d == x % n
<1>0. x \in Nat
  OBVIOUS
<1>1. q \in Int /\ d \in 0 .. n - 1 /\ x = (n * q) + d
  BY <1>0
<1> HIDE DEF q, d
<1>2. c - d = n * (q - r)
  BY <1>1
<1>3. ~(q - r >= 1) /\ ~(q - r <= -1)
  BY <1>1, <1>2
<1>4. q = r
  BY <1>1, <1>3
<1>5. d = c
  BY <1>1, <1>2, <1>4
<1> QED
  BY <1>4, <1>5 DEF q, d

\* A slot number is its own slot.
LEMMA ModMod ==
  ASSUME NEW n \in Nat \ {0}, NEW i \in Nat
  PROVE  (i % n) % n = i % n
<1> DEFINE d == i % n
<1>1. d \in 0 .. n - 1
  OBVIOUS
<1> HIDE DEF d
<1>2. d = (n * 0) + d
  BY <1>1
<1>3. ((n * 0) + d) % n = d
  BY <1>1, CellNumber
<1> QED
  BY <1>2, <1>3 DEF d

\* Going k slots round the ring from the slot of i leads to the slot of i + k.
LEMMA ModSum ==
  ASSUME NEW n \in Nat \ {0}, NEW i \in Nat, NEW k \in Nat
  PROVE  ((i % n) + k) % n = (i + k) % n
<1> DEFINE a == i \div n
           x == (i % n) + k
           r == x \div n
           c == x % n
<1>1. a \in Nat /\ i % n \in 0 .. n - 1 /\ i = (n * a) + (i % n)
  OBVIOUS
<1>2. x \in Nat
  BY <1>1
<1>3. r \in Nat /\ c \in 0 .. n - 1 /\ x = (n * r) + c
  BY <1>2
<1>4. a + r \in Nat
  BY <1>1, <1>3
<1> HIDE DEF a, r, c
<1>5. i + k = (n * (a + r)) + c
  BY <1>1, <1>2, <1>3 DEF x
<1>6. ((n * (a + r)) + c) % n = c
  BY <1>3, <1>4, CellNumber
<1> QED
  BY <1>5, <1>6 DEF c

\* The way round the ring from the slot of i to that of j, less than a lap later.
LEMMA ModDifference ==
  ASSUME NEW n \in Nat \ {0}, NEW i \in Nat, NEW j \in Nat, i <= j, j < i + n
  PROVE  ((j % n) - (i % n)) % n = j - i
<1> DEFINE x == i % n
           y == j % n
           a == i \div n
           b == j \div n
           q == (y - x) \div n
           c == (y - x) % n
<1>1. /\ a \in Int /\ x \in 0 .. n - 1 /\ i = (n * a) + x
      /\ b \in Int /\ y \in 0 .. n - 1 /\ j = (n * b) + y
  OBVIOUS
<1>2. q \in Int /\ c \in 0 .. n - 1 /\ y - x = (n * q) + c
  <2>1. x \in Int /\ y \in Int
    BY <1>1
  <2> HIDE DEF x, y
  <2> QED
    BY <2>1
<1> HIDE DEF x, y, a, b, q, c
<1>3. (j - i) - c = n * (q + b - a)
  <2>1. n * (q + b - a) = (n * q) + (n * b) - (n * a)
    BY <1>1, <1>2
  <2>2. n * q \in Int /\ n * b \in Int /\ n * a \in Int
    BY <1>1, <1>2
  <2> QED
    BY <1>1, <1>2, <2>1, <2>2
<1>4. ~(q + b - a >= 1) /\ ~(q + b - a <= -1)
  BY <1>1, <1>2, <1>3
<1>5. n * (q + b - a) = 0
  BY <1>1, <1>2, <1>4
<1> QED
  BY <1>2, <1>3, <1>5 DEF x, y, c

-----------------------------------------------------------------------------
(* Positions and the counts they come from *)

\* What depends on the kind of queue only does not change.
LEMMA Frame ==
  ASSUME kind' = kind
  PROVE  /\ Room' = Room /\ Index' = Index
         /\ Counting' <=> Counting
         /\ Owning' <=> Owning
         /\ Cached' <=> Cached
         /\ \A n \in Int : Pos(n)' = Pos(n)
         /\ \A n \in Int : Limit(n)' = Limit(n)
BY DEF Room, Index, Period, Counting, Owning, Cached, Pos, Limit

\* A ring holds all its cells or all but one.
LEMMA RoomRange == Room \in Nat /\ SIZE - 1 <= Room /\ Room <= SIZE
BY RingAssumption DEF Room

\* The positions of the counts of a run are indices.
LEMMA PosRange ==
  ASSUME kind # "joadClang", NEW n \in 0 .. MaxItems
  PROVE  Pos(n) \in Nat /\ Pos(n) \in Index /\ Limit(Pos(n)) \in Index
<1>1. n % SIZE \in 0 .. SIZE - 1
  BY RingAssumption, ModRange
<1> QED
  BY <1>1, RingAssumption DEF Pos, Index, Limit, Period

\* The position after that of a count is the position of the next count.
LEMMA PosAfter ==
  ASSUME kind # "joadClang", NEW n \in Nat
  PROVE  After(Pos(n)) = Pos(n + 1)
<1>1. ((n % SIZE) + 1) % SIZE = (n + 1) % SIZE
  BY RingAssumption, ModSum
<1> QED
  BY <1>1 DEF After, Pos, Period

\* Counts no further apart than the ring has room have different positions.
LEMMA PosEqual ==
  ASSUME NEW i \in Nat, NEW j \in Nat, i <= j, j <= i + Room
  PROVE  Pos(i) = Pos(j) <=> i = j
<1>1. ASSUME ~Counting, i < j PROVE i % SIZE # j % SIZE
  <2>1. j < i + SIZE
    BY <1>1, RingAssumption DEF Room
  <2> QED
    BY <1>1, <2>1, RingAssumption, ModInjective
<1>2. CASE Counting
  BY <1>2 DEF Pos
<1>3. CASE ~Counting
  BY <1>1, <1>3 DEF Pos
<1> QED
  BY <1>2, <1>3

\* The cell of a position is that of its count.
LEMMA PosCell ==
  ASSUME NEW n \in Nat
  PROVE  Cell(Pos(n)) = n % SIZE /\ n % SIZE \in 0 .. MASK
<1>1. (n % SIZE) % SIZE = n % SIZE /\ n % SIZE \in 0 .. SIZE - 1
  BY RingAssumption, ModMod, ModRange
<1> QED
  BY <1>1 DEF Cell, Pos, MASK

\* The test for a full ring against the position of a count at most a lap old
\* tells whether that count leaves no room.
LEMMA FullMeans ==
  ASSUME kind # "joadClang", sent \in Nat, wIdx = Pos(sent),
         NEW r \in Int, Counting \/ 0 <= r, r <= sent, sent <= r + Room
  PROVE  Full(Limit(Pos(r))) <=> sent = r + Room
<1>1. CASE Counting
  BY <1>1 DEF Full, Limit, Pos, Room
<1>2. CASE ~Counting
  <2>1. Full(Limit(Pos(r))) <=> Pos(sent + 1) = Pos(r)
    BY <1>2, PosAfter DEF Full, Limit
  <2>2. r \in Nat /\ Room = SIZE - 1
    BY <1>2 DEF Room
  <2>3. ASSUME sent = r + Room PROVE Pos(sent + 1) = Pos(r)
    <3>1. sent + 1 = r + SIZE
      BY <2>2, <2>3, RingAssumption
    <3> QED
      BY <1>2, <2>2, <3>1, RingAssumption, ModLap DEF Pos
  <2>4. ASSUME sent # r + Room PROVE Pos(r) # Pos(sent + 1)
    <3>1. sent + 1 \in Nat /\ r < sent + 1 /\ sent + 1 < r + SIZE
      BY <2>2, <2>4, RingAssumption
    <3> QED
      BY <1>2, <2>2, <3>1, RingAssumption, ModInjective DEF Pos
  <2> QED
    BY <2>1, <2>3, <2>4
<1> QED
  BY <1>1, <1>2

-----------------------------------------------------------------------------
(* Every step preserves the inductive invariant *)

\* The fresh queue satisfies it.
LEMMA InitInv == Init /\ kind # "joadClang" => IInv
<1> SUFFICES ASSUME Init, kind # "joadClang" PROVE IInv
  OBVIOUS
<1> USE RingAssumption, RoomRange DEF Init
<1>1. Pos(0) = 0 /\ 0 \in Index /\ taken = 0
  <2>1. 0 % SIZE = 0
    BY ModSmall, ModRange
  <2>2. 0 \in Index
    BY <2>1, PosRange DEF Pos
  <2> QED
    BY <2>1, <2>2 DEF Pos, taken
<1>2. TypeOK
  BY <1>1 DEF TypeOK
<1>3. Positions /\ Decided
  BY <1>1 DEF Positions, Decided
<1>4. Indexed
  <2>1. CASE Counting
    <3>1. Limit(Pos(0 - SIZE)) = 0
      BY <2>1 DEF Limit, Pos
    <3>2. Laps(0, 0, 0, 0 - SIZE)
      BY <1>1, <2>1, <3>1 DEF Laps, Room
    <3>3. 0 \in 0 .. taken /\ 0 \in taken .. sent /\ 0 \in 0 .. sent
          /\ 0 - SIZE \in (0 - SIZE) .. taken
      BY <1>1
    <3> QED
      BY <3>2, <3>3 DEF Indexed
  <2>2. CASE ~Counting
    <3>1. Laps(0, 0, 0, 0)
      BY <1>1, <2>2 DEF Laps, Limit
    <3>2. 0 \in 0 .. taken /\ 0 \in taken .. sent /\ 0 \in 0 .. sent
          /\ 0 \in (0 - SIZE) .. taken
      BY <1>1
    <3> QED
      BY <3>1, <3>2 DEF Indexed
  <2> QED
    BY <2>1, <2>2
<1>5. Filled
  BY <1>1 DEF Filled
<1> QED
  BY <1>2, <1>3, <1>4, <1>5 DEF IInv

\* The same counts after a step, in terms of the positions before it.
LEMMA LapsNext ==
  ASSUME kind' = kind, NEW r \in Int, NEW w \in Int, NEW wc \in Int, NEW rc \in Int,
         pubR' = Pos(r), pubW' = Pos(w),
         cPc' \in {"read", "holding"} => taken' < w,
         kind # "droForce" => /\ sent' <= r + Room
                              /\ pPc' = "write" => sent' < r + Room,
         Cached => /\ taken' <= wc /\ wc <= w /\ wCache' = Pos(wc)
                   /\ cPc' \in {"read", "holding"} => taken' < wc,
         Cached /\ kind # "droForce" =>
           /\ rc <= r /\ rCache' = Limit(Pos(rc)) /\ (Counting \/ 0 <= rc)
           /\ sent' <= rc + Room
           /\ pPc' = "write" => sent' < rc + Room
  PROVE  Laps(r, w, wc, rc)'
<1>1. Pos(r)' = Pos(r) /\ Pos(w)' = Pos(w) /\ Pos(wc)' = Pos(wc)
      /\ Limit(Pos(rc))' = Limit(Pos(rc))
  BY DEF Pos, Limit, Counting
<1>2. Room' = Room /\ (Cached' <=> Cached) /\ (Counting' <=> Counting)
  BY Frame
<1> QED
  BY <1>1, <1>2 DEF Laps

\* A call of emplace or try_emplace that finds room against the cached limit.
LEMMA EmplaceInv ==
  ASSUME IInv, kind # "joadClang", kind # "droForce", NEW v \in Value,
         NEW l \in {"loadTry", "loadSpin"}, CallEmplace(v, l)
  PROVE  IInv'
<1> USE RingAssumption, RoomRange
<1>1. /\ kind' = kind /\ wIdx' = wIdx /\ rCache' = rCache /\ sent' = sent
      /\ rIdx' = rIdx /\ wCache' = wCache /\ cPc' = cPc
      /\ delivered' = delivered /\ taken' = taken
      /\ pubW' = pubW /\ pubR' = pubR /\ buf' = buf /\ pVal' = v
      /\ pPc = "idle" /\ sent < MaxItems
      /\ pPc' = IF ~Cached \/ Full(rCache) THEN l ELSE "write"
  BY DEF CallEmplace, consVars, taken
<1>2. PICK r \in 0 .. taken, w \in taken .. sent, wc \in 0 .. sent,
           rc \in (0 - SIZE) .. taken : Laps(r, w, wc, rc)
  BY DEF IInv, Indexed
<1>3. taken \in Nat /\ sent \in Nat /\ wIdx = Pos(sent) /\ taken <= sent
  BY DEF IInv, TypeOK, Positions, taken
<1>4. pPc' = "write" => Cached /\ sent < rc + Room
  <2>1. SUFFICES ASSUME pPc' = "write", Cached, ~Full(rCache)
                 PROVE  sent < rc + Room
    BY <1>1
  <2>2. /\ rc \in Int /\ rc <= sent /\ sent <= rc + Room
        /\ rCache = Limit(Pos(rc)) /\ (Counting \/ 0 <= rc)
    BY <1>2, <1>3, <2>1 DEF Laps
  <2> QED
    BY <1>3, <2>1, <2>2, FullMeans
<1>5. TypeOK'
  BY <1>1, Frame DEF IInv, TypeOK
<1>6. Positions'
  BY <1>1, <1>3, Frame DEF IInv, Positions
<1>7. (rc <= r /\ r <= taken) \/ ~Cached
  BY <1>2, <1>3 DEF Laps
<1>8. Decided'
  BY <1>1, <1>3, <1>4, <1>7, Frame DEF IInv, Decided
<1>9. Laps(r, w, wc, rc)'
  BY <1>1, <1>2, <1>3, <1>4, <1>7, LapsNext DEF Laps
<1>10. Indexed'
  BY <1>1, <1>9 DEF Indexed
<1>11. Filled'
  BY <1>1, Frame DEF IInv, Filled, MASK
<1> QED
  BY <1>5, <1>6, <1>8, <1>10, <1>11 DEF IInv

\* The producer loads the read index: the ring it finds free has room.
LEMMA LoadReadInv ==
  ASSUME IInv, kind # "joadClang", LoadRead
  PROVE  IInv'
<1> USE RingAssumption, RoomRange
<1>1. /\ kind' = kind /\ wIdx' = wIdx /\ sent' = sent
      /\ rIdx' = rIdx /\ wCache' = wCache /\ cPc' = cPc
      /\ delivered' = delivered /\ taken' = taken
      /\ pubW' = pubW /\ pubR' = pubR /\ buf' = buf
      /\ pPc \in {"loadTry", "loadSpin"}
      /\ rCache' = IF Cached THEN Limit(pubR) ELSE rCache
      /\ pPc' = IF ~Full(Limit(pubR)) THEN "write"
                ELSE IF pPc = "loadTry" THEN "idle" ELSE "loadSpin"
      /\ pVal' = IF pPc' = "idle" THEN None ELSE pVal
  BY DEF LoadRead, consVars, taken
<1>2. PICK r \in 0 .. taken, w \in taken .. sent, wc \in 0 .. sent,
           rc \in (0 - SIZE) .. taken : Laps(r, w, wc, rc)
  BY DEF IInv, Indexed
<1>3. /\ taken \in Nat /\ sent \in 0 .. MaxItems /\ wIdx = Pos(sent)
      /\ taken <= sent /\ sent <= taken + Room
      /\ kind # "droForce" /\ pVal \in Value /\ sent < MaxItems
  BY <1>1 DEF IInv, TypeOK, Positions, Decided, taken
<1>4. pubR = Pos(r) /\ r \in Nat /\ r <= sent /\ sent <= r + Room
  BY <1>2, <1>3 DEF Laps
<1>5. pPc' = "write" => sent < r + Room
  BY <1>1, <1>3, <1>4, FullMeans
<1>6. TypeOK'
  <2>1. rCache' \in Index
    BY <1>1, <1>3, <1>4, PosRange DEF IInv, TypeOK
  <2> QED
    BY <1>1, <1>3, <2>1, Frame DEF IInv, TypeOK
<1>7. Positions'
  BY <1>1, <1>3, Frame DEF IInv, Positions
<1>8. Decided'
  BY <1>1, <1>3, <1>4, <1>5, <1>2, Frame DEF IInv, Decided
<1>9. Indexed'
  <2>1. CASE Cached
    <3>1. Laps(r, w, wc, r)'
      BY <1>1, <1>2, <1>3, <1>4, <1>5, <2>1, LapsNext DEF Laps
    <3>2. r \in (0 - SIZE) .. taken
      BY <1>4, <1>2
    <3> QED
      BY <1>1, <3>1, <3>2 DEF Indexed
  <2>2. CASE ~Cached
    <3>1. Laps(r, w, wc, rc)'
      BY <1>1, <1>2, <1>3, <1>4, <1>5, <2>2, LapsNext DEF Laps
    <3> QED
      BY <1>1, <3>1 DEF Indexed
  <2> QED
    BY <2>1, <2>2
<1>10. Filled'
  BY <1>1, Frame DEF IInv, Filled, MASK
<1> QED
  BY <1>6, <1>7, <1>8, <1>9, <1>10 DEF IInv

\* A client of force_emplace knows that there is room.
LEMMA ForceInv ==
  ASSUME IInv, kind = "droForce", NEW v \in Value, CallForce(v)
  PROVE  IInv'
<1> USE RingAssumption, RoomRange
<1>1. /\ kind' = kind /\ wIdx' = wIdx /\ rCache' = rCache /\ sent' = sent
      /\ rIdx' = rIdx /\ wCache' = wCache /\ cPc' = cPc
      /\ delivered' = delivered /\ taken' = taken
      /\ pubW' = pubW /\ pubR' = pubR /\ buf' = buf /\ pVal' = v
      /\ sent < MaxItems /\ ~Full(rIdx)
      /\ pPc = "idle" /\ pPc' = "write"
  BY DEF CallForce, consVars, taken
<1>2. PICK r \in 0 .. taken, w \in taken .. sent, wc \in 0 .. sent,
           rc \in (0 - SIZE) .. taken : Laps(r, w, wc, rc)
  BY DEF IInv, Indexed
<1>3. /\ taken \in Nat /\ sent \in Nat /\ wIdx = Pos(sent) /\ rIdx = Pos(taken)
      /\ taken <= sent /\ sent <= taken + Room
  BY DEF IInv, TypeOK, Positions, taken
<1>4. sent < taken + Room
  <2>1. Limit(rIdx) = rIdx
    BY DEF Limit, Counting
  <2> QED
    BY <1>1, <1>3, <2>1, FullMeans
<1>5. TypeOK'
  BY <1>1, Frame DEF IInv, TypeOK
<1>6. Positions'
  BY <1>1, <1>3, Frame DEF IInv, Positions
<1>7. Decided'
  BY <1>1, <1>3, <1>4, Frame DEF IInv, Decided
<1>8. Laps(r, w, wc, rc)'
  BY <1>1, <1>2, <1>3, LapsNext DEF Laps
<1>9. Indexed'
  BY <1>1, <1>8 DEF Indexed
<1>10. Filled'
  BY <1>1, Frame DEF IInv, Filled, MASK
<1> QED
  BY <1>5, <1>6, <1>7, <1>9, <1>10 DEF IInv

\* The element goes into the cell of the write position.
LEMMA WriteSlotInv ==
  ASSUME IInv, kind # "joadClang", WriteSlot
  PROVE  IInv'
<1> USE RingAssumption, RoomRange
<1>1. /\ kind' = kind /\ rCache' = rCache /\ rIdx' = rIdx /\ wCache' = wCache
      /\ cPc' = cPc /\ delivered' = delivered /\ taken' = taken
      /\ pubW' = pubW /\ pubR' = pubR /\ pPc = "write"
      /\ buf' = [buf EXCEPT ![Cell(wIdx)] = pVal]
      /\ wIdx' = After(wIdx) /\ sent' = sent + 1
      /\ pPc' = "idle" /\ pVal' = None
  BY DEF WriteSlot, consVars, taken
<1>2. PICK r \in 0 .. taken, w \in taken .. sent, wc \in 0 .. sent,
           rc \in (0 - SIZE) .. taken : Laps(r, w, wc, rc)
  BY DEF IInv, Indexed
<1>3. /\ taken \in Nat /\ sent \in 0 .. MaxItems /\ wIdx = Pos(sent)
      /\ rIdx = Pos(taken) /\ taken <= sent /\ sent < taken + Room
      /\ pVal \in Value /\ sent < MaxItems
  BY <1>1 DEF IInv, TypeOK, Positions, Decided, taken
<1>4. wIdx' = Pos(sent + 1) /\ wIdx' \in Index
  <2>1. sent + 1 \in 0 .. MaxItems
    BY <1>3
  <2> QED
    BY <1>1, <1>3, <2>1, PosAfter, PosRange
<1>5. buf' = [buf EXCEPT ![sent % SIZE] = pVal] /\ sent % SIZE \in 0 .. MASK
  <2>1. Cell(wIdx) = sent % SIZE /\ sent % SIZE \in 0 .. MASK
    BY <1>3, PosCell
  <2> QED
    BY <1>1, <2>1
<1>6. TypeOK'
  <2>1. buf' \in [0 .. MASK -> Value \union {None}]
    BY <1>3, <1>5 DEF IInv, TypeOK
  <2>2. sent' \in 0 .. MaxItems
    BY <1>1, <1>3
  <2> QED
    BY <1>1, <1>4, <2>1, <2>2, Frame DEF IInv, TypeOK, MASK
<1>7. Positions'
  BY <1>1, <1>3, <1>4, Frame DEF IInv, Positions
<1>8. Decided'
  BY <1>1 DEF IInv, Decided
<1>9. Indexed'
  <2>1. Laps(r, w, wc, rc)'
    BY <1>1, <1>2, <1>3, LapsNext DEF Laps
  <2>2. w \in taken' .. sent' /\ wc \in 0 .. sent'
    BY <1>1, <1>2, <1>3
  <2> QED
    BY <1>1, <2>1, <2>2 DEF Indexed
<1>10. Filled'
  <2>1. ASSUME NEW i \in taken .. sent PROVE buf'[i % SIZE] \in Value
    <3>1. i % SIZE \in 0 .. MASK
      BY <1>3, PosCell
    <3>2. i # sent => buf[i % SIZE] \in Value
      <4>1. i # sent => i \in taken .. sent - 1
        BY <1>3
      <4> QED
        BY <1>1, <4>1 DEF IInv, Filled
    <3>3. buf \in [0 .. MASK -> Value \union {None}]
      BY DEF IInv, TypeOK
    <3> QED
      BY <1>3, <1>5, <3>1, <3>2, <3>3
  <2>2. ASSUME Owning, NEW s \in 0 .. MASK, buf'[s] # None
        PROVE  \E i \in taken .. sent : s = i % SIZE
    <3>1. s = sent % SIZE \/ buf[s] # None
      BY <1>5, <2>2 DEF IInv, TypeOK
    <3>2. buf[s] # None => \E i \in taken .. sent - 1 : s = i % SIZE
      BY <2>2 DEF IInv, Filled
    <3>3. sent \in taken .. sent /\ \A i \in taken .. sent - 1 : i \in taken .. sent
      BY <1>3
    <3> QED
      BY <3>1, <3>2, <3>3
  <2>3. taken' .. sent' - 1 = taken .. sent
    BY <1>1, <1>3
  <2> QED
    BY <1>1, <2>1, <2>2, <2>3, Frame DEF Filled, MASK
<1> QED
  BY <1>6, <1>7, <1>8, <1>9, <1>10 DEF IInv

\* An element whose constructor throws leaves no trace.
LEMMA ThrowsInv ==
  ASSUME IInv, kind # "joadClang", ConstructThrows
  PROVE  IInv'
<1> USE RingAssumption, RoomRange
<1>1. /\ kind' = kind /\ wIdx' = wIdx /\ rCache' = rCache /\ sent' = sent
      /\ rIdx' = rIdx /\ wCache' = wCache /\ cPc' = cPc
      /\ delivered' = delivered /\ taken' = taken
      /\ pubW' = pubW /\ pubR' = pubR /\ buf' = buf
      /\ pPc = "write" /\ pPc' = "idle" /\ pVal' = None
  BY DEF ConstructThrows, consVars, taken
<1>2. PICK r \in 0 .. taken, w \in taken .. sent, wc \in 0 .. sent,
           rc \in (0 - SIZE) .. taken : Laps(r, w, wc, rc)
  BY DEF IInv, Indexed
<1>3. TypeOK' /\ Positions' /\ Decided'
  BY <1>1, Frame DEF IInv, TypeOK, Positions, Decided, taken
<1>4. Laps(r, w, wc, rc)'
  BY <1>1, <1>2, LapsNext DEF Laps
<1>5. Indexed'
  BY <1>1, <1>4 DEF Indexed
<1>6. Filled'
  BY <1>1, Frame DEF IInv, Filled, MASK
<1> QED
  BY <1>3, <1>5, <1>6 DEF IInv

\* A stored write index reaches memory.
LEMMA CommitWriteInv ==
  ASSUME IInv, kind # "joadClang", CommitWrite
  PROVE  IInv'
<1> USE RingAssumption, RoomRange
<1>1. /\ kind' = kind /\ wIdx' = wIdx /\ rCache' = rCache /\ sent' = sent
      /\ rIdx' = rIdx /\ wCache' = wCache /\ cPc' = cPc
      /\ delivered' = delivered /\ taken' = taken
      /\ pubR' = pubR /\ buf' = buf /\ pPc' = pPc /\ pVal' = pVal
      /\ pubW # wIdx /\ pubW' = After(pubW)
  BY DEF CommitWrite, prodVars, consVars, taken
<1>2. PICK r \in 0 .. taken, w \in taken .. sent, wc \in 0 .. sent,
           rc \in (0 - SIZE) .. taken : Laps(r, w, wc, rc)
  BY DEF IInv, Indexed
<1>3. taken \in Nat /\ sent \in 0 .. MaxItems /\ wIdx = Pos(sent)
  BY DEF IInv, TypeOK, Positions, taken
<1>4. w \in Nat /\ w + 1 \in taken .. sent /\ w + 1 \in 0 .. MaxItems
  BY <1>1, <1>2, <1>3 DEF Laps
<1>5. pubW' = Pos(w + 1) /\ pubW' \in Index
  BY <1>1, <1>2, <1>4, PosAfter, PosRange DEF Laps
<1>6. TypeOK'
  BY <1>1, <1>5, Frame DEF IInv, TypeOK
<1>7. Positions' /\ Decided'
  BY <1>1, <1>3, Frame DEF IInv, Positions, Decided, taken
<1>8. Indexed'
  <2>1. Laps(r, w + 1, wc, rc)'
    BY <1>1, <1>2, <1>3, <1>4, <1>5, LapsNext DEF Laps
  <2> QED
    BY <1>1, <1>4, <2>1 DEF Indexed
<1>9. Filled'
  BY <1>1, Frame DEF IInv, Filled, MASK
<1> QED
  BY <1>6, <1>7, <1>8, <1>9 DEF IInv

\* A stored read index reaches memory.
LEMMA CommitReadInv ==
  ASSUME IInv, kind # "joadClang", CommitRead
  PROVE  IInv'
<1> USE RingAssumption, RoomRange
<1>1. /\ kind' = kind /\ wIdx' = wIdx /\ rCache' = rCache /\ sent' = sent
      /\ rIdx' = rIdx /\ wCache' = wCache /\ cPc' = cPc
      /\ delivered' = delivered /\ taken' = taken
      /\ pubW' = pubW /\ buf' = buf /\ pPc' = pPc /\ pVal' = pVal
      /\ pubR # rIdx /\ pubR' = After(pubR)
  BY DEF CommitRead, prodVars, consVars, taken
<1>2. PICK r \in 0 .. taken, w \in taken .. sent, wc \in 0 .. sent,
           rc \in (0 - SIZE) .. taken : Laps(r, w, wc, rc)
  BY DEF IInv, Indexed
<1>3. /\ taken \in Nat /\ sent \in 0 .. MaxItems /\ rIdx = Pos(taken)
      /\ taken <= sent
  BY DEF IInv, TypeOK, Positions, taken
<1>4. r \in Nat /\ r + 1 \in 0 .. taken /\ r + 1 \in 0 .. MaxItems
  BY <1>1, <1>2, <1>3 DEF Laps
<1>5. pubR' = Pos(r + 1) /\ pubR' \in Index
  BY <1>1, <1>2, <1>4, PosAfter, PosRange DEF Laps
<1>6. TypeOK'
  BY <1>1, <1>5, Frame DEF IInv, TypeOK
<1>7. Positions' /\ Decided'
  BY <1>1, <1>3, Frame DEF IInv, Positions, Decided, taken
<1>8. Indexed'
  <2>1. Laps(r + 1, w, wc, rc)'
    BY <1>1, <1>2, <1>3, <1>4, <1>5, LapsNext DEF Laps
  <2> QED
    BY <1>1, <1>4, <2>1 DEF Indexed
<1>9. Filled'
  BY <1>1, Frame DEF IInv, Filled, MASK
<1> QED
  BY <1>6, <1>7, <1>8, <1>9 DEF IInv

\* A call of the consumer that may trust its cached write index.
LEMMA PopCallInv ==
  ASSUME IInv, kind # "joadClang", NEW busy \in {"read", "holding"},
         NEW l \in {"loadTry", "loadSpin", "loadFront"},
         pPc # "destroyed",
         cPc' = IF ~Cached \/ rIdx = wCache THEN l ELSE busy,
         UNCHANGED <<kind, rIdx, wCache, delivered, prodVars, pubW, pubR, buf>>
  PROVE  IInv'
<1> USE RingAssumption, RoomRange
<1>1. /\ kind' = kind /\ wIdx' = wIdx /\ rCache' = rCache /\ sent' = sent
      /\ rIdx' = rIdx /\ wCache' = wCache /\ delivered' = delivered
      /\ taken' = taken /\ pubW' = pubW /\ pubR' = pubR /\ buf' = buf
      /\ pPc' = pPc /\ pVal' = pVal
      /\ cPc' = IF ~Cached \/ rIdx = wCache THEN l ELSE busy
  BY DEF prodVars, taken
<1>2. PICK r \in 0 .. taken, w \in taken .. sent, wc \in 0 .. sent,
           rc \in (0 - SIZE) .. taken : Laps(r, w, wc, rc)
  BY DEF IInv, Indexed
<1>3. taken \in Nat /\ sent \in Nat /\ rIdx = Pos(taken)
  BY DEF IInv, TypeOK, Positions, taken
<1>4. cPc' \in {"read", "holding"} => Cached /\ taken < wc /\ wc <= w
  BY <1>1, <1>2, <1>3 DEF Laps
<1>5. TypeOK'
  BY <1>1, Frame DEF IInv, TypeOK
<1>6. Positions' /\ Decided'
  BY <1>1, <1>3, Frame DEF IInv, Positions, Decided, taken
<1>7. Laps(r, w, wc, rc)'
  BY <1>1, <1>2, <1>3, <1>4, LapsNext DEF Laps
<1>8. Indexed'
  BY <1>1, <1>7 DEF Indexed
<1>9. Filled'
  BY <1>1, Frame DEF IInv, Filled, MASK
<1> QED
  BY <1>5, <1>6, <1>8, <1>9 DEF IInv

\* The consumer loads the write index: the ring it does not find empty has an
\* item.
LEMMA LoadWriteInv ==
  ASSUME IInv, kind # "joadClang", LoadWrite
  PROVE  IInv'
<1> USE RingAssumption, RoomRange
<1>1. /\ kind' = kind /\ wIdx' = wIdx /\ rCache' = rCache /\ sent' = sent
      /\ rIdx' = rIdx /\ delivered' = delivered
      /\ taken' = taken /\ pubW' = pubW /\ pubR' = pubR /\ buf' = buf
      /\ pPc' = pPc /\ pVal' = pVal
      /\ cPc \in {"loadTry", "loadSpin", "loadFront"}
      /\ wCache' = IF Cached THEN pubW ELSE wCache
      /\ cPc' = IF rIdx # pubW
                THEN IF cPc = "loadFront" THEN "holding" ELSE "read"
                ELSE IF cPc = "loadSpin" THEN "loadSpin" ELSE "idle"
  BY DEF LoadWrite, prodVars, taken
<1>2. PICK r \in 0 .. taken, w \in taken .. sent, wc \in 0 .. sent,
           rc \in (0 - SIZE) .. taken : Laps(r, w, wc, rc)
  BY DEF IInv, Indexed
<1>3. taken \in Nat /\ sent \in Nat /\ rIdx = Pos(taken) /\ pPc # "destroyed"
  BY <1>1 DEF IInv, TypeOK, Positions, Decided, taken
<1>4. pubW = Pos(w) /\ (cPc' \in {"read", "holding"} => taken < w)
  BY <1>1, <1>2, <1>3 DEF Laps
<1>5. TypeOK'
  BY <1>1, Frame DEF IInv, TypeOK
<1>6. Positions' /\ Decided'
  BY <1>1, <1>3, Frame DEF IInv, Positions, Decided, taken
<1>7. Indexed'
  <2>1. CASE Cached
    <3>1. Laps(r, w, w, rc)'
      BY <1>1, <1>2, <1>3, <1>4, <2>1, LapsNext DEF Laps
    <3>2. w \in 0 .. sent
      BY <1>2, <1>3
    <3> QED
      BY <1>1, <3>1, <3>2 DEF Indexed
  <2>2. CASE ~Cached
    <3>1. Laps(r, w, wc, rc)'
      BY <1>1, <1>2, <1>3, <1>4, <2>2, LapsNext DEF Laps
    <3> QED
      BY <1>1, <3>1 DEF Indexed
  <2> QED
    BY <2>1, <2>2
<1>8. Filled'
  BY <1>1, Frame DEF IInv, Filled, MASK
<1> QED
  BY <1>5, <1>6, <1>7, <1>8 DEF IInv

\* The consumer takes the element at the read position.
LEMMA TakeSlotInv ==
  ASSUME IInv, kind # "joadClang", cPc \in {"read", "holding"}, TakeSlot
  PROVE  IInv'
<1> USE RingAssumption, RoomRange
<1>1. /\ kind' = kind /\ wIdx' = wIdx /\ rCache' = rCache /\ sent' = sent
      /\ wCache' = wCache /\ pubW' = pubW /\ pubR' = pubR
      /\ pPc' = pPc /\ pVal' = pVal
      /\ delivered' = Append(delivered, buf[Cell(rIdx)])
      /\ buf' = IF Owning THEN [buf EXCEPT ![Cell(rIdx)] = None] ELSE buf
      /\ rIdx' = After(rIdx) /\ cPc' = "idle"
  BY DEF TakeSlot, prodVars
<1>2. PICK r \in 0 .. taken, w \in taken .. sent, wc \in 0 .. sent,
           rc \in (0 - SIZE) .. taken : Laps(r, w, wc, rc)
  BY DEF IInv, Indexed
<1>3. /\ taken \in Nat /\ sent \in 0 .. MaxItems
      /\ wIdx = Pos(sent) /\ rIdx = Pos(taken)
      /\ sent <= taken + Room /\ pPc # "destroyed"
  BY DEF IInv, TypeOK, Positions, Decided, taken
<1>4. taken < w /\ taken < sent
  BY <1>2, <1>3 DEF Laps
<1>5. Cell(rIdx) = taken % SIZE /\ taken % SIZE \in 0 .. MASK
  BY <1>3, PosCell
<1>6. buf[taken % SIZE] \in Value
  <2>1. taken \in taken .. sent - 1
    BY <1>3, <1>4
  <2> QED
    BY <1>3, <2>1 DEF IInv, Filled
<1>7. delivered' \in Seq(Value) /\ taken' = taken + 1
  <2>1. delivered \in Seq(Value)
    BY DEF IInv, TypeOK
  <2>2. delivered' = Append(delivered, buf[taken % SIZE])
    BY <1>1, <1>5
  <2> QED
    BY <1>6, <2>1, <2>2 DEF taken
<1>8. rIdx' = Pos(taken + 1) /\ rIdx' \in Index
  <2>1. taken + 1 \in 0 .. MaxItems
    BY <1>3, <1>4
  <2> QED
    BY <1>1, <1>3, <2>1, PosAfter, PosRange
<1>9. buf' = IF Owning THEN [buf EXCEPT ![taken % SIZE] = None] ELSE buf
  BY <1>1, <1>5
<1>10. TypeOK'
  <2>1. buf' \in [0 .. MASK -> Value \union {None}]
    BY <1>9 DEF IInv, TypeOK
  <2> QED
    BY <1>1, <1>7, <1>8, <2>1, Frame DEF IInv, TypeOK, MASK
<1>11. Positions'
  BY <1>1, <1>3, <1>4, <1>7, <1>8, Frame DEF IInv, Positions
<1>12. Decided'
  BY <1>1, <1>3, <1>7, Frame DEF IInv, Decided
<1>13. Indexed'
  <2>1. Laps(r, w, wc, rc)'
    BY <1>1, <1>2, <1>3, <1>4, <1>7, LapsNext DEF Laps
  <2>2. r \in 0 .. taken' /\ w \in taken' .. sent' /\ rc \in (0 - SIZE) .. taken'
    BY <1>1, <1>2, <1>3, <1>4, <1>7
  <2> QED
    BY <1>1, <2>1, <2>2 DEF Indexed
<1>14. Filled'
  <2>1. ASSUME NEW i \in taken + 1 .. sent - 1
        PROVE  i % SIZE # taken % SIZE /\ i \in taken .. sent - 1
    <3>1. i \in Nat /\ taken < i /\ i < taken + SIZE /\ i \in taken .. sent - 1
      BY <1>3
    <3> QED
      BY <1>3, <3>1, ModInjective
  <2>2. ASSUME NEW i \in taken + 1 .. sent - 1 PROVE buf'[i % SIZE] \in Value
    <3>1. i % SIZE # taken % SIZE /\ buf[i % SIZE] \in Value
      BY <1>3, <2>1 DEF IInv, Filled
    <3>2. i % SIZE \in 0 .. MASK
      BY <1>3, PosCell
    <3>3. buf \in [0 .. MASK -> Value \union {None}]
      BY DEF IInv, TypeOK
    <3> QED
      BY <1>9, <3>1, <3>2, <3>3
  <2>3. ASSUME Owning, NEW s \in 0 .. MASK, buf'[s] # None
        PROVE  \E i \in taken + 1 .. sent - 1 : s = i % SIZE
    <3>1. s # taken % SIZE /\ buf[s] # None
      BY <1>5, <1>9, <2>3 DEF IInv, TypeOK
    <3>2. PICK i \in taken .. sent - 1 : s = i % SIZE
      BY <2>3, <3>1 DEF IInv, Filled
    <3>3. i \in taken + 1 .. sent - 1
      BY <1>3, <3>1, <3>2
    <3> QED
      BY <3>2, <3>3
  <2> QED
    BY <1>1, <1>3, <1>7, <2>2, <2>3, Frame DEF Filled, MASK
<1> QED
  BY <1>10, <1>11, <1>12, <1>13, <1>14 DEF IInv

\* The way round the ring between the positions of two counts is the
\* difference of the counts.
LEMMA DistanceMeans ==
  ASSUME kind # "joadClang", NEW i \in Int, NEW j \in Int,
         Counting \/ 0 <= i, i <= j, j <= i + Room
  PROVE  Distance(Pos(i), Pos(j)) = j - i
<1>1. CASE Counting
  BY <1>1 DEF Distance, Pos
<1>2. CASE ~Counting
  <2>1. i \in Nat /\ j \in Nat /\ j < i + SIZE /\ SIZE \in Nat \ {0}
    BY <1>2, RingAssumption DEF Room
  <2>2. ((j % SIZE) - (i % SIZE)) % SIZE = j - i
    BY <2>1, ModDifference
  <2> QED
    BY <1>2, <2>2 DEF Distance, Pos, Period
<1> QED
  BY <1>1, <1>2

\* The cell n positions ahead of the read position.
LEMMA CellAhead ==
  ASSUME kind # "joadClang", taken \in Nat, rIdx = Pos(taken), NEW n \in Nat
  PROVE  Cell(FromRead(n)) = (taken + n) % SIZE
<1>1. ((taken % SIZE) + n) % SIZE = (taken + n) % SIZE
  BY RingAssumption, ModSum
<1>2. ((taken + n) % SIZE) % SIZE = (taken + n) % SIZE
  <2>1. taken + n \in Nat
    OBVIOUS
  <2> QED
    BY <2>1, RingAssumption, ModMod
<1> QED
  BY <1>1, <1>2 DEF Cell, FromRead, Pos, Period

\* A writing producer and a reading consumer are in different cells, and the
\* cells that own an element are those between the two positions.
LEMMA InvCellsSafe == IInv /\ kind # "joadClang" => CellsSafe
<1> SUFFICES ASSUME IInv, kind # "joadClang" PROVE CellsSafe
  OBVIOUS
<1> USE RingAssumption, RoomRange
<1>1. /\ taken \in Nat /\ sent \in Nat /\ wIdx = Pos(sent) /\ rIdx = Pos(taken)
      /\ taken <= sent /\ sent <= taken + Room
  BY DEF IInv, TypeOK, Positions, taken
<1>2. NoDataRace
  <2> SUFFICES ASSUME pPc = "write", cPc \in {"read", "holding"}
               PROVE  Cell(wIdx) # Cell(rIdx)
    BY DEF NoDataRace
  <2>1. PICK r \in 0 .. taken, w \in taken .. sent, wc \in 0 .. sent,
             rc \in (0 - SIZE) .. taken : Laps(r, w, wc, rc)
    BY DEF IInv, Indexed
  <2>2. taken < sent /\ sent < taken + SIZE
    BY <1>1, <2>1 DEF Laps, IInv, Decided
  <2>3. taken % SIZE # sent % SIZE
    BY <1>1, <2>2, ModInjective
  <2> QED
    BY <1>1, <2>3, PosCell
<1>3. LiveCells
  <2> SUFFICES ASSUME Owning, NEW s \in 0 .. MASK
               PROVE  buf[s] # None <=>
                        /\ pPc # "destroyed"
                        /\ \E k \in 1 .. Distance(rIdx, wIdx) :
                             s = Cell(FromRead(k - 1))
    BY DEF LiveCells
  <2>1. Distance(rIdx, wIdx) = sent - taken
    BY <1>1, DistanceMeans
  <2>2. ASSUME NEW k \in 1 .. sent - taken
        PROVE  /\ Cell(FromRead(k - 1)) = (taken + (k - 1)) % SIZE
               /\ taken + (k - 1) \in taken .. sent - 1
    <3>1. k - 1 \in Nat /\ taken + (k - 1) \in taken .. sent - 1
      BY <1>1
    <3> QED
      BY <1>1, <3>1, CellAhead
  <2>3. ASSUME buf[s] # None
        PROVE  /\ pPc # "destroyed"
               /\ \E k \in 1 .. sent - taken : s = Cell(FromRead(k - 1))
    <3>1. pPc # "destroyed" /\ \E i \in taken .. sent - 1 : s = i % SIZE
      BY <2>3 DEF IInv, Filled
    <3>2. PICK i \in taken .. sent - 1 : s = i % SIZE
      BY <3>1
    <3>3. /\ (i - taken) + 1 \in 1 .. sent - taken
          /\ taken + (((i - taken) + 1) - 1) = i
      BY <1>1, <3>2
    <3> QED
      BY <2>2, <3>1, <3>2, <3>3
  <2>4. ASSUME pPc # "destroyed", NEW k \in 1 .. sent - taken,
               s = Cell(FromRead(k - 1))
        PROVE  buf[s] # None
    BY <2>2, <2>4 DEF IInv, Filled
  <2> QED
    BY <2>1, <2>3, <2>4
<1> QED
  BY <1>2, <1>3 DEF CellsSafe

\* The destructor destroys what is left.
LEMMA DestroyInv ==
  ASSUME IInv, kind # "joadClang", Destroy
  PROVE  IInv'
<1> USE RingAssumption, RoomRange
<1>1. /\ kind' = kind /\ wIdx' = wIdx /\ rCache' = rCache /\ sent' = sent
      /\ rIdx' = rIdx /\ wCache' = wCache /\ cPc' = cPc
      /\ delivered' = delivered /\ taken' = taken
      /\ pubW' = pubW /\ pubR' = pubR /\ pVal' = pVal
      /\ Owning /\ cPc = "idle" /\ pPc' = "destroyed"
      /\ pubW = wIdx
      /\ buf' = [s \in 0 .. MASK |-> IF s \in Leftover THEN None ELSE buf[s]]
  BY DEF Destroy, consVars, taken
<1>2. PICK r \in 0 .. taken, w \in taken .. sent, wc \in 0 .. sent,
           rc \in (0 - SIZE) .. taken : Laps(r, w, wc, rc)
  BY DEF IInv, Indexed
<1>3. TypeOK'
  <2>1. buf' \in [0 .. MASK -> Value \union {None}]
    BY <1>1 DEF IInv, TypeOK
  <2> QED
    BY <1>1, <2>1, Frame DEF IInv, TypeOK, MASK
<1>4. Positions' /\ Decided'
  BY <1>1, Frame DEF IInv, Positions, Decided, TypeOK, taken
<1>5. Laps(r, w, wc, rc)'
  BY <1>1, <1>2, LapsNext DEF Laps
<1>6. Indexed'
  BY <1>1, <1>5 DEF Indexed
<1>7. ASSUME NEW s \in 0 .. MASK PROVE buf'[s] = None
  <2>1. buf[s] # None => s \in Leftover
    <3>1. buf[s] # None =>
            \E k \in 1 .. Distance(rIdx, wIdx) : s = Cell(FromRead(k - 1))
      BY <1>1, InvCellsSafe DEF CellsSafe, LiveCells
    <3> QED
      BY <1>1, <3>1 DEF Leftover
  <2> QED
    BY <1>1, <2>1
<1>8. Filled'
  BY <1>1, <1>7, Frame DEF Filled, MASK
<1> QED
  BY <1>3, <1>4, <1>6, <1>8 DEF IInv

\* Every step of either side and of a store buffer.
LEMMA NextInv == IInv /\ "joadClang" \notin Kinds /\ [Next]_vars => IInv'
<1> SUFFICES ASSUME IInv, "joadClang" \notin Kinds, [Next]_vars PROVE IInv'
  OBVIOUS
<1>0. kind # "joadClang"
  BY DEF IInv, TypeOK
<1>1. ASSUME Put, kind # "droForce" PROVE IInv'
  BY <1>0, <1>1, EmplaceInv DEF Put
<1>2. ASSUME Take PROVE IInv'
  <2>1. PICK l \in {"loadTry", "loadSpin"} : CallPop(l)
    BY <1>2 DEF Take
  <2> QED
    BY <1>0, <2>1, PopCallInv DEF CallPop
<1>3. ASSUME CallFront PROVE IInv'
  BY <1>0, <1>3, PopCallInv DEF CallFront
<1>4. ASSUME PopFront PROVE IInv'
  BY <1>0, <1>4, TakeSlotInv DEF PopFront
<1>5. ASSUME Destroy PROVE IInv'
  BY <1>0, <1>5, DestroyInv
<1>6. ASSUME OwnCall \/ RigtorpCall PROVE IInv'
  <2>1. kind # "droForce"
    BY <1>6 DEF OwnCall, RigtorpCall
  <2>2. Put \/ Take \/ CallFront \/ PopFront \/ Destroy
    BY <1>6 DEF OwnCall, RigtorpCall
  <2> QED
    BY <1>1, <1>2, <1>3, <1>4, <1>5, <2>1, <2>2
<1>7. ASSUME DroCall PROVE IInv'
  <2>1. CASE kind = "dro" /\ Put
    BY <1>1, <2>1
  <2>2. CASE kind = "droForce" /\ \E v \in Value : CallForce(v)
    BY <2>2, ForceInv
  <2>3. CASE Take
    BY <1>2, <2>3
  <2> QED
    BY <1>7, <2>1, <2>2, <2>3 DEF DroCall
<1>8. ASSUME JoadCall PROVE IInv'
  BY <1>1, <1>2, <1>5, <1>8 DEF JoadCall
<1>9. ASSUME ProducerStep PROVE IInv'
  BY <1>0, <1>9, LoadReadInv, WriteSlotInv, ThrowsInv DEF ProducerStep
<1>10. ASSUME ConsumerStep PROVE IInv'
  BY <1>0, <1>10, LoadWriteInv, TakeSlotInv DEF ConsumerStep, ReadSlot
<1>11. ASSUME CommitWrite \/ CommitRead PROVE IInv'
  BY <1>0, <1>11, CommitWriteInv, CommitReadInv
<1>12. ASSUME UNCHANGED vars PROVE IInv'
  <2>1. /\ kind' = kind /\ wIdx' = wIdx /\ rCache' = rCache /\ sent' = sent
        /\ rIdx' = rIdx /\ wCache' = wCache /\ cPc' = cPc
        /\ delivered' = delivered /\ taken' = taken
        /\ pubW' = pubW /\ pubR' = pubR /\ buf' = buf
        /\ pPc' = pPc /\ pVal' = pVal
    BY <1>12 DEF vars, prodVars, consVars, taken
  <2>2. PICK r \in 0 .. taken, w \in taken .. sent, wc \in 0 .. sent,
             rc \in (0 - SIZE) .. taken : Laps(r, w, wc, rc)
    BY DEF IInv, Indexed
  <2>3. taken \in Nat /\ sent \in Nat
    BY DEF IInv, TypeOK, taken
  <2>4. Laps(r, w, wc, rc)'
    BY <2>1, <2>2, <2>3, RingAssumption, RoomRange, LapsNext DEF Laps
  <2>5. Indexed'
    BY <2>1, <2>4 DEF Indexed
  <2>6. TypeOK' /\ Positions' /\ Decided' /\ Filled'
    BY <2>1, <2>3, Frame DEF IInv, TypeOK, Positions, Decided, Filled, MASK
  <2> QED
    BY <2>5, <2>6 DEF IInv
<1> QED
  BY <1>6, <1>7, <1>8, <1>9, <1>10, <1>11, <1>12 DEF Next

\* The inductive invariant holds of every queue but jdz::SpscQueue in a clang
\* build: the wrapped positions are those of the two histories.
THEOREM Invariance ==
  ASSUME "joadClang" \notin Kinds
  PROVE  Spec => []IInv
<1>1. Init => IInv
  BY InitInv DEF Init
<1>2. IInv /\ [Next]_vars => IInv'
  BY NextInv
<1> QED
  BY <1>1, <1>2, PTL DEF Spec

-----------------------------------------------------------------------------
(* What the inductive invariant is for *)

\* The published, cached and private positions keep their order round the
\* ring, within one lap.
LEMMA InvRingOrder == IInv /\ kind # "joadClang" => RingOrder
<1> SUFFICES ASSUME IInv, kind # "joadClang" PROVE RingOrder
  OBVIOUS
<1> USE RingAssumption, RoomRange
<1>1. PICK r \in 0 .. taken, w \in taken .. sent, wc \in 0 .. sent,
           rc \in (0 - SIZE) .. taken : Laps(r, w, wc, rc)
  BY DEF IInv, Indexed
<1>2. /\ taken \in Nat /\ sent \in Nat /\ wIdx = Pos(sent) /\ rIdx = Pos(taken)
      /\ taken <= sent /\ sent <= taken + Room
  BY DEF IInv, TypeOK, Positions, taken
<1>3. ASSUME kind \notin {"spsc", "droForce"}
      PROVE  /\ Distance(KnownRead, pubR) <= Distance(KnownRead, rIdx)
             /\ Distance(KnownRead, rIdx) <= Distance(KnownRead, wCache)
             /\ Distance(KnownRead, wCache) <= Distance(KnownRead, pubW)
             /\ Distance(KnownRead, pubW) <= Distance(KnownRead, wIdx)
             /\ Distance(rIdx, wIdx) <= SIZE
  <2>1. /\ pubR = Pos(r) /\ pubW = Pos(w) /\ wCache = Pos(wc)
        /\ rc <= r /\ taken <= wc /\ wc <= w /\ sent <= rc + Room
        /\ rCache = Limit(Pos(rc)) /\ (Counting \/ 0 <= rc)
    BY <1>1, <1>3 DEF Laps, Cached
  <2>2. KnownRead = Pos(rc)
    BY <2>1 DEF KnownRead, Limit, Pos
  <2>3. /\ rc \in Int /\ r \in Int /\ wc \in Int /\ w \in Int
        /\ r <= taken /\ w <= sent
    BY <1>1, <1>2
  <2>4. /\ Distance(KnownRead, pubR) = r - rc
        /\ Distance(KnownRead, rIdx) = taken - rc
    BY <1>2, <2>1, <2>2, <2>3, DistanceMeans
  <2>5. /\ Distance(KnownRead, wCache) = wc - rc
        /\ Distance(KnownRead, pubW) = w - rc
    BY <1>2, <2>1, <2>2, <2>3, DistanceMeans
  <2>6. /\ Distance(KnownRead, wIdx) = sent - rc
        /\ Distance(rIdx, wIdx) = sent - taken
    BY <1>2, <2>1, <2>2, <2>3, DistanceMeans
  <2> QED
    BY <1>2, <2>1, <2>3, <2>4, <2>5, <2>6
<1>4. ASSUME kind # "droForce"
      PROVE  /\ Distance(pubR, rIdx) <= Distance(pubR, pubW)
             /\ Distance(pubR, pubW) <= Distance(pubR, wIdx)
  <2>1. pubR = Pos(r) /\ pubW = Pos(w) /\ sent <= r + Room
    BY <1>1, <1>4 DEF Laps
  <2>2. r \in Nat /\ w \in Nat /\ r <= taken /\ taken <= w /\ w <= sent
    BY <1>1, <1>2
  <2>3. /\ Distance(pubR, rIdx) = taken - r
        /\ Distance(pubR, pubW) = w - r
        /\ Distance(pubR, wIdx) = sent - r
    BY <1>2, <2>1, <2>2, DistanceMeans
  <2> QED
    BY <1>2, <2>2, <2>3
<1> QED
  BY <1>3, <1>4 DEF IInv, RingOrder

\* RingOrder holds for every ring size: no position is mistaken for the same
\* position of another lap.
THEOREM PositionsOrdered ==
  ASSUME "joadClang" \notin Kinds
  PROVE  Spec => []RingOrder
<1>1. IInv => RingOrder
  BY InvRingOrder DEF IInv, TypeOK
<1> QED
  BY <1>1, Invariance, PTL

\* CellsSafe holds for every ring size: the two sides never use one cell at the
\* same time, and element-owning cells hold exactly the items in the queue.
THEOREM CellSafety ==
  ASSUME "joadClang" \notin Kinds
  PROVE  Spec => []CellsSafe
<1>1. IInv => CellsSafe
  BY InvCellsSafe DEF IInv, TypeOK
<1> QED
  BY <1>1, Invariance, PTL

-----------------------------------------------------------------------------
(* The queues implement BoundedFifo. *)

\* Contents is a sequence: one value per count between the two histories.
ContentsTyped == /\ Contents \in Seq(Value)
                 /\ Len(Contents) = sent - taken
                 /\ \A k \in 1 .. sent - taken :
                      Contents[k] = buf[(taken + (k - 1)) % SIZE]

\* While the queue lives, its contents are such a sequence.
LEMMA ContentsSeq ==
  IInv /\ kind # "joadClang" /\ pPc # "destroyed" => ContentsTyped
<1> SUFFICES ASSUME IInv, kind # "joadClang", pPc # "destroyed"
             PROVE  ContentsTyped
  OBVIOUS
<1>1. /\ taken \in Nat /\ sent \in Nat /\ wIdx = Pos(sent) /\ rIdx = Pos(taken)
      /\ taken <= sent /\ sent <= taken + Room
  BY DEF IInv, TypeOK, Positions, taken
<1>2. Distance(rIdx, wIdx) = sent - taken
  BY <1>1, DistanceMeans
<1>3. ASSUME NEW k \in 1 .. sent - taken
      PROVE  /\ Cell(FromRead(k - 1)) = (taken + (k - 1)) % SIZE
             /\ buf[(taken + (k - 1)) % SIZE] \in Value
  <2>1. k - 1 \in Nat /\ taken + (k - 1) \in taken .. sent - 1
    BY <1>1
  <2> QED
    BY <1>1, <2>1, CellAhead DEF IInv, Filled
<1>4. Contents = [k \in 1 .. sent - taken |-> buf[(taken + (k - 1)) % SIZE]]
  BY <1>2, <1>3 DEF Contents
<1>5. sent - taken \in Nat
  BY <1>1
<1> QED
  BY <1>3, <1>4, <1>5 DEF ContentsTyped

\* Under the invariant, storing an element is Enqueue, taking one Dequeue, the
\* destructor Discard, and every other step leaves the FIFO unchanged.
LEMMA FifoStep ==
  IInv /\ IInv' /\ "joadClang" \notin Kinds /\ [Next]_vars
    => [Fifo!FifoNext]_(Fifo!fifoVars)
<1> SUFFICES ASSUME IInv, IInv', "joadClang" \notin Kinds, [Next]_vars
             PROVE  [Fifo!FifoNext]_(Fifo!fifoVars)
  OBVIOUS
<1> USE RingAssumption, RoomRange
<1>0. /\ taken \in Nat /\ sent \in Nat /\ wIdx = Pos(sent) /\ rIdx = Pos(taken)
      /\ taken <= sent /\ sent <= taken + Room
      /\ buf \in [0 .. MASK -> Value \union {None}]
      /\ kind # "joadClang" /\ kind' # "joadClang"
  BY DEF IInv, TypeOK, Positions, taken
<1>c. pPc' # "destroyed" =>
        /\ Contents' \in Seq(Value)
        /\ Len(Contents') = sent' - taken'
        /\ \A k \in 1 .. sent' - taken' :
             Contents'[k] = buf'[(taken' + (k - 1)) % SIZE]
  <2>1. (IInv /\ kind # "joadClang" /\ pPc # "destroyed" => ContentsTyped)'
    BY ContentsSeq, PTL
  <2> QED
    BY <1>0, <2>1 DEF ContentsTyped
<1>1. ASSUME WriteSlot PROVE Fifo!Enqueue(pVal) /\ pVal \in Value
  <2>1. /\ pVal \in Value /\ pPc = "write" /\ pPc' = "idle"
        /\ sent < taken + Room /\ sent' = sent + 1
        /\ delivered' = delivered /\ taken' = taken
        /\ buf' = [buf EXCEPT ![Cell(wIdx)] = pVal]
    BY <1>1 DEF IInv, Decided, WriteSlot, consVars, taken
  <2>2. Cell(wIdx) = sent % SIZE /\ sent % SIZE \in 0 .. MASK
    BY <1>0, PosCell
  <2>3. ASSUME NEW k \in 1 .. sent - taken
        PROVE  buf'[(taken + (k - 1)) % SIZE] = buf[(taken + (k - 1)) % SIZE]
    <3>1. /\ taken + (k - 1) \in Nat
          /\ taken + (k - 1) < sent /\ sent < (taken + (k - 1)) + SIZE
      BY <1>0, <2>1
    <3>2. (taken + (k - 1)) % SIZE # sent % SIZE
      BY <1>0, <3>1, ModInjective
    <3> QED
      BY <1>0, <2>1, <2>2, <3>2
  <2>4. buf'[sent % SIZE] = pVal
    BY <1>0, <2>1, <2>2
  <2>5. Contents' = Append(Contents, pVal)
    <3>1. /\ Contents' \in Seq(Value)
          /\ Len(Contents') = (sent - taken) + 1
          /\ \A k \in 1 .. (sent - taken) + 1 :
               Contents'[k] = buf'[(taken + (k - 1)) % SIZE]
      <4>1. sent' - taken' = (sent - taken) + 1
        BY <1>0, <2>1
      <4> QED
        BY <1>c, <2>1, <4>1
    <3>2. /\ Contents \in Seq(Value) /\ Len(Contents) = sent - taken
          /\ \A k \in 1 .. sent - taken :
               Contents[k] = buf[(taken + (k - 1)) % SIZE]
      BY <1>0, <2>1, ContentsSeq DEF ContentsTyped
    <3>3. /\ Append(Contents, pVal) \in Seq(Value)
          /\ Len(Append(Contents, pVal)) = (sent - taken) + 1
          /\ \A k \in 1 .. sent - taken : Append(Contents, pVal)[k] = Contents[k]
          /\ Append(Contents, pVal)[(sent - taken) + 1] = pVal
      BY <1>0, <2>1, <3>2
    <3>4. ASSUME NEW k \in 1 .. (sent - taken) + 1
          PROVE  Contents'[k] = Append(Contents, pVal)[k]
      <4>1. CASE k \in 1 .. sent - taken
        BY <2>3, <3>1, <3>2, <3>3, <4>1
      <4>2. CASE k = (sent - taken) + 1
        <5>1. taken + (k - 1) = sent
          BY <1>0, <4>2
        <5> QED
          BY <2>4, <3>1, <3>3, <4>2, <5>1
      <4>3. k \in 1 .. sent - taken \/ k = (sent - taken) + 1
        BY <1>0
      <4> QED
        BY <4>1, <4>2, <4>3
    <3> QED
      BY <3>1, <3>3, <3>4, SeqEqual
  <2>6. Len(Contents) < SIZE
    <3>1. Len(Contents) = sent - taken
      BY <1>0, <2>1, ContentsSeq DEF ContentsTyped
    <3> QED
      BY <1>0, <2>1, <3>1
  <2> QED
    BY <2>1, <2>5, <2>6 DEF Fifo!Enqueue
<1>2. ASSUME TakeSlot, cPc \in {"read", "holding"} PROVE Fifo!Dequeue
  <2>1. /\ pPc # "destroyed" /\ pPc' = pPc /\ sent' = sent
        /\ delivered' = Append(delivered, buf[Cell(rIdx)])
        /\ buf' = IF Owning THEN [buf EXCEPT ![Cell(rIdx)] = None] ELSE buf
    BY <1>2 DEF IInv, Decided, TakeSlot, prodVars
  <2>2. Cell(rIdx) = taken % SIZE /\ taken % SIZE \in 0 .. MASK
    BY <1>0, PosCell
  <2>3. taken < sent
    <3>1. PICK r \in 0 .. taken, w \in taken .. sent, wc \in 0 .. sent,
               rc \in (0 - SIZE) .. taken : Laps(r, w, wc, rc)
      BY DEF IInv, Indexed
    <3> QED
      BY <1>0, <1>2, <3>1 DEF Laps
  <2>4. taken' = taken + 1
    BY <2>1 DEF IInv, TypeOK, taken
  <2>5. /\ Contents \in Seq(Value) /\ Len(Contents) = sent - taken
        /\ \A k \in 1 .. sent - taken :
             Contents[k] = buf[(taken + (k - 1)) % SIZE]
    BY <1>0, <2>1, ContentsSeq DEF ContentsTyped
  <2>6. /\ Contents' \in Seq(Value) /\ Len(Contents') = sent - (taken + 1)
        /\ \A k \in 1 .. sent - (taken + 1) :
             Contents'[k] = buf'[((taken + 1) + (k - 1)) % SIZE]
    BY <1>c, <2>1, <2>4
  <2>7. Contents # <<>> /\ Head(Contents) = buf[taken % SIZE]
    <3>1. Contents[1] = buf[taken % SIZE]
      <4>1. 1 \in 1 .. sent - taken /\ taken + (1 - 1) = taken
        BY <1>0, <2>3
      <4>2. Contents[1] = buf[(taken + (1 - 1)) % SIZE]
        BY <2>5, <4>1
      <4> QED
        BY <4>1, <4>2
    <3> QED
      BY <1>0, <2>3, <2>5, <3>1
  <2>8. ASSUME NEW k \in 1 .. sent - (taken + 1)
        PROVE  buf'[(taken + k) % SIZE] = buf[(taken + k) % SIZE]
    <3>1. taken + k \in Nat /\ taken < taken + k /\ taken + k < taken + SIZE
      BY <1>0
    <3>2. (taken + k) % SIZE # taken % SIZE
      BY <1>0, <3>1, ModInjective
    <3> QED
      BY <1>0, <2>1, <2>2, <3>2
  <2>9. Contents' = Tail(Contents)
    <3>1. /\ Tail(Contents) \in Seq(Value)
          /\ Len(Tail(Contents)) = sent - (taken + 1)
          /\ \A k \in 1 .. sent - (taken + 1) : Tail(Contents)[k] = Contents[k + 1]
      BY <1>0, <2>3, <2>5, <2>7, HeadTailProperties
    <3>2. ASSUME NEW k \in 1 .. sent - (taken + 1)
          PROVE  Contents'[k] = Tail(Contents)[k]
      <4>1. /\ k + 1 \in 1 .. sent - taken
            /\ taken + ((k + 1) - 1) = taken + k
            /\ (taken + 1) + (k - 1) = taken + k
        BY <1>0
      <4> QED
        BY <2>5, <2>6, <2>8, <3>1, <4>1
    <3> QED
      BY <2>6, <3>1, <3>2, SeqEqual
  <2> QED
    BY <2>1, <2>2, <2>7, <2>9 DEF Fifo!Dequeue
<1>3. ASSUME Destroy PROVE Fifo!Discard
  BY <1>3 DEF Destroy, consVars, Contents, Fifo!Discard
<1>4. ASSUME UNCHANGED <<kind, rIdx, wIdx, buf, delivered>>,
             pPc' = "destroyed" <=> pPc = "destroyed"
      PROVE  UNCHANGED Fifo!fifoVars
  BY <1>4 DEF Contents, Distance, FromRead, Cell, Counting, Period, Fifo!fifoVars
<1>5. ASSUME Put PROVE UNCHANGED Fifo!fifoVars
  BY <1>4, <1>5 DEF Put, CallEmplace, consVars
<1>6. ASSUME NEW v \in Value, CallForce(v) PROVE UNCHANGED Fifo!fifoVars
  BY <1>4, <1>6 DEF CallForce, consVars
<1>7. ASSUME LoadRead \/ ConstructThrows PROVE UNCHANGED Fifo!fifoVars
  BY <1>4, <1>7 DEF LoadRead, ConstructThrows, consVars
<1>8. ASSUME Take PROVE UNCHANGED Fifo!fifoVars
  BY <1>4, <1>8 DEF Take, CallPop, prodVars
<1>9. ASSUME CallFront \/ LoadWrite PROVE UNCHANGED Fifo!fifoVars
  BY <1>4, <1>9 DEF CallFront, LoadWrite, prodVars
<1>10. ASSUME CommitWrite \/ CommitRead PROVE UNCHANGED Fifo!fifoVars
  BY <1>4, <1>10 DEF CommitWrite, CommitRead, prodVars, consVars
<1>11. CASE UNCHANGED vars
  BY <1>4, <1>11 DEF vars, prodVars, consVars
<1>12. CASE Next
  <2>1. \/ Put \/ Take \/ CallFront \/ PopFront \/ Destroy
        \/ \E v \in Value : CallForce(v)
        \/ LoadRead \/ WriteSlot \/ ConstructThrows
        \/ LoadWrite \/ ReadSlot \/ CommitWrite \/ CommitRead
    BY <1>12 DEF Next, OwnCall, RigtorpCall, DroCall, JoadCall,
                 ProducerStep, ConsumerStep
  <2> QED
    BY <1>1, <1>2, <1>3, <1>5, <1>6, <1>7, <1>8, <1>9, <1>10, <2>1
    DEF ReadSlot, PopFront, Fifo!FifoNext
<1> QED
  BY <1>11, <1>12

\* Every run of these queues is a run of a FIFO, for every ring size and value
\* type: in the rings that keep a cell free, with cached limits or without, with
\* the unchecked push of a client that knows of the room, and in the ring that
\* uses every cell.
THEOREM Refinement ==
  ASSUME "joadClang" \notin Kinds
  PROVE  Spec => ImplementsFifo
<1>1. Init => Fifo!FifoInit
  <2> SUFFICES ASSUME Init PROVE Fifo!FifoInit
    OBVIOUS
  <2>1. kind # "joadClang"
    BY DEF Init
  <2>2. IInv /\ pPc # "destroyed" /\ taken = 0 /\ sent = 0
    BY <2>1, InitInv DEF Init, taken
  <2>3. Contents \in Seq(Value) /\ Len(Contents) = 0
    BY <2>1, <2>2, ContentsSeq DEF ContentsTyped
  <2> QED
    BY <2>3 DEF Init, Fifo!FifoInit
<1>2. IInv /\ IInv' /\ [Next]_vars => [Fifo!FifoNext]_(Fifo!fifoVars)
  BY FifoStep
<1> QED
  BY <1>1, <1>2, Invariance, PTL DEF Spec, ImplementsFifo, Fifo!FifoSpec
=============================================================================
