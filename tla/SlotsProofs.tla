---------------------------- MODULE SlotsProofs ----------------------------
(***************************************************************************)
(* What a row of allocations takes from a table whose taken ids fill whole *)
(* lots: exactly the lot of the first free number, in order.  add_client   *)
(* allocates 2 * MAX_CHANNELS buffers and as many ports in such rows.      *)
(***************************************************************************)
EXTENDS Slots, FiniteSetTheorems, TLAPS

\* A later lot begins where an earlier one has ended.
LEMMA LaterLot ==
  ASSUME NEW W \in Nat, NEW a \in Nat, NEW b \in Nat, a < b
  PROVE  W * a + W <= W * b
<1> DEFINE d == b - a - 1
<1>1. d \in Nat /\ b = a + 1 + d
  OBVIOUS
<1>2. W * b = W * a + W + W * d
  BY <1>1
<1>3. W * d >= 0
  BY <1>1
<1> QED
  BY <1>2, <1>3

\* The ids of a lot are the integers between its bounds.
LEMMA LotBounds ==
  ASSUME NEW W \in Nat, NEW r \in Nat
  PROVE  /\ W * r \in Nat
         /\ \A id : id \in Lot(W, r) <=> id \in Int /\ W * r <= id /\ id < W * r + W
BY DEF Lot

\* Two lots share no id.
LEMMA LotsDisjoint ==
  ASSUME NEW W \in Nat, NEW a \in Nat, NEW b \in Nat,
         NEW id, id \in Lot(W, a), id \in Lot(W, b)
  PROVE  a = b
<1> DEFINE s == W * a
           t == W * b
<1>1. /\ s \in Nat /\ t \in Nat /\ id \in Int
      /\ s <= id /\ id < s + W
      /\ t <= id /\ id < t + W
  BY LotBounds
<1>2. a < b => s + W <= t
  BY LaterLot
<1>3. b < a => t + W <= s
  BY LaterLot
<1> HIDE DEF s, t
<1> QED
  BY <1>1, <1>2, <1>3

\* Below the start of lot r every id lies in an earlier lot.
LEMMA EarlierLot ==
  ASSUME NEW W \in Nat \ {0}, NEW r \in Nat, NEW j \in Nat, j < W * r
  PROVE  \E q \in 0 .. r - 1 : j \in Lot(W, q)
<1> DEFINE q == j \div W
<1>1. /\ q \in Nat
      /\ W * q <= j
      /\ j < W * q + W
  OBVIOUS
<1>2. j \in Lot(W, q)
  BY <1>1, LotBounds
<1>3. q < r
  <2> SUFFICES ASSUME r <= q PROVE FALSE
    BY <1>1
  <2>1. W * r <= W * q
    <3>1. CASE r = q
      BY <3>1
    <3>2. CASE r < q
      <4>1. W * r + W <= W * q
        BY <3>2, <1>1, LaterLot
      <4>2. W * r \in Nat /\ W * q \in Nat
        BY <1>1
      <4> QED
        BY <4>1, <4>2
    <3> QED
      BY <3>1, <3>2, <1>1
  <2> QED
    BY <2>1, <1>1
<1> QED
  BY <1>1, <1>2, <1>3

\* Inside the first free lot an id has as many free ids below it as the lot.
LEMMA RankInFirstLot ==
  ASSUME NEW W \in Nat \ {0}, NEW rs \in SUBSET Nat, NEW r \in Nat, NEW max \in Nat,
         IsFirstFree(rs, r), W * r + W <= max, NEW id \in Lot(W, r)
  PROVE  /\ id \in FreeIds(Lots(W, rs), max)
         /\ Rank(Lots(W, rs), max, id) = id - W * r
<1> DEFINE below == {j \in FreeIds(Lots(W, rs), max) : j < id}
<1>1. id \in Int /\ W * r \in Nat /\ W * r <= id /\ id < W * r + W
  BY LotBounds
<1>2. ASSUME NEW j \in Lot(W, r) PROVE j \in FreeIds(Lots(W, rs), max)
  <2>1. ASSUME NEW c \in rs, j \in Lot(W, c) PROVE FALSE
    BY <2>1, LotsDisjoint DEF IsFirstFree
  <2>2. j \in Int /\ W * r <= j /\ j < W * r + W
    BY LotBounds
  <2>3. j \in 0 .. max - 1
    BY <1>1, <2>2
  <2> QED
    BY <2>1, <2>3 DEF FreeIds, Lots
<1>3. below = W * r .. id - 1
  <2>1. ASSUME NEW j \in below PROVE j \in W * r .. id - 1
    <3>1. j \in Nat /\ j < id /\ j \notin Lots(W, rs)
      BY DEF FreeIds
    <3>2. ASSUME j < W * r PROVE FALSE
      <4>1. PICK q \in 0 .. r - 1 : j \in Lot(W, q)
        BY <3>1, <3>2, EarlierLot
      <4> QED
        BY <4>1, <3>1 DEF IsFirstFree, Lots
    <3> QED
      BY <1>1, <3>1, <3>2
  <2>2. ASSUME NEW j \in W * r .. id - 1 PROVE j \in below
    <3>1. j \in Lot(W, r)
      BY <1>1, LotBounds
    <3> QED
      BY <3>1, <1>1, <1>2
  <2> QED
    BY <2>1, <2>2
<1>4. Cardinality(W * r .. id - 1) = id - W * r
  <2> DEFINE s == W * r
  <2>1. s \in Int /\ id \in Int /\ id - 1 \in Int /\ s <= id
    BY <1>1
  <2> HIDE DEF s
  <2>2. Cardinality(s .. id - 1) = IF s > id - 1 THEN 0 ELSE id - 1 - s + 1
    BY <2>1, FS_Interval
  <2>3. Cardinality(s .. id - 1) = id - s
    BY <2>1, <2>2
  <2> QED
    BY <2>3 DEF s
<1> QED
  BY <1>2, <1>3, <1>4 DEF Rank

\* A free id elsewhere comes after the whole of the first free lot.
LEMMA RankBeyondFirstLot ==
  ASSUME NEW W \in Nat \ {0}, NEW rs \in SUBSET Nat, NEW r \in Nat, NEW max \in Nat,
         IsFirstFree(rs, r), W * r + W <= max,
         NEW id \in FreeIds(Lots(W, rs), max), id \notin Lot(W, r)
  PROVE  Rank(Lots(W, rs), max, id) \in Nat /\ Rank(Lots(W, rs), max, id) >= W
<1> DEFINE below == {j \in FreeIds(Lots(W, rs), max) : j < id}
<1>1. id \in Nat /\ id \notin Lots(W, rs) /\ W * r \in Nat
  BY DEF FreeIds
<1>2. id >= W * r + W
  <2>1. ASSUME id < W * r PROVE FALSE
    <3>1. PICK q \in 0 .. r - 1 : id \in Lot(W, q)
      BY <1>1, <2>1, EarlierLot
    <3> QED
      BY <3>1, <1>1 DEF IsFirstFree, Lots
  <2> QED
    BY <2>1, <1>1, LotBounds
<1>3. Lot(W, r) \in SUBSET below
  <2> SUFFICES ASSUME NEW j \in Lot(W, r) PROVE j \in below
    OBVIOUS
  <2>1. j \in FreeIds(Lots(W, rs), max)
    BY RankInFirstLot
  <2>2. j < id
    BY <1>1, <1>2, LotBounds
  <2> QED
    BY <2>1, <2>2
<1>4. IsFiniteSet(below)
  <2>1. IsFiniteSet(0 .. max - 1)
    BY FS_Interval
  <2>2. below \in SUBSET (0 .. max - 1)
    BY DEF FreeIds
  <2> QED
    BY <2>1, <2>2, FS_Subset
<1>5. Cardinality(Lot(W, r)) = W
  <2>1. Cardinality(W * r .. W * r + W - 1) = W * r + W - 1 - W * r + 1
    BY <1>1, FS_Interval
  <2> QED
    BY <2>1, <1>1 DEF Lot
<1>6. Cardinality(Lot(W, r)) <= Cardinality(below) /\ Cardinality(below) \in Nat
  BY <1>3, <1>4, FS_Subset, FS_CardinalityType
<1> QED
  BY <1>5, <1>6 DEF Rank

\* A row of W allocations takes the first free lot, in order.
LEMMA FirstFreeLot ==
  ASSUME NEW W \in Nat \ {0}, NEW rs \in SUBSET Nat, NEW r \in Nat, NEW max \in Nat,
         IsFirstFree(rs, r), W * r + W <= max
  PROVE  /\ Take(Lots(W, rs), max, W) = Lot(W, r)
         /\ \A k \in 0 .. W - 1 : Nth(Lots(W, rs), max, k) = W * r + k
<1> DEFINE active == Lots(W, rs)
<1>1. ASSUME NEW id \in Lot(W, r)
      PROVE  id \in FreeIds(active, max) /\ Rank(active, max, id) = id - W * r
  BY RankInFirstLot
<1>2. ASSUME NEW id \in FreeIds(active, max), id \notin Lot(W, r)
      PROVE  Rank(active, max, id) \in Nat /\ Rank(active, max, id) >= W
  BY <1>2, RankBeyondFirstLot
<1>3. Take(active, max, W) = Lot(W, r)
  <2>1. ASSUME NEW id \in Lot(W, r) PROVE id \in Take(active, max, W)
    <3>1. id - W * r < W
      BY LotBounds
    <3> QED
      BY <3>1, <1>1 DEF Take
  <2>2. ASSUME NEW id \in Take(active, max, W) PROVE id \in Lot(W, r)
    <3> HIDE DEF active
    <3>1. id \in FreeIds(active, max) /\ Rank(active, max, id) < W
      BY DEF Take
    <3> QED
      BY <3>1, <1>2
  <2> QED
    BY <2>1, <2>2
<1>4. ASSUME NEW k \in 0 .. W - 1
      PROVE  Nth(active, max, k) = W * r + k
  <2> DEFINE i == W * r + k
  <2> HIDE DEF active
  <2>1. i \in Lot(W, r) /\ i - W * r = k
    BY LotBounds
  <2>2. i \in FreeIds(active, max) /\ Rank(active, max, i) = k
    BY <2>1, <1>1
  <2>3. ASSUME NEW id \in FreeIds(active, max), Rank(active, max, id) = k
        PROVE  id = i
    <3>1. id \in Lot(W, r)
      BY <2>3, <1>2
    <3>2. id - W * r = k
      BY <3>1, <2>3, <1>1
    <3>3. id \in Int /\ W * r \in Nat
      BY <3>1, LotBounds
    <3> QED
      BY <3>2, <3>3
  <2> QED
    BY <2>2, <2>3 DEF Nth
<1> QED
  BY <1>3, <1>4

=============================================================================
