--------------------------- MODULE SlotTableProofs ---------------------------
(***************************************************************************)
(* That the allocation loop does what Slots says of it in closed form, for *)
(* tables of every size and rows of calls of every length.                 *)
(***************************************************************************)
EXTENDS SlotTable, FiniteSetTheorems, TLAPS


-----------------------------------------------------------------------------
(* The rank of an id among the free ones.                                  *)

\* The free ids below an id can be counted.
LEMMA RankType ==
  ASSUME NEW t, NEW max \in Nat, NEW id \in Int
  PROVE  /\ IsFiniteSet({j \in FreeIds(t, max) : j < id})
         /\ Rank(t, max, id) \in Nat
<1>1. IsFiniteSet(0 .. max - 1)
  BY FS_Interval
<1>2. {j \in FreeIds(t, max) : j < id} \in SUBSET (0 .. max - 1)
  BY DEF FreeIds
<1>3. IsFiniteSet({j \in FreeIds(t, max) : j < id})
  BY <1>1, <1>2, FS_Subset
<1> QED
  BY <1>3, FS_CardinalityType DEF Rank

\* The greater of two ids has the greater rank, if the lesser one is free.
LEMMA RankGrows ==
  ASSUME NEW t, NEW max \in Nat, NEW a \in FreeIds(t, max), NEW b \in Int, a < b
  PROVE  Rank(t, max, a) < Rank(t, max, b)
<1> DEFINE below(i) == {j \in FreeIds(t, max) : j < i}
<1>1. a \in Int /\ \A j \in FreeIds(t, max) : j \in Int
  BY DEF FreeIds
<1>2. IsFiniteSet(below(a)) /\ IsFiniteSet(below(b))
  BY <1>1, RankType
<1>3. a \notin below(a) /\ below(a) \cup {a} \in SUBSET below(b)
  <2>1. a \in below(b) /\ ~(a < a)
    BY <1>1
  <2>2. \A j \in FreeIds(t, max) : j < a => j < b
    BY <1>1
  <2> QED
    BY <2>1, <2>2
<1>4. Cardinality(below(a) \cup {a}) = Cardinality(below(a)) + 1
  <2> HIDE DEF below
  <2> QED
    BY <1>2, <1>3, FS_AddElement
<1>5. Cardinality(below(a) \cup {a}) <= Cardinality(below(b))
  <2> HIDE DEF below
  <2> QED
    BY <1>2, <1>3, FS_Subset
<1>6. Cardinality(below(a)) \in Nat /\ Cardinality(below(b)) \in Nat
  <2> HIDE DEF below
  <2> QED
    BY <1>2, FS_CardinalityType
<1>7. Cardinality(below(a)) < Cardinality(below(b))
  <2> HIDE DEF below
  <2> QED
    BY <1>4, <1>5, <1>6
<1> QED
  BY <1>7 DEF Rank

\* No two free ids have the same rank.
LEMMA RankTellsApart ==
  ASSUME NEW t, NEW max \in Nat, NEW a \in FreeIds(t, max), NEW b \in FreeIds(t, max),
         Rank(t, max, a) = Rank(t, max, b)
  PROVE  a = b
<1>1. a \in Int /\ b \in Int
  BY DEF FreeIds
<1>2. Rank(t, max, a) \in Nat /\ Rank(t, max, b) \in Nat
  BY <1>1, RankType
<1>3. ~(a < b) /\ ~(b < a)
  BY <1>1, <1>2, RankGrows
<1> QED
  BY <1>1, <1>3

\* A row of n calls takes no more than n ids.
LEMMA TakeAtMost ==
  ASSUME NEW t, NEW max \in Nat, NEW n \in Nat
  PROVE  /\ IsFiniteSet(Take(t, max, n))
         /\ Cardinality(Take(t, max, n)) \in Nat
         /\ Cardinality(Take(t, max, n)) <= n
<1> DEFINE T == Take(t, max, n)
           f == [id \in T |-> Rank(t, max, id)]
<1>1. ASSUME NEW id \in T
      PROVE  id \in FreeIds(t, max) /\ id \in Int /\ Rank(t, max, id) \in 0 .. n - 1
  <2>1. id \in FreeIds(t, max) /\ id \in Int /\ Rank(t, max, id) < n
    BY DEF Take, FreeIds
  <2>2. Rank(t, max, id) \in Nat
    BY <2>1, RankType
  <2> QED
    BY <2>1, <2>2
<1>2. f \in Injection(T, 0 .. n - 1)
  <2>1. f \in [T -> 0 .. n - 1]
    BY <1>1
  <2>2. ASSUME NEW a \in T, NEW b \in T, f[a] = f[b] PROVE a = b
    BY <2>2, <1>1, RankTellsApart
  <2> QED
    BY <2>1, <2>2 DEF Injection, IsInjective
<1>3. IsFiniteSet(0 .. n - 1) /\ Cardinality(0 .. n - 1) = n
  BY FS_Interval
<1>4. IsFiniteSet(T) /\ Cardinality(T) <= n
  <2> HIDE DEF T, f
  <2> QED
    BY <1>2, <1>3, FS_Injection
<1> QED
  BY <1>4, FS_CardinalityType

\* A call that finds the lowest id that neither was taken before the row nor
\* has been taken in it, finds the id of the next rank.
LEMMA NextOfRow ==
  ASSUME NEW t, NEW max \in Nat, NEW n \in Nat,
         NEW id \in FreeIds(t, max), id \notin Take(t, max, n),
         \A j \in FreeIds(t, max) : j < id => j \in Take(t, max, n)
  PROVE  /\ Nth(t, max, n) = id
         /\ Take(t, max, n + 1) = Take(t, max, n) \cup {id}
<1> DEFINE below == {j \in FreeIds(t, max) : j < id}
<1>1. \A j \in FreeIds(t, max) : j \in Int /\ Rank(t, max, j) \in Nat
  <2>1. \A j \in FreeIds(t, max) : j \in Int
    BY DEF FreeIds
  <2> QED
    BY <2>1, RankType
<1>2. Rank(t, max, id) >= n
  BY <1>1 DEF Take
<1>3. Rank(t, max, id) <= n
  <2>1. below \in SUBSET Take(t, max, n)
    OBVIOUS
  <2>2. Cardinality(below) <= Cardinality(Take(t, max, n))
    BY <2>1, TakeAtMost, FS_Subset
  <2> QED
    BY <2>2, <1>1, TakeAtMost DEF Rank
<1>4. Rank(t, max, id) = n
  BY <1>1, <1>2, <1>3
<1>5. \A j \in FreeIds(t, max) : Rank(t, max, j) = n => j = id
  BY <1>4, RankTellsApart
<1>6. Nth(t, max, n) = id
  BY <1>4, <1>5 DEF Nth
<1>7. \A j \in FreeIds(t, max) :
         Rank(t, max, j) < n + 1 <=> Rank(t, max, j) < n \/ j = id
  BY <1>1, <1>4, <1>5
<1> QED
  BY <1>6, <1>7 DEF Take

\* Once a row has taken every free id, a further call takes none and leaves
\* the size of the table in its out-parameter.
LEMMA EndOfRow ==
  ASSUME NEW t, NEW max \in Nat, NEW n \in Nat,
         FreeIds(t, max) \subseteq Take(t, max, n)
  PROVE  /\ Nth(t, max, n) = max
         /\ Take(t, max, n + 1) = Take(t, max, n)
<1>1. \A j \in FreeIds(t, max) : Rank(t, max, j) \in Nat /\ Rank(t, max, j) < n
  <2>1. \A j \in FreeIds(t, max) : j \in Int /\ Rank(t, max, j) < n
    BY DEF FreeIds, Take
  <2> QED
    BY <2>1, RankType
<1>2. \A j \in FreeIds(t, max) : Rank(t, max, j) # n /\ Rank(t, max, j) < n + 1
  BY <1>1
<1> QED
  BY <1>1, <1>2 DEF Nth, Take

-----------------------------------------------------------------------------
(* The loop.                                                               *)

\* The slots that the loop has walked over are all taken.
WalkedOver == buf # NoCall => \A j \in 0 .. buf - 1 : j \in active

\* What is inductive: RowTakesLowest speaks of a call only when it returns,
\* and what it then finds depends on the slots that it has passed.
SlotInv == TypeOK /\ WalkedOver /\ RowTakesLowest

\* A row in which no call was made yet has taken nothing.
LEMMA EmptyRow ==
  ASSUME NEW t, NEW max \in Nat
  PROVE  Take(t, max, 0) = {}
<1>1. \A j \in FreeIds(t, max) : j \in Int
  BY DEF FreeIds
<1>2. \A j \in FreeIds(t, max) : Rank(t, max, j) \in Nat
  BY <1>1, RankType
<1>3. \A j \in FreeIds(t, max) : ~(Rank(t, max, j) < 0)
  BY <1>2
<1> QED
  BY <1>3 DEF Take

\* An empty table, and no row begun.
LEMMA SlotInvInit == Init => SlotInv
<1> SUFFICES ASSUME Init PROVE SlotInv
  OBVIOUS
<1>1. active = {} /\ base = {} /\ outs = << >> /\ buf = NoCall
  BY DEF Init
<1>2. Len(outs) = 0 /\ Take(base, Max, Len(outs)) = {}
  BY SlotTableAssumption, <1>1, EmptyRow
<1>3. TypeOK
  BY <1>1 DEF TypeOK, NoCall
<1> QED
  BY <1>1, <1>2, <1>3 DEF SlotInv, WalkedOver, RowTakesLowest

\* What the loop has found, when it ends: the next id of the row, or the end
\* of the table.
LEMMA ReturnKeepsRow ==
  ASSUME SlotInv, Return
  PROVE  SlotInv'
<1> DEFINE n == Len(outs)
<1>1. /\ buf \in 0 .. Max /\ n \in Nat /\ outs \in Seq(0 .. Max)
      /\ active \subseteq 0 .. Max - 1 /\ base \subseteq active
      /\ \A j \in 0 .. buf - 1 : j \in active
  BY DEF SlotInv, TypeOK, WalkedOver, Return, NoCall
<1>2. /\ outs' = Append(outs, buf) /\ buf' = NoCall /\ base' = base
      /\ active' = IF buf >= Max THEN active ELSE active \cup {buf}
  BY DEF Return
<1>3. /\ active = base \cup Take(base, Max, n)
      /\ \A k \in 1 .. n : outs[k] = Nth(base, Max, k - 1)
  BY DEF SlotInv, RowTakesLowest
<1>4. /\ Len(outs') = n + 1 /\ outs' \in Seq(0 .. Max)
      /\ outs'[n + 1] = buf
      /\ \A k \in 1 .. n : outs'[k] = outs[k]
  BY <1>1, <1>2
<1>5. /\ Nth(base, Max, n) = buf
      /\ active' = base \cup Take(base, Max, n + 1)
  <2>1. CASE buf >= Max
    <3>1. buf = Max
      BY SlotTableAssumption, <2>1, <1>1
    <3>2. FreeIds(base, Max) \subseteq Take(base, Max, n)
      BY <3>1, <1>1, <1>3 DEF FreeIds
    <3>3. Nth(base, Max, n) = Max /\ Take(base, Max, n + 1) = Take(base, Max, n)
      BY SlotTableAssumption, <3>2, <1>1, EndOfRow
    <3> QED
      BY <3>1, <3>3, <1>2, <1>3, <2>1
  <2>2. CASE ~(buf >= Max)
    <3>1. buf \in 0 .. Max - 1 /\ buf \notin active
      BY SlotTableAssumption, <2>2, <1>1 DEF Return, IsTaken
    <3>2. buf \in FreeIds(base, Max) /\ buf \notin Take(base, Max, n)
      BY <3>1, <1>1, <1>3 DEF FreeIds
    <3>3. \A j \in FreeIds(base, Max) : j < buf => j \in Take(base, Max, n)
      <4> SUFFICES ASSUME NEW j \in FreeIds(base, Max), j < buf
                   PROVE  j \in Take(base, Max, n)
        OBVIOUS
      <4>1. j \in 0 .. buf - 1 /\ j \notin base
        BY <1>1 DEF FreeIds
      <4> QED
        BY <4>1, <1>1, <1>3
    <3>4. /\ Nth(base, Max, n) = buf
          /\ Take(base, Max, n + 1) = Take(base, Max, n) \cup {buf}
      BY SlotTableAssumption, <3>2, <3>3, <1>1, NextOfRow
    <3> QED
      BY <3>4, <1>2, <1>3, <2>2
  <2> QED
    BY <2>1, <2>2
<1>6. TypeOK'
  BY SlotTableAssumption, <1>1, <1>2, <1>4 DEF TypeOK, NoCall
<1>7. RowTakesLowest'
  <2>1. ASSUME NEW k \in 1 .. n + 1 PROVE outs'[k] = Nth(base, Max, k - 1)
    <3>1. CASE k \in 1 .. n
      BY <3>1, <1>3, <1>4
    <3>2. CASE k = n + 1
      <4>1. k - 1 = n
        BY <3>2, <1>1
      <4> QED
        BY <3>2, <4>1, <1>4, <1>5
    <3> QED
      BY <3>1, <3>2, <1>1
  <2> QED
    BY <2>1, <1>2, <1>4, <1>5 DEF RowTakesLowest
<1>8. WalkedOver'
  BY <1>2 DEF WalkedOver
<1> QED
  BY <1>6, <1>7, <1>8 DEF SlotInv

\* Every step of the loop, and a free between two rows.
LEMMA SlotInvStep == SlotInv /\ [Next]_vars => SlotInv'
<1> SUFFICES ASSUME SlotInv, [Next]_vars PROVE SlotInv'
  OBVIOUS
<1>1. CASE Call
  <2>1. TypeOK'
    BY SlotTableAssumption, <1>1 DEF Call, SlotInv, TypeOK, NoCall
  <2>2. WalkedOver'
    BY <1>1 DEF Call, WalkedOver, NoCall
  <2>3. RowTakesLowest'
    BY <1>1 DEF Call, SlotInv, RowTakesLowest
  <2> QED
    BY <2>1, <2>2, <2>3 DEF SlotInv
<1>2. CASE Skip
  <2>1. TypeOK'
    BY SlotTableAssumption, <1>2 DEF Skip, SlotInv, TypeOK, NoCall
  <2>2. WalkedOver'
    BY <1>2 DEF Skip, SlotInv, TypeOK, WalkedOver, IsTaken, NoCall
  <2>3. RowTakesLowest'
    BY <1>2 DEF Skip, SlotInv, RowTakesLowest
  <2> QED
    BY <2>1, <2>2, <2>3 DEF SlotInv
<1>3. CASE Return
  BY <1>3, ReturnKeepsRow
<1>4. ASSUME NEW id \in 0 .. Max - 1, Free(id)
      PROVE  SlotInv'
  <2>1. /\ active' \subseteq 0 .. Max - 1 /\ base' = active' /\ outs' = << >>
        /\ buf' = NoCall
    BY <1>4 DEF Free, SlotInv, TypeOK
  <2>2. Take(base', Max, Len(outs')) = {}
    BY SlotTableAssumption, <2>1, EmptyRow
  <2>3. TypeOK'
    BY <2>1 DEF TypeOK
  <2> QED
    BY <2>1, <2>2, <2>3 DEF SlotInv, WalkedOver, RowTakesLowest
<1>5. CASE UNCHANGED vars
  BY <1>5 DEF vars, SlotInv, TypeOK, WalkedOver, RowTakesLowest
<1> QED
  BY <1>1, <1>2, <1>3, <1>4, <1>5 DEF Next

\* The loop marks no slot outside the array, however long the row of calls
\* and however full the table: the test after it stops the id past the end.
THEOREM LoopStaysInside == Spec => []TypeOK
<1>1. SlotInv => TypeOK
  BY DEF SlotInv
<1> QED
  BY <1>1, SlotInvInit, SlotInvStep, PTL DEF Spec

\* The closed form is the loop: a row of calls takes the lowest free ids in
\* order and leaves the size of the table in the out-parameters of the calls
\* that fail.  ClientRegistry builds add_client on it.
THEOREM ClosedFormIsTheLoop == Spec => []RowTakesLowest
<1>1. SlotInv => RowTakesLowest
  BY DEF SlotInv
<1> QED
  BY <1>1, SlotInvInit, SlotInvStep, PTL DEF Spec

=============================================================================
