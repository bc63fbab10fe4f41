------------------------------ MODULE GQFProofs ------------------------------
(***************************************************************************)
(* Theorems about GQF, for every number of slots, buckets, blocks and      *)
(* hashes.                                                                 *)
(*                                                                         *)
(* What a filter's bits say is a layout of RunLayout: the slots in use U,  *)
(* and for each of them the bucket h[i] of the item that it, or the chunk  *)
(* or counter slot in it, belongs to (Homed).  The offsets say how far     *)
(* each block's first slots belong to blocks before (Stored).  A filter is *)
(* in shape (Shaped) if in addition its fields are in range, chunks come   *)
(* before counter slots and noccupied_slots is the number of slots in use. *)
(*                                                                         *)
(* In a shaped filter the offsets lead where the bits say, and the scans   *)
(* that depend on them answer what they should (BlockOffsetExact,          *)
(* RunEndExact, FirstEmptyExact, LookupExact, WalkExact).  Insertions,     *)
(* charges and adaptations lead from shaped filters to shaped ones         *)
(* (InsertionKeeps, IncrementKeeps, AdaptKeeps, TableAdaptKeeps): each is  *)
(* make_space, which is the Insertion of RunLayout with the offsets nudged *)
(* (Nudged) and the bits shifted (ShiftBits), followed by setting the bits *)
(* of the slot put in.                                                     *)
(***************************************************************************)
EXTENDS GQFLayout, RunLayout

-----------------------------------------------------------------------------
(***************************************************************************)
(* The slot array as a layout                                              *)
(***************************************************************************)
\* The last items of the runs: no item of the same home is behind them.
LastItems(U, h, X) == {i \in U \ X : \A j \in U : i < j /\ h[j] = h[i] => j \in X}

\* How far what has a home before slot s reaches past it.
Reach(U, h, s) == IF s - 1 \in U THEN EndOf(U, h, s - 1) - (s - 1) ELSE 0

\* The slots in use are U, what each holds belongs to bucket h[i], no run
\* begins with an extension or a counter, and the bits say so.
Homed(qf, U, h) ==
    /\ Laid(U, h, PastEnd)
    /\ qf.occupieds = Homes(U, h)
    /\ qf.extensions \in SUBSET U /\ qf.runends \in SUBSET U
    /\ \A i \in qf.extensions : i - 1 \in U /\ h[i - 1] = h[i]
    /\ RunEnds(qf) = LastItems(U, h, qf.extensions)

\* A block's offset is how far the blocks before reach into it, if a byte can
\* hold that.
Stored(qf, U, h) ==
    \A k \in Blocks : qf.offset[k] = Min({OffsetMax, Reach(U, h, SlotsPerBlock * k)})

\* Blocks are made of SlotsPerBlock slots each.
LEMMA Sizes ==
    /\ SlotsPerBlock \in Nat \ {0} /\ OffsetMax \in Nat \ {0} /\ OffsetMax >= SlotsPerBlock
    /\ XnSlots \in Nat /\ nblocks \in Nat \ {0} /\ PastEnd \in Nat /\ XnSlots <= PastEnd
    /\ PastEnd = SlotsPerBlock * nblocks /\ nslots \in Nat \ {0} /\ nslots < XnSlots
    /\ Slots = 0 .. PastEnd - 1 /\ Blocks = 0 .. nblocks - 1
  <1>1. QuotientBits \in Nat /\ SlotsPerBlock \in Nat \ {0} /\ XnSlots > 2 ^ QuotientBits
        /\ OffsetMax >= SlotsPerBlock /\ XnSlots \in Nat /\ OffsetMax \in Nat
    BY GQFAssumption
  <1>2. 2 ^ QuotientBits \in Nat \ {0}
    BY <1>1, PowerOfTwo
  <1>. DEFINE m == XnSlots + SlotsPerBlock - 1
  <1>3. m \in Nat
    BY <1>1
  <1>. HIDE DEF m
  <1>4. /\ m \div SlotsPerBlock \in Nat
        /\ m % SlotsPerBlock \in 0 .. SlotsPerBlock - 1
        /\ m = SlotsPerBlock * (m \div SlotsPerBlock) + (m % SlotsPerBlock)
    BY <1>1, <1>3, DivFacts
  <1>5. nblocks = m \div SlotsPerBlock
    BY DEF nblocks, m
  <1>6. PastEnd = SlotsPerBlock * nblocks
    BY <1>1, <1>4, <1>5 DEF PastEnd
  <1>7. XnSlots <= PastEnd /\ nblocks # 0
    BY <1>1, <1>2, <1>4, <1>5, <1>6 DEF m
  <1>8. PastEnd \in Nat
    <2>1. \A a \in Nat, b \in Nat : a * b \in Nat
      OBVIOUS
    <2>. QED
      BY <1>1, <1>4, <1>5, <1>6, <2>1
  <1>. QED
    BY <1>1, <1>2, <1>4, <1>5, <1>6, <1>7, <1>8 DEF nslots, Slots, Blocks

\* The smallest element from a place on, or PastEnd.
LEMMA FirstFromIs ==
    ASSUME NEW S \in SUBSET Nat, NEW from \in Nat, NEW j, j = FirstFrom(S, from)
    PROVE  \/ j \in S /\ from <= j /\ \A k \in S : from <= k => j <= k
           \/ j = PastEnd /\ \A k \in S : k < from
  <1>. DEFINE T == {i \in S : i >= from}
  <1>1. CASE T = {}
    BY <1>1 DEF FirstFrom
  <1>2. CASE T # {}
    <2>1. T \in SUBSET Nat
      OBVIOUS
    <2>. DEFINE m == Min(T)
    <2>2. m \in T /\ \A k \in T : m <= k
      <3>. HIDE DEF T
      <3>. QED
        BY <1>2, <2>1, MinOfNats
    <2>3. j = m
      BY <1>2 DEF FirstFrom
    <2>. QED
      BY <2>2, <2>3
  <1>. QED
    BY <1>1, <1>2

\* skip_extensions stops at the first slot that holds no chunk and no counter.
LEMMA SkipIs ==
    ASSUME NEW qf, qf.extensions \in SUBSET Slots, NEW i \in Nat, i <= PastEnd,
           NEW j, j = skip_extensions(qf, i)
    PROVE  /\ j \in Nat /\ i <= j /\ j <= PastEnd /\ j \notin qf.extensions
           /\ \A k \in Nat : i <= k /\ k < j => k \in qf.extensions
  <1>. DEFINE S == (Slots \cup {i}) \ qf.extensions
  <1>1. PastEnd \in Nat /\ Slots = 0 .. PastEnd - 1
    BY Sizes
  <1>2. S \in SUBSET Nat /\ j = FirstFrom(S, i)
    BY <1>1 DEF skip_extensions
  <1>3. \/ j \in S /\ i <= j /\ \A k \in S : i <= k => j <= k
        \/ j = PastEnd /\ \A k \in S : k < i
    <2>. HIDE DEF S
    <2>. QED
      BY <1>2, FirstFromIs
  <1>4. ASSUME NEW k \in Nat, i <= k, k < j, j <= PastEnd PROVE k \in qf.extensions
    <2>1. k \in Slots
      BY <1>1, <1>3, <1>4
    <2>. QED
      BY <1>1, <1>3, <1>4, <2>1
  <1>. QED
    BY <1>1, <1>3, <1>4

\* The k-th smallest element is the one with k - 1 before it.
LEMMA SelectIs ==
    ASSUME NEW S \in SUBSET Nat, IsFiniteSet(S), NEW x \in S, NEW k,
           k = Cardinality({j \in S : j < x}) + 1
    PROVE  Select(S, k) = x
  <1>. DEFINE Before(i) == {j \in S : j < i}
  <1>1. \A i \in S : Before(i) \in SUBSET S /\ IsFiniteSet(Before(i)) /\ Cardinality(Before(i)) \in Nat
    BY FS_Subset, FS_CardinalityType
  <1>2. ASSUME NEW i \in S, NEW j \in S, i < j PROVE Cardinality(Before(i)) < Cardinality(Before(j))
    <2>1. i \in Nat /\ j \in Nat
      OBVIOUS
    <2>2. Before(i) \in SUBSET Before(j)
      <3>1. ASSUME NEW y \in Before(i) PROVE y \in Before(j)
        <4>1. y \in Nat /\ y < i
          OBVIOUS
        <4>. QED
          BY <1>2, <2>1, <4>1
      <3>. QED
        BY <3>1
    <2>3. i \in Before(j) /\ i \notin Before(i)
      BY <1>2, <2>1
    <2>4. Cardinality(Before(i)) <= Cardinality(Before(j)) /\ Cardinality(Before(i)) # Cardinality(Before(j))
      <3>. HIDE DEF Before
      <3>. QED
        BY <1>1, <2>2, <2>3, FS_Subset
    <2>. QED
      BY <1>1, <2>4
  <1>3. Cardinality(Before(x)) < Cardinality(S)
    <2>1. Before(x) \in SUBSET S /\ x \notin Before(x)
      OBVIOUS
    <2>2. Cardinality(Before(x)) <= Cardinality(S) /\ Cardinality(Before(x)) # Cardinality(S)
      <3>. HIDE DEF Before
      <3>. QED
        BY <2>1, FS_Subset
    <2>. QED
      BY <1>1, <2>2, FS_CardinalityType
  <1>4. Cardinality(S) \in Nat
    BY FS_CardinalityType
  <1>5. k = Cardinality(Before(x)) + 1
    OBVIOUS
  <1>6. ~(k > Cardinality(S))
    BY <1>1, <1>3, <1>4, <1>5
  <1>7. ASSUME NEW i \in S, Cardinality(Before(i)) = k - 1 PROVE i = x
    <2>1. i \in Nat /\ x \in Nat
      OBVIOUS
    <2>2. ~(i < x) /\ ~(x < i)
      BY <1>1, <1>2, <1>5, <1>7
    <2>. QED
      BY <2>1, <2>2
  <1>8. Cardinality(Before(x)) = k - 1
    BY <1>1, <1>5
  <1>9. Select(S, k) = CHOOSE i \in S : Cardinality(Before(i)) = k - 1
    BY <1>6 DEF Select
  <1>. HIDE DEF Before
  <1>. QED
    BY <1>7, <1>8, <1>9

-----------------------------------------------------------------------------
(***************************************************************************)
(* The last item of a run, and counting by it                              *)
(***************************************************************************)
\* What Homed says of the sets it is about.
LEMMA HomedTypes ==
    ASSUME NEW qf, NEW U, NEW h, Homed(qf, U, h)
    PROVE  /\ Laid(U, h, PastEnd) /\ PastEnd \in Nat
           /\ U \in SUBSET Slots /\ U \in SUBSET Nat /\ IsFiniteSet(U)
           /\ \A i \in U : i \in Nat /\ i < PastEnd /\ h[i] \in Nat /\ h[i] <= i
           /\ qf.extensions \in SUBSET U /\ qf.extensions \in SUBSET Slots
           /\ RunEnds(qf) \in SUBSET U /\ RunEnds(qf) = LastItems(U, h, qf.extensions)
           /\ qf.occupieds = Homes(U, h) /\ qf.occupieds \in SUBSET U
  <1>1. Laid(U, h, PastEnd) /\ qf.extensions \in SUBSET U /\ qf.occupieds = Homes(U, h)
        /\ RunEnds(qf) = LastItems(U, h, qf.extensions)
    BY DEF Homed
  <1>2. PastEnd \in Nat /\ Slots = 0 .. PastEnd - 1
    BY Sizes
  <1>3. U \in SUBSET Slots
    BY <1>1, <1>2 DEF Laid
  <1>4. IsFiniteSet(U)
    <2>1. IsFiniteSet(Slots)
      BY <1>2, FS_Interval
    <2>. QED
      BY <1>3, <2>1, FS_Subset
  <1>5. \A i \in U : i \in Nat /\ i < PastEnd /\ h[i] \in Nat /\ h[i] <= i
    BY <1>1, LaidSlot
  <1>6. RunEnds(qf) \in SUBSET U
    BY <1>1 DEF LastItems
  <1>7. Homes(U, h) \in SUBSET U
    <2>1. ASSUME NEW q \in Homes(U, h) PROVE q \in U
      BY <1>1, HomeHasEnd
    <2>. QED
      BY <2>1
  <1>. QED
    BY <1>1, <1>2, <1>3, <1>4, <1>5, <1>6, <1>7

\* Two last items of one home are the same slot.
LEMMA OneLastItem ==
    ASSUME NEW qf, NEW U, NEW h, Homed(qf, U, h),
           NEW i \in RunEnds(qf), NEW j \in RunEnds(qf), h[i] = h[j]
    PROVE  i = j
  <1>1. i \in U /\ j \in U /\ i \in Nat /\ j \in Nat
    BY HomedTypes
  <1>2. ~(i < j) /\ ~(j < i)
    BY <1>1, HomedTypes DEF LastItems
  <1>. QED
    BY <1>1, <1>2

\* Every home has a last item, whose chunks and counter end at the run's end.
LEMMA HasLastItem ==
    ASSUME NEW qf, NEW U, NEW h, Homed(qf, U, h), NEW q \in Homes(U, h)
    PROVE  \E r \in RunEnds(qf) : h[r] = q /\ skip_extensions(qf, r + 1) = EndOf(U, h, q) + 1
                                /\ r <= EndOf(U, h, q)
  <1>. DEFINE X == qf.extensions
              S == {i \in U \ X : h[i] = q}
              A == {i \in U : h[i] = q}
              e == EndOf(U, h, q)
  <1>1. /\ Laid(U, h, PastEnd) /\ X \in SUBSET Slots /\ PastEnd \in Nat
        /\ \A i \in U : i \in Nat /\ i < PastEnd /\ h[i] \in Nat
        /\ RunEnds(qf) = LastItems(U, h, X)
        /\ \A i \in X : i - 1 \in U /\ h[i - 1] = h[i]
    BY HomedTypes DEF Homed
  <1>2. q \in U /\ q \in Nat /\ h[e] = q
    BY <1>1, HomeHasEnd
  <1>3. e \in U /\ e \in Nat /\ e < PastEnd /\ q <= e
        /\ (\A i \in Nat : q <= i /\ i <= e => i \in U /\ h[i] <= q)
        /\ \A i \in U : e < i => h[i] > q
    BY <1>1, <1>2, EndFacts
  <1>. HIDE DEF e
  <1>4. S # {}
    <2>1. A # {} /\ A \in SUBSET Nat
      BY <1>1, <1>2, <1>3
    <2>2. PICK a \in A : \A k \in A : a <= k
      BY <2>1, SmallestNat
    <2>3. a \in U /\ h[a] = q /\ a \in Nat
      BY <1>1
    <2>4. a \notin X
      <3>1. ASSUME a \in X PROVE FALSE
        <4>1. a - 1 \in A
          BY <1>1, <2>3, <3>1
        <4>. QED
          BY <2>2, <2>3, <4>1
      <3>. QED
        BY <3>1
    <2>. QED
      BY <2>3, <2>4
  <1>. DEFINE r == Max(S)
  <1>5. r \in S /\ \A k \in S : k <= r
    <2>1. S \in SUBSET Nat /\ \A k \in S : k <= PastEnd
      BY <1>1
    <2>. HIDE DEF S
    <2>. QED
      BY <1>1, <1>4, <2>1, MaxOfNats
  <1>. HIDE DEF r
  <1>6. r \in U /\ r \notin X /\ h[r] = q /\ r \in Nat
    BY <1>1, <1>5
  <1>7. \A j \in U : r < j /\ h[j] = q => j \in X
    BY <1>1, <1>5, <1>6
  <1>8. r \in RunEnds(qf)
    BY <1>1, <1>6, <1>7 DEF LastItems
  <1>9. r <= e
    BY <1>2, <1>3, <1>6
  <1>10. \A j \in Nat : r < j /\ j <= e => j \in X
    <2>1. ASSUME NEW j \in Nat, r < j, j <= e PROVE j \in X
      <3>1. j \in U
        <4>1. q <= r
          BY <1>1, <1>6, LaidSlot
        <4>. QED
          BY <1>2, <1>3, <1>6, <2>1, <4>1
      <3>2. h[r] <= h[j] /\ h[j] <= h[e]
        BY <1>1, <1>3, <1>6, <2>1, <3>1, HomesAscend
      <3>3. h[j] = q
        BY <1>1, <1>2, <1>6, <3>1, <3>2
      <3>. QED
        BY <1>7, <2>1, <3>1, <3>3
    <2>. QED
      BY <2>1
  <1>11. e + 1 \notin X
    <2>1. ASSUME e + 1 \in X PROVE FALSE
      <3>1. e + 1 \in U /\ h[e + 1] = h[(e + 1) - 1]
        BY <1>1, <2>1, HomedTypes
      <3>2. (e + 1) - 1 = e
        BY <1>3
      <3>. QED
        BY <1>2, <1>3, <3>1, <3>2
    <2>. QED
      BY <2>1
  <1>12. skip_extensions(qf, r + 1) = e + 1
    <2>. DEFINE j == skip_extensions(qf, r + 1)
    <2>1. r + 1 \in Nat /\ r + 1 <= PastEnd
      BY <1>1, <1>6
    <2>2. j \in Nat /\ r + 1 <= j /\ j \notin X
          /\ \A k \in Nat : r + 1 <= k /\ k < j => k \in X
      BY <1>1, <2>1, SkipIs
    <2>. HIDE DEF j
    <2>3. ~(j <= e)
      BY <1>6, <1>10, <2>2
    <2>4. ~(e + 1 < j)
      BY <1>3, <1>6, <1>9, <1>11, <2>2
    <2>5. j = e + 1
      BY <1>3, <2>2, <2>3, <2>4
    <2>. QED
      BY <2>5 DEF j
  <1>. QED
    BY <1>6, <1>8, <1>9, <1>12 DEF e

\* What has its home at s or behind lies behind what reaches past s.
LEMMA ReachSplits ==
    ASSUME NEW U, NEW h, NEW N, Laid(U, h, N), NEW s \in Nat
    PROVE  /\ Reach(U, h, s) \in Nat
           /\ \A i \in U : i >= s + Reach(U, h, s) <=> h[i] >= s
           /\ \A i \in Nat : s <= i /\ i < s + Reach(U, h, s) => i \in U
           /\ Reach(U, h, s) > 0 => /\ s > 0 /\ s - 1 \in U
                                    /\ EndOf(U, h, s - 1) = s + Reach(U, h, s) - 1
  <1>. DEFINE m == EndOf(U, h, s - 1)
  <1>0. \A i \in U : i \in Nat /\ h[i] \in Nat /\ h[i] <= i
    BY LaidSlot
  <1>1. CASE s - 1 \in U
    <2>1. s > 0 /\ s - 1 \in Nat
      BY <1>0, <1>1
    <2>2. m \in Nat /\ s - 1 <= m /\ (\A i \in Nat : s - 1 <= i /\ i <= m => i \in U /\ h[i] <= s - 1)
          /\ \A i \in U : m < i => h[i] > s - 1
      BY <1>1, EndFacts
    <2>. HIDE DEF m
    <2>3. Reach(U, h, s) = m - (s - 1)
      BY <1>1 DEF Reach, m
    <2>4. ASSUME NEW i \in U PROVE i >= s + Reach(U, h, s) <=> h[i] >= s
      <3>1. CASE i > m
        BY <1>0, <2>1, <2>2, <2>3, <3>1
      <3>2. CASE i <= m /\ i >= s - 1
        BY <1>0, <2>1, <2>2, <2>3, <3>2
      <3>3. CASE i < s - 1
        BY <1>0, <2>1, <2>2, <2>3, <3>3
      <3>. QED
        BY <1>0, <2>1, <2>2, <3>1, <3>2, <3>3
    <2>. QED
      BY <1>1, <2>1, <2>2, <2>3, <2>4 DEF m
  <1>2. CASE s - 1 \notin U
    <2>1. Reach(U, h, s) = 0
      BY <1>2 DEF Reach
    <2>2. ASSUME NEW i \in U, i >= s PROVE h[i] >= s
      <3>1. ASSUME h[i] < s PROVE FALSE
        <4>1. s - 1 \in Nat /\ h[i] <= s - 1 /\ s - 1 <= i
          BY <1>0, <2>2, <3>1
        <4>. QED
          BY <1>2, <4>1, LaidSlot
      <3>. QED
        BY <1>0, <3>1
    <2>. QED
      BY <1>0, <2>1, <2>2
  <1>. QED
    BY <1>1, <1>2

\* From a place that splits the homes at s, the last items up to r are as many
\* as the homes from s up to r's.
LEMMA LastItemsAreHomes ==
    ASSUME NEW qf, NEW U, NEW h, Homed(qf, U, h), NEW s \in Nat, NEW base \in Nat,
           \A i \in U : i >= base <=> h[i] >= s,
           NEW r \in RunEnds(qf)
    PROVE  CountIn(RunEnds(qf), base, r) = CountIn(Homes(U, h), s, h[r])
  <1>. DEFINE R == RunEnds(qf)
              S == Between(R, base, r)
              T == Between(Homes(U, h), s, h[r])
              f == [i \in S |-> h[i]]
  <1>1. /\ Laid(U, h, PastEnd) /\ R \in SUBSET U /\ R \in SUBSET Nat
        /\ \A i \in U : i \in Nat /\ h[i] \in Nat
    BY HomedTypes
  <1>3. r \in U /\ r \in Nat /\ h[r] \in Nat
    BY <1>1
  <1>4. IsFiniteSet(S)
    <2>1. IsFiniteSet(R)
      BY HomedTypes, FS_Subset
    <2>. QED
      BY <2>1, FS_Subset DEF Between
  <1>5. ASSUME NEW i \in S PROVE f[i] \in T
    <2>1. i \in U /\ i \in R /\ base <= i /\ i <= r
      BY <1>1 DEF Between
    <2>2. i \in Nat /\ h[i] \in Nat /\ h[i] <= h[r] /\ h[i] >= s
      BY <1>1, <1>3, <2>1, HomesAscend
    <2>3. h[i] \in Homes(U, h)
      BY <2>1 DEF Homes
    <2>. QED
      BY <2>2, <2>3 DEF Between
  <1>6. ASSUME NEW i \in S, NEW j \in S, f[i] = f[j] PROVE i = j
    <2>1. i \in R /\ j \in R /\ h[i] = h[j]
      BY <1>6 DEF Between
    <2>. QED
      BY <2>1, OneLastItem
  <1>7. ASSUME NEW q \in T PROVE \E i \in S : f[i] = q
    <2>1. q \in Homes(U, h) /\ s <= q /\ q <= h[r]
      BY DEF Between
    <2>2. PICK i \in R : h[i] = q
      BY <2>1, HasLastItem
    <2>3. i \in U /\ i \in Nat
      BY <1>1
    <2>4. i >= base
      BY <2>1, <2>2, <2>3
    <2>5. i <= r
      <3>1. CASE r < i
        <4>1. h[r] <= h[i]
          BY <1>1, <1>3, <2>3, <3>1, HomesAscend
        <4>2. h[i] = h[r]
          BY <1>1, <1>3, <2>1, <2>2, <2>3, <4>1
        <4>. QED
          BY <1>3, <2>2, <2>3, <3>1, <4>2, OneLastItem
      <3>. QED
        BY <1>3, <2>3, <3>1
    <2>6. i \in S
      BY <2>2, <2>3, <2>4, <2>5 DEF Between
    <2>. QED
      BY <2>2, <2>6
  <1>. HIDE DEF S, T
  <1>8. f \in Bijection(S, T)
    BY <1>5, <1>6, <1>7 DEF Bijection, Injection, Surjection, IsInjective
  <1>9. Cardinality(T) = Cardinality(S)
    BY <1>4, <1>8, FS_Bijection DEF ExistsBijection
  <1>. QED
    BY <1>9 DEF CountIn, S, T

-----------------------------------------------------------------------------
(***************************************************************************)
(* run_end and block_offset                                                *)
(***************************************************************************)
\* Where a run that reaches over b ends, or b itself.
RunEndAt(U, h, b) == IF b \in U THEN EndOf(U, h, b) ELSE b

\* The first slot of a slot's block.
LEMMA FirstOfBlock ==
    ASSUME NEW b \in Nat, NEW first, first = SlotsPerBlock * (b \div SlotsPerBlock)
    PROVE  first \in Nat /\ first <= b /\ b < first + SlotsPerBlock /\ b \div SlotsPerBlock \in Nat
  <1>1. SlotsPerBlock \in Nat \ {0}
    BY Sizes
  <1>. DEFINE q == b \div SlotsPerBlock
              p == SlotsPerBlock * q
  <1>2. q \in Nat /\ b % SlotsPerBlock \in 0 .. SlotsPerBlock - 1 /\ b = p + (b % SlotsPerBlock)
    BY <1>1, DivFacts
  <1>3. p \in Nat
    BY <1>1, <1>2
  <1>4. first = p
    OBVIOUS
  <1>. HIDE DEF p
  <1>. QED
    BY <1>1, <1>2, <1>3, <1>4

\* Select over the run ends from base on, asked for the number of homes from s
\* to that of r, answers r.
LEMMA SelectLastItem ==
    ASSUME NEW qf, NEW U, NEW h, Homed(qf, U, h), NEW s \in Nat, NEW base \in Nat,
           \A i \in U : i >= base <=> h[i] >= s,
           NEW r \in RunEnds(qf), h[r] >= s
    PROVE  Select({i \in Slots : is_runend(qf, i) /\ i >= base}, CountIn(Homes(U, h), s, h[r])) = r
  <1>. DEFINE R == RunEnds(qf)
              S == {i \in Slots : is_runend(qf, i) /\ i >= base}
  <1>1. R \in SUBSET U /\ U \in SUBSET Slots /\ U \in SUBSET Nat /\ r \in Nat /\ IsFiniteSet(U)
    BY HomedTypes
  <1>2. S = {i \in R : i >= base}
    BY <1>1 DEF is_runend, RunEnds
  <1>3. S \in SUBSET Nat /\ r \in S
    BY <1>1, <1>2
  <1>4. IsFiniteSet(S)
    <2>1. S \in SUBSET U
      BY <1>1, <1>2
    <2>. HIDE DEF S
    <2>. QED
      BY <1>1, <2>1, FS_Subset
  <1>. DEFINE B == {j \in S : j < r}
  <1>5. Between(R, base, r) = B \cup {r} /\ r \notin B
    <2>1. ASSUME NEW j PROVE j \in Between(R, base, r) <=> j \in B \cup {r}
      BY <1>1, <1>2, <1>3 DEF Between
    <2>. QED
      BY <1>1, <2>1
  <1>6. IsFiniteSet(B)
    BY <1>4, FS_Subset
  <1>. HIDE DEF B, S
  <1>7. CountIn(R, base, r) = Cardinality(B) + 1
    BY <1>5, <1>6, FS_AddElement DEF CountIn
  <1>8. CountIn(R, base, r) = CountIn(Homes(U, h), s, h[r])
    BY LastItemsAreHomes
  <1>9. CountIn(Homes(U, h), s, h[r]) = Cardinality({j \in S : j < r}) + 1
    BY <1>7, <1>8 DEF B
  <1>10. Select(S, CountIn(Homes(U, h), s, h[r])) = r
    BY <1>3, <1>4, <1>9, SelectIs
  <1>. QED
    BY <1>10 DEF S

\* run_end, from how far the runs before the block reach into it, is exact.
LEMMA RunEndFrom ==
    ASSUME NEW qf, NEW U, NEW h, Homed(qf, U, h), NEW b \in Slots, NEW first,
           first = SlotsPerBlock * (b \div SlotsPerBlock)
    PROVE  run_end_from(qf, b, Reach(U, h, first)) = RunEndAt(U, h, b)
  <1>. DEFINE H == Homes(U, h)
              spill == Reach(U, h, first)
              base == first + spill
              rank == CountIn(H, first, b)
              L == {i \in Slots : is_runend(qf, i) /\ i >= first + spill}
  <1>1. b \in Nat /\ b < PastEnd
    BY Sizes
  <1>2. first \in Nat /\ first <= b
    BY <1>1, FirstOfBlock
  <1>3. /\ Laid(U, h, PastEnd) /\ H \in SUBSET U /\ H \in SUBSET Nat /\ qf.occupieds = H
        /\ \A i \in U : i \in Nat /\ h[i] \in Nat /\ h[i] <= i
    BY HomedTypes
  <1>4. /\ spill \in Nat
        /\ \A i \in U : i >= base <=> h[i] >= first
        /\ \A i \in Nat : first <= i /\ i < base => i \in U
        /\ spill > 0 => first > 0 /\ first - 1 \in U /\ EndOf(U, h, first - 1) = base - 1
    <2>1. /\ Reach(U, h, first) \in Nat
          /\ \A i \in U : i >= first + Reach(U, h, first) <=> h[i] >= first
          /\ \A i \in Nat : first <= i /\ i < first + Reach(U, h, first) => i \in U
          /\ Reach(U, h, first) > 0 => /\ first > 0 /\ first - 1 \in U
                                       /\ EndOf(U, h, first - 1) = first + Reach(U, h, first) - 1
      BY <1>2, <1>3, ReachSplits
    <2>. QED
      BY <2>1
  <1>. SUFFICES run_end_from(qf, b, spill) = RunEndAt(U, h, b)
    OBVIOUS
  <1>. HIDE DEF spill
  <1>5. run_end_from(qf, b, spill) =
          IF rank = 0 THEN IF spill <= b - first THEN b ELSE first + spill - 1
          ELSE Max({b, skip_extensions(qf, Select(L, rank) + 1) - 1})
    BY <1>3 DEF run_end_from, CountIn, Between
  <1>6. rank \in Nat
    BY <1>1, <1>2, <1>3, CountType
  <1>7. CASE rank = 0
    <2>1. \A q \in H : ~(first <= q /\ q <= b)
      <3>1. ASSUME NEW q \in H, first <= q, q <= b PROVE FALSE
        <4>1. CountIn(H, first, first - 1) < CountIn(H, first, q)
          BY <1>2, <1>3, <3>1, CountGrows
        <4>2. CountIn(H, first, first - 1) \in Nat /\ CountIn(H, q + 1, b) \in Nat
          BY <1>1, <1>2, <1>3, <3>1, CountType
        <4>3. CountIn(H, first, b) = CountIn(H, first, q) + CountIn(H, q + 1, b)
          BY <1>1, <1>2, <1>3, <3>1, CountSplit
        <4>4. CountIn(H, first, q) \in Nat
          BY <1>1, <1>2, <1>3, <3>1, CountType
        <4>. QED
          BY <1>7, <4>1, <4>2, <4>3, <4>4
      <3>. QED
        BY <3>1
    <2>2. CASE spill <= b - first
      <3>1. b \notin U
        <4>1. ASSUME b \in U PROVE FALSE
          <5>1. h[b] \in H /\ h[b] <= b /\ h[b] >= first
            BY <1>1, <1>2, <1>3, <1>4, <2>2, <4>1 DEF Homes
          <5>. QED
            BY <2>1, <5>1
        <4>. QED
          BY <4>1
      <3>. QED
        BY <1>5, <1>7, <2>2, <3>1 DEF RunEndAt
    <2>3. CASE spill > b - first
      <3>1. b \in U /\ b < base /\ spill > 0
        BY <1>1, <1>2, <1>4, <2>3
      <3>. DEFINE e == EndOf(U, h, b)
      <3>2. /\ e \in U /\ e \in Nat /\ b <= e /\ h[e] <= b
            /\ \A i \in U : e < i => h[i] > b
        BY <1>3, <3>1, EndFacts
      <3>3. h[e] \in H /\ h[e] < first
        BY <1>2, <1>3, <2>1, <3>2 DEF Homes
      <3>4. e <= base - 1
        BY <1>2, <1>3, <1>4, <3>2, <3>3
      <3>5. base - 1 \in U /\ h[base - 1] < first
        <4>1. base - 1 \in U
          BY <1>1, <1>2, <1>4, <3>1
        <4>. QED
          BY <1>2, <1>3, <1>4, <4>1
      <3>6. ~(e < base - 1)
        BY <1>1, <1>2, <1>3, <1>4, <3>2, <3>5
      <3>7. e = base - 1
        BY <1>2, <1>4, <3>2, <3>4, <3>6
      <3>. HIDE DEF e
      <3>. QED
        BY <1>1, <1>2, <1>4, <1>5, <1>7, <2>3, <3>1, <3>7 DEF RunEndAt, e
    <2>. QED
      BY <1>1, <1>2, <1>4, <2>2, <2>3
  <1>8. CASE rank # 0
    <2>. DEFINE Q == {q \in H : first <= q /\ q <= b}
    <2>1. Q # {}
      <3>1. ASSUME Q = {} PROVE FALSE
        <4>1. CountIn(H, first, b) = 0
          BY <3>1, CountNone
        <4>. QED
          BY <1>8, <4>1
      <3>. QED
        BY <3>1
    <2>. DEFINE q == Max(Q)
    <2>2. q \in Q /\ \A k \in Q : k <= q
      <3>1. Q \in SUBSET Nat /\ \A k \in Q : k <= b
        BY <1>3
      <3>. HIDE DEF Q
      <3>. QED
        BY <1>1, <2>1, <3>1, MaxOfNats
    <2>. HIDE DEF q
    <2>3. q \in H /\ q \in Nat /\ first <= q /\ q <= b
      BY <1>3, <2>2
    <2>. DEFINE e == EndOf(U, h, q)
    <2>4. PICK r \in RunEnds(qf) : h[r] = q /\ skip_extensions(qf, r + 1) = e + 1 /\ r <= e
      BY <2>3, HasLastItem
    <2>5. /\ q \in U /\ e \in U /\ e \in Nat /\ q <= e /\ h[e] <= q
          /\ \A i \in Nat : q <= i /\ i <= e => i \in U /\ h[i] <= q
          /\ \A i \in U : e < i => h[i] > q
      BY <1>3, <2>3, EndFacts
    <2>. HIDE DEF e
    <2>6. rank = CountIn(H, first, q)
      <3>1. CountIn(H, q + 1, b) = 0
        <4>1. \A x \in H : ~(q + 1 <= x /\ x <= b)
          BY <1>1, <1>2, <1>3, <2>2, <2>3
        <4>. QED
          BY <4>1, CountNone
      <3>2. CountIn(H, first, b) = CountIn(H, first, q) + CountIn(H, q + 1, b)
        BY <1>1, <1>2, <1>3, <2>3, CountSplit
      <3>3. CountIn(H, first, q) \in Nat
        BY <1>2, <1>3, <2>3, CountType
      <3>. QED
        BY <3>1, <3>2, <3>3
    <2>7. Select(L, rank) = r
      <3>1. base \in Nat
        BY <1>2, <1>4
      <3>. HIDE DEF rank
      <3>2. Select({i \in Slots : is_runend(qf, i) /\ i >= base}, CountIn(H, first, h[r])) = r
        BY <1>2, <1>4, <2>3, <2>4, <3>1, SelectLastItem
      <3>. QED
        BY <2>4, <2>6, <3>2
    <2>8. run_end_from(qf, b, spill) = Max({b, (e + 1) - 1})
      BY <1>5, <1>8, <2>4, <2>7
    <2>9. run_end_from(qf, b, spill) = IF b <= e THEN e ELSE b
      <3>1. (e + 1) - 1 = e /\ e \in Int /\ b \in Int
        BY <1>1, <2>5
      <3>. QED
        BY <2>8, <3>1, MinMaxOfTwo
    <2>10. CASE b <= e
      <3>1. b \in U
        BY <1>1, <2>3, <2>5, <2>10
      <3>. DEFINE d == EndOf(U, h, b)
      <3>2. /\ d \in U /\ d \in Nat /\ b <= d /\ h[d] <= b
            /\ \A i \in U : d < i => h[i] > b
        BY <1>3, <3>1, EndFacts
      <3>. HIDE DEF d
      <3>3. ~(d < e)
        BY <1>1, <1>3, <2>3, <2>5, <3>2
      <3>4. ~(e < d)
        <4>1. ASSUME e < d PROVE FALSE
          <5>1. h[d] > q /\ h[d] \in H
            BY <2>5, <3>2, <4>1 DEF Homes
          <5>2. h[d] \in Q
            BY <1>2, <1>3, <2>3, <3>2, <5>1
          <5>. QED
            BY <1>3, <2>2, <2>3, <3>2, <5>1, <5>2
        <4>. QED
          BY <4>1
      <3>5. d = e
        BY <2>5, <3>2, <3>3, <3>4
      <3>. QED
        BY <2>9, <2>10, <3>1, <3>5 DEF RunEndAt, d
    <2>11. CASE ~(b <= e)
      <3>1. ASSUME b \in U PROVE FALSE
        <4>1. h[b] > q /\ h[b] \in H /\ h[b] <= b
          BY <1>1, <1>3, <2>5, <2>11, <3>1 DEF Homes
        <4>2. h[b] \in Q
          BY <1>2, <1>3, <2>3, <4>1
        <4>. QED
          BY <1>3, <2>2, <2>3, <4>1, <4>2
      <3>. QED
        BY <2>9, <2>11, <3>1 DEF RunEndAt
    <2>. QED
      BY <2>10, <2>11
  <1>. QED
    BY <1>7, <1>8

\* The last slot before block k + 1, and its block.
LEMMA LastOfBlock ==
    ASSUME NEW k \in Blocks, k # 0
    PROVE  LET last == SlotsPerBlock * k - 1
           IN  /\ k - 1 \in Blocks /\ last \in Slots /\ last \in Nat
               /\ last \div SlotsPerBlock = k - 1
               /\ SlotsPerBlock * k \in Nat /\ SlotsPerBlock * k < PastEnd
  <1>. DEFINE n == SlotsPerBlock
              p == n * (k - 1)
  <1>1. n \in Nat \ {0} /\ k \in Nat \ {0} /\ nblocks \in Nat /\ k <= nblocks - 1
        /\ PastEnd = n * nblocks /\ Slots = 0 .. PastEnd - 1 /\ Blocks = 0 .. nblocks - 1
    BY Sizes
  <1>2. p \in Nat /\ n * k = p + n
    BY <1>1
  <1>3. n * k + n <= n * nblocks
    <2>1. \A a \in Nat, b \in Nat, c \in Nat : a + 1 <= b => c * a + c <= c * b
      <3>1. ASSUME NEW a \in Nat, NEW b \in Nat, NEW c \in Nat, a + 1 <= b PROVE c * a + c <= c * b
        <4>1. b - (a + 1) \in Nat
          BY <3>1
        <4>2. c * (b - (a + 1)) \in Nat
          BY <4>1
        <4>3. c * b = c * (b - (a + 1)) + (c * a + c)
          BY <4>1
        <4>. QED
          BY <4>2, <4>3
      <3>. QED
        BY <3>1
    <2>. QED
      BY <1>1, <2>1
  <1>. HIDE DEF p
  <1>4. n * k - 1 \in Nat /\ n * k < PastEnd
    BY <1>1, <1>2, <1>3
  <1>5. (n * k - 1) \div n = k - 1
    <2>1. n * (k - 1) <= n * k - 1 /\ n * k - 1 < n * (k - 1) + n
      BY <1>1, <1>2 DEF p
    <2>2. n * k - 1 \in Nat /\ k - 1 \in Int /\ n \in Nat \ {0}
      BY <1>1, <1>4
    <2>. QED
      BY <2>1, <2>2, DivUnique
  <1>. QED
    BY <1>1, <1>2, <1>4, <1>5

\* From one saturated offset to the next: what reaches into a block is what the
\* run of the slot before it reaches past that slot.
LEMMA ReachFromRunEnd ==
    ASSUME NEW U, NEW h, NEW s \in Nat \ {0}
    PROVE  RunEndAt(U, h, s - 1) - (s - 1) = Reach(U, h, s)
  <1>1. CASE s - 1 \in U
    BY <1>1 DEF RunEndAt, Reach
  <1>2. CASE s - 1 \notin U
    BY <1>2 DEF RunEndAt, Reach
  <1>. QED
    BY <1>1, <1>2

\* block_offset is a recursive function of blocks, applied to blk.
IsBlockOffset(qf, f) ==
    f = [k \in Blocks |->
            IF qf.offset[k] < OffsetMax \/ k = 0 THEN qf.offset[k]
            ELSE run_end_from(qf, SlotsPerBlock * k - 1, f[k - 1]) - (SlotsPerBlock * k - 1)]

\* It is the one that IsBlockOffset describes.
LEMMA BlockOffsetDef ==
    ASSUME NEW qf, NEW blk PROVE block_offset(qf, blk) = (CHOOSE f : IsBlockOffset(qf, f))[blk]
  BY DEF block_offset, IsBlockOffset

\* block_offset, which goes back through saturated offsets, says how far the
\* runs before a block reach into it, whatever a byte can hold.
THEOREM BlockOffsetExact ==
    ASSUME NEW qf, NEW U, NEW h, Homed(qf, U, h), Stored(qf, U, h), NEW blk \in Blocks
    PROVE  block_offset(qf, blk) = Reach(U, h, SlotsPerBlock * blk)
  <1>. DEFINE Into(k) == Reach(U, h, SlotsPerBlock * k)
              G == [k \in Blocks |-> Into(k)]
  <1>1. Laid(U, h, PastEnd) /\ Blocks = 0 .. nblocks - 1 /\ nblocks \in Nat \ {0}
        /\ SlotsPerBlock \in Nat \ {0} /\ OffsetMax \in Nat
        /\ \A i \in U : i \in Nat
    BY HomedTypes, Sizes
  <1>2. \A k \in Blocks : SlotsPerBlock * k \in Nat /\ Into(k) \in Nat
    <2>1. ASSUME NEW k \in Blocks PROVE SlotsPerBlock * k \in Nat
      BY <1>1
    <2>2. ASSUME NEW k \in Blocks PROVE Into(k) \in Nat
      BY <1>1, <2>1, ReachSplits
    <2>. QED
      BY <2>1, <2>2
  <1>3. \A k \in Blocks : qf.offset[k] = IF OffsetMax <= Into(k) THEN OffsetMax ELSE Into(k)
    <2>1. ASSUME NEW k \in Blocks PROVE qf.offset[k] = IF OffsetMax <= Into(k) THEN OffsetMax ELSE Into(k)
      <3>1. qf.offset[k] = Min({OffsetMax, Into(k)})
        BY DEF Stored
      <3>. HIDE DEF Into
      <3>. QED
        BY <1>1, <1>2, <3>1, MinMaxOfTwo
    <2>. QED
      BY <2>1
  <1>4. Into(0) = 0
    <2>1. SlotsPerBlock * 0 = 0 /\ 0 - 1 \notin Nat
      BY <1>1
    <2>2. 0 - 1 \notin U
      BY <1>1, <2>1
    <2>. QED
      BY <2>1, <2>2 DEF Reach
  <1>5. ASSUME NEW k \in Blocks, k # 0
        PROVE  run_end_from(qf, SlotsPerBlock * k - 1, Into(k - 1)) - (SlotsPerBlock * k - 1) = Into(k)
    <2>. DEFINE s == SlotsPerBlock * k
                last == s - 1
    <2>1. last \in Slots /\ last \div SlotsPerBlock = k - 1 /\ s \in Nat /\ last \in Nat
      BY <1>5, LastOfBlock
    <2>2. run_end_from(qf, last, Reach(U, h, SlotsPerBlock * (k - 1))) = RunEndAt(U, h, last)
      <3>. HIDE DEF last
      <3>. QED
        BY <2>1, RunEndFrom
    <2>3. RunEndAt(U, h, last) - last = Into(k)
      <3>1. s \in Nat \ {0}
        BY <2>1
      <3>. HIDE DEF s
      <3>2. RunEndAt(U, h, s - 1) - (s - 1) = Reach(U, h, s)
        BY <3>1, ReachFromRunEnd
      <3>. QED
        BY <3>2 DEF s
    <2>. QED
      BY <2>2, <2>3
  <1>. HIDE DEF Into
  <1>6. IsBlockOffset(qf, G)
    <2>1. ASSUME NEW k \in Blocks
          PROVE  G[k] = IF qf.offset[k] < OffsetMax \/ k = 0 THEN qf.offset[k]
                        ELSE run_end_from(qf, SlotsPerBlock * k - 1, G[k - 1]) - (SlotsPerBlock * k - 1)
      <3>1. CASE qf.offset[k] < OffsetMax \/ k = 0
        BY <1>1, <1>2, <1>3, <1>4, <3>1
      <3>2. CASE ~(qf.offset[k] < OffsetMax \/ k = 0)
        <4>1. k - 1 \in Blocks
          BY <1>1, <3>2
        <4>2. G[k] = Into(k) /\ G[k - 1] = Into(k - 1)
          BY <4>1
        <4>. HIDE DEF G
        <4>. QED
          BY <1>5, <3>2, <4>2
      <3>. QED
        BY <3>1, <3>2
    <2>. QED
      BY <2>1 DEF IsBlockOffset
  <1>. DEFINE f == CHOOSE f : IsBlockOffset(qf, f)
  <1>7. IsBlockOffset(qf, f)
    BY <1>6
  <1>. HIDE DEF f, G
  <1>8. ASSUME NEW k \in Blocks, f[k] # Into(k) PROVE FALSE
    <2>. DEFINE W == {i \in Blocks : f[i] # Into(i)}
    <2>1. W \in SUBSET Nat /\ W # {}
      BY <1>1, <1>8
    <2>2. PICK i \in W : \A j \in W : i <= j
      BY <2>1, SmallestNat
    <2>3. i \in Blocks /\ i \in Nat /\ f[i] # Into(i)
      BY <1>1
    <2>4. f[i] = IF qf.offset[i] < OffsetMax \/ i = 0 THEN qf.offset[i]
                 ELSE run_end_from(qf, SlotsPerBlock * i - 1, f[i - 1]) - (SlotsPerBlock * i - 1)
      BY <1>7, <2>3 DEF IsBlockOffset
    <2>5. CASE qf.offset[i] < OffsetMax \/ i = 0
      BY <1>1, <1>2, <1>3, <1>4, <2>3, <2>4, <2>5
    <2>6. CASE ~(qf.offset[i] < OffsetMax \/ i = 0)
      <3>1. i - 1 \in Blocks /\ ~(i <= i - 1)
        BY <1>1, <2>3, <2>6
      <3>2. f[i - 1] = Into(i - 1)
        <4>1. i - 1 \notin W
          BY <2>2, <3>1
        <4>. QED
          BY <3>1, <4>1
      <3>3. f[i] = run_end_from(qf, SlotsPerBlock * i - 1, Into(i - 1)) - (SlotsPerBlock * i - 1)
        BY <2>4, <2>6, <3>2
      <3>. QED
        BY <1>5, <2>3, <2>6, <3>3
    <2>. QED
      BY <2>5, <2>6
  <1>9. f[blk] = Into(blk)
    BY <1>8
  <1>10. block_offset(qf, blk) = f[blk]
    BY BlockOffsetDef DEF f
  <1>. QED
    BY <1>9, <1>10 DEF Into

\* With the block offsets as they are stored, run_end answers where the run
\* that reaches over a slot ends.
THEOREM RunEndExact ==
    ASSUME NEW qf, NEW U, NEW h, Homed(qf, U, h), Stored(qf, U, h), NEW b \in Slots
    PROVE  run_end(qf, b) = RunEndAt(U, h, b)
  <1>. DEFINE k == b \div SlotsPerBlock
              first == SlotsPerBlock * k
  <1>1. b \in Nat /\ b < PastEnd /\ PastEnd = SlotsPerBlock * nblocks /\ nblocks \in Nat
        /\ SlotsPerBlock \in Nat \ {0} /\ Blocks = 0 .. nblocks - 1
    BY Sizes
  <1>2. k \in Nat /\ first \in Nat /\ first <= b
    BY <1>1, FirstOfBlock
  <1>. HIDE DEF k
  <1>3. k \in Blocks
    <2>1. \A n \in Nat, m \in Nat, c \in Nat : n <= m => c * n <= c * m
      <3>1. ASSUME NEW n \in Nat, NEW m \in Nat, NEW c \in Nat, n <= m PROVE c * n <= c * m
        <4>1. c * (m - n) \in Nat
          BY <3>1
        <4>2. c * m = c * (m - n) + c * n
          BY <3>1
        <4>. QED
          BY <4>1, <4>2
      <3>. QED
        BY <3>1
    <2>2. ~(nblocks <= k)
      BY <1>1, <1>2, <2>1
    <2>. QED
      BY <1>1, <1>2, <2>2
  <1>4. block_offset(qf, k) = Reach(U, h, first)
    BY <1>3, BlockOffsetExact
  <1>5. run_end(qf, b) = run_end_from(qf, b, Reach(U, h, first))
    BY <1>4 DEF run_end, k
  <1>6. run_end_from(qf, b, Reach(U, h, first)) = RunEndAt(U, h, b)
    <2>1. first = SlotsPerBlock * (b \div SlotsPerBlock)
      BY DEF k
    <2>. HIDE DEF first
    <2>. QED
      BY <2>1, RunEndFrom
  <1>. QED
    BY <1>5, <1>6

-----------------------------------------------------------------------------
(***************************************************************************)
(* The search for an empty slot                                            *)
(***************************************************************************)
\* Where base splits the slots as s splits the homes, and m as x does, the last
\* items from base to m are as many as the homes from s to x.
LEMMA LastItemsUpTo ==
    ASSUME NEW qf, NEW U, NEW h, Homed(qf, U, h), NEW s \in Nat, NEW base \in Nat,
           \A i \in U : i >= base <=> h[i] >= s,
           NEW x \in Nat, NEW m \in Int, base <= m + 1, s <= x + 1,
           \A i \in U : i <= m <=> h[i] <= x
    PROVE  CountIn(RunEnds(qf), base, m) = CountIn(Homes(U, h), s, x)
  <1>. DEFINE R == RunEnds(qf)
              H == Homes(U, h)
              Q == {q \in H : s <= q /\ q <= x}
  <1>1. /\ R \in SUBSET U /\ R \in SUBSET Nat /\ H \in SUBSET Nat
        /\ \A i \in U : i \in Nat /\ h[i] \in Nat /\ h[i] \in H
    BY HomedTypes DEF Homes
  <1>2. CASE Q = {}
    <2>1. \A r \in R : ~(base <= r /\ r <= m)
      <3>1. ASSUME NEW r \in R, base <= r, r <= m PROVE FALSE
        <4>1. r \in U /\ r \in Nat /\ h[r] \in H /\ h[r] \in Nat
          BY <1>1
        <4>2. h[r] >= s /\ h[r] <= x
          BY <3>1, <4>1
        <4>. QED
          BY <1>2, <4>1, <4>2
      <3>. QED
        BY <3>1
    <2>2. \A q \in H : ~(s <= q /\ q <= x)
      BY <1>2
    <2>. HIDE DEF R, H, Q
    <2>3. CountIn(R, base, m) = 0 /\ CountIn(H, s, x) = 0
      BY <2>1, <2>2, CountNone
    <2>. QED
      BY <2>3 DEF R, H
  <1>3. CASE Q # {}
    <2>. DEFINE q == Max(Q)
    <2>1. q \in Q /\ \A k \in Q : k <= q
      <3>1. Q \in SUBSET Nat /\ \A k \in Q : k <= x
        BY <1>1
      <3>. HIDE DEF Q
      <3>. QED
        BY <1>3, <3>1, MaxOfNats
    <2>. HIDE DEF q
    <2>2. q \in H /\ q \in Nat /\ s <= q /\ q <= x
      BY <1>1, <2>1
    <2>3. PICK r \in R : h[r] = q
      BY <2>2, HasLastItem
    <2>4. r \in U /\ r \in Nat /\ base <= r /\ r <= m
      BY <1>1, <2>2, <2>3
    <2>5. CountIn(R, base, r) = CountIn(H, s, q)
      <3>1. CountIn(RunEnds(qf), base, r) = CountIn(Homes(U, h), s, h[r])
        <4>. HIDE DEF Q
        <4>. QED
          BY <2>3, LastItemsAreHomes
      <3>. QED
        BY <2>3, <3>1
    <2>6. \A r2 \in R : ~(r + 1 <= r2 /\ r2 <= m)
      <3>1. ASSUME NEW r2 \in R, r + 1 <= r2, r2 <= m PROVE FALSE
        <4>1. r2 \in U /\ r2 \in Nat /\ h[r2] \in H /\ h[r2] \in Nat /\ h[r2] <= x
          BY <1>1, <3>1
        <4>2. h[r] <= h[r2]
          <5>1. Laid(U, h, PastEnd) /\ r <= r2
            BY <2>4, <3>1, <4>1, HomedTypes
          <5>. QED
            BY <2>4, <4>1, <5>1, HomesAscend
        <4>3. h[r2] \in Q
          BY <2>2, <2>3, <4>1, <4>2
        <4>4. h[r2] = h[r]
          BY <2>1, <2>2, <2>3, <4>1, <4>2, <4>3
        <4>5. r2 = r
          <5>. HIDE DEF Q
          <5>. QED
            BY <2>3, <4>4, OneLastItem
        <4>. QED
          BY <2>4, <3>1, <4>5
      <3>. QED
        BY <3>1
    <2>7. \A k \in H : ~(q + 1 <= k /\ k <= x)
      BY <1>1, <2>1, <2>2
    <2>. HIDE DEF R, H, Q
    <2>8. CountIn(R, r + 1, m) = 0 /\ CountIn(H, q + 1, x) = 0
      BY <2>6, <2>7, CountNone
    <2>9. CountIn(R, base, m) = CountIn(R, base, r) + CountIn(R, r + 1, m)
      <3>1. R \in SUBSET Nat /\ r \in Int /\ base <= r + 1 /\ r <= m
        BY <1>1, <2>4
      <3>. QED
        BY <3>1, CountSplit
    <2>10. CountIn(H, s, x) = CountIn(H, s, q) + CountIn(H, q + 1, x)
      <3>1. H \in SUBSET Nat /\ q \in Int /\ s <= q + 1 /\ q <= x /\ x \in Int
        BY <1>1, <2>2
      <3>. QED
        BY <3>1, CountSplit
    <2>11. CountIn(R, base, r) \in Nat /\ CountIn(H, s, q) \in Nat
      <3>1. CountIn(R, base, r) \in 0 .. r - base + 1
        BY <1>1, <2>4, CountType
      <3>. QED
        BY <2>4, <2>5, <3>1
    <2>. QED
      BY <2>5, <2>8, <2>9, <2>10, <2>11 DEF R, H
  <1>. QED
    BY <1>2, <1>3

\* Among the slots an item, its chunks and its counter take, only the first
\* is not marked.
LEMMA LastItemBehind ==
    ASSUME NEW qf, NEW U, NEW h, Homed(qf, U, h), NEW i \in U, i \notin qf.extensions
    PROVE  \E r \in RunEnds(qf) : i <= r /\ r <= EndOf(U, h, i)
  <1>. DEFINE m == EndOf(U, h, i)
  <1>1. Laid(U, h, PastEnd) /\ i \in Nat /\ \A j \in U : j \in Nat /\ h[j] \in Nat
    BY HomedTypes
  <1>2. /\ m \in U /\ m \in Nat /\ m < PastEnd /\ i <= m /\ h[m] <= i
        /\ m \in EndsOfRuns(U, h)
        /\ \A j \in U : m < j => h[j] > i
    <2>1. i \in U /\ m = EndOf(U, h, i)
      OBVIOUS
    <2>. HIDE DEF m
    <2>. QED
      BY <1>1, <2>1, EndFacts
  <1>. HIDE DEF m
  <1>3. h[m] \in Homes(U, h)
    BY <1>2 DEF Homes
  <1>4. EndOf(U, h, h[m]) = m
    <2>1. EndOf(U, h, h[m]) \in EndsOfRuns(U, h) /\ h[EndOf(U, h, h[m])] = h[m]
      BY <1>1, <1>3, HomeHasEnd
    <2>. QED
      BY <1>1, <1>2, <2>1, OneEndPerHome
  <1>5. PICK r \in RunEnds(qf) : h[r] = h[m] /\ skip_extensions(qf, r + 1) = m + 1 /\ r <= m
    BY <1>3, <1>4, HasLastItem
  <1>6. r \in U /\ r \in Nat /\ r < PastEnd
    BY <1>5, HomedTypes
  <1>7. \A k \in Nat : r + 1 <= k /\ k < m + 1 => k \in qf.extensions
    <2>. DEFINE j == skip_extensions(qf, r + 1)
    <2>1. qf.extensions \in SUBSET Slots /\ r + 1 \in Nat /\ r + 1 <= PastEnd /\ PastEnd \in Nat
      BY <1>6, HomedTypes
    <2>2. \A k \in Nat : r + 1 <= k /\ k < j => k \in qf.extensions
      BY <2>1, SkipIs
    <2>. QED
      BY <1>5, <2>2
  <1>8. i <= r
    BY <1>1, <1>2, <1>6, <1>7
  <1>. QED
    BY <1>5, <1>8 DEF m

\* offset_lower_bound at an item or a free slot: as many slots from there on
\* are in use at least, and one is if the slot is.
LEMMA LowerBoundIs ==
    ASSUME NEW qf, NEW U, NEW h, Homed(qf, U, h), Stored(qf, U, h),
           NEW i \in Slots, i \notin qf.extensions,
           NEW t, t = offset_lower_bound(qf, i)
    PROVE  t \in Nat /\ (t = 0 <=> i \notin U) /\ \A j \in Nat : i <= j /\ j < i + t => j \in U
  <1>. DEFINE R == RunEnds(qf)
              H == Homes(U, h)
              blk == i \div SlotsPerBlock
              first == SlotsPerBlock * blk
              reach == Reach(U, h, first)
              spill == qf.offset[blk]
              base == first + reach
              occ == CountIn(H, first, i)
              ends == {j \in RunEnds(qf) : first + spill <= j /\ j < i}
  <1>1. /\ Laid(U, h, PastEnd) /\ R \in SUBSET U /\ R \in SUBSET Nat /\ H \in SUBSET U /\ H \in SUBSET Nat
        /\ qf.occupieds = H /\ i \in Nat /\ i < PastEnd
        /\ \A j \in U : j \in Nat /\ h[j] \in Nat /\ h[j] <= j
    BY HomedTypes, Sizes
  <1>2. first \in Nat /\ first <= i /\ i < first + SlotsPerBlock
    BY <1>1, FirstOfBlock
  <1>3. blk \in Blocks
    <2>1. /\ SlotsPerBlock \in Nat \ {0} /\ nblocks \in Nat /\ PastEnd = SlotsPerBlock * nblocks
          /\ Blocks = 0 .. nblocks - 1
      BY Sizes
    <2>2. blk \in Nat
      BY <1>1, FirstOfBlock
    <2>3. SlotsPerBlock * blk < SlotsPerBlock * nblocks
      BY <1>1, <1>2, <2>1
    <2>4. ~(nblocks <= blk)
      <3>1. \A a \in Nat, b \in Nat, c \in Nat : a <= b => c * a <= c * b
        <4>1. ASSUME NEW a \in Nat, NEW b \in Nat, NEW c \in Nat, a <= b PROVE c * a <= c * b
          <5>1. b - a \in Nat
            BY <4>1
          <5>2. c * (b - a) \in Nat
            BY <5>1
          <5>3. c * b = c * (b - a) + c * a
            BY <5>1
          <5>. QED
            BY <5>2, <5>3
        <4>. QED
          BY <4>1
      <3>2. ASSUME nblocks <= blk PROVE SlotsPerBlock * nblocks <= SlotsPerBlock * blk
        BY <2>1, <2>2, <3>1, <3>2
      <3>3. SlotsPerBlock * nblocks \in Nat /\ SlotsPerBlock * blk \in Nat
        BY <1>2, <2>1, Sizes
      <3>. HIDE DEF blk
      <3>. QED
        BY <2>3, <3>2, <3>3
    <2>. QED
      BY <2>1, <2>2, <2>4
  <1>4. OffsetMax \in Nat /\ SlotsPerBlock \in Nat \ {0} /\ OffsetMax >= SlotsPerBlock
    BY Sizes
  <1>5. /\ reach \in Nat
        /\ \A j \in U : j >= base <=> h[j] >= first
        /\ \A j \in Nat : first <= j /\ j < base => j \in U
    BY <1>1, <1>2, ReachSplits
  <1>6. spill = IF OffsetMax <= reach THEN OffsetMax ELSE reach
    <2>1. spill = Min({OffsetMax, reach})
      BY <1>3 DEF Stored
    <2>2. OffsetMax \in Int /\ reach \in Int
      BY <1>4, <1>5
    <2>. HIDE DEF spill, reach
    <2>. QED
      BY <2>1, <2>2, MinMaxOfTwo
  <1>7. t = IF spill <= i - first THEN occ - Cardinality(ends) ELSE spill - (i - first) + occ
    <2>1. Cardinality({j \in qf.occupieds : first <= j /\ j <= i}) = occ
      BY <1>1 DEF CountIn, Between
    <2>2. {j \in qf.runends \ qf.extensions : first + spill <= j /\ j < i} = ends
      BY DEF RunEnds
    <2>. QED
      BY <2>1, <2>2 DEF offset_lower_bound
  <1>8. occ \in Nat
    BY <1>1, <1>2, CountType
  <1>. HIDE DEF blk, first, reach, spill, occ
  <1>9. CASE i \in U
    <2>. DEFINE m == EndOf(U, h, i)
    <2>1. /\ m \in U /\ m \in Nat /\ i <= m /\ h[m] <= i
          /\ \A j \in Nat : i <= j /\ j <= m => j \in U
          /\ \A j \in U : m < j => h[j] > i
      <3>1. m = EndOf(U, h, i)
        OBVIOUS
      <3>. HIDE DEF m
      <3>. QED
        BY <1>1, <1>9, <3>1, EndFacts
    <2>2. PICK r \in RunEnds(qf) : i <= r /\ r <= m
      BY <1>9, LastItemBehind
    <2>. HIDE DEF m
    <2>3. \A j \in U : j <= m <=> h[j] <= i
      <3>1. ASSUME NEW j \in U, j <= m PROVE h[j] <= i
        <4>1. h[j] <= h[m]
          BY <1>1, <2>1, <3>1, HomesAscend
        <4>. QED
          BY <1>1, <2>1, <4>1
      <3>2. ASSUME NEW j \in U, ~(j <= m) PROVE ~(h[j] <= i)
        BY <1>1, <2>1, <3>2
      <3>. QED
        BY <3>1, <3>2
    <2>4. base <= m + 1
      <3>1. CASE reach = 0
        BY <1>1, <1>2, <2>1, <3>1
      <3>2. CASE reach # 0
        <4>1. base - 1 \in Nat /\ base - 1 \in U /\ base - 1 < base
          BY <1>2, <1>5, <3>2
        <4>2. h[base - 1] < first
          BY <1>1, <1>2, <1>5, <4>1
        <4>3. h[base - 1] <= i
          BY <1>1, <1>2, <4>1, <4>2
        <4>4. base - 1 <= m /\ base \in Nat
          BY <1>2, <1>5, <2>3, <4>1, <4>3
        <4>. QED
          BY <2>1, <4>4
      <3>. QED
        BY <3>1, <3>2
    <2>5. CountIn(R, base, m) = occ
      <3>1. base \in Nat /\ m \in Int /\ first <= i + 1
        BY <1>1, <1>2, <1>5, <2>1
      <3>2. CountIn(RunEnds(qf), base, m) = CountIn(Homes(U, h), first, i)
        <4>1. /\ first \in Nat /\ base \in Nat /\ i \in Nat /\ m \in Int /\ base <= m + 1 /\ first <= i + 1
              /\ \A j \in U : j >= base <=> h[j] >= first
              /\ \A j \in U : j <= m <=> h[j] <= i
          BY <1>1, <1>2, <1>5, <2>3, <2>4, <3>1
        <4>. HIDE DEF base, R, H, ends
        <4>. QED
          BY <4>1, LastItemsUpTo
      <3>. QED
        BY <3>2 DEF occ
    <2>6. occ <= m - base + 1
      <3>1. CountIn(R, base, m) \in 0 .. m - base + 1
        <4>1. base \in Nat /\ m \in Int
          BY <1>2, <1>5, <2>1
        <4>. QED
          BY <1>1, <2>4, <4>1, CountType
      <3>2. base \in Nat
        BY <1>2, <1>5
      <3>. QED
        BY <2>1, <2>5, <3>1, <3>2
    <2>7. CASE spill > i - first
      <3>1. t = spill - (i - first) + occ /\ spill \in Nat /\ spill <= reach
        BY <1>1, <1>2, <1>4, <1>5, <1>6, <1>7, <2>7
      <3>2. t \in Nat /\ t # 0
        BY <1>1, <1>2, <1>8, <2>7, <3>1
      <3>3. i + t <= m + 1
        BY <1>1, <1>2, <1>5, <1>8, <2>1, <2>6, <3>1
      <3>4. \A j \in Nat : i <= j /\ j < i + t => j \in U
        BY <1>1, <2>1, <3>2, <3>3
      <3>. QED
        BY <1>9, <3>2, <3>4
    <2>8. CASE ~(spill > i - first)
      <3>1. spill = reach /\ base <= i
        BY <1>1, <1>2, <1>4, <1>5, <1>6, <2>8
      <3>2. Cardinality(ends) = CountIn(R, base, i - 1)
        <4>1. ASSUME NEW j PROVE j \in ends <=> j \in Between(R, base, i - 1)
          BY <1>1, <3>1 DEF Between
        <4>2. ends = Between(R, base, i - 1)
          BY <4>1
        <4>. QED
          BY <4>2 DEF CountIn
      <3>3. CountIn(R, base, m) = CountIn(R, base, i - 1) + CountIn(R, i, m)
        <4>1. base \in Nat /\ i - 1 \in Int /\ m \in Int /\ base <= (i - 1) + 1 /\ i - 1 <= m /\ (i - 1) + 1 = i
          BY <1>1, <1>2, <1>5, <2>1, <3>1
        <4>2. CountIn(R, base, m) = CountIn(R, base, i - 1) + CountIn(R, (i - 1) + 1, m)
          <5>. HIDE DEF R, base
          <5>. QED
            BY <1>1, <4>1, CountSplit
        <4>. QED
          BY <4>1, <4>2
      <3>4. CountIn(R, i, m) \in 0 .. m - i + 1 /\ CountIn(R, base, i - 1) \in Nat
        <4>1. i <= m + 1 /\ base <= (i - 1) + 1 /\ base \in Nat /\ i - 1 \in Int /\ m \in Int
          BY <1>1, <1>2, <1>5, <2>1, <3>1
        <4>2. CountIn(R, base, i - 1) \in 0 .. (i - 1) - base + 1
          <5>. HIDE DEF R, base
          <5>. QED
            BY <1>1, <4>1, CountType
        <4>3. CountIn(R, i, m) \in 0 .. m - i + 1
          <5>. HIDE DEF R
          <5>. QED
            BY <1>1, <4>1, CountType
        <4>. QED
          BY <4>2, <4>3
      <3>5. t = CountIn(R, i, m)
        <4>1. t = occ - Cardinality(ends)
          <5>1. spill <= i - first
            BY <1>1, <1>2, <1>5, <2>8, <3>1
          <5>. HIDE DEF ends
          <5>. QED
            BY <1>7, <5>1
        <4>. DEFINE a == CountIn(R, base, i - 1)
                    c == CountIn(R, i, m)
        <4>2. a \in Int /\ c \in Int /\ occ = a + c /\ t = occ - a
          BY <2>5, <3>2, <3>3, <3>4, <4>1
        <4>. HIDE DEF a, c
        <4>3. t = c
          BY <4>2
        <4>. QED
          BY <4>3 DEF c
      <3>6. CountIn(R, i, m) # 0
        <4>1. r \in Nat /\ r \in R
          BY <1>1, <2>2
        <4>2. CountIn(R, i, i - 1) \in 0 .. (i - 1) - i + 1
          BY <1>1, CountType
        <4>3. CountIn(R, i, i - 1) < CountIn(R, i, r)
          BY <1>1, <2>2, <4>1, CountGrows
        <4>4. CountIn(R, i, m) = CountIn(R, i, r) + CountIn(R, r + 1, m)
          BY <1>1, <2>1, <2>2, <4>1, CountSplit
        <4>5. CountIn(R, r + 1, m) \in 0 .. m - (r + 1) + 1 /\ CountIn(R, i, r) \in 0 .. r - i + 1
          BY <1>1, <2>1, <2>2, <4>1, CountType
        <4>. QED
          BY <1>1, <2>1, <4>1, <4>2, <4>3, <4>4, <4>5
      <3>7. i + t <= m + 1
        BY <1>1, <2>1, <3>4, <3>5
      <3>8. \A j \in Nat : i <= j /\ j < i + t => j \in U
        BY <1>1, <2>1, <3>4, <3>5, <3>7
      <3>. QED
        BY <1>9, <2>1, <3>4, <3>5, <3>6, <3>8
    <2>. QED
      BY <2>7, <2>8
  <1>10. CASE i \notin U
    <2>1. ~(i < base)
      BY <1>1, <1>2, <1>5, <1>10
    <2>2. spill = reach /\ spill <= i - first /\ base <= i
      BY <1>1, <1>2, <1>4, <1>5, <1>6, <2>1
    <2>3. \A j \in U : j <= i - 1 <=> h[j] <= i
      <3>1. ASSUME NEW j \in U, j <= i - 1 PROVE h[j] <= i
        BY <1>1, <3>1
      <3>2. ASSUME NEW j \in U, ~(j <= i - 1) PROVE ~(h[j] <= i)
        <4>1. \A k \in Nat : h[j] <= k /\ k <= j => k \in U
          BY <1>1, LaidSlot
        <4>. QED
          BY <1>1, <1>10, <3>2, <4>1
      <3>. QED
        BY <3>1, <3>2
    <2>4. CountIn(RunEnds(qf), base, i - 1) = CountIn(Homes(U, h), first, i)
      <3>1. base \in Nat /\ i - 1 \in Int /\ base <= (i - 1) + 1 /\ first <= i + 1
        BY <1>1, <1>2, <1>5, <2>2
      <3>. DEFINE p == i - 1
      <3>2. /\ first \in Nat /\ base \in Nat /\ i \in Nat /\ p \in Int /\ base <= p + 1 /\ first <= i + 1
            /\ \A j \in U : j >= base <=> h[j] >= first
            /\ \A j \in U : j <= p <=> h[j] <= i
        BY <1>1, <1>2, <1>5, <2>3, <3>1
      <3>. HIDE DEF base, R, H, ends, p
      <3>3. CountIn(RunEnds(qf), base, p) = CountIn(Homes(U, h), first, i)
        BY <3>2, LastItemsUpTo
      <3>. QED
        BY <3>3 DEF p
    <2>5. Cardinality(ends) = CountIn(RunEnds(qf), base, i - 1)
      <3>1. ASSUME NEW j PROVE j \in ends <=> j \in Between(R, base, i - 1)
        BY <1>1, <2>2 DEF Between
      <3>2. ends = Between(R, base, i - 1)
        BY <3>1
      <3>. QED
        BY <3>2 DEF CountIn
    <2>6. t = 0
      BY <1>7, <1>8, <2>2, <2>4, <2>5 DEF occ
    <2>. QED
      BY <1>1, <1>10, <2>6
  <1>. QED
    BY <1>9, <1>10

\* One visit of find_first_empty_slot's loop, which goes on as g says.
Hop(qf, g, i) ==
    LET j == skip_extensions(qf, i)
        t == offset_lower_bound(qf, j)
    IN IF j >= XnSlots \/ t = 0 THEN j ELSE IF t < 0 THEN PastEnd ELSE g[j + t]

\* find_first_empty_slot looks no further.
ScanEnd == PastEnd + SlotsPerBlock + OffsetMax

\* The loop, from k on.
IsScan(qf, k, g) == g = [i \in k .. ScanEnd |-> Hop(qf, g, i)]

\* find_first_empty_slot is the loop from a slot on.
LEMMA FirstEmptyDef ==
    ASSUME NEW qf, NEW from
    PROVE  find_first_empty_slot(qf, from)
             = IF from >= XnSlots THEN from ELSE (CHOOSE g : IsScan(qf, 0, g))[from]
  BY DEF find_first_empty_slot, IsScan, ScanEnd, Hop

\* The loop stops, or moves on over slots in use only.
LEMMA HopMoves ==
    ASSUME NEW qf, NEW U, NEW h, Homed(qf, U, h), Stored(qf, U, h),
           NEW i \in Nat, i <= ScanEnd,
           NEW j, j = skip_extensions(qf, i), NEW t, t = offset_lower_bound(qf, j)
    PROVE  /\ j \in Nat /\ i <= j
           /\ i <= PastEnd => j <= PastEnd /\ \A k \in Nat : i <= k /\ k < j => k \in U
           /\ j < XnSlots => /\ t \in Nat /\ (t = 0 <=> j \notin U)
                             /\ j + t <= PastEnd /\ \A k \in Nat : i <= k /\ k < j + t => k \in U
  <1>1. /\ qf.extensions \in SUBSET U /\ qf.extensions \in SUBSET Slots /\ U \in SUBSET Slots
        /\ Slots = 0 .. PastEnd - 1 /\ PastEnd \in Nat /\ XnSlots \in Nat /\ XnSlots <= PastEnd
    BY HomedTypes, Sizes
  <1>2. CASE i <= PastEnd
    <2>1. /\ j \in Nat /\ i <= j /\ j <= PastEnd /\ j \notin qf.extensions
          /\ \A k \in Nat : i <= k /\ k < j => k \in qf.extensions
      BY <1>1, <1>2, SkipIs
    <2>2. ASSUME j < XnSlots
          PROVE  t \in Nat /\ (t = 0 <=> j \notin U) /\ \A k \in Nat : j <= k /\ k < j + t => k \in U
      <3>1. j \in Slots
        BY <1>1, <2>1, <2>2
      <3>. QED
        BY <2>1, <3>1, LowerBoundIs
    <2>3. ASSUME j < XnSlots PROVE j + t <= PastEnd
      <3>1. CASE t = 0
        BY <2>1, <3>1
      <3>2. CASE t # 0
        <4>1. j + t - 1 \in Nat /\ j <= j + t - 1 /\ j + t - 1 < j + t
          BY <2>1, <2>2, <2>3, <3>2
        <4>2. j + t - 1 \in U
          BY <2>2, <2>3, <4>1
        <4>. QED
          BY <1>1, <2>1, <2>2, <2>3, <4>2
      <3>. QED
        BY <3>1, <3>2
    <2>4. ASSUME j < XnSlots, NEW k \in Nat, i <= k, k < j + t PROVE k \in U
      <3>1. CASE k < j
        BY <1>1, <2>1, <2>4, <3>1
      <3>2. CASE ~(k < j)
        BY <2>1, <2>2, <2>4, <3>2
      <3>. QED
        BY <3>1, <3>2
    <2>. QED
      BY <1>1, <2>1, <2>2, <2>3, <2>4
  <1>3. CASE ~(i <= PastEnd)
    <2>. DEFINE S == (Slots \cup {i}) \ qf.extensions
    <2>1. S \in SUBSET Nat /\ i \in S /\ i \notin Slots
      BY <1>1, <1>3
    <2>2. j = FirstFrom(S, i)
      BY DEF skip_extensions
    <2>3. \A k \in S : i <= k => k = i
      BY <1>1, <1>3
    <2>4. \/ j \in S /\ i <= j /\ \A k \in S : i <= k => j <= k
          \/ j = PastEnd /\ \A k \in S : k < i
      <3>. HIDE DEF S
      <3>. QED
        BY <2>1, <2>2, FirstFromIs
    <2>5. j = i
      <3>1. ~(i < i)
        OBVIOUS
      <3>. HIDE DEF S
      <3>. QED
        BY <2>1, <2>3, <2>4, <3>1
    <2>. QED
      BY <1>1, <1>3, <2>5
  <1>. QED
    BY <1>2, <1>3

\* There is such a loop: what it answers for the slots from k on is enough to
\* answer for the slot before.
LEMMA ScanExists ==
    ASSUME NEW qf, NEW U, NEW h, Homed(qf, U, h), Stored(qf, U, h)
    PROVE  \E g : IsScan(qf, 0, g)
  <1>. DEFINE K == {k \in Nat : k <= ScanEnd + 1 /\ \E g : IsScan(qf, k, g)}
  <1>1. PastEnd \in Nat /\ ScanEnd \in Nat /\ PastEnd < ScanEnd /\ XnSlots \in Nat
    BY Sizes DEF ScanEnd
  <1>2. ScanEnd + 1 \in K
    <2>. DEFINE g == [i \in {} |-> 0]
    <2>1. (ScanEnd + 1) .. ScanEnd = {}
      BY <1>1
    <2>2. [i \in (ScanEnd + 1) .. ScanEnd |-> Hop(qf, g, i)] = g
      BY <2>1
    <2>3. IsScan(qf, ScanEnd + 1, g)
      BY <2>2 DEF IsScan
    <2>. QED
      BY <1>1, <2>3
  <1>3. PICK k \in K : \A m \in K : k <= m
    <2>1. K \in SUBSET Nat /\ K # {}
      BY <1>2
    <2>. HIDE DEF K
    <2>. QED
      BY <2>1, SmallestNat
  <1>4. k \in Nat /\ k <= ScanEnd + 1 /\ \E g : IsScan(qf, k, g)
    BY <1>3
  <1>5. CASE k = 0
    BY <1>4, <1>5
  <1>6. CASE k # 0
    <2>. DEFINE p == k - 1
    <2>1. p \in Nat /\ p <= ScanEnd /\ p < k /\ ~(k <= p)
      BY <1>1, <1>4, <1>6
    <2>2. PICK g : IsScan(qf, k, g)
      BY <1>4
    <2>. DEFINE new == [i \in p .. ScanEnd |-> IF i = p THEN Hop(qf, g, p) ELSE g[i]]
    <2>3. ASSUME NEW i \in p .. ScanEnd PROVE Hop(qf, new, i) = Hop(qf, g, i)
      <3>. DEFINE j == skip_extensions(qf, i)
                  t == offset_lower_bound(qf, j)
      <3>1. /\ j \in Nat /\ i <= j
            /\ j < XnSlots => t \in Nat /\ j + t <= PastEnd
        <4>1. i \in Nat /\ i <= ScanEnd
          BY <1>1, <2>1
        <4>. HIDE DEF p
        <4>. QED
          BY <4>1, HopMoves
      <3>. HIDE DEF j, t
      <3>2. ASSUME ~(j >= XnSlots \/ t = 0), ~(t < 0) PROVE new[j + t] = g[j + t]
        <4>1. j < XnSlots /\ t \in Nat /\ t # 0 /\ j + t <= PastEnd
          BY <1>1, <3>1, <3>2
        <4>2. j + t \in p .. ScanEnd /\ j + t # p
          BY <1>1, <2>1, <3>1, <4>1
        <4>. QED
          BY <4>2
      <3>. HIDE DEF new
      <3>. QED
        BY <3>2 DEF Hop, j, t
    <2>4. ASSUME NEW i \in p .. ScanEnd PROVE new[i] = Hop(qf, new, i)
      <3>1. CASE i = p
        <4>1. new[i] = Hop(qf, g, p)
          BY <3>1
        <4>. QED
          BY <2>3, <3>1, <4>1
      <3>2. CASE i # p
        <4>1. i \in k .. ScanEnd
          BY <1>1, <1>4, <2>1, <3>2
        <4>2. g[i] = Hop(qf, g, i)
          <5>. HIDE DEF new, p
          <5>. QED
            BY <2>2, <4>1 DEF IsScan
        <4>3. new[i] = g[i]
          BY <3>2
        <4>. QED
          BY <2>3, <4>2, <4>3
      <3>. QED
        BY <3>1, <3>2
    <2>5. IsScan(qf, p, new)
      <3>1. DOMAIN new = p .. ScanEnd
        OBVIOUS
      <3>2. new = [i \in p .. ScanEnd |-> new[i]]
        OBVIOUS
      <3>. HIDE DEF new
      <3>3. new = [i \in p .. ScanEnd |-> Hop(qf, new, i)]
        BY <2>4, <3>2
      <3>. QED
        BY <3>3 DEF IsScan
    <2>6. p \in K
      <3>. HIDE DEF new, p
      <3>. QED
        BY <1>1, <2>1, <2>5
    <2>. QED
      BY <1>3, <2>1, <2>6
  <1>. QED
    BY <1>5, <1>6

(***************************************************************************)
(* find_first_empty_slot, which jumps by a lower bound of the distance,    *)
(* passes no free slot; where it stops before xnslots the slot is free.    *)
(***************************************************************************)
THEOREM FirstEmptyExact ==
    ASSUME NEW qf, NEW U, NEW h, Homed(qf, U, h), Stored(qf, U, h),
           NEW from \in Nat, from <= PastEnd,
           NEW e, e = find_first_empty_slot(qf, from)
    PROVE  /\ e \in Nat /\ from <= e /\ e <= PastEnd
           /\ \A k \in Nat : from <= k /\ k < e => k \in U
           /\ e < XnSlots => e \notin U
  <1>. DEFINE f == CHOOSE g : IsScan(qf, 0, g)
              Right(i) == /\ f[i] \in Nat /\ i <= f[i] /\ f[i] <= PastEnd
                          /\ \A k \in Nat : i <= k /\ k < f[i] => k \in U
                          /\ f[i] < XnSlots => f[i] \notin U
              Wrong == {i \in Nat : i <= PastEnd /\ ~Right(i)}
  <1>1. PastEnd \in Nat /\ ScanEnd \in Nat /\ PastEnd < ScanEnd /\ XnSlots \in Nat
    BY Sizes DEF ScanEnd
  <1>0. e = IF from >= XnSlots THEN from ELSE f[from]
    BY FirstEmptyDef
  <1>2. IsScan(qf, 0, f)
    BY ScanExists
  <1>. HIDE DEF f
  <1>3. \A i \in 0 .. ScanEnd : f[i] = Hop(qf, f, i)
    BY <1>2 DEF IsScan
  <1>4. CASE Wrong = {}
    <2>1. Right(from)
      BY <1>4
    <2>2. CASE from >= XnSlots
      BY <1>0, <1>1, <2>2
    <2>3. CASE ~(from >= XnSlots)
      BY <1>0, <2>1, <2>3
    <2>. QED
      BY <2>2, <2>3
  <1>5. CASE Wrong # {}
    <2>. DEFINE i == Max(Wrong)
    <2>1. i \in Wrong /\ \A k \in Wrong : k <= i
      <3>1. Wrong \in SUBSET Nat /\ \A k \in Wrong : k <= PastEnd
        OBVIOUS
      <3>. HIDE DEF Wrong
      <3>. QED
        BY <1>1, <1>5, <3>1, MaxOfNats
    <2>. HIDE DEF i
    <2>2. i \in Nat /\ i <= PastEnd /\ i \in 0 .. ScanEnd /\ ~Right(i)
      BY <1>1, <2>1
    <2>. DEFINE j == skip_extensions(qf, i)
                t == offset_lower_bound(qf, j)
    <2>3. f[i] = IF j >= XnSlots \/ t = 0 THEN j ELSE IF t < 0 THEN PastEnd ELSE f[j + t]
      BY <1>3, <2>2 DEF Hop
    <2>4. /\ j \in Nat /\ i <= j /\ j <= PastEnd /\ \A k \in Nat : i <= k /\ k < j => k \in U
          /\ j < XnSlots => /\ t \in Nat /\ (t = 0 <=> j \notin U)
                            /\ j + t <= PastEnd /\ \A k \in Nat : i <= k /\ k < j + t => k \in U
      <3>1. i \in Nat /\ i <= ScanEnd /\ i <= PastEnd
        BY <1>1, <2>2
      <3>. HIDE DEF Wrong
      <3>. QED
        BY <3>1, HopMoves
    <2>. HIDE DEF j, t
    <2>5. CASE j >= XnSlots \/ t = 0
      <3>1. f[i] = j
        BY <2>3, <2>5
      <3>2. j < XnSlots => j \notin U
        BY <1>1, <2>4, <2>5
      <3>3. Right(i)
        BY <2>4, <3>1, <3>2
      <3>. QED
        BY <2>2, <3>3
    <2>6. CASE ~(j >= XnSlots \/ t = 0)
      <3>1. j < XnSlots /\ t \in Nat /\ t # 0 /\ j + t <= PastEnd /\ j + t \in Nat
            /\ \A k \in Nat : i <= k /\ k < j + t => k \in U
        BY <1>1, <2>4, <2>6
      <3>2. f[i] = f[j + t]
        BY <2>3, <2>6, <3>1
      <3>3. i < j + t /\ ~(j + t <= i)
        BY <2>2, <2>4, <3>1
      <3>4. j + t \notin Wrong
        BY <2>1, <3>3
      <3>5. Right(j + t)
        BY <3>1, <3>4
      <3>6. ASSUME NEW k \in Nat, i <= k, k < f[i] PROVE k \in U
        <4>1. CASE k < j + t
          BY <3>1, <3>6, <4>1
        <4>2. CASE ~(k < j + t)
          BY <3>1, <3>2, <3>5, <3>6, <4>2
        <4>. QED
          BY <4>1, <4>2
      <3>7. Right(i)
        BY <2>2, <3>1, <3>2, <3>3, <3>5, <3>6
      <3>. QED
        BY <2>2, <3>7
    <2>. QED
      BY <2>5, <2>6
  <1>. QED
    BY <1>4, <1>5

-----------------------------------------------------------------------------
(***************************************************************************)
(* What GQFLayout reads off the bits                                       *)
(***************************************************************************)
\* The i-th occupied bucket's run ends where the layout says.
LEMMA RunLastIs ==
    ASSUME NEW qf, NEW U, NEW h, Homed(qf, U, h), NEW b \in qf.occupieds
    PROVE  /\ RunIndex(qf, b) = CountIn(Homes(U, h), 0, b) /\ RunIndex(qf, b) \in Nat \ {0}
           /\ Select(RunEnds(qf), RunIndex(qf, b)) \in U
           /\ h[Select(RunEnds(qf), RunIndex(qf, b))] = b
           /\ RunLast(qf, RunIndex(qf, b)) = EndOf(U, h, b)
  <1>. DEFINE R == RunEnds(qf)
              H == Homes(U, h)
              i == RunIndex(qf, b)
  <1>1. /\ R \in SUBSET U /\ R \in SUBSET Nat /\ H \in SUBSET Nat /\ IsFiniteSet(U) /\ qf.occupieds = H
        /\ Laid(U, h, PastEnd) /\ b \in Nat /\ b \in H
    BY HomedTypes
  <1>2. i = CountIn(H, 0, b)
    <2>1. ASSUME NEW c PROVE c \in {x \in qf.occupieds : x <= b} <=> c \in Between(H, 0, b)
      BY <1>1 DEF Between
    <2>2. {x \in qf.occupieds : x <= b} = Between(H, 0, b)
      BY <2>1
    <2>. QED
      BY <2>2 DEF RunIndex, CountIn
  <1>3. PICK r \in R : h[r] = b /\ skip_extensions(qf, r + 1) = EndOf(U, h, b) + 1 /\ r <= EndOf(U, h, b)
    BY <1>1, HasLastItem
  <1>4. r \in U /\ r \in Nat
    BY <1>1
  <1>5. CountIn(R, 0, r) = i
    <2>1. \A j \in U : j >= 0 <=> h[j] >= 0
      BY HomedTypes
    <2>2. CountIn(RunEnds(qf), 0, r) = CountIn(Homes(U, h), 0, h[r])
      BY <2>1, LastItemsAreHomes
    <2>. QED
      BY <1>2, <1>3, <2>2
  <1>. DEFINE B == {j \in R : j < r}
  <1>6. B \in SUBSET R /\ IsFiniteSet(R) /\ IsFiniteSet(B) /\ Cardinality(B) \in Nat
    <2>1. B \in SUBSET R
      OBVIOUS
    <2>. HIDE DEF B
    <2>. QED
      BY <1>1, <2>1, FS_Subset, FS_CardinalityType
  <1>7. i = Cardinality(B) + 1
    <2>1. ASSUME NEW j PROVE j \in Between(R, 0, r) <=> j \in B \cup {r}
      BY <1>1, <1>4 DEF Between
    <2>2. Between(R, 0, r) = B \cup {r} /\ r \notin B
      BY <1>4, <2>1
    <2>. HIDE DEF B
    <2>. QED
      BY <1>5, <1>6, <2>2, FS_AddElement DEF CountIn
  <1>8. Select(R, i) = r
    <2>1. R \in SUBSET Nat /\ IsFiniteSet(R) /\ r \in R /\ i = Cardinality({j \in R : j < r}) + 1
      BY <1>1, <1>6, <1>7
    <2>. HIDE DEF R, i, B
    <2>. QED
      BY <2>1, SelectIs
  <1>9. i \in Nat \ {0}
    BY <1>6, <1>7
  <1>10. RunLast(qf, i) = EndOf(U, h, b)
    <2>1. EndOf(U, h, b) \in Nat
      <3>1. b \in U
        BY <1>1, HomedTypes
      <3>. QED
        BY <1>1, <3>1, EndFacts
    <2>2. RunLast(qf, i) = skip_extensions(qf, r + 1) - 1
      BY <1>8, <1>9 DEF RunLast
    <2>. QED
      BY <1>3, <2>1, <2>2
  <1>. QED
    BY <1>2, <1>3, <1>4, <1>8, <1>9, <1>10

\* The run of a bucket is what has its home there.
LEMMA RunSlotsAre ==
    ASSUME NEW qf, NEW U, NEW h, Homed(qf, U, h), NEW b \in qf.occupieds
    PROVE  RunSlots(qf, b) = {s \in U : h[s] = b}
  <1>. DEFINE H == Homes(U, h)
              i == RunIndex(qf, b)
              e == EndOf(U, h, b)
              low == Max({b, RunLast(qf, i - 1) + 1})
  <1>1. /\ H \in SUBSET Nat /\ H \in SUBSET U /\ qf.occupieds = H /\ Laid(U, h, PastEnd)
        /\ b \in Nat /\ b \in H /\ b \in U
        /\ \A s \in U : s \in Nat /\ h[s] \in Nat /\ h[s] <= s /\ h[s] \in H
    BY HomedTypes DEF Homes
  <1>2. i = CountIn(H, 0, b) /\ i \in Nat \ {0} /\ RunLast(qf, i) = e
    BY RunLastIs
  <1>3. /\ e \in Nat /\ b <= e
        /\ \A s \in Nat : b <= s /\ s <= e => s \in U /\ h[s] <= b
        /\ \A s \in U : e < s => h[s] > b
    <2>1. b \in U /\ e = EndOf(U, h, b)
      BY <1>1
    <2>. HIDE DEF e
    <2>. QED
      BY <1>1, <2>1, EndFacts
  <1>4. RunSlots(qf, b) = low .. e
    BY <1>2 DEF RunSlots
  <1>. HIDE DEF e
  <1>. DEFINE Q == {q \in H : q < b}
  <1>5. CASE Q = {}
    <2>1. i = 1
      <3>1. CountIn(H, 0, b - 1) = 0
        <4>1. \A q \in H : ~(0 <= q /\ q <= b - 1)
          BY <1>1, <1>5
        <4>. HIDE DEF H
        <4>. QED
          BY <4>1, CountNone
      <3>2. CountIn(H, b, b) = 1
        BY <1>1, CountOne
      <3>3. CountIn(H, 0, b) = CountIn(H, 0, b - 1) + CountIn(H, (b - 1) + 1, b)
        <4>. DEFINE c == b - 1
        <4>1. H \in SUBSET Nat /\ 0 \in Nat /\ 0 <= c + 1 /\ c <= b /\ c \in Int /\ b \in Int
          BY <1>1
        <4>. HIDE DEF H, c
        <4>2. CountIn(H, 0, b) = CountIn(H, 0, c) + CountIn(H, c + 1, b)
          BY <4>1, CountSplit
        <4>. QED
          BY <4>2 DEF c
      <3>4. (b - 1) + 1 = b
        BY <1>1
      <3>. QED
        BY <1>2, <3>1, <3>2, <3>3, <3>4
    <2>2. RunLast(qf, i - 1) = -1
      BY <2>1 DEF RunLast
    <2>3. low = b
      <3>1. Max({b, 0}) = b
        BY <1>1, MinMaxOfTwo
      <3>2. -1 + 1 = 0
        OBVIOUS
      <3>. QED
        BY <2>2, <3>1, <3>2
    <2>4. ASSUME NEW s PROVE s \in b .. e <=> s \in U /\ h[s] = b
      <3>1. ASSUME s \in b .. e PROVE s \in U /\ h[s] = b
        <4>1. s \in Nat /\ b <= s /\ s <= e
          BY <1>1, <1>3, <3>1
        <4>2. s \in U /\ h[s] <= b /\ h[s] \in H /\ h[s] \in Nat
          BY <1>1, <1>3, <4>1
        <4>3. h[s] \notin Q
          BY <1>5
        <4>. QED
          BY <1>1, <4>2, <4>3
      <3>2. ASSUME s \in U, h[s] = b PROVE s \in b .. e
        <4>1. s \in Nat /\ b <= s
          BY <1>1, <3>2
        <4>2. ~(e < s)
          <5>1. s \in U /\ h[s] = b /\ ~(b > b)
            BY <1>1, <3>2
          <5>. QED
            BY <1>3, <5>1
        <4>. QED
          BY <1>1, <1>3, <4>1, <4>2
      <3>. QED
        BY <3>1, <3>2
    <2>5. RunSlots(qf, b) = b .. e
      BY <1>4, <2>3
    <2>. QED
      BY <2>4, <2>5
  <1>6. CASE Q # {}
    <2>. DEFINE p == Max(Q)
    <2>1. p \in Q /\ \A k \in Q : k <= p
      <3>1. Q \in SUBSET Nat /\ \A k \in Q : k <= b
        BY <1>1
      <3>. HIDE DEF Q
      <3>. QED
        BY <1>1, <1>6, <3>1, MaxOfNats
    <2>. HIDE DEF p
    <2>2. p \in H /\ p \in Nat /\ p < b /\ p \in U /\ p \in qf.occupieds
      BY <1>1, <2>1
    <2>. DEFINE d == EndOf(U, h, p)
    <2>3. /\ d \in Nat /\ p <= d
          /\ \A s \in Nat : p <= s /\ s <= d => s \in U /\ h[s] <= p
          /\ \A s \in U : d < s => h[s] > p
      <3>1. p \in U /\ d = EndOf(U, h, p)
        BY <2>2
      <3>. HIDE DEF d
      <3>. QED
        BY <1>1, <3>1, EndFacts
    <2>. HIDE DEF d
    <2>4. i - 1 = RunIndex(qf, p) /\ RunLast(qf, i - 1) = d
      <3>1. RunIndex(qf, p) = CountIn(H, 0, p) /\ RunIndex(qf, p) \in Nat \ {0}
            /\ RunLast(qf, RunIndex(qf, p)) = d
        BY <2>2, RunLastIs DEF d
      <3>2. CountIn(H, p + 1, b - 1) = 0
        <4>1. \A q \in H : ~(p + 1 <= q /\ q <= b - 1)
          <5>1. ASSUME NEW q \in H, p + 1 <= q, q <= b - 1 PROVE FALSE
            <6>1. q \in Nat /\ q < b /\ ~(q <= p)
              BY <1>1, <2>2, <5>1
            <6>2. q \in Q
              BY <6>1
            <6>. QED
              BY <2>1, <6>1, <6>2
          <5>. QED
            BY <5>1
        <4>. HIDE DEF H
        <4>. QED
          BY <4>1, CountNone
      <3>3. CountIn(H, b, b) = 1
        BY <1>1, CountOne
      <3>4. /\ CountIn(H, 0, b) = CountIn(H, 0, p) + CountIn(H, p + 1, b)
            /\ CountIn(H, p + 1, b) = CountIn(H, p + 1, b - 1) + CountIn(H, (b - 1) + 1, b)
        <4>1. /\ 0 <= p + 1 /\ p <= b /\ p \in Int /\ b \in Int
              /\ p + 1 \in Nat /\ p + 1 <= (b - 1) + 1 /\ b - 1 <= b /\ b - 1 \in Int
          BY <1>1, <2>2
        <4>. HIDE DEF H, Q
        <4>. QED
          BY <1>1, <4>1, CountSplit
      <3>5. (b - 1) + 1 = b
        BY <1>1
      <3>6. i = CountIn(H, 0, p) + 1
        <4>. HIDE DEF H, i
        <4>. QED
          BY <1>2, <3>1, <3>2, <3>3, <3>4, <3>5
      <3>7. i - 1 = RunIndex(qf, p)
        <4>. HIDE DEF H, i
        <4>. QED
          BY <3>1, <3>6
      <3>. QED
        BY <3>1, <3>7
    <2>5. low = IF b <= d + 1 THEN d + 1 ELSE b
      <3>1. b \in Int /\ d + 1 \in Int
        BY <1>1, <2>3
      <3>. QED
        BY <2>4, <3>1, MinMaxOfTwo
    <2>. HIDE DEF low
    <2>6. ASSUME NEW s PROVE s \in low .. e <=> s \in U /\ h[s] = b
      <3>1. ASSUME s \in low .. e PROVE s \in U /\ h[s] = b
        <4>1. s \in Nat /\ b <= s /\ s <= e /\ d < s
          BY <1>1, <1>3, <2>3, <2>5, <3>1
        <4>2. s \in U /\ h[s] <= b /\ h[s] \in H /\ h[s] \in Nat /\ h[s] > p
          BY <1>1, <1>3, <2>3, <4>1
        <4>3. h[s] \notin Q
          BY <2>1, <2>2, <4>2
        <4>. QED
          BY <1>1, <4>2, <4>3
      <3>2. ASSUME s \in U, h[s] = b PROVE s \in low .. e
        <4>1. s \in Nat /\ b <= s
          BY <1>1, <3>2
        <4>2. ~(e < s)
          <5>1. s \in U /\ h[s] = b /\ ~(b > b)
            BY <1>1, <3>2
          <5>. QED
            BY <1>3, <5>1
        <4>3. ~(s <= d)
          <5>1. ASSUME s <= d PROVE FALSE
            <6>1. p <= s
              BY <1>1, <2>2, <4>1
            <6>2. h[s] <= p
              BY <2>3, <4>1, <5>1, <6>1
            <6>. QED
              BY <1>1, <2>2, <3>2, <6>2
          <5>. QED
            BY <5>1
        <4>4. low \in Int /\ low <= s
          BY <1>1, <2>3, <2>5, <4>1, <4>3
        <4>. QED
          BY <1>1, <1>3, <4>1, <4>2, <4>4
      <3>. QED
        BY <3>1, <3>2
    <2>7. RunSlots(qf, b) = low .. e
      BY <1>4
    <2>. QED
      BY <2>6, <2>7
  <1>. QED
    BY <1>5, <1>6

(***************************************************************************)
(* GQFLayout's reading of the bits is the layout: one run per occupied     *)
(* bucket, nothing outside the runs, and the slots in use are U.           *)
(***************************************************************************)
THEOREM LayoutIsRead ==
    ASSUME NEW qf, NEW U, NEW h, Homed(qf, U, h)
    PROVE  RunsMatchBuckets(qf) /\ NothingOutside(qf) /\ UsedSlots(qf) = U
  <1>. DEFINE R == RunEnds(qf)
              H == Homes(U, h)
  <1>1. /\ R \in SUBSET U /\ R \in SUBSET Nat /\ H \in SUBSET U /\ H \in SUBSET Nat /\ qf.occupieds = H
        /\ PastEnd \in Nat
        /\ qf.extensions \in SUBSET U /\ qf.runends \in SUBSET U
        /\ \A s \in U : s \in Nat /\ s < PastEnd /\ h[s] \in Nat /\ h[s] <= s /\ h[s] \in H
    BY HomedTypes DEF Homes, Homed
  <1>2. UsedSlots(qf) = U
    <2>1. ASSUME NEW s PROVE s \in UsedSlots(qf) <=> s \in U
      <3>1. s \in UsedSlots(qf) <=> \E b \in qf.occupieds : s \in RunSlots(qf, b)
        BY DEF UsedSlots
      <3>2. \A b \in qf.occupieds : RunSlots(qf, b) = {x \in U : h[x] = b}
        BY RunSlotsAre
      <3>3. (\E b \in qf.occupieds : s \in RunSlots(qf, b)) <=> \E b \in H : s \in U /\ h[s] = b
        BY <1>1, <3>2
      <3>. QED
        BY <1>1, <3>1, <3>3
    <2>. QED
      BY <2>1
  <1>3. NothingOutside(qf)
    BY <1>1, <1>2 DEF NothingOutside
  <1>4. Cardinality(RunEnds(qf)) = Cardinality(qf.occupieds)
    <2>1. /\ \A s \in U : s >= 0 <=> h[s] >= 0
          /\ \A s \in U : s <= PastEnd <=> h[s] <= PastEnd
          /\ 0 <= PastEnd + 1
      BY <1>1
    <2>2. CountIn(RunEnds(qf), 0, PastEnd) = CountIn(Homes(U, h), 0, PastEnd)
      <3>1. 0 \in Nat /\ PastEnd \in Nat /\ PastEnd \in Int
        BY <1>1
      <3>. QED
        BY <2>1, <3>1, LastItemsUpTo
    <2>3. Between(R, 0, PastEnd) = R /\ Between(H, 0, PastEnd) = H
      <3>1. \A x \in U : 0 <= x /\ x <= PastEnd
        BY <1>1
      <3>2. (\A x \in R : 0 <= x /\ x <= PastEnd) /\ (\A x \in H : 0 <= x /\ x <= PastEnd)
        BY <1>1, <3>1
      <3>. HIDE DEF R, H
      <3>. QED
        BY <3>2 DEF Between
    <2>. QED
      BY <1>1, <2>2, <2>3 DEF CountIn
  <1>5. ASSUME NEW b \in qf.occupieds
        PROVE  RunSlots(qf, b) # {} /\ Select(RunEnds(qf), RunIndex(qf, b)) >= b
    <2>. DEFINE r == Select(RunEnds(qf), RunIndex(qf, b))
    <2>1. r \in U /\ h[r] = b
      BY RunLastIs
    <2>2. r \in RunSlots(qf, b)
      <3>. HIDE DEF r
      <3>. QED
        BY <2>1, RunSlotsAre
    <2>. HIDE DEF r
    <2>3. r \in Nat /\ h[r] \in Nat /\ h[r] <= r
      BY <1>1, <2>1
    <2>4. r >= b
      BY <2>1, <2>3
    <2>. QED
      BY <2>2, <2>4 DEF r
  <1>. QED
    BY <1>2, <1>3, <1>4, <1>5 DEF RunsMatchBuckets

\* How far GQFLayout reads that the earlier runs reach past a slot.
LEMMA SpillIs ==
    ASSUME NEW qf, NEW U, NEW h, Homed(qf, U, h), NEW s \in Nat
    PROVE  Spill(qf, s) = Reach(U, h, s)
  <1>. DEFINE H == Homes(U, h)
              Q == {b \in qf.occupieds : b < s}
  <1>1. /\ H \in SUBSET U /\ H \in SUBSET Nat /\ qf.occupieds = H /\ Laid(U, h, PastEnd)
        /\ \A i \in U : i \in Nat /\ h[i] \in Nat /\ h[i] <= i /\ h[i] \in H
    BY HomedTypes DEF Homes
  <1>2. CASE Q = {}
    <2>1. s - 1 \notin U
      <3>1. ASSUME s - 1 \in U PROVE FALSE
        <4>1. h[s - 1] \in H /\ h[s - 1] < s
          BY <1>1, <3>1
        <4>. QED
          BY <1>1, <1>2, <4>1
      <3>. QED
        BY <3>1
    <2>. QED
      BY <1>2, <2>1 DEF Spill, Reach
  <1>3. CASE Q # {}
    <2>. DEFINE q == Max(Q)
                e == EndOf(U, h, q)
    <2>1. q \in Q /\ \A k \in Q : k <= q
      <3>1. Q \in SUBSET Nat /\ \A k \in Q : k <= s
        BY <1>1
      <3>. HIDE DEF Q
      <3>. QED
        BY <1>3, <3>1, MaxOfNats
    <2>2. RunLast(qf, RunIndex(qf, q)) = e
      <3>1. q \in qf.occupieds
        BY <2>1
      <3>. HIDE DEF q
      <3>. QED
        BY <3>1, RunLastIs
    <2>3. Spill(qf, s) = Max({0, e + 1 - s})
      BY <1>3, <2>2 DEF Spill
    <2>. HIDE DEF q
    <2>4. q \in H /\ q \in U /\ q \in Nat /\ q < s
      BY <1>1, <2>1
    <2>5. /\ e \in U /\ e \in Nat /\ q <= e /\ h[e] <= q
          /\ \A i \in Nat : q <= i /\ i <= e => i \in U /\ h[i] <= q
          /\ \A i \in U : e < i => h[i] > q
      <3>1. e = EndOf(U, h, q)
        OBVIOUS
      <3>. HIDE DEF e
      <3>. QED
        BY <1>1, <2>4, <3>1, EndFacts
    <2>. HIDE DEF e
    <2>6. Spill(qf, s) = IF 0 <= e + 1 - s THEN e + 1 - s ELSE 0
      <3>1. 0 \in Int /\ e + 1 - s \in Int
        BY <2>5
      <3>. QED
        BY <2>3, <3>1, MinMaxOfTwo
    <2>7. CASE s - 1 \in U
      <3>. DEFINE m == EndOf(U, h, s - 1)
      <3>1. /\ m \in U /\ m \in Nat /\ s - 1 <= m /\ h[m] <= s - 1
            /\ \A i \in U : m < i => h[i] > s - 1
        <4>1. m = EndOf(U, h, s - 1)
          OBVIOUS
        <4>. HIDE DEF m
        <4>. QED
          BY <1>1, <2>7, <4>1, EndFacts
      <3>. HIDE DEF m
      <3>2. h[m] <= q
        <4>1. h[m] \in Q
          BY <1>1, <3>1
        <4>. QED
          BY <2>1, <4>1
      <3>3. ~(e < m)
        BY <1>1, <2>4, <2>5, <3>1, <3>2
      <3>4. ~(m < e)
        BY <1>1, <2>4, <2>5, <3>1
      <3>5. m = e
        BY <2>5, <3>1, <3>3, <3>4
      <3>6. Reach(U, h, s) = m - (s - 1)
        BY <2>7 DEF Reach, m
      <3>. QED
        BY <2>5, <2>6, <3>1, <3>5, <3>6
    <2>8. CASE s - 1 \notin U
      <3>1. ~(s - 1 <= e)
        BY <2>4, <2>5, <2>8
      <3>2. Reach(U, h, s) = 0
        BY <2>8 DEF Reach
      <3>. QED
        BY <2>5, <2>6, <3>1, <3>2
    <2>. QED
      BY <2>7, <2>8
  <1>. QED
    BY <1>2, <1>3

(***************************************************************************)
(* The block offsets as stored, and as block_offset recomputes the         *)
(* saturated ones, are what GQFLayout reads off the bits.                  *)
(***************************************************************************)
THEOREM OffsetsAreRead ==
    ASSUME NEW qf, NEW U, NEW h, Homed(qf, U, h), Stored(qf, U, h)
    PROVE  OffsetsExact(qf)
  <1>1. ASSUME NEW k \in Blocks
        PROVE  /\ qf.offset[k] = Min({OffsetMax, Spill(qf, SlotsPerBlock * k)})
               /\ block_offset(qf, k) = Spill(qf, SlotsPerBlock * k)
    <2>1. SlotsPerBlock * k \in Nat
      <3>1. \A a \in Nat, b \in Nat : a * b \in Nat
        OBVIOUS
      <3>2. SlotsPerBlock \in Nat /\ k \in Nat
        BY Sizes
      <3>. QED
        BY <3>1, <3>2
    <2>2. Spill(qf, SlotsPerBlock * k) = Reach(U, h, SlotsPerBlock * k)
      BY <2>1, SpillIs
    <2>3. qf.offset[k] = Min({OffsetMax, Reach(U, h, SlotsPerBlock * k)})
      BY DEF Stored
    <2>4. block_offset(qf, k) = Reach(U, h, SlotsPerBlock * k)
      BY BlockOffsetExact
    <2>. QED
      BY <2>2, <2>3, <2>4
  <1>. QED
    BY <1>1 DEF OffsetsExact

-----------------------------------------------------------------------------
(***************************************************************************)
(* Making space                                                            *)
(***************************************************************************)
\* A slot of home q may be put at slot at: the slots from q to there are in
\* use, nothing before belongs behind q and nothing from there on before q.
Placed(U, h, q, at) ==
    /\ q \in U /\ at \in Nat /\ q <= at
    /\ \A i \in Nat : q <= i /\ i < at => i \in U
    /\ \A i \in U : (i < at => h[i] <= q) /\ (i >= at => h[i] >= q)

\* u is the first free slot from at on.
FreeFrom(U, at, u) == u \in Nat \ U /\ at <= u /\ \A i \in Nat : at <= i /\ i < u => i \in U

\* The homes once a slot of home q has been put into the stretch up to u.
PutHomes(U, h, q, u) == InsertedHomes(U, h, q, EndOf(U, h, q), u)

\* It is an insertion at the end of what reaches over q, or among the slots of
\* home q before it.
LEMMA PlacedInsertion ==
    ASSUME NEW U, NEW h, NEW N, Laid(U, h, N), NEW q, NEW at, Placed(U, h, q, at),
           NEW u, FreeFrom(U, at, u), NEW r, r = EndOf(U, h, q)
    PROVE  /\ Insertion(U, h, N, q, r, u) /\ r \in Nat /\ q \in Nat
           /\ at <= r + 1 /\ \A i \in Nat : at <= i /\ i <= r => i \in U /\ h[i] = q
  <1>1. /\ q \in U /\ q \in Nat /\ at \in Nat /\ q <= at /\ u \in Nat /\ u \notin U /\ at <= u
        /\ \A i \in U : i \in Nat /\ h[i] \in Nat
    BY LaidSlot DEF Placed, FreeFrom
  <1>2. /\ r \in U /\ r \in Nat /\ q <= r /\ h[r] <= q
        /\ \A i \in Nat : q <= i /\ i <= r => i \in U /\ h[i] <= q
        /\ \A i \in U : r < i => h[i] > q
    BY <1>1, EndFacts
  <1>3. at <= r + 1
    <2>1. ASSUME r + 1 < at PROVE FALSE
      <3>1. r + 1 \in U /\ h[r + 1] <= q
        BY <1>1, <1>2, <2>1 DEF Placed
      <3>2. h[r + 1] > q
        BY <1>2, <3>1
      <3>3. h[r + 1] \in Nat
        BY <1>1, <3>1
      <3>. QED
        BY <1>1, <3>1, <3>2, <3>3
    <2>. QED
      BY <1>1, <1>2, <2>1
  <1>4. ASSUME NEW i \in Nat, at <= i, i <= r PROVE i \in U /\ h[i] = q
    <2>1. i \in U /\ h[i] <= q
      BY <1>1, <1>2, <1>4
    <2>2. h[i] >= q
      BY <1>4, <2>1 DEF Placed
    <2>. QED
      BY <1>1, <2>1, <2>2
  <1>5. r < u
    BY <1>1, <1>2
  <1>6. \A i \in Nat : r < i /\ i < u => i \in U
    BY <1>1, <1>2, <1>3 DEF FreeFrom
  <1>. QED
    BY <1>1, <1>2, <1>3, <1>4, <1>5, <1>6 DEF Insertion

\* Who is where afterwards: what was before at or behind u stays, the slots in
\* between move up by one.
LEMMA PutPlaces ==
    ASSUME NEW U, NEW h, NEW N, Laid(U, h, N), NEW q, NEW at, Placed(U, h, q, at),
           NEW u, FreeFrom(U, at, u), NEW g, g = PutHomes(U, h, q, u)
    PROVE  /\ at \in U \cup {u} /\ g[at] = q
           /\ \A i \in U : i < at \/ u < i => g[i] = h[i]
           /\ \A i \in Nat : at < i /\ i <= u => i \in U \cup {u} /\ i - 1 \in U /\ g[i] = h[i - 1]
           /\ \A i \in U \cup {u} : /\ i \in Nat
                                    /\ \/ i = at
                                       \/ i \in U /\ i < at
                                       \/ at < i /\ i <= u
                                       \/ i \in U /\ u < i
  <1>. DEFINE r == EndOf(U, h, q)
  <1>1. /\ Insertion(U, h, N, q, r, u) /\ r \in Nat /\ q \in Nat
        /\ at <= r + 1 /\ \A i \in Nat : at <= i /\ i <= r => i \in U /\ h[i] = q
    BY PlacedInsertion
  <1>2. /\ at \in Nat /\ u \in Nat /\ u \notin U /\ at <= u
        /\ \A i \in Nat : at <= i /\ i < u => i \in U
        /\ \A i \in U : i \in Nat /\ h[i] \in Nat
    BY LaidSlot DEF Placed, FreeFrom
  <1>3. g = InsertedHomes(U, h, q, r, u)
    BY DEF PutHomes
  <1>. HIDE DEF r
  <1>4. /\ \A i \in U : i <= r \/ u < i => g[i] = h[i]
        /\ g[r + 1] = q
        /\ \A i \in Nat : r + 1 < i /\ i <= u => i - 1 \in U /\ g[i] = h[i - 1] /\ i \in U \cup {u}
        /\ r + 1 \in U \cup {u} /\ r \in U
    BY <1>1, <1>3, InsertionFacts
  <1>5. at \in U \cup {u} /\ g[at] = q
    <2>1. CASE at = r + 1
      BY <1>4, <2>1
    <2>2. CASE at # r + 1
      <3>1. at <= r
        BY <1>1, <1>2, <2>2
      <3>2. at \in U /\ h[at] = q
        BY <1>1, <1>2, <3>1
      <3>. QED
        BY <1>4, <3>1, <3>2
    <2>. QED
      BY <2>1, <2>2
  <1>6. ASSUME NEW i \in U, i < at \/ u < i PROVE g[i] = h[i]
    <2>1. i <= r \/ u < i
      BY <1>1, <1>2, <1>6
    <2>. QED
      BY <1>4, <2>1
  <1>7. ASSUME NEW i \in Nat, at < i, i <= u PROVE i \in U \cup {u} /\ i - 1 \in U /\ g[i] = h[i - 1]
    <2>1. i \in U \cup {u} /\ i - 1 \in U /\ i - 1 \in Nat /\ at <= i - 1
      BY <1>2, <1>7
    <2>2. CASE i <= r
      <3>1. i \in U /\ h[i] = q /\ h[i - 1] = q
        BY <1>1, <1>2, <1>7, <2>1, <2>2
      <3>2. g[i] = h[i]
        BY <1>4, <2>2, <3>1
      <3>. QED
        BY <2>1, <3>1, <3>2
    <2>3. CASE i = r + 1
      <3>1. i - 1 = r /\ h[r] = q
        BY <1>1, <1>2, <1>7, <2>1, <2>3
      <3>. QED
        BY <1>4, <2>1, <2>3, <3>1
    <2>4. CASE r + 1 < i
      BY <1>4, <1>7, <2>1, <2>4
    <2>. QED
      BY <1>1, <1>7, <2>2, <2>3, <2>4
  <1>8. ASSUME NEW i \in U \cup {u}
        PROVE  i \in Nat /\ (i = at \/ (i \in U /\ i < at) \/ (at < i /\ i <= u) \/ (i \in U /\ u < i))
    BY <1>2, <1>8
  <1>. QED
    BY <1>5, <1>6, <1>7, <1>8

\* What shift_runends makes of a bit vector.
LEMMA ShiftedBits ==
    ASSUME NEW bits \in SUBSET Nat, NEW at \in Nat, NEW u \in Nat, at <= u, NEW i \in Nat
    PROVE  i \in ShiftBits(bits, at, u) <=> \/ i \in bits /\ i < at
                                            \/ at < i /\ i <= u /\ i - 1 \in bits
                                            \/ i \in bits /\ u < i
  <1>1. i \in ShiftBits(bits, at, u) <=>
           \/ i \in bits /\ (i < at \/ i > u)
           \/ \E j \in bits \intersect (at .. u - 1) : i = j + 1
    BY DEF ShiftBits
  <1>2. (\E j \in bits \intersect (at .. u - 1) : i = j + 1) <=> at < i /\ i <= u /\ i - 1 \in bits
    <2>1. ASSUME NEW j \in bits \intersect (at .. u - 1), i = j + 1
          PROVE  at < i /\ i <= u /\ i - 1 \in bits
      <3>1. j \in Nat /\ at <= j /\ j <= u - 1 /\ i - 1 = j
        BY <2>1
      <3>. QED
        BY <2>1, <3>1
    <2>2. ASSUME at < i, i <= u, i - 1 \in bits
          PROVE  \E j \in bits \intersect (at .. u - 1) : i = j + 1
      <3>1. i - 1 \in bits \intersect (at .. u - 1) /\ i = (i - 1) + 1
        BY <2>2
      <3>. QED
        BY <3>1
    <2>. QED
      BY <2>1, <2>2
  <1>. QED
    BY <1>1, <1>2

\* ... is part of the slots in use afterwards, if the bits were part before.
LEMMA ShiftedInside ==
    ASSUME NEW U, NEW h, NEW N, Laid(U, h, N), NEW q, NEW at, Placed(U, h, q, at),
           NEW u, FreeFrom(U, at, u), NEW bits \in SUBSET U
    PROVE  /\ ShiftBits(bits, at, u) \in SUBSET (U \cup {u})
           /\ ShiftBits(bits, at, u) \in SUBSET Nat
           /\ at \notin ShiftBits(bits, at, u)
  <1>1. /\ at \in Nat /\ u \in Nat /\ u \notin U /\ at <= u
        /\ \A i \in Nat : at <= i /\ i < u => i \in U
        /\ U \in SUBSET Nat /\ bits \in SUBSET Nat
    BY LaidSlot DEF Placed, FreeFrom
  <1>2. ASSUME NEW i \in ShiftBits(bits, at, u) PROVE i \in Nat
    <2>1. i \in bits \/ \E j \in bits \intersect (at .. u - 1) : i = j + 1
      BY DEF ShiftBits
    <2>2. \A j \in bits : j \in Nat /\ j + 1 \in Nat
      BY <1>1
    <2>. QED
      BY <2>1, <2>2
  <1>3. ASSUME NEW i \in ShiftBits(bits, at, u) PROVE i \in U \cup {u}
    <2>1. i \in Nat
      BY <1>2
    <2>2. i \in bits \/ (at < i /\ i <= u)
      BY <1>1, <2>1, ShiftedBits
    <2>. QED
      BY <1>1, <2>1, <2>2
  <1>4. at \notin ShiftBits(bits, at, u)
    BY <1>1, ShiftedBits
  <1>. QED
    BY <1>2, <1>3, <1>4

\* What is behind a slot, and what belongs to the same home.
LEMMA PutReach ==
    ASSUME NEW U, NEW h, NEW N, Laid(U, h, N), NEW q, NEW at, Placed(U, h, q, at),
           NEW u, FreeFrom(U, at, u), NEW s \in Nat
    PROVE  Reach(U \cup {u}, PutHomes(U, h, q, u), s)
             = Reach(U, h, s) + (IF q < s /\ s <= u THEN 1 ELSE 0)
  <1>. DEFINE r == EndOf(U, h, q)
              V == U \cup {u}
              g == PutHomes(U, h, q, u)
              x == s - 1
  <1>1. /\ Insertion(U, h, N, q, r, u) /\ r \in Nat /\ q \in Nat
    BY PlacedInsertion
  <1>2. /\ u \in Nat /\ u \notin U /\ r < u /\ r \in U /\ q \in U /\ q <= r
        /\ \A i \in Nat : r < i /\ i < u => i \in U
        /\ \A i \in Nat : q <= i /\ i <= r => i \in U
        /\ U \in SUBSET Nat
    BY <1>1, InsertionFacts, LaidSlot DEF Insertion
  <1>3. g = InsertedHomes(U, h, q, r, u)
    BY DEF PutHomes
  <1>4. CASE x \in U
    <2>. DEFINE m == EndOf(U, h, x)
    <2>1. x \in Nat /\ x # u
      BY <1>2, <1>4
    <2>2. /\ m \in U /\ m \in Nat /\ x <= m
          /\ \A i \in Nat : x <= i /\ i <= m => i \in U
      <3>1. m = EndOf(U, h, x)
        OBVIOUS
      <3>. HIDE DEF m, x
      <3>. QED
        BY <1>4, <3>1, EndFacts
    <2>3. EndOf(V, g, x) = IF (r < m /\ m < u) \/ (m = r /\ q <= x) THEN m + 1 ELSE m
      <3>1. m = EndOf(U, h, x)
        OBVIOUS
      <3>. HIDE DEF m, x, g, r
      <3>. QED
        BY <1>1, <1>3, <1>4, <3>1, InsertionEndOf
    <2>4. q <= x => r <= m
      <3>. HIDE DEF x
      <3>. QED
        BY <1>2, <1>4, EndsAscend
    <2>5. x <= q => m <= r
      <3>. HIDE DEF x
      <3>. QED
        BY <1>2, <1>4, EndsAscend
    <2>6. x < u => m < u
      BY <1>2, <2>1, <2>2
    <2>7. Reach(U, h, s) = m - x
      BY <1>4 DEF Reach
    <2>8. Reach(V, g, s) = EndOf(V, g, x) - x
      BY <1>4 DEF Reach
    <2>. HIDE DEF m, r, V, g
    <2>9. CASE q < s /\ s <= u
      <3>1. q <= x /\ x < u
        BY <1>1, <1>2, <2>9
      <3>2. (r < m /\ m < u) \/ (m = r /\ q <= x)
        BY <1>1, <2>2, <2>4, <2>6, <3>1
      <3>3. EndOf(V, g, x) = m + 1
        BY <2>3, <3>2
      <3>4. Reach(V, g, s) = (m - x) + 1
        BY <2>1, <2>2, <2>8, <3>3
      <3>. QED
        BY <2>7, <2>9, <3>4 DEF V, g
    <2>10. CASE ~(q < s /\ s <= u)
      <3>1. x < q \/ u < x
        BY <1>1, <1>2, <2>1, <2>10
      <3>2. ~((r < m /\ m < u) \/ (m = r /\ q <= x))
        BY <1>1, <1>2, <2>1, <2>2, <2>5, <3>1
      <3>3. EndOf(V, g, x) = m
        BY <2>3, <3>2
      <3>4. Reach(V, g, s) = (m - x) + 0
        BY <2>1, <2>2, <2>8, <3>3
      <3>. QED
        BY <2>7, <2>10, <3>4 DEF V, g
    <2>. QED
      BY <2>9, <2>10
  <1>5. CASE x = u
    <2>1. EndOf(V, g, u) = u
      BY <1>1, <1>3, InsertionEndAtU
    <2>2. Reach(V, g, s) = u - u
      BY <1>5, <2>1 DEF Reach
    <2>3. Reach(U, h, s) = 0
      BY <1>2, <1>5 DEF Reach
    <2>4. ~(s <= u)
      BY <1>2, <1>5
    <2>. QED
      BY <1>2, <2>2, <2>3, <2>4
  <1>6. CASE x \notin V
    <2>1. Reach(U, h, s) = 0 /\ Reach(V, g, s) = 0
      BY <1>6 DEF Reach
    <2>2. ~(q < s /\ s <= u)
      <3>1. ASSUME q < s, s <= u PROVE FALSE
        <4>1. x \in Nat /\ q <= x /\ x < u
          BY <1>1, <1>2, <3>1
        <4>. QED
          BY <1>1, <1>2, <1>6, <4>1
      <3>. QED
        BY <3>1
    <2>. QED
      BY <2>1, <2>2
  <1>. QED
    BY <1>4, <1>5, <1>6

\* Where a slot is after the stretch from at to the free slot u has moved up.
Up(at, u, i) == IF at <= i /\ i < u THEN i + 1 ELSE i

\* The move keeps order, homes and bits, and fills every slot but at.
LEMMA UpFacts ==
    ASSUME NEW U, NEW h, NEW N, Laid(U, h, N), NEW q, NEW at, Placed(U, h, q, at),
           NEW u, FreeFrom(U, at, u), NEW g, g = PutHomes(U, h, q, u)
    PROVE  /\ \A i \in U : /\ Up(at, u, i) \in U \cup {u} /\ Up(at, u, i) \in Nat /\ Up(at, u, i) # at
                           /\ g[Up(at, u, i)] = h[i]
                           /\ i < at <=> Up(at, u, i) < at
           /\ \A i, j \in U : i < j <=> Up(at, u, i) < Up(at, u, j)
           /\ \A i \in U \cup {u} : i # at => \E j \in U : i = Up(at, u, j)
           /\ \A X \in SUBSET U : \A i \in U : i \in X <=> Up(at, u, i) \in ShiftBits(X, at, u)
  <1>1. /\ at \in Nat /\ u \in Nat /\ u \notin U /\ at <= u
        /\ \A i \in Nat : at <= i /\ i < u => i \in U
        /\ U \in SUBSET Nat
    BY LaidSlot DEF Placed, FreeFrom
  <1>2. /\ at \in U \cup {u} /\ g[at] = q
        /\ \A i \in U : i < at \/ u < i => g[i] = h[i]
        /\ \A i \in Nat : at < i /\ i <= u => i \in U \cup {u} /\ i - 1 \in U /\ g[i] = h[i - 1]
        /\ \A i \in U \cup {u} : /\ i \in Nat
                                 /\ \/ i = at
                                    \/ i \in U /\ i < at
                                    \/ at < i /\ i <= u
                                    \/ i \in U /\ u < i
    BY PutPlaces
  <1>3. ASSUME NEW i \in U
        PROVE  /\ Up(at, u, i) \in U \cup {u} /\ Up(at, u, i) \in Nat /\ Up(at, u, i) # at
               /\ g[Up(at, u, i)] = h[i]
               /\ i < at <=> Up(at, u, i) < at
    <2>1. i \in Nat /\ i # u
      BY <1>1
    <2>2. CASE at <= i /\ i < u
      <3>1. Up(at, u, i) = i + 1 /\ i + 1 \in Nat /\ at < i + 1 /\ i + 1 <= u /\ (i + 1) - 1 = i
        BY <1>1, <2>1, <2>2 DEF Up
      <3>2. i + 1 \in U \cup {u} /\ g[i + 1] = h[(i + 1) - 1]
        BY <1>2, <3>1
      <3>3. g[i + 1] = h[i] /\ i + 1 # at /\ ~(i < at) /\ ~(i + 1 < at)
        BY <1>1, <2>1, <2>2, <3>1, <3>2
      <3>. QED
        BY <3>1, <3>2, <3>3
    <2>3. CASE ~(at <= i /\ i < u)
      <3>1. Up(at, u, i) = i /\ (i < at \/ u < i)
        BY <1>1, <2>1, <2>3 DEF Up
      <3>2. g[i] = h[i] /\ i # at
        BY <1>1, <1>2, <2>1, <3>1
      <3>. QED
        BY <2>1, <3>1, <3>2
    <2>. QED
      BY <2>2, <2>3
  <1>4. ASSUME NEW i \in U, NEW j \in U PROVE i < j <=> Up(at, u, i) < Up(at, u, j)
    <2>1. i \in Nat /\ j \in Nat /\ i # u /\ j # u
      BY <1>1
    <2>. QED
      BY <1>1, <2>1 DEF Up
  <1>5. ASSUME NEW i \in U \cup {u}, i # at PROVE \E j \in U : i = Up(at, u, j)
    <2>1. i \in Nat /\ ((i \in U /\ i < at) \/ (at < i /\ i <= u) \/ (i \in U /\ u < i))
      BY <1>2, <1>5
    <2>2. CASE at < i /\ i <= u
      <3>1. i - 1 \in U /\ i - 1 \in Nat
        BY <1>1, <1>2, <2>1, <2>2
      <3>2. Up(at, u, i - 1) = i
        BY <1>1, <2>1, <2>2, <3>1 DEF Up
      <3>. QED
        BY <3>1, <3>2
    <2>3. CASE i \in U /\ (i < at \/ u < i)
      <3>1. Up(at, u, i) = i
        BY <1>1, <2>1, <2>3 DEF Up
      <3>. QED
        BY <2>3, <3>1
    <2>. QED
      BY <2>1, <2>2, <2>3
  <1>6. ASSUME NEW X \in SUBSET U, NEW i \in U
        PROVE  i \in X <=> Up(at, u, i) \in ShiftBits(X, at, u)
    <2>1. i \in Nat /\ i # u /\ X \in SUBSET Nat
      BY <1>1
    <2>2. CASE at <= i /\ i < u
      <3>1. Up(at, u, i) = i + 1 /\ i + 1 \in Nat /\ at < i + 1 /\ i + 1 <= u /\ (i + 1) - 1 = i
        BY <1>1, <2>1, <2>2 DEF Up
      <3>2. i + 1 \in ShiftBits(X, at, u) <=> \/ i + 1 \in X /\ i + 1 < at
                                              \/ at < i + 1 /\ i + 1 <= u /\ (i + 1) - 1 \in X
                                              \/ i + 1 \in X /\ u < i + 1
        BY <1>1, <2>1, <3>1, ShiftedBits
      <3>3. ~(i + 1 < at) /\ ~(u < i + 1)
        BY <1>1, <2>1, <3>1
      <3>. QED
        BY <3>1, <3>2, <3>3
    <2>3. CASE ~(at <= i /\ i < u)
      <3>1. Up(at, u, i) = i /\ (i < at \/ u < i) /\ ~(at < i /\ i <= u)
        BY <1>1, <2>1, <2>3 DEF Up
      <3>2. i \in ShiftBits(X, at, u) <=> \/ i \in X /\ i < at
                                          \/ at < i /\ i <= u /\ i - 1 \in X
                                          \/ i \in X /\ u < i
        BY <1>1, <2>1, ShiftedBits
      <3>. QED
        BY <3>1, <3>2
    <2>. QED
      BY <2>2, <2>3
  <1>. QED
    BY <1>3, <1>4, <1>5, <1>6

\* From at on, what has home q is marked.
OnlyMarks(U, h, q, at, X) == \A j \in U : j >= at /\ h[j] = q => j \in X

\* The last items move with their slots; the new slot is a last item if it is
\* not marked and only marked slots of its home are behind it, and it takes the
\* place of one before it then.
LEMMA PutLastItems ==
    ASSUME NEW U, NEW h, NEW N, Laid(U, h, N), NEW q, NEW at, Placed(U, h, q, at),
           NEW u, FreeFrom(U, at, u), NEW g, g = PutHomes(U, h, q, u),
           NEW X \in SUBSET U, NEW E \in SUBSET {at},
           NEW Y, Y = ShiftBits(X, at, u) \cup E,
           NEW i \in Nat
    PROVE  i \in LastItems(U \cup {u}, g, Y) <=>
             \/ i = at /\ at \notin E /\ OnlyMarks(U, h, q, at, X)
             \/ i \in ShiftBits(LastItems(U, h, X), at, u) /\ (i < at /\ h[i] = q => at \in E)
  <1>. DEFINE V == U \cup {u}
              L == LastItems(U, h, X)
              M == LastItems(V, g, Y)
              up(k) == Up(at, u, k)
  <1>1. /\ at \in Nat /\ u \in Nat /\ U \in SUBSET Nat /\ \A k \in U : h[k] \in Nat
        /\ at \in V /\ g[at] = q
    BY LaidSlot, PutPlaces DEF Placed, FreeFrom
  <1>2. /\ \A k \in U : /\ up(k) \in V /\ up(k) \in Nat /\ up(k) # at
                        /\ g[up(k)] = h[k]
                        /\ k < at <=> up(k) < at
        /\ \A k, j \in U : k < j <=> up(k) < up(j)
        /\ \A k \in V : k # at => \E j \in U : k = up(j)
        /\ \A B \in SUBSET U : \A k \in U : k \in B <=> up(k) \in ShiftBits(B, at, u)
    BY UpFacts
  <1>3. L \in SUBSET U /\ M \in SUBSET V
    BY DEF LastItems
  <1>4. at \notin ShiftBits(X, at, u) /\ at \notin ShiftBits(L, at, u) /\ ShiftBits(L, at, u) \in SUBSET V
    <2>. HIDE DEF L
    <2>. QED
      BY <1>3, ShiftedInside
  <1>5. \A k \in U : k \in X <=> up(k) \in Y
    BY <1>2
  <1>6. at \in Y <=> at \in E
    BY <1>4
  <1>. HIDE DEF up
  <1>7. at \in M <=> at \notin E /\ \A j \in U : j >= at /\ h[j] = q => j \in X
    <2>1. at \in M <=> at \notin Y /\ \A k \in V : at < k /\ g[k] = g[at] => k \in Y
      BY <1>1 DEF LastItems
    <2>2. ASSUME \A k \in V : at < k /\ g[k] = g[at] => k \in Y, NEW j \in U, j >= at, h[j] = q
          PROVE  j \in X
      <3>1. up(j) \in V /\ up(j) \in Nat /\ up(j) # at /\ ~(up(j) < at) /\ g[up(j)] = g[at]
        BY <1>1, <1>2, <2>2
      <3>2. up(j) \in Y
        BY <1>1, <2>2, <3>1
      <3>. QED
        BY <1>5, <3>2
    <2>3. ASSUME \A j \in U : j >= at /\ h[j] = q => j \in X, NEW k \in V, at < k, g[k] = g[at]
          PROVE  k \in Y
      <3>1. PICK j \in U : k = up(j)
        BY <1>1, <1>2, <2>3
      <3>2. h[j] = q /\ ~(j < at) /\ j \in Nat
        BY <1>1, <1>2, <2>3, <3>1
      <3>3. j \in X
        BY <1>1, <2>3, <3>2
      <3>. QED
        BY <1>5, <3>1, <3>3
    <2>. QED
      BY <1>6, <2>1, <2>2, <2>3
  <1>8. ASSUME NEW k \in U
        PROVE  up(k) \in M <=> k \in L /\ (k < at /\ h[k] = q => at \in E)
    <2>1. up(k) \in M <=> up(k) \notin Y /\ \A m \in V : up(k) < m /\ g[m] = g[up(k)] => m \in Y
      BY <1>2 DEF LastItems
    <2>2. k \in L <=> k \notin X /\ \A j \in U : k < j /\ h[j] = h[k] => j \in X
      BY DEF LastItems
    <2>3. ASSUME \A m \in V : up(k) < m /\ g[m] = g[up(k)] => m \in Y
          PROVE  /\ \A j \in U : k < j /\ h[j] = h[k] => j \in X
                 /\ k < at /\ h[k] = q => at \in E
      <3>1. ASSUME NEW j \in U, k < j, h[j] = h[k] PROVE j \in X
        <4>1. up(k) < up(j) /\ g[up(j)] = g[up(k)] /\ up(j) \in V
          BY <1>2, <3>1
        <4>2. up(j) \in Y
          BY <2>3, <4>1
        <4>. QED
          BY <1>5, <4>2
      <3>2. ASSUME k < at, h[k] = q PROVE at \in E
        <4>1. up(k) < at /\ g[at] = g[up(k)]
          BY <1>1, <1>2, <3>2
        <4>2. at \in Y
          BY <1>1, <2>3, <4>1
        <4>. QED
          BY <1>6, <4>2
      <3>. QED
        BY <3>1, <3>2
    <2>4. ASSUME \A j \in U : k < j /\ h[j] = h[k] => j \in X,
                 k < at /\ h[k] = q => at \in E,
                 NEW m \in V, up(k) < m, g[m] = g[up(k)]
          PROVE  m \in Y
      <3>1. CASE m = at
        <4>1. k < at /\ h[k] = q
          BY <1>1, <1>2, <2>4, <3>1
        <4>. QED
          BY <1>6, <2>4, <3>1, <4>1
      <3>2. CASE m # at
        <4>1. PICK j \in U : m = up(j)
          BY <1>2, <3>2
        <4>2. k < j /\ h[j] = h[k]
          BY <1>2, <2>4, <4>1
        <4>3. j \in X
          BY <2>4, <4>2
        <4>. QED
          BY <1>5, <4>1, <4>3
      <3>. QED
        BY <3>1, <3>2
    <2>. QED
      BY <1>5, <2>1, <2>2, <2>3, <2>4
  <1>9. CASE i = at
    BY <1>4, <1>7, <1>9 DEF OnlyMarks
  <1>10. CASE i # at /\ i \in V
    <2>1. PICK k \in U : i = up(k)
      BY <1>2, <1>10
    <2>2. k \in L <=> i \in ShiftBits(L, at, u)
      <3>. HIDE DEF L
      <3>. QED
        BY <1>2, <1>3, <2>1
    <2>3. k < at <=> i < at
      BY <1>2, <2>1
    <2>4. i < at => h[i] = h[k]
      <3>1. i < at => i = k
        BY <1>1, <2>1, <2>3 DEF up, Up
      <3>. QED
        BY <3>1
    <2>5. i \in M <=> k \in L /\ (k < at /\ h[k] = q => at \in E)
      BY <1>8, <2>1
    <2>6. i \in M <=> i \in ShiftBits(L, at, u) /\ (i < at /\ h[i] = q => at \in E)
      <3>. HIDE DEF L, M
      <3>. QED
        BY <2>2, <2>3, <2>4, <2>5
    <2>. HIDE DEF V
    <2>. QED
      BY <1>10, <2>6 DEF L, M, V
  <1>11. CASE i # at /\ i \notin V
    <2>1. i \notin M /\ i \notin ShiftBits(L, at, u)
      BY <1>3, <1>4, <1>11
    <2>. QED
      BY <1>11, <2>1
  <1>. QED
    BY <1>9, <1>10, <1>11

\* ShiftBits of a difference.
LEMMA ShiftedDifference ==
    ASSUME NEW A \in SUBSET Nat, NEW B \in SUBSET Nat, NEW at \in Nat, NEW u \in Nat, at <= u
    PROVE  ShiftBits(A, at, u) \ ShiftBits(B, at, u) = ShiftBits(A \ B, at, u)
  <1>1. A \ B \in SUBSET Nat
    OBVIOUS
  <1>2. ASSUME NEW i \in Nat
        PROVE  i \in ShiftBits(A, at, u) \ ShiftBits(B, at, u) <=> i \in ShiftBits(A \ B, at, u)
    <2>1. i \in ShiftBits(A, at, u) <=> (i \in A /\ i < at) \/ (at < i /\ i <= u /\ i - 1 \in A) \/ (i \in A /\ u < i)
      BY ShiftedBits
    <2>2. i \in ShiftBits(B, at, u) <=> (i \in B /\ i < at) \/ (at < i /\ i <= u /\ i - 1 \in B) \/ (i \in B /\ u < i)
      BY ShiftedBits
    <2>3. i \in ShiftBits(A \ B, at, u) <=>
            (i \in A \ B /\ i < at) \/ (at < i /\ i <= u /\ i - 1 \in A \ B) \/ (i \in A \ B /\ u < i)
      BY <1>1, ShiftedBits
    <2>. QED
      BY <2>1, <2>2, <2>3
  <1>3. \A C \in SUBSET Nat : ShiftBits(C, at, u) \in SUBSET Nat
    <2>1. ASSUME NEW C \in SUBSET Nat, NEW i \in ShiftBits(C, at, u) PROVE i \in Nat
      <3>1. i \in C \/ \E j \in C \intersect (at .. u - 1) : i = j + 1
        BY <2>1 DEF ShiftBits
      <3>2. \A j \in C : j \in Nat /\ j + 1 \in Nat
        OBVIOUS
      <3>. QED
        BY <3>1, <3>2
    <2>. QED
      BY <2>1
  <1>. QED
    BY <1>1, <1>2, <1>3

\* The bits of new are those of qf's slots moved up and of the new slot at at;
\* marked is {at} if that is a chunk or a counter slot, and empty otherwise.
Put(qf, U, h, q, at, u, marked, new) ==
    /\ Placed(U, h, q, at) /\ FreeFrom(U, at, u) /\ u < PastEnd
    /\ marked \in SUBSET {at}
    /\ at \in marked => at - 1 \in U /\ h[at - 1] = q
    /\ new.occupieds = qf.occupieds \cup {q}
    /\ new.extensions = ShiftBits(qf.extensions, at, u) \cup marked
    /\ new.runends \in SUBSET (U \cup {u})
    /\ RunEnds(new) = LastItems(U \cup {u}, PutHomes(U, h, q, u), new.extensions)

\* The layout after an insertion.
LEMMA PutHomed ==
    ASSUME NEW qf, NEW U, NEW h, Homed(qf, U, h), NEW q, NEW at, NEW u, NEW E, NEW new,
           Put(qf, U, h, q, at, u, E, new)
    PROVE  Homed(new, U \cup {u}, PutHomes(U, h, q, u))
  <1>. DEFINE V == U \cup {u}
              g == PutHomes(U, h, q, u)
              r == EndOf(U, h, q)
              X == qf.extensions
              up(k) == Up(at, u, k)
  <1>0. /\ Placed(U, h, q, at) /\ FreeFrom(U, at, u) /\ u < PastEnd
        /\ E \in SUBSET {at} /\ (at \in E => at - 1 \in U /\ h[at - 1] = q)
        /\ new.occupieds = qf.occupieds \cup {q}
        /\ new.extensions = ShiftBits(X, at, u) \cup E
        /\ new.runends \in SUBSET V
        /\ RunEnds(new) = LastItems(V, g, new.extensions)
    BY DEF Put
  <1>1. /\ Laid(U, h, PastEnd) /\ PastEnd \in Nat /\ X \in SUBSET U /\ qf.occupieds = Homes(U, h)
        /\ \A i \in X : i - 1 \in U /\ h[i - 1] = h[i]
        /\ \A i \in U : h[i] \in Nat
    BY HomedTypes DEF Homed
  <1>2. /\ at \in Nat /\ u \in Nat /\ u \notin U /\ at <= u /\ U \in SUBSET Nat
        /\ at \in V /\ g[at] = q
    BY <1>0, <1>1, LaidSlot, PutPlaces DEF Placed, FreeFrom
  <1>3. /\ \A k \in U : /\ up(k) \in V /\ up(k) \in Nat /\ up(k) # at
                        /\ g[up(k)] = h[k]
                        /\ k < at <=> up(k) < at
        /\ \A k \in V : k # at => \E j \in U : k = up(j)
        /\ \A B \in SUBSET U : \A k \in U : k \in B <=> up(k) \in ShiftBits(B, at, u)
    <2>. HIDE DEF g
    <2>. QED
      BY <1>0, <1>1, UpFacts DEF g
  <1>4. Laid(V, g, PastEnd)
    <2>1. Insertion(U, h, PastEnd, q, r, u)
      BY <1>0, <1>1, PlacedInsertion
    <2>2. g = InsertedHomes(U, h, q, r, u)
      BY DEF PutHomes
    <2>. HIDE DEF r
    <2>. QED
      BY <1>0, <1>1, <2>1, <2>2, InsertionLaid
  <1>5. new.occupieds = Homes(V, g)
    <2>1. ASSUME NEW b \in Homes(U, h) \cup {q} PROVE b \in Homes(V, g)
      <3>1. CASE b = q
        BY <1>0, <1>2, <3>1 DEF Homes
      <3>2. CASE b # q
        <4>1. PICK k \in U : b = h[k]
          BY <1>0, <2>1, <3>2 DEF Homes
        <4>2. up(k) \in V /\ g[up(k)] = b
          BY <1>0, <1>3, <4>1
        <4>. HIDE DEF up
        <4>. QED
          BY <1>0, <4>2 DEF Homes
      <3>. QED
        BY <1>0, <3>1, <3>2
    <2>2. ASSUME NEW b \in Homes(V, g) PROVE b \in Homes(U, h) \cup {q}
      <3>1. PICK k \in V : b = g[k]
        BY <1>0, <2>2 DEF Homes
      <3>2. CASE k = at
        BY <1>0, <1>2, <3>1, <3>2
      <3>3. CASE k # at
        <4>1. PICK j \in U : k = up(j)
          BY <1>0, <1>3, <3>3
        <4>2. b = h[j]
          BY <1>0, <1>3, <3>1, <4>1
        <4>. QED
          BY <1>0, <4>2 DEF Homes
      <3>. QED
        BY <1>0, <3>2, <3>3
    <2>. QED
      BY <1>0, <1>1, <2>1, <2>2
  <1>6. new.extensions \in SUBSET V /\ at \notin ShiftBits(X, at, u)
    <2>1. ShiftBits(X, at, u) \in SUBSET V /\ at \notin ShiftBits(X, at, u)
      <3>1. X \in SUBSET U
        BY <1>0, <1>1
      <3>. HIDE DEF X
      <3>. QED
        BY <1>0, <1>1, <3>1, ShiftedInside
    <2>2. E \in SUBSET V /\ new.extensions = ShiftBits(X, at, u) \cup E
      BY <1>0, <1>2
    <2>. HIDE DEF V, X
    <2>. QED
      BY <1>0, <2>1, <2>2
  <1>7. ASSUME NEW i \in new.extensions PROVE i - 1 \in V /\ g[i - 1] = g[i]
    <2>1. CASE i = at
      <3>1. at - 1 \in U /\ h[at - 1] = q
        BY <1>0, <1>6, <1>7, <2>1
      <3>2. up(at - 1) = at - 1
        BY <1>0, <1>2 DEF Up
      <3>3. at - 1 \in V /\ g[at - 1] = q
        BY <1>0, <1>3, <3>1, <3>2
      <3>. QED
        BY <1>0, <1>2, <2>1, <3>3
    <2>2. CASE i # at
      <3>1. PICK k \in U : i = up(k)
        BY <1>0, <1>3, <1>6, <1>7, <2>2
      <3>2. k \in X
        <4>1. i \in ShiftBits(X, at, u)
          BY <1>0, <1>7, <2>2
        <4>. HIDE DEF X, up
        <4>. QED
          BY <1>0, <1>1, <1>3, <3>1, <4>1
      <3>3. k - 1 \in U /\ h[k - 1] = h[k] /\ k \in Nat /\ k - 1 \in Nat
        BY <1>0, <1>1, <1>2, <3>2
      <3>4. CASE k = at
        <4>1. h[at - 1] <= q /\ h[at] >= q
          <5>1. at - 1 < at /\ at >= at
            BY <1>0, <1>2
          <5>. QED
            BY <1>0, <3>3, <3>4, <5>1 DEF Placed
        <4>2. h[at] = q
          <5>1. h[at] \in Nat /\ h[at - 1] = h[at] /\ q \in Nat
            <6>1. q \in U
              BY <1>0 DEF Placed
            <6>. QED
              BY <1>0, <1>1, <1>2, <3>3, <3>4, <6>1
          <5>. QED
            BY <1>0, <4>1, <5>1
        <4>3. i = at + 1
          BY <1>0, <1>2, <3>1, <3>3, <3>4 DEF Up
        <4>4. i - 1 = at /\ g[i] = h[at]
          <5>1. g[up(k)] = h[k]
            BY <1>0, <1>3
          <5>2. g[i] = h[k]
            <6>. HIDE DEF up
            <6>. QED
              BY <1>0, <3>1, <5>1
          <5>. QED
            BY <1>0, <1>2, <3>4, <4>3, <5>2
        <4>. QED
          BY <1>0, <1>2, <4>2, <4>4
      <3>5. CASE k # at
        <4>1. up(k - 1) = up(k) - 1
          BY <1>0, <1>2, <3>3, <3>5 DEF Up
        <4>2. up(k - 1) \in V /\ g[up(k - 1)] = h[k - 1] /\ g[up(k)] = h[k]
          BY <1>0, <1>3, <3>3
        <4>. HIDE DEF up
        <4>. QED
          BY <1>0, <3>1, <3>3, <4>1, <4>2
      <3>. QED
        BY <1>0, <3>4, <3>5
    <2>. QED
      BY <1>0, <2>1, <2>2
  <1>. QED
    BY <1>0, <1>4, <1>5, <1>6, <1>7 DEF Homed

\* A slot is before a block exactly if its own block is.
LEMMA BlockOrder ==
    ASSUME NEW i \in Nat, NEW k \in Nat
    PROVE  i \div SlotsPerBlock < k <=> i < SlotsPerBlock * k
  <1>. DEFINE n == SlotsPerBlock
              b == i \div SlotsPerBlock
  <1>1. n \in Nat \ {0}
    BY Sizes
  <1>2. n * b \in Nat /\ n * b <= i /\ i < n * b + n /\ b \in Nat
    BY FirstOfBlock
  <1>3. \A x \in Nat, y \in Nat, c \in Nat : x <= y => c * x <= c * y
    <2>1. ASSUME NEW x \in Nat, NEW y \in Nat, NEW c \in Nat, x <= y PROVE c * x <= c * y
      <3>1. y - x \in Nat
        BY <2>1
      <3>2. c * (y - x) \in Nat
        BY <3>1
      <3>3. c * y = c * (y - x) + c * x
        BY <3>1
      <3>. QED
        BY <3>2, <3>3
    <2>. QED
      BY <2>1
  <1>4. \A x \in Nat, y \in Nat : x * y \in Nat
    OBVIOUS
  <1>5. n * (b + 1) = n * b + n
    BY <1>1, <1>2
  <1>. HIDE DEF b
  <1>6. CASE b < k
    <2>1. b + 1 <= k
      BY <1>2, <1>6
    <2>2. n * (b + 1) <= n * k
      BY <1>1, <1>2, <1>3, <2>1
    <2>3. n * k \in Nat
      BY <1>1, <1>4
    <2>4. i < n * k
      <3>. DEFINE p == n * k
                  c == n * b
      <3>1. c + n <= p /\ p \in Nat /\ c \in Nat /\ i < c + n
        BY <1>2, <1>5, <2>2, <2>3
      <3>. HIDE DEF p, c
      <3>2. i < p
        BY <1>1, <3>1
      <3>. QED
        BY <3>2 DEF p
    <2>. QED
      BY <1>6, <2>4 DEF b
  <1>7. CASE ~(b < k)
    <2>1. k <= b
      BY <1>2, <1>7
    <2>2. n * k <= n * b /\ n * k \in Nat
      BY <1>1, <1>2, <1>3, <1>4, <2>1
    <2>3. ~(i < n * k)
      <3>. DEFINE p == n * k
                  c == n * b
      <3>1. p <= c /\ p \in Nat /\ c \in Nat /\ c <= i
        BY <1>2, <2>2
      <3>. HIDE DEF p, c
      <3>2. ~(i < p)
        BY <3>1
      <3>. QED
        BY <3>2 DEF p
    <2>. QED
      BY <1>7, <2>3 DEF b
  <1>. QED
    BY <1>6, <1>7

\* The offsets of new are those nudge_offsets makes of qf's.
Nudged(qf, q, u, new) ==
    new.offset = [k \in Blocks |->
        IF q \div SlotsPerBlock < k /\ k <= u \div SlotsPerBlock /\ qf.offset[k] < OffsetMax
        THEN qf.offset[k] + 1 ELSE qf.offset[k]]

\* nudge_offsets keeps the block offsets right, saturated ones included.
LEMMA PutStored ==
    ASSUME NEW qf, NEW U, NEW h, Homed(qf, U, h), Stored(qf, U, h),
           NEW q, NEW at, Placed(U, h, q, at),
           NEW u, FreeFrom(U, at, u), NEW new, Nudged(qf, q, u, new)
    PROVE  Stored(new, U \cup {u}, PutHomes(U, h, q, u))
  <1>. DEFINE g == PutHomes(U, h, q, u)
  <1>1. /\ Laid(U, h, PastEnd) /\ q \in Nat /\ u \in Nat
    <2>1. q \in U /\ u \in Nat /\ U \in SUBSET Nat /\ Laid(U, h, PastEnd)
      BY HomedTypes DEF Placed, FreeFrom
    <2>. QED
      BY <2>1
  <1>2. ASSUME NEW k \in Blocks
        PROVE  new.offset[k] = Min({OffsetMax, Reach(U \cup {u}, g, SlotsPerBlock * k)})
    <2>. DEFINE s == SlotsPerBlock * k
                a == Reach(U, h, s)
                c == Reach(U \cup {u}, g, s)
                o == qf.offset[k]
    <2>1. k \in Nat /\ s \in Nat /\ OffsetMax \in Nat
      <3>1. \A x \in Nat, y \in Nat : x * y \in Nat
        OBVIOUS
      <3>2. SlotsPerBlock \in Nat /\ k \in Nat /\ OffsetMax \in Nat
        BY Sizes
      <3>. QED
        BY <3>1, <3>2
    <2>2. q \div SlotsPerBlock < k <=> q < s
      BY <1>1, <2>1, BlockOrder
    <2>3. k <= u \div SlotsPerBlock <=> s <= u
      <3>1. u \div SlotsPerBlock < k <=> u < s
        BY <1>1, <2>1, BlockOrder
      <3>2. u \div SlotsPerBlock \in Nat
        BY <1>1, FirstOfBlock
      <3>. HIDE DEF s
      <3>. QED
        BY <1>1, <2>1, <3>1, <3>2
    <2>4. c = a + (IF q < s /\ s <= u THEN 1 ELSE 0)
      <3>. HIDE DEF s
      <3>. QED
        BY <1>1, <2>1, PutReach
    <2>5. a \in Nat
      <3>. HIDE DEF s
      <3>. QED
        BY <1>1, <2>1, ReachSplits
    <2>6. o = Min({OffsetMax, a})
      BY DEF Stored
    <2>7. new.offset[k] = IF q < s /\ s <= u /\ o < OffsetMax THEN o + 1 ELSE o
      <3>. HIDE DEF s
      <3>. QED
        BY <2>2, <2>3 DEF Nudged
    <2>. HIDE DEF s, a, c, o
    <2>8. o = IF OffsetMax <= a THEN OffsetMax ELSE a
      BY <2>1, <2>5, <2>6, MinMaxOfTwo
    <2>9. c \in Int /\ OffsetMax \in Int
      BY <2>1, <2>4, <2>5
    <2>10. Min({OffsetMax, c}) = IF OffsetMax <= c THEN OffsetMax ELSE c
      BY <2>9, MinMaxOfTwo
    <2>11. new.offset[k] = IF OffsetMax <= c THEN OffsetMax ELSE c
      BY <2>1, <2>4, <2>5, <2>7, <2>8
    <2>. QED
      BY <2>10, <2>11 DEF c, s
  <1>. QED
    BY <1>2 DEF Stored

-----------------------------------------------------------------------------
(***************************************************************************)
(* What every operation that writes keeps                                  *)
(***************************************************************************)
\* The fields of a filter and their ranges.
Filters ==
    [slots : [Slots -> SlotValues], occupieds : SUBSET Buckets,
     runends : SUBSET Slots, extensions : SUBSET Slots,
     offset : [Blocks -> 0 .. OffsetMax],
     noccupied_slots : Nat, nelts : Nat, ndistinct_elts : Nat]

\* Within an item the chunks come before the counter.
ChunksFirst(qf) == \A i \in Slots : is_counter(qf, i) => ~is_extension(qf, i + 1)

\* The bits and the offsets describe the layout, and its slots are counted.
Shaped(qf, U, h) ==
    /\ qf \in Filters
    /\ Homed(qf, U, h)
    /\ Stored(qf, U, h)
    /\ ChunksFirst(qf)
    /\ qf.noccupied_slots = Cardinality(U)

\* The slots with those from at to u - 1 moved up and value put in at at.
ShiftedSlots(qf, at, u, value) ==
    [i \in Slots |-> IF i = at THEN value
                     ELSE IF at < i /\ i <= u THEN qf.slots[i - 1] ELSE qf.slots[i]]

\* What make_space does to each field.
LEMMA MakeSpaceFields ==
    ASSUME NEW qf \in Filters, NEW b \in Nat, NEW at \in Nat, NEW u \in Slots, at <= u,
           NEW value \in SlotValues, NEW new, new = make_space(qf, b, at, u, value)
    PROVE  /\ new \in Filters
           /\ new.occupieds = qf.occupieds
           /\ new.runends = ShiftBits(qf.runends, at, u)
           /\ new.extensions = ShiftBits(qf.extensions, at, u)
           /\ new.offset = [k \in Blocks |->
                  IF b \div SlotsPerBlock < k /\ k <= u \div SlotsPerBlock /\ qf.offset[k] < OffsetMax
                  THEN qf.offset[k] + 1 ELSE qf.offset[k]]
           /\ new.noccupied_slots = qf.noccupied_slots
           /\ new.slots = ShiftedSlots(qf, at, u, value)
  <1>. DEFINE slots == [i \in Slots |-> IF i = at THEN value
                                        ELSE IF at < i /\ i <= u THEN qf.slots[i - 1] ELSE qf.slots[i]]
              offset == [k \in Blocks |->
                  IF b \div SlotsPerBlock < k /\ k <= u \div SlotsPerBlock /\ qf.offset[k] < OffsetMax
                  THEN qf.offset[k] + 1 ELSE qf.offset[k]]
              ends == ShiftBits(qf.runends, at, u)
              exts == ShiftBits(qf.extensions, at, u)
              moved == [qf EXCEPT !.slots = slots, !.runends = ends, !.extensions = exts]
  <1>1. Slots = 0 .. PastEnd - 1 /\ PastEnd \in Nat /\ u \in Nat /\ u < PastEnd /\ OffsetMax \in Nat
    BY Sizes
  <1>2. slots \in [Slots -> SlotValues]
    <2>1. ASSUME NEW i \in Slots
          PROVE  (IF i = at THEN value ELSE IF at < i /\ i <= u THEN qf.slots[i - 1] ELSE qf.slots[i]) \in SlotValues
      <3>1. qf.slots \in [Slots -> SlotValues]
        BY DEF Filters
      <3>2. at < i => i - 1 \in Slots
        BY <1>1
      <3>. QED
        BY <3>1, <3>2
    <2>. QED
      BY <2>1
  <1>3. offset \in [Blocks -> 0 .. OffsetMax]
    <2>1. ASSUME NEW k \in Blocks
          PROVE  (IF b \div SlotsPerBlock < k /\ k <= u \div SlotsPerBlock /\ qf.offset[k] < OffsetMax
                  THEN qf.offset[k] + 1 ELSE qf.offset[k]) \in 0 .. OffsetMax
      <3>1. qf.offset[k] \in 0 .. OffsetMax
        BY DEF Filters
      <3>2. qf.offset[k] < OffsetMax => qf.offset[k] + 1 \in 0 .. OffsetMax
        BY <1>1, <3>1
      <3>. QED
        BY <3>1, <3>2
    <2>. QED
      BY <2>1
  <1>4. \A bits \in SUBSET Slots : ShiftBits(bits, at, u) \in SUBSET Slots
    <2>1. ASSUME NEW bits \in SUBSET Slots, NEW i \in ShiftBits(bits, at, u) PROVE i \in Slots
      <3>1. i \in bits \/ \E j \in bits \intersect (at .. u - 1) : i = j + 1
        BY <2>1 DEF ShiftBits
      <3>2. \A j \in bits \intersect (at .. u - 1) : j + 1 \in Slots
        BY <1>1
      <3>. QED
        BY <3>1, <3>2
    <2>. QED
      BY <2>1
  <1>5. ends \in SUBSET Slots /\ exts \in SUBSET Slots
    <2>1. qf.runends \in SUBSET Slots /\ qf.extensions \in SUBSET Slots
      BY DEF Filters
    <2>. QED
      BY <1>4, <2>1
  <1>. HIDE DEF slots, offset, ends, exts
  <1>6. /\ moved \in Filters /\ moved.occupieds = qf.occupieds /\ moved.runends = ends
        /\ moved.extensions = exts /\ moved.offset = qf.offset
        /\ moved.noccupied_slots = qf.noccupied_slots /\ moved.slots = slots
    BY <1>2, <1>5 DEF Filters
  <1>7. moved = shift_up(qf, at, u, value)
    BY DEF shift_up, slots, ends, exts
  <1>8. new = [moved EXCEPT !.offset = [k \in Blocks |->
                  IF b \div SlotsPerBlock < k /\ k <= u \div SlotsPerBlock /\ moved.offset[k] < OffsetMax
                  THEN moved.offset[k] + 1 ELSE moved.offset[k]]]
    <2>. HIDE DEF moved
    <2>. QED
      BY <1>7 DEF make_space, nudge_offsets
  <1>9. new = [moved EXCEPT !.offset = offset]
    BY <1>6, <1>8 DEF offset
  <1>. HIDE DEF moved
  <1>10. /\ new \in Filters /\ new.occupieds = moved.occupieds /\ new.runends = moved.runends
         /\ new.extensions = moved.extensions /\ new.offset = offset
         /\ new.noccupied_slots = moved.noccupied_slots /\ new.slots = moved.slots
    BY <1>3, <1>6, <1>9 DEF Filters
  <1>. QED
    BY <1>6, <1>10 DEF offset, ends, exts, slots, ShiftedSlots

\* Chunks stay before counters when they move up together.
LEMMA ShiftedChunks ==
    ASSUME NEW C \in SUBSET Nat, NEW H \in SUBSET Nat, NEW at \in Nat, NEW u \in Nat, at <= u,
           \A i \in C : i + 1 \notin H, u + 1 \notin H
    PROVE  /\ \A i \in ShiftBits(C, at, u) : i \in Nat /\ i + 1 \notin ShiftBits(H, at, u)
           /\ \A i \in ShiftBits(C, at, u) : i + 1 = at => i \in C
           /\ at + 1 \in ShiftBits(H, at, u) => at \in H
  <1>1. ASSUME NEW i \in ShiftBits(C, at, u) PROVE i \in Nat
    <2>1. i \in C \/ \E j \in C \intersect (at .. u - 1) : i = j + 1
      BY DEF ShiftBits
    <2>2. \A j \in C : j \in Nat /\ j + 1 \in Nat
      OBVIOUS
    <2>. QED
      BY <2>1, <2>2
  <1>2. ASSUME NEW i \in ShiftBits(C, at, u)
        PROVE  i + 1 \notin ShiftBits(H, at, u) /\ (i + 1 = at => i \in C)
    <2>1. i \in Nat /\ i + 1 \in Nat /\ (i + 1) - 1 = i
      BY <1>1
    <2>2. (i \in C /\ i < at) \/ (at < i /\ i <= u /\ i - 1 \in C) \/ (i \in C /\ u < i)
      BY <2>1, ShiftedBits
    <2>3. i + 1 \in ShiftBits(H, at, u) <=>
            \/ i + 1 \in H /\ i + 1 < at
            \/ at < i + 1 /\ i + 1 <= u /\ i \in H
            \/ i + 1 \in H /\ u < i + 1
      <3>1. i + 1 \in ShiftBits(H, at, u) <=>
            \/ i + 1 \in H /\ i + 1 < at
            \/ at < i + 1 /\ i + 1 <= u /\ (i + 1) - 1 \in H
            \/ i + 1 \in H /\ u < i + 1
        BY <2>1, ShiftedBits
      <3>. QED
        BY <2>1, <3>1
    <2>4. CASE i \in C /\ i < at
      BY <2>1, <2>3, <2>4
    <2>5. CASE at < i /\ i <= u /\ i - 1 \in C
      <3>1. (i - 1) + 1 = i /\ i \notin H
        <4>1. (i - 1) + 1 = i
          BY <2>1
        <4>2. (i - 1) + 1 \notin H
          BY <2>5
        <4>. QED
          BY <4>1, <4>2
      <3>2. ~(u < i + 1 /\ i + 1 \in H)
        <4>1. u < i + 1 => i = u
          BY <2>1, <2>5
        <4>. QED
          BY <4>1
      <3>. QED
        BY <2>1, <2>3, <2>5, <3>1, <3>2
    <2>6. CASE i \in C /\ u < i
      BY <2>1, <2>3, <2>6
    <2>. QED
      BY <2>2, <2>4, <2>5, <2>6
  <1>3. ASSUME at + 1 \in ShiftBits(H, at, u) PROVE at \in H
    <2>1. at + 1 \in Nat /\ (at + 1) - 1 = at
      OBVIOUS
    <2>2. \/ at + 1 \in H /\ at + 1 < at
          \/ at < at + 1 /\ at + 1 <= u /\ (at + 1) - 1 \in H
          \/ at + 1 \in H /\ u < at + 1
      BY <1>3, <2>1, ShiftedBits
    <2>3. u < at + 1 => at + 1 = u + 1
      OBVIOUS
    <2>. QED
      BY <2>1, <2>2, <2>3
  <1>. QED
    BY <1>1, <1>2, <1>3

\* An insertion whose bits and offsets are right keeps the filter in shape.
LEMMA PutShaped ==
    ASSUME NEW qf, NEW U, NEW h, Shaped(qf, U, h), NEW q, NEW at, NEW u, NEW E, NEW new \in Filters,
           Put(qf, U, h, q, at, u, E, new), Nudged(qf, q, u, new),
           new.noccupied_slots = qf.noccupied_slots + 1, ChunksFirst(new)
    PROVE  Shaped(new, U \cup {u}, PutHomes(U, h, q, u))
  <1>0. Placed(U, h, q, at) /\ FreeFrom(U, at, u)
    BY DEF Put
  <1>1. Homed(qf, U, h) /\ Stored(qf, U, h) /\ qf.noccupied_slots = Cardinality(U)
    BY DEF Shaped
  <1>2. Homed(new, U \cup {u}, PutHomes(U, h, q, u))
    BY <1>1, PutHomed
  <1>3. Stored(new, U \cup {u}, PutHomes(U, h, q, u))
    BY <1>0, <1>1, PutStored
  <1>4. new.noccupied_slots = Cardinality(U \cup {u})
    <2>1. IsFiniteSet(U) /\ u \notin U
      BY <1>0, <1>1, HomedTypes DEF FreeFrom
    <2>. QED
      BY <1>1, <2>1, FS_AddElement
  <1>. QED
    BY <1>2, <1>3, <1>4 DEF Shaped

\* What Shaped says of chunks and counters.
LEMMA ChunkFacts ==
    ASSUME NEW qf, NEW U, NEW h, Shaped(qf, U, h)
    PROVE  /\ qf.extensions \in SUBSET U /\ qf.runends \in SUBSET U /\ U \in SUBSET Nat
           /\ \A i \in Nat : i + 1 \in qf.extensions => i \in U /\ h[i] = h[i + 1]
           /\ \A i \in qf.extensions \intersect qf.runends : i + 1 \notin qf.extensions \ qf.runends
  <1>1. /\ qf.extensions \in SUBSET U /\ qf.runends \in SUBSET U /\ U \in SUBSET Nat /\ U \in SUBSET Slots
        /\ \A i \in qf.extensions : i - 1 \in U /\ h[i - 1] = h[i]
    BY HomedTypes DEF Shaped, Homed
  <1>2. ASSUME NEW i \in Nat, i + 1 \in qf.extensions PROVE i \in U /\ h[i] = h[i + 1]
    <2>1. (i + 1) - 1 = i
      OBVIOUS
    <2>. QED
      BY <1>1, <1>2, <2>1
  <1>3. \A i \in qf.extensions \intersect qf.runends : i + 1 \notin qf.extensions \ qf.runends
    BY <1>1 DEF Shaped, ChunksFirst, is_counter, is_extension
  <1>. QED
    BY <1>1, <1>2, <1>3

\* The chunks and the counters of a filter in shape, moved up.
LEMMA ShiftedMarks ==
    ASSUME NEW qf, NEW U, NEW h, Shaped(qf, U, h), NEW at \in Nat, NEW u, FreeFrom(U, at, u)
    PROVE  LET X == qf.extensions
               R == qf.runends
               A == ShiftBits(X, at, u)
               B == ShiftBits(R, at, u)
               C2 == ShiftBits(X \intersect R, at, u)
               H2 == ShiftBits(X \ R, at, u)
           IN  /\ A \ B = H2 /\ A \intersect B = C2
               /\ \A i \in C2 : i \in Nat /\ i + 1 \notin H2
               /\ \A i \in C2 : i + 1 = at => i \in X \intersect R
               /\ at + 1 \in H2 => at \in X \ R
  <1>. DEFINE X == qf.extensions
              R == qf.runends
              A == ShiftBits(X, at, u)
              B == ShiftBits(R, at, u)
              C == X \intersect R
              H == X \ R
              C2 == ShiftBits(C, at, u)
              H2 == ShiftBits(H, at, u)
  <1>1. /\ U \in SUBSET Nat /\ X \in SUBSET U /\ R \in SUBSET U
        /\ u \in Nat /\ u \notin U /\ at <= u
    BY ChunkFacts DEF FreeFrom
  <1>2. /\ C \in SUBSET Nat /\ H \in SUBSET Nat
        /\ \A i \in C : i + 1 \notin H
        /\ u + 1 \notin H
    <2>1. \A i \in Nat : i + 1 \in X => i \in U
      BY ChunkFacts
    <2>2. u + 1 \notin X
      BY <1>1, <2>1
    <2>. QED
      BY <1>1, <2>2, ChunkFacts
  <1>3. A \ B = H2 /\ A \intersect B = C2
    <2>1. X \in SUBSET Nat /\ R \in SUBSET Nat /\ X \ H = C /\ H = X \ R
      BY <1>1
    <2>2. A \ B = H2
      <3>. HIDE DEF X, R, H
      <3>. QED
        BY <1>1, <2>1, ShiftedDifference
    <2>3. A \ H2 = C2
      <3>1. H \in SUBSET Nat /\ X \in SUBSET Nat /\ at <= u /\ u \in Nat
        BY <1>1, <1>2
      <3>. HIDE DEF X, R, H, C
      <3>2. ShiftBits(X, at, u) \ ShiftBits(H, at, u) = ShiftBits(X \ H, at, u)
        BY <3>1, ShiftedDifference
      <3>. QED
        BY <2>1, <3>2
    <2>. HIDE DEF A, B, C2, H2
    <2>. QED
      BY <2>2, <2>3
  <1>4. /\ \A i \in C2 : i \in Nat /\ i + 1 \notin H2
        /\ \A i \in C2 : i + 1 = at => i \in C
        /\ at + 1 \in H2 => at \in H
    <2>. HIDE DEF C, H
    <2>. QED
      BY <1>1, <1>2, ShiftedChunks
  <1>. QED
    BY <1>3, <1>4

\* The last items move with their slots when a chunk or a counter is put in.
LEMMA MarkedLastItems ==
    ASSUME NEW U, NEW h, Laid(U, h, PastEnd), NEW q, NEW at, Placed(U, h, q, at),
           NEW u, FreeFrom(U, at, u), NEW X \in SUBSET U, NEW i \in Nat
    PROVE  i \in LastItems(U \cup {u}, PutHomes(U, h, q, u), ShiftBits(X, at, u) \cup {at})
             <=> i \in ShiftBits(LastItems(U, h, X), at, u)
  <1>. DEFINE E == {at}
              Y == ShiftBits(X, at, u) \cup E
              g == PutHomes(U, h, q, u)
  <1>1. E \in SUBSET {at} /\ at \in E
    OBVIOUS
  <1>2. Y = ShiftBits(X, at, u) \cup E /\ g = PutHomes(U, h, q, u)
    OBVIOUS
  <1>3. ShiftBits(X, at, u) \cup {at} = Y
    OBVIOUS
  <1>. HIDE DEF E, Y, g
  <1>4. i \in LastItems(U \cup {u}, g, Y) <=>
          \/ i = at /\ at \notin E /\ OnlyMarks(U, h, q, at, X)
          \/ i \in ShiftBits(LastItems(U, h, X), at, u) /\ (i < at /\ h[i] = q => at \in E)
    BY <1>1, <1>2, PutLastItems
  <1>. QED
    BY <1>1, <1>2, <1>3, <1>4

\* new is qf with a slot put in at at behind a slot of home q, and marked as
\* a chunk (F = {}) or as a counter slot (F = {at}).
MarkedAt(qf, U, h, q, at, u, F, new) ==
    /\ at \in Nat /\ at # 0
    /\ at - 1 \in U /\ h[at - 1] = q /\ at \notin qf.extensions
    /\ FreeFrom(U, at, u) /\ u < PastEnd
    /\ F \in SUBSET {at} /\ (at \notin F => at - 1 \notin qf.extensions \intersect qf.runends)
    /\ new \in Filters /\ new.occupieds = qf.occupieds
    /\ new.extensions = ShiftBits(qf.extensions, at, u) \cup {at}
    /\ new.runends = ShiftBits(qf.runends, at, u) \cup F
    /\ Nudged(qf, q, u, new)
    /\ new.noccupied_slots = qf.noccupied_slots + 1

(***************************************************************************)
(* A chunk put behind an item's chunks, or a counter slot behind its       *)
(* counter, keeps the filter in shape.                                     *)
(***************************************************************************)
THEOREM MarkedShaped ==
    ASSUME NEW qf, NEW U, NEW h, Shaped(qf, U, h), NEW q, NEW at, NEW u, NEW F, NEW new,
           MarkedAt(qf, U, h, q, at, u, F, new)
    PROVE  Placed(U, h, q, at) /\ Shaped(new, U \cup {u}, PutHomes(U, h, q, u))
  <1>. SUFFICES ASSUME at \in Nat, at # 0, at - 1 \in U, h[at - 1] = q, at \notin qf.extensions,
                       FreeFrom(U, at, u), u < PastEnd, F \in SUBSET {at},
                       at \notin F => at - 1 \notin qf.extensions \intersect qf.runends,
                       new \in Filters, new.occupieds = qf.occupieds,
                       new.extensions = ShiftBits(qf.extensions, at, u) \cup {at},
                       new.runends = ShiftBits(qf.runends, at, u) \cup F,
                       Nudged(qf, q, u, new), new.noccupied_slots = qf.noccupied_slots + 1
                PROVE  Placed(U, h, q, at) /\ Shaped(new, U \cup {u}, PutHomes(U, h, q, u))
    BY DEF MarkedAt
  <1>. DEFINE X == qf.extensions
              R == qf.runends
              A == ShiftBits(X, at, u)
              B == ShiftBits(R, at, u)
              V == U \cup {u}
              g == PutHomes(U, h, q, u)
              E == {at}
  <1>0. /\ new.extensions = A \cup E /\ new.runends = B \cup F
        /\ E \in SUBSET {at} /\ at \in E /\ E = {at}
    OBVIOUS
  <1>1. /\ Homed(qf, U, h) /\ Laid(U, h, PastEnd) /\ U \in SUBSET Nat /\ X \in SUBSET U /\ R \in SUBSET U
        /\ RunEnds(qf) = LastItems(U, h, X) /\ RunEnds(qf) \in SUBSET U
        /\ qf.occupieds = Homes(U, h)
        /\ u \in Nat /\ u \notin U /\ at <= u
    BY HomedTypes, ChunkFacts DEF Shaped, FreeFrom
  <1>2. Placed(U, h, q, at)
    <2>1. /\ at - 1 \in Nat /\ q \in Nat /\ q <= at - 1
          /\ \A j \in Nat : q <= j /\ j <= at - 1 => j \in U /\ h[j] <= q
      BY <1>1, LaidSlot
    <2>2. q \in U /\ q <= at /\ \A i \in Nat : q <= i /\ i < at => i \in U
      BY <2>1
    <2>3. ASSUME NEW i \in U PROVE (i < at => h[i] <= q) /\ (i >= at => h[i] >= q)
      <3>1. i \in Nat
        BY <1>1
      <3>2. i < at => i <= at - 1
        BY <3>1
      <3>3. i >= at => at - 1 <= i
        BY <3>1
      <3>4. (i <= at - 1 => h[i] <= h[at - 1]) /\ (at - 1 <= i => h[at - 1] <= h[i])
        BY <1>1, HomesAscend
      <3>5. h[i] \in Nat
        BY <1>1, LaidSlot
      <3>. QED
        BY <2>1, <3>2, <3>3, <3>4, <3>5
    <2>. QED
      BY <2>2, <2>3 DEF Placed
  <1>. HIDE DEF E
  <1>3. /\ A \in SUBSET V /\ B \in SUBSET V /\ A \in SUBSET Nat /\ B \in SUBSET Nat
        /\ at \notin A /\ at \notin B /\ at \in V
    <2>1. at \in V
      BY <1>1, <1>2, PutPlaces
    <2>2. ASSUME NEW S \in SUBSET U
          PROVE  /\ ShiftBits(S, at, u) \in SUBSET V /\ ShiftBits(S, at, u) \in SUBSET Nat
                 /\ at \notin ShiftBits(S, at, u)
      <3>1. Laid(U, h, PastEnd)
        BY <1>1
      <3>. HIDE DEF A, B, X, R
      <3>. QED
        BY <1>2, <3>1, ShiftedInside
    <2>3. X \in SUBSET U /\ R \in SUBSET U
      BY <1>1
    <2>. HIDE DEF X, R, V
    <2>. QED
      BY <2>1, <2>2, <2>3
  <1>4. new.occupieds = qf.occupieds \cup {q}
    <2>1. q \in Homes(U, h)
      BY DEF Homes
    <2>. QED
      BY <1>1, <2>1
  <1>5. new.runends \in SUBSET V
    <2>. HIDE DEF B, V
    <2>. QED
      BY <1>0, <1>3
  <1>6. RunEnds(new) = LastItems(V, g, new.extensions)
    <2>1. RunEnds(new) = B \ A
      <3>. HIDE DEF A, B
      <3>. QED
        BY <1>0, <1>3 DEF RunEnds
    <2>2. B \ A = ShiftBits(RunEnds(qf), at, u)
      <3>1. R \in SUBSET Nat /\ X \in SUBSET Nat
        BY <1>1
      <3>2. R \ X = RunEnds(qf)
        BY DEF RunEnds
      <3>3. at \in Nat /\ u \in Nat /\ at <= u
        BY <1>1
      <3>4. A = ShiftBits(X, at, u) /\ B = ShiftBits(R, at, u)
        OBVIOUS
      <3>. HIDE DEF R, X, A, B
      <3>5. ShiftBits(R, at, u) \ ShiftBits(X, at, u) = ShiftBits(R \ X, at, u)
        BY ONLY <3>1, <3>3, ShiftedDifference
      <3>. QED
        BY ONLY <3>2, <3>4, <3>5
    <2>3. ASSUME NEW i \in Nat
          PROVE  i \in LastItems(V, g, new.extensions) <=> i \in ShiftBits(RunEnds(qf), at, u)
      <3>. DEFINE W == LastItems(V, g, new.extensions)
                  Z == ShiftBits(RunEnds(qf), at, u)
      <3>1. Laid(U, h, PastEnd) /\ Placed(U, h, q, at) /\ X \in SUBSET U
        BY <1>1, <1>2
      <3>2. W = LastItems(U \cup {u}, PutHomes(U, h, q, u), ShiftBits(X, at, u) \cup {at})
        OBVIOUS
      <3>3. Z = ShiftBits(LastItems(U, h, X), at, u)
        BY <1>1
      <3>4. i \in W <=> i \in Z
        <4>. HIDE DEF W, Z, A, B, V, R, X, g, E
        <4>. QED
          BY <3>1, <3>2, <3>3, MarkedLastItems
      <3>. QED
        BY <3>4
    <2>4. LastItems(V, g, new.extensions) \in SUBSET Nat
      BY <1>1 DEF LastItems
    <2>5. ShiftBits(RunEnds(qf), at, u) \in SUBSET Nat
      BY <1>1, <1>2, ShiftedInside
    <2>. HIDE DEF A, B, V, g
    <2>. QED
      BY <2>1, <2>2, <2>3, <2>4, <2>5
  <1>7. ChunksFirst(new)
    <2>. DEFINE C == X \intersect R
                H == X \ R
                C2 == ShiftBits(C, at, u)
                H2 == ShiftBits(H, at, u)
    <2>1. /\ A \ B = H2 /\ A \intersect B = C2
          /\ \A i \in C2 : i \in Nat /\ i + 1 \notin H2
          /\ \A i \in C2 : i + 1 = at => i \in C
          /\ at + 1 \in H2 => at \in H
      BY ShiftedMarks
    <2>2. A \ B = H2 /\ A \intersect B = C2
      BY <2>1
    <2>3. /\ \A i \in C2 : i \in Nat /\ i + 1 \notin H2
          /\ \A i \in C2 : i + 1 = at => i \in C
          /\ at + 1 \in H2 => at \in H
      BY <2>1
    <2>4. (F = {at} => at \in F) /\ (F = {} \/ F = {at})
      OBVIOUS
    <2>. HIDE DEF A, B, C2, H2
    <2>5. ASSUME NEW i, i \in new.extensions \intersect new.runends PROVE i \in C2 \/ (i = at /\ at \in F)
      BY <1>0, <1>3, <2>2, <2>4, <2>5
    <2>6. ASSUME NEW i, i \in new.extensions \ new.runends PROVE i \in H2 \/ (i = at /\ at \notin F)
      BY <1>0, <1>3, <2>2, <2>4, <2>6
    <2>7. ASSUME NEW i \in Slots, is_counter(new, i), is_extension(new, i + 1) PROVE FALSE
      <3>1. i \in C2 \/ (i = at /\ at \in F)
        BY <2>5, <2>7 DEF is_counter
      <3>2. i + 1 \in H2 \/ (i + 1 = at /\ at \notin F)
        BY <2>6, <2>7 DEF is_extension
      <3>3. CASE i \in C2
        <4>1. i + 1 \notin H2 /\ i \in Nat
          BY <2>3, <3>3
        <4>2. i + 1 = at /\ at \notin F
          BY <3>2, <4>1
        <4>3. i \in C /\ i = at - 1
          BY <2>3, <3>3, <4>1, <4>2
        <4>. QED
          BY <4>2, <4>3
      <3>4. CASE i = at /\ at \in F
        <4>1. at + 1 \in H2
          BY <3>2, <3>4
        <4>2. at \in H
          BY <2>3, <4>1
        <4>. QED
          BY <4>2
      <3>. QED
        BY <3>1, <3>3, <3>4
    <2>. QED
      BY <2>7 DEF ChunksFirst
  <1>8. Put(qf, U, h, q, at, u, E, new)
    <2>1. new.extensions = ShiftBits(qf.extensions, at, u) \cup E
      BY <1>0
    <2>2. at \in E => at - 1 \in U /\ h[at - 1] = q
      OBVIOUS
    <2>. QED
      BY <1>0, <1>2, <1>4, <1>5, <1>6, <2>1, <2>2 DEF Put
  <1>9. Shaped(new, U \cup {u}, PutHomes(U, h, q, u))
    BY <1>7, <1>8, PutShaped
  <1>. QED
    BY <1>2, <1>9

\* The end of what reaches over a home is a place for a slot of that home ...
LEMMA EndPlaced ==
    ASSUME NEW U, NEW h, NEW N, Laid(U, h, N), NEW q \in U, NEW at, at = EndOf(U, h, q) + 1
    PROVE  Placed(U, h, q, at)
  <1>. DEFINE m == EndOf(U, h, q)
  <1>1. /\ m \in U /\ m \in Nat /\ q <= m /\ h[m] <= q /\ q \in Nat
        /\ \A i \in Nat : q <= i /\ i <= m => i \in U /\ h[i] <= q
        /\ \A i \in U : m < i => h[i] > q
        /\ \A i \in U : i \in Nat /\ h[i] \in Nat
    <2>1. m = EndOf(U, h, q)
      OBVIOUS
    <2>. HIDE DEF m
    <2>. QED
      BY <2>1, EndFacts, LaidSlot
  <1>. HIDE DEF m
  <1>2. at = m + 1
    BY DEF m
  <1>3. ASSUME NEW i \in U PROVE (i < at => h[i] <= q) /\ (i >= at => h[i] >= q)
    <2>1. i <= m => h[i] <= h[m]
      BY <1>1, HomesAscend
    <2>2. i \in Nat /\ h[i] \in Nat /\ h[m] \in Nat
      BY <1>1
    <2>3. i < at => h[i] <= q
      BY <1>1, <1>2, <2>1, <2>2
    <2>4. i >= at => h[i] > q
      BY <1>1, <1>2, <2>2
    <2>. QED
      BY <1>1, <2>2, <2>3, <2>4
  <1>4. at \in Nat /\ q <= at /\ \A i \in Nat : q <= i /\ i < at => i \in U
    BY <1>1, <1>2
  <1>. QED
    BY <1>3, <1>4 DEF Placed

\* ... and so is every slot that holds something of it.
LEMMA FrontPlaced ==
    ASSUME NEW U, NEW h, NEW N, Laid(U, h, N), NEW at \in U, NEW q, q = h[at]
    PROVE  Placed(U, h, q, at)
  <1>1. /\ at \in Nat /\ q \in Nat /\ q <= at
        /\ \A j \in Nat : q <= j /\ j <= at => j \in U /\ h[j] <= q
        /\ \A i \in U : i \in Nat
    BY LaidSlot
  <1>2. ASSUME NEW i \in U PROVE (i < at => h[i] <= q) /\ (i >= at => h[i] >= q)
    <2>1. (i <= at => h[i] <= h[at]) /\ (at <= i => h[at] <= h[i])
      BY HomesAscend
    <2>2. i \in Nat /\ h[i] \in Nat
      BY LaidSlot
    <2>. QED
      BY <1>1, <2>1, <2>2
  <1>. QED
    BY <1>1, <1>2 DEF Placed

\* An item whose last item is the one the layout asks for keeps the filter in
\* shape: the chunks and the counters only move.
LEMMA ItemShaped ==
    ASSUME NEW qf, NEW U, NEW h, Shaped(qf, U, h), NEW q, NEW at, Placed(U, h, q, at),
           NEW u, FreeFrom(U, at, u), u < PastEnd,
           NEW new \in Filters, new.occupieds = qf.occupieds \cup {q},
           new.extensions = ShiftBits(qf.extensions, at, u),
           new.runends \in SUBSET (U \cup {u}),
           new.extensions \intersect new.runends = new.extensions \intersect ShiftBits(qf.runends, at, u),
           RunEnds(new) = LastItems(U \cup {u}, PutHomes(U, h, q, u), new.extensions),
           Nudged(qf, q, u, new),
           new.noccupied_slots = qf.noccupied_slots + 1
    PROVE  Shaped(new, U \cup {u}, PutHomes(U, h, q, u))
  <1>. DEFINE E == {} \cap {at}
  <1>0. E = {} /\ at \in Nat /\ new.extensions = ShiftBits(qf.extensions, at, u) \cup E
        /\ at \notin E /\ E \in SUBSET {at}
    BY DEF Placed
  <1>. HIDE DEF E
  <1>1. Put(qf, U, h, q, at, u, E, new)
    BY <1>0 DEF Put
  <1>2. ChunksFirst(new)
    <2>. DEFINE A == ShiftBits(qf.extensions, at, u)
                B == ShiftBits(qf.runends, at, u)
                C2 == ShiftBits(qf.extensions \intersect qf.runends, at, u)
                H2 == ShiftBits(qf.extensions \ qf.runends, at, u)
    <2>0. at \in Nat
      BY <1>0
    <2>1. /\ A \ B = H2 /\ A \intersect B = C2
          /\ \A i \in C2 : i \in Nat /\ i + 1 \notin H2
          /\ \A i \in C2 : i + 1 = at => i \in qf.extensions \intersect qf.runends
          /\ at + 1 \in H2 => at \in qf.extensions \ qf.runends
      BY <2>0, ShiftedMarks
    <2>2. new.extensions = A /\ A \intersect new.runends = A \intersect B
      OBVIOUS
    <2>. HIDE DEF A, B, C2, H2
    <2>3. new.extensions \intersect new.runends = C2 /\ new.extensions \ new.runends = H2
      BY <2>1, <2>2
    <2>. QED
      BY <2>1, <2>3 DEF ChunksFirst, is_counter, is_extension
  <1>. QED
    BY <1>1, <1>2, PutShaped

\* The last items after an item has been put at at: those before that moved up,
\* without one of the new item's home before it, and the new one if nothing but
\* marks of its home is behind.
LEMMA ItemLast ==
    ASSUME NEW qf, NEW U, NEW h, Homed(qf, U, h), NEW q, NEW at, Placed(U, h, q, at),
           NEW u, FreeFrom(U, at, u), NEW i \in Nat
    PROVE  i \in LastItems(U \cup {u}, PutHomes(U, h, q, u), ShiftBits(qf.extensions, at, u)) <=>
             \/ i = at /\ OnlyMarks(U, h, q, at, qf.extensions)
             \/ i \in ShiftBits(RunEnds(qf), at, u) /\ ~(i < at /\ h[i] = q)
  <1>. DEFINE E == {} \cap {at}
              X == qf.extensions
              Y == ShiftBits(qf.extensions, at, u)
              g == PutHomes(U, h, q, u)
  <1>1. /\ X \in SUBSET U /\ E \in SUBSET {at} /\ Y = ShiftBits(X, at, u) \cup E /\ at \notin E
        /\ Laid(U, h, PastEnd) /\ RunEnds(qf) = LastItems(U, h, X) /\ g = PutHomes(U, h, q, u)
    BY HomedTypes
  <1>. HIDE DEF E, X, Y, g
  <1>2. i \in LastItems(U \cup {u}, g, Y) <=>
          \/ i = at /\ at \notin E /\ OnlyMarks(U, h, q, at, X)
          \/ i \in ShiftBits(LastItems(U, h, X), at, u) /\ (i < at /\ h[i] = q => at \in E)
    BY <1>1, PutLastItems
  <1>. QED
    BY <1>1, <1>2 DEF X, Y, g

\* Bits before the place of an insertion stay where they are.
LEMMA BitsBefore ==
    ASSUME NEW bits \in SUBSET Nat, NEW at \in Nat, NEW u \in Nat, at <= u, NEW i \in Nat, i < at
    PROVE  i \in ShiftBits(bits, at, u) <=> i \in bits
  <1>1. i \in ShiftBits(bits, at, u) <=> \/ i \in bits /\ i < at
                                         \/ at < i /\ i <= u /\ i - 1 \in bits
                                         \/ i \in bits /\ u < i
    BY ShiftedBits
  <1>. QED
    BY <1>1

\* The bit vectors of a filter in shape, moved up.
LEMMA MovedBits ==
    ASSUME NEW qf, NEW U, NEW h, Shaped(qf, U, h), NEW q, NEW at, Placed(U, h, q, at),
           NEW u, FreeFrom(U, at, u)
    PROVE  /\ at \in Nat /\ u \in Nat /\ at <= u /\ at \in U \cup {u} /\ U \in SUBSET Nat
           /\ qf.extensions \in SUBSET Nat /\ qf.runends \in SUBSET Nat /\ RunEnds(qf) \in SUBSET U
           /\ ShiftBits(qf.runends, at, u) \in SUBSET (U \cup {u})
           /\ ShiftBits(qf.extensions, at, u) \in SUBSET (U \cup {u})
           /\ ShiftBits(RunEnds(qf), at, u) \in SUBSET (U \cup {u})
           /\ U \cup {u} \in SUBSET Nat
           /\ at \notin ShiftBits(qf.extensions, at, u) /\ at \notin ShiftBits(qf.runends, at, u)
           /\ ShiftBits(qf.runends, at, u) \ ShiftBits(qf.extensions, at, u)
                = ShiftBits(RunEnds(qf), at, u)
  <1>1. /\ Homed(qf, U, h) /\ Laid(U, h, PastEnd) /\ U \in SUBSET Nat
        /\ qf.extensions \in SUBSET U /\ qf.runends \in SUBSET U /\ RunEnds(qf) \in SUBSET U
    BY HomedTypes, ChunkFacts DEF Shaped
  <1>2. at \in Nat /\ u \in Nat /\ at <= u /\ at \in U \cup {u}
    BY <1>1, PutPlaces DEF Placed, FreeFrom
  <1>3. ASSUME NEW S \in SUBSET U
        PROVE  ShiftBits(S, at, u) \in SUBSET (U \cup {u}) /\ at \notin ShiftBits(S, at, u)
    BY <1>1, ShiftedInside
  <1>4. ShiftBits(qf.runends, at, u) \ ShiftBits(qf.extensions, at, u)
          = ShiftBits(qf.runends \ qf.extensions, at, u)
    <2>. DEFINE X == qf.extensions
                R == qf.runends
    <2>1. X \in SUBSET Nat /\ R \in SUBSET Nat
      BY <1>1
    <2>. HIDE DEF X, R
    <2>2. ShiftBits(R, at, u) \ ShiftBits(X, at, u) = ShiftBits(R \ X, at, u)
      BY <1>2, <2>1, ShiftedDifference
    <2>. QED
      BY <2>2 DEF X, R
  <1>. QED
    BY <1>1, <1>2, <1>3, <1>4 DEF RunEnds

(***************************************************************************)
(* A new item in front of another of its run keeps the filter in shape ... *)
(***************************************************************************)
LEMMA FrontShaped ==
    ASSUME NEW qf, NEW U, NEW h, Shaped(qf, U, h), NEW at \in U, at \notin qf.extensions,
           NEW q, q = h[at], NEW u, FreeFrom(U, at, u), u < PastEnd,
           NEW new \in Filters, new.occupieds = qf.occupieds,
           new.extensions = ShiftBits(qf.extensions, at, u),
           new.runends = ShiftBits(qf.runends, at, u),
           Nudged(qf, q, u, new), new.noccupied_slots = qf.noccupied_slots + 1
    PROVE  Shaped(new, U \cup {u}, PutHomes(U, h, q, u))
  <1>. DEFINE V == U \cup {u}
              Y == LastItems(V, PutHomes(U, h, q, u), new.extensions)
              L == RunEnds(qf)
              M == ShiftBits(RunEnds(qf), at, u)
  <1>1. /\ Homed(qf, U, h) /\ Laid(U, h, PastEnd) /\ qf.occupieds = Homes(U, h)
        /\ L = LastItems(U, h, qf.extensions)
    BY HomedTypes DEF Shaped
  <1>2. Placed(U, h, q, at)
    BY <1>1, FrontPlaced
  <1>3. /\ at \in Nat /\ u \in Nat /\ at <= u /\ V \in SUBSET Nat /\ L \in SUBSET Nat
        /\ new.runends \in SUBSET V
        /\ RunEnds(new) = M /\ M \in SUBSET V
    <2>1. /\ at \in Nat /\ u \in Nat /\ at <= u /\ V \in SUBSET Nat /\ U \in SUBSET Nat
          /\ RunEnds(qf) \in SUBSET U
          /\ ShiftBits(qf.runends, at, u) \in SUBSET V /\ M \in SUBSET V
          /\ ShiftBits(qf.runends, at, u) \ ShiftBits(qf.extensions, at, u) = M
      BY <1>2, MovedBits
    <2>. HIDE DEF V, M
    <2>. QED
      BY <2>1 DEF RunEnds
  <1>4. new.occupieds = qf.occupieds \cup {q}
    BY <1>1 DEF Homes
  <1>5. ASSUME NEW i \in Nat PROVE i \in Y <=> i \in M
    <2>1. i \in Y <=> \/ i = at /\ OnlyMarks(U, h, q, at, qf.extensions)
                      \/ i \in M /\ ~(i < at /\ h[i] = q)
      BY <1>1, <1>2, ItemLast
    <2>2. ~OnlyMarks(U, h, q, at, qf.extensions)
      BY <1>3 DEF OnlyMarks
    <2>3. ASSUME i \in M, i < at, h[i] = q PROVE FALSE
      <3>. HIDE DEF L
      <3>1. i \in L
        BY <1>3, <2>3, BitsBefore DEF L
      <3>. QED
        BY <1>1, <2>3, <3>1 DEF LastItems
    <2>. QED
      BY <2>1, <2>2, <2>3
  <1>6. RunEnds(new) = Y
    <2>1. Y \in SUBSET Nat
      BY <1>3 DEF LastItems
    <2>. HIDE DEF Y, M, V
    <2>. QED
      BY <1>3, <1>5, <2>1
  <1>7. new.extensions \intersect new.runends = new.extensions \intersect ShiftBits(qf.runends, at, u)
    OBVIOUS
  <1>. HIDE DEF L, M
  <1>. QED
    BY <1>2, <1>3, <1>4, <1>6, <1>7, ItemShaped

(***************************************************************************)
(* ... and so does one behind the last item of its run, which then ends    *)
(* the run instead.                                                        *)
(***************************************************************************)
LEMMA EndShaped ==
    ASSUME NEW qf, NEW U, NEW h, Shaped(qf, U, h), NEW index \in RunEnds(qf),
           NEW q, q = h[index], NEW at, at = EndOf(U, h, q) + 1,
           NEW u, FreeFrom(U, at, u), u < PastEnd,
           NEW new \in Filters, new.occupieds = qf.occupieds,
           new.extensions = ShiftBits(qf.extensions, at, u),
           new.runends = (ShiftBits(qf.runends, at, u) \cup {at}) \ {index},
           Nudged(qf, q, u, new), new.noccupied_slots = qf.noccupied_slots + 1
    PROVE  Shaped(new, U \cup {u}, PutHomes(U, h, q, u))
  <1>. DEFINE V == U \cup {u}
              Y == LastItems(V, PutHomes(U, h, q, u), new.extensions)
              L == RunEnds(qf)
              M == ShiftBits(RunEnds(qf), at, u)
              A == ShiftBits(qf.extensions, at, u)
              B == ShiftBits(qf.runends, at, u)
  <1>1. /\ Homed(qf, U, h) /\ Laid(U, h, PastEnd) /\ qf.occupieds = Homes(U, h)
        /\ L \in SUBSET U /\ U \in SUBSET Nat
        /\ \A i \in U : h[i] \in Nat
    BY HomedTypes DEF Shaped
  <1>2. q \in Homes(U, h) /\ q \in U
    <2>1. q \in Homes(U, h)
      BY <1>1 DEF Homes
    <2>. QED
      BY <1>1, <2>1, HomeHasEnd
  <1>3. Placed(U, h, q, at)
    BY <1>1, <1>2, EndPlaced
  <1>4. /\ at \in Nat /\ u \in Nat /\ at <= u /\ at \in V /\ V \in SUBSET Nat
        /\ qf.extensions \in SUBSET Nat /\ L \in SUBSET Nat
        /\ A \in SUBSET V /\ B \in SUBSET V /\ M \in SUBSET V
        /\ at \notin A /\ at \notin B /\ B \ A = M
    BY <1>3, MovedBits
  <1>5. index \in Nat /\ index < at /\ \A i \in L : h[i] = q => i = index
    <2>1. PICK r \in RunEnds(qf) : h[r] = q /\ r <= EndOf(U, h, q)
      BY <1>1, <1>2, HasLastItem
    <2>2. \A i \in RunEnds(qf) : h[i] = q => i = index
      BY <1>1, OneLastItem
    <2>3. EndOf(U, h, q) \in Nat
      BY <1>1, <1>2, EndFacts
    <2>. QED
      BY <1>1, <2>1, <2>2, <2>3
  <1>6. index \in L /\ index \notin A /\ index \in M
    <2>1. index \in L /\ index \notin qf.extensions
      BY DEF RunEnds
    <2>2. index \in A <=> index \in qf.extensions
      BY <1>4, <1>5, BitsBefore
    <2>3. index \in M <=> index \in L
      BY <1>4, <1>5, BitsBefore
    <2>. HIDE DEF L, A, M
    <2>. QED
      BY <2>1, <2>2, <2>3
  <1>7. OnlyMarks(U, h, q, at, qf.extensions)
    <2>1. \A i \in U : EndOf(U, h, q) < i => h[i] > q
      BY <1>1, <1>2, EndFacts
    <2>2. EndOf(U, h, q) \in Nat
      BY <1>1, <1>2, EndFacts
    <2>3. ASSUME NEW j \in U, j >= at, h[j] = q PROVE FALSE
      <3>1. EndOf(U, h, q) < j /\ j \in Nat /\ h[j] \in Nat
        BY <1>1, <2>2, <2>3
      <3>2. h[j] > h[j]
        BY <2>1, <2>3, <3>1
      <3>. QED
        BY <3>1, <3>2
    <2>. QED
      BY <2>3 DEF OnlyMarks
  <1>8. ASSUME NEW i \in Nat PROVE i \in Y <=> i \in (M \cup {at}) \ {index}
    <2>0. Y = LastItems(V, PutHomes(U, h, q, u), A)
      OBVIOUS
    <2>1. i \in Y <=> \/ i = at /\ OnlyMarks(U, h, q, at, qf.extensions)
                      \/ i \in M /\ ~(i < at /\ h[i] = q)
      <3>. HIDE DEF Y
      <3>. QED
        BY <1>1, <1>3, <2>0, ItemLast
    <2>2. ASSUME i \in M, i < at, h[i] = q PROVE i = index
      <3>1. i \in M <=> i \in L
        BY <1>4, <2>2, BitsBefore
      <3>. HIDE DEF L, M
      <3>. QED
        BY <1>5, <2>2, <3>1
    <2>3. index # at /\ index < at
      BY <1>4, <1>5
    <2>. HIDE DEF Y, M
    <2>. QED
      BY <1>7, <2>1, <2>2, <2>3
  <1>9. Y \in SUBSET Nat
    BY <1>4 DEF LastItems
  <1>. DEFINE N == new.extensions
              R == new.runends
  <1>10. RunEnds(new) = R \ N /\ N = A /\ R = (B \cup {at}) \ {index}
    BY DEF RunEnds
  <1>. HIDE DEF A, B, M, L, Y, V, N, R
  <1>11. RunEnds(new) = Y
    BY <1>4, <1>6, <1>8, <1>9, <1>10
  <1>12. R \in SUBSET V /\ N \intersect R = N \intersect B
    <2>1. R \in SUBSET V
      BY <1>4, <1>10
    <2>2. at \notin N /\ index \notin N
      BY <1>4, <1>6, <1>10
    <2>. QED
      BY <1>10, <2>1, <2>2
  <1>13. new.occupieds = qf.occupieds \cup {q}
    BY <1>1, <1>2
  <1>. QED
    BY <1>3, <1>11, <1>12, <1>13, ItemShaped DEF N, R, B, V, Y

(***************************************************************************)
(* The first item of a bucket whose home slot another run holds goes       *)
(* behind that run.                                                        *)
(***************************************************************************)
LEMMA NewRunShaped ==
    ASSUME NEW qf, NEW U, NEW h, Shaped(qf, U, h), NEW q \in U, q \notin Homes(U, h),
           NEW at, at = EndOf(U, h, q) + 1,
           NEW u, FreeFrom(U, at, u), u < PastEnd,
           NEW new \in Filters, new.occupieds = qf.occupieds \cup {q},
           new.extensions = ShiftBits(qf.extensions, at, u),
           new.runends = ShiftBits(qf.runends, at, u) \cup {at},
           Nudged(qf, q, u, new), new.noccupied_slots = qf.noccupied_slots + 1
    PROVE  Shaped(new, U \cup {u}, PutHomes(U, h, q, u))
  <1>. DEFINE V == U \cup {u}
              Y == LastItems(V, PutHomes(U, h, q, u), new.extensions)
              L == RunEnds(qf)
              M == ShiftBits(RunEnds(qf), at, u)
              A == ShiftBits(qf.extensions, at, u)
              B == ShiftBits(qf.runends, at, u)
  <1>1. /\ Homed(qf, U, h) /\ Laid(U, h, PastEnd) /\ L \in SUBSET U
    BY HomedTypes DEF Shaped
  <1>2. Placed(U, h, q, at)
    BY <1>1, EndPlaced
  <1>3. /\ at \in Nat /\ u \in Nat /\ at <= u /\ at \in V /\ V \in SUBSET Nat /\ L \in SUBSET Nat
        /\ A \in SUBSET V /\ B \in SUBSET V /\ M \in SUBSET V
        /\ at \notin A /\ at \notin B /\ B \ A = M
    BY <1>2, MovedBits
  <1>4. \A i \in U : h[i] # q
    BY DEF Homes
  <1>5. OnlyMarks(U, h, q, at, qf.extensions)
    BY <1>4 DEF OnlyMarks
  <1>6. ASSUME NEW i \in Nat PROVE i \in Y <=> i \in M \cup {at}
    <2>1. i \in Y <=> \/ i = at /\ OnlyMarks(U, h, q, at, qf.extensions)
                      \/ i \in M /\ ~(i < at /\ h[i] = q)
      BY <1>1, <1>2, ItemLast
    <2>2. ASSUME i \in M, i < at, h[i] = q PROVE FALSE
      <3>1. i \in M <=> i \in L
        BY <1>3, <2>2, BitsBefore
      <3>2. i \in U
        <4>. HIDE DEF L, M
        <4>. QED
          BY <1>1, <2>2, <3>1
      <3>. QED
        BY <1>4, <2>2, <3>2
    <2>. HIDE DEF Y, M
    <2>. QED
      BY <1>5, <2>1, <2>2
  <1>7. Y \in SUBSET Nat
    BY <1>3 DEF LastItems
  <1>. DEFINE N == new.extensions
              R == new.runends
  <1>8. RunEnds(new) = R \ N /\ N = A /\ R = B \cup {at}
    BY DEF RunEnds
  <1>. HIDE DEF A, B, M, L, Y, V, N, R
  <1>9. RunEnds(new) = Y
    BY <1>3, <1>6, <1>7, <1>8
  <1>10. R \in SUBSET V /\ N \intersect R = N \intersect B
    <2>1. R \in SUBSET V
      BY <1>3, <1>8
    <2>2. at \notin N
      BY <1>3, <1>8
    <2>. QED
      BY <1>8, <2>1, <2>2
  <1>. QED
    BY <1>2, <1>9, <1>10, ItemShaped DEF N, R, B, V, Y

(***************************************************************************)
(* An item alone in its empty home slot.                                   *)
(***************************************************************************)
LEMMA AloneShaped ==
    ASSUME NEW qf, NEW U, NEW h, Shaped(qf, U, h), NEW q \in Slots, q \notin U,
           NEW new \in Filters, new.occupieds = qf.occupieds \cup {q},
           new.extensions = qf.extensions, new.runends = qf.runends \cup {q},
           new.offset = qf.offset, new.noccupied_slots = qf.noccupied_slots + 1
    PROVE  Shaped(new, U \cup {q}, AloneHomes(U, h, q))
  <1>. DEFINE V == U \cup {q}
              g == AloneHomes(U, h, q)
              X == qf.extensions
  <1>1. /\ Homed(qf, U, h) /\ Stored(qf, U, h) /\ Laid(U, h, PastEnd) /\ U \in SUBSET Nat
        /\ X \in SUBSET U /\ qf.runends \in SUBSET U /\ qf.occupieds = Homes(U, h)
        /\ RunEnds(qf) = LastItems(U, h, X)
        /\ \A i \in X : i - 1 \in U /\ h[i - 1] = h[i]
        /\ IsFiniteSet(U) /\ qf.noccupied_slots = Cardinality(U)
    BY HomedTypes DEF Shaped, Homed
  <1>2. q \in Nat /\ q \in 0 .. PastEnd - 1 /\ Slots = 0 .. PastEnd - 1
    BY Sizes
  <1>3. Laid(V, g, PastEnd)
    BY <1>1, <1>2, AloneLaid
  <1>4. g[q] = q /\ \A i \in U : g[i] = h[i]
    BY DEF AloneHomes
  <1>5. \A i \in U : h[i] # q
    <2>1. ASSUME NEW i \in U, h[i] = q PROVE FALSE
      <3>1. \A j \in Nat : h[i] <= j /\ j <= i => j \in U
        BY <1>1, LaidSlot
      <3>2. h[i] <= i
        BY <1>1, LaidSlot
      <3>3. q <= q
        BY <1>2
      <3>. QED
        BY <1>2, <2>1, <3>1, <3>2, <3>3
    <2>. QED
      BY <2>1
  <1>6. Homes(V, g) = qf.occupieds \cup {q}
    <2>1. ASSUME NEW b PROVE b \in Homes(V, g) <=> b \in Homes(U, h) \cup {q}
      <3>1. b \in Homes(V, g) <=> \E i \in V : b = g[i]
        BY DEF Homes
      <3>2. b \in Homes(U, h) <=> \E i \in U : b = h[i]
        BY DEF Homes
      <3>. HIDE DEF g
      <3>. QED
        BY <1>4, <3>1, <3>2
    <2>. QED
      BY <1>1, <2>1
  <1>7. LastItems(V, g, X) = LastItems(U, h, X) \cup {q}
    <2>1. ASSUME NEW i PROVE i \in LastItems(V, g, X) <=> i \in LastItems(U, h, X) \cup {q}
      <3>1. i \in LastItems(V, g, X) <=>
              i \in V \ X /\ \A j \in V : i < j /\ g[j] = g[i] => j \in X
        BY DEF LastItems
      <3>2. i \in LastItems(U, h, X) <=>
              i \in U \ X /\ \A j \in U : i < j /\ h[j] = h[i] => j \in X
        BY DEF LastItems
      <3>. HIDE DEF g, X
      <3>3. CASE i = q
        <4>1. ~(q < q)
          BY <1>2
        <4>2. q \notin X
          BY <1>1
        <4>3. \A j \in V : ~(q < j /\ g[j] = g[q])
          BY <1>4, <1>5, <4>1
        <4>. QED
          BY <3>1, <3>3, <4>2, <4>3
      <3>4. CASE i # q
        <4>1. i \in U => g[q] # g[i]
          BY <1>4, <1>5
        <4>. QED
          BY <1>4, <3>1, <3>2, <3>4, <4>1
      <3>. QED
        BY <3>3, <3>4
    <2>. QED
      BY <2>1
  <1>8. Homed(new, V, g)
    <2>1. RunEnds(new) = LastItems(V, g, new.extensions)
      <3>1. RunEnds(new) = RunEnds(qf) \cup {q}
        <4>1. q \notin qf.extensions
          BY <1>1
        <4>. QED
          BY <4>1 DEF RunEnds
      <3>. QED
        BY <1>1, <1>7, <3>1
    <2>2. \A i \in new.extensions : i - 1 \in V /\ g[i - 1] = g[i]
      <3>. HIDE DEF g
      <3>. QED
        BY <1>1, <1>4
    <2>. QED
      BY <1>1, <1>3, <1>6, <2>1, <2>2 DEF Homed
  <1>9. Stored(new, V, g)
    <2>1. ASSUME NEW k \in Blocks PROVE new.offset[k] = Min({OffsetMax, Reach(V, g, SlotsPerBlock * k)})
      <3>. DEFINE s == SlotsPerBlock * k
      <3>1. s \in Nat
        <4>1. \A x \in Nat, y \in Nat : x * y \in Nat
          OBVIOUS
        <4>2. SlotsPerBlock \in Nat /\ k \in Nat
          BY Sizes
        <4>. QED
          BY <4>1, <4>2
      <3>. HIDE DEF s
      <3>2. Reach(V, g, s) = Reach(U, h, s)
        <4>1. CASE s - 1 \in V
          <5>1. EndOf(V, g, s - 1) = IF s - 1 = q THEN q ELSE EndOf(U, h, s - 1)
            <6>. DEFINE x == s - 1
            <6>. HIDE DEF x
            <6>1. x \in V => EndOf(U \cup {q}, AloneHomes(U, h, q), x) = IF x = q THEN q ELSE EndOf(U, h, x)
              BY <1>1, <1>2, AloneEndOf
            <6>. QED
              BY <4>1, <6>1 DEF x
          <5>2. CASE s - 1 = q
            <6>1. Reach(V, g, s) = q - q /\ Reach(U, h, s) = 0
              BY <4>1, <5>1, <5>2 DEF Reach
            <6>. QED
              BY <1>2, <6>1
          <5>3. CASE s - 1 # q
            <6>1. s - 1 \in U
              BY <4>1, <5>3
            <6>. QED
              BY <4>1, <5>1, <5>3, <6>1 DEF Reach
          <5>. QED
            BY <5>2, <5>3
        <4>2. CASE s - 1 \notin V
          BY <4>2 DEF Reach
        <4>. QED
          BY <4>1, <4>2
      <3>3. new.offset[k] = Min({OffsetMax, Reach(U, h, s)})
        BY <1>1 DEF Stored, s
      <3>. QED
        BY <3>2, <3>3 DEF s
    <2>. QED
      BY <2>1 DEF Stored
  <1>10. ChunksFirst(new)
    <2>1. ChunksFirst(qf) /\ q \notin qf.extensions
      BY <1>1 DEF Shaped
    <2>. QED
      BY <2>1 DEF ChunksFirst, is_counter, is_extension
  <1>11. new.noccupied_slots = Cardinality(V)
    BY <1>1, FS_AddElement
  <1>. QED
    BY <1>8, <1>9, <1>10, <1>11 DEF Shaped

-----------------------------------------------------------------------------
(***************************************************************************)
(* What the operations read before they write                              *)
(***************************************************************************)
\* What find_first_empty_slot answers below XnSlots is where make_space ends.
LEMMA SpaceFound ==
    ASSUME NEW qf, NEW U, NEW h, Homed(qf, U, h), Stored(qf, U, h),
           NEW at \in Nat, NEW u, u = find_first_empty_slot(qf, at), u < XnSlots
    PROVE  FreeFrom(U, at, u) /\ u < PastEnd /\ u \in Slots /\ at < XnSlots
  <1>0. at < XnSlots /\ at <= PastEnd
    <2>1. at >= XnSlots => u = at
      BY FirstEmptyDef
    <2>. QED
      BY <2>1, Sizes
  <1>1. /\ u \in Nat /\ at <= u /\ u <= PastEnd
        /\ \A k \in Nat : at <= k /\ k < u => k \in U
        /\ u < XnSlots => u \notin U
    BY <1>0, FirstEmptyExact
  <1>2. XnSlots \in Nat /\ PastEnd \in Nat /\ XnSlots <= PastEnd /\ Slots = 0 .. PastEnd - 1
    BY Sizes
  <1>. QED
    BY <1>0, <1>1, <1>2 DEF FreeFrom

\* ... and it does answer one if there is a free slot.
LEMMA RoomFound ==
    ASSUME NEW qf, NEW U, NEW h, Homed(qf, U, h), Stored(qf, U, h),
           NEW at \in Nat, NEW i \in Nat, at <= i, i < XnSlots, i \notin U
    PROVE  HasSpace(qf, at) /\ at <= PastEnd
  <1>. DEFINE u == find_first_empty_slot(qf, at)
  <1>1. XnSlots \in Nat /\ PastEnd \in Nat /\ XnSlots <= PastEnd /\ at <= PastEnd
    BY Sizes
  <1>2. /\ u \in Nat /\ at <= u
        /\ \A k \in Nat : at <= k /\ k < u => k \in U
    BY <1>1, FirstEmptyExact
  <1>. HIDE DEF u
  <1>3. u < XnSlots
    BY <1>1, <1>2
  <1>. QED
    BY <1>1, <1>3 DEF HasSpace, u

\* A slot is an empty home slot exactly if it is free.
LEMMA HomeSlotEmptyIs ==
    ASSUME NEW qf, NEW U, NEW h, Homed(qf, U, h), Stored(qf, U, h), NEW b \in Slots
    PROVE  home_slot_empty(qf, b) <=> b \notin U
  <1>1. /\ Laid(U, h, PastEnd) /\ U \in SUBSET Nat
        /\ qf.extensions \in SUBSET U /\ qf.runends \in SUBSET U /\ qf.occupieds \in SUBSET U
        /\ PastEnd \in Nat /\ \A i \in U : h[i] \in Nat /\ i \in Nat /\ i < PastEnd
    BY HomedTypes DEF Homed
  <1>2. run_end(qf, b) = RunEndAt(U, h, b)
    BY RunEndExact
  <1>3. CASE b \notin U
    BY <1>1, <1>2, <1>3 DEF home_slot_empty, might_be_empty, RunEndAt
  <1>4. CASE b \in U
    <2>. DEFINE q == h[b]
                e == EndOf(U, h, q)
    <2>1. ASSUME EndOf(U, h, b) = b, b \notin qf.runends, b \notin qf.extensions PROVE FALSE
      <3>1. q \in Homes(U, h)
        BY <1>4 DEF Homes
      <3>2. e \in EndsOfRuns(U, h) /\ h[e] = q
        BY <1>1, <3>1, HomeHasEnd
      <3>3. b \in EndsOfRuns(U, h)
        BY <1>1, <1>4, <2>1, EndFacts
      <3>. HIDE DEF q, e
      <3>4. e = b
        BY <1>1, <3>2, <3>3, OneEndPerHome DEF q
      <3>5. PICK r \in RunEnds(qf) : h[r] = q /\ skip_extensions(qf, r + 1) = e + 1 /\ r <= e
        BY <3>1, HasLastItem DEF e
      <3>6. r \in Nat /\ r # b
        BY <1>1, <2>1, <3>5 DEF RunEnds
      <3>7. r + 1 \in Nat /\ r + 1 <= b /\ b < b + 1 /\ b \in Nat
        BY <1>1, <1>4, <3>4, <3>5, <3>6
      <3>8. r + 1 <= PastEnd
        BY <1>1, <1>4, <3>6, <3>7
      <3>9. b \in qf.extensions
        BY <1>1, <3>4, <3>5, <3>7, <3>8, SkipIs, HomedTypes
      <3>. QED
        BY <2>1, <3>9
    <2>. QED
      BY <1>2, <1>4, <2>1 DEF home_slot_empty, might_be_empty, RunEndAt
  <1>. QED
    BY <1>3, <1>4

\* run_start is the first slot of the bucket's run, an item ...
LEMMA RunStartIs ==
    ASSUME NEW qf, NEW U, NEW h, Homed(qf, U, h), Stored(qf, U, h), NEW b \in Homes(U, h),
           NEW s, s = run_start(qf, b)
    PROVE  /\ s \in U /\ s \in Nat /\ b <= s /\ h[s] = b /\ s \notin qf.extensions
           /\ \A i \in U : h[i] = b => s <= i
  <1>1. /\ Laid(U, h, PastEnd) /\ U \in SUBSET Slots /\ PastEnd \in Nat
        /\ \A i \in U : i \in Nat /\ h[i] \in Nat /\ h[i] <= i
        /\ \A i \in qf.extensions : i - 1 \in U /\ h[i - 1] = h[i]
    BY HomedTypes DEF Homed
  <1>2. b \in U /\ b \in Nat
    BY <1>1, HomeHasEnd
  <1>3. PICK x \in U : h[x] = b
    BY DEF Homes
  <1>4. b <= x /\ \A j \in Nat : b <= j /\ j <= x => j \in U /\ h[j] <= b
    BY <1>1, <1>3, LaidSlot
  <1>5. /\ s \in Nat /\ b <= s /\ \A i \in Nat : b <= i /\ i < s => i \in U /\ h[i] < b
        /\ \A i \in U : i >= s => h[i] >= b
    <2>1. CASE b = 0
      <3>1. s = 0
        BY <2>1 DEF run_start
      <3>. QED
        BY <1>1, <2>1, <3>1
    <2>2. CASE b # 0
      <3>. DEFINE p == b - 1
      <3>1. p \in Nat /\ p \in Slots /\ Slots = 0 .. PastEnd - 1
        BY <1>1, <1>2, <2>2, Sizes
      <3>2. s = RunEndAt(U, h, p) + 1
        BY <2>2, <3>1, RunEndExact DEF run_start
      <3>3. CASE p \in U
        <4>. DEFINE m == EndOf(U, h, p)
        <4>1. /\ m \in Nat /\ p <= m
              /\ \A i \in Nat : p <= i /\ i <= m => i \in U /\ h[i] <= p
              /\ \A i \in U : m < i => h[i] > p
          <5>. HIDE DEF p
          <5>. QED
            BY <1>1, <3>3, EndFacts
        <4>2. s = m + 1
          BY <3>2, <3>3 DEF RunEndAt
        <4>. HIDE DEF m
        <4>. QED
          BY <1>1, <1>2, <2>2, <3>1, <4>1, <4>2
      <3>4. CASE p \notin U
        <4>1. s = p + 1 /\ s = b
          BY <1>2, <3>1, <3>2, <3>4 DEF RunEndAt
        <4>2. ASSUME NEW i \in U, i >= b PROVE h[i] >= b
          <5>1. \A j \in Nat : h[i] <= j /\ j <= i => j \in U
            BY <1>1, LaidSlot
          <5>2. i \in Nat /\ h[i] \in Nat
            BY <1>1
          <5>. QED
            BY <1>2, <3>1, <3>4, <4>2, <5>1, <5>2
        <4>. QED
          BY <1>2, <4>1, <4>2
      <3>. QED
        BY <3>3, <3>4
    <2>. QED
      BY <2>1, <2>2
  <1>6. s <= x
    <2>1. ASSUME x < s PROVE FALSE
      <3>1. h[x] < b
        BY <1>1, <1>4, <1>5, <2>1
      <3>. QED
        BY <1>2, <1>3, <3>1
    <2>. QED
      BY <1>1, <1>5, <2>1
  <1>7. s \in U /\ h[s] = b
    <2>1. s \in U /\ h[s] <= b
      BY <1>4, <1>5, <1>6
    <2>2. h[s] >= b /\ h[s] \in Nat
      BY <1>1, <1>5, <2>1
    <2>. QED
      BY <1>2, <2>1, <2>2
  <1>8. ASSUME NEW i \in U, h[i] = b PROVE s <= i
    <2>1. ASSUME i < s PROVE FALSE
      <3>1. i \in Nat /\ b <= i
        BY <1>1, <1>8
      <3>2. h[i] < b
        BY <1>5, <2>1, <3>1
      <3>. QED
        BY <1>2, <1>8, <3>2
    <2>. QED
      BY <1>1, <1>5, <2>1
  <1>9. s \notin qf.extensions
    <2>1. ASSUME s \in qf.extensions PROVE FALSE
      <3>1. s - 1 \in U /\ h[s - 1] = b /\ s - 1 \in Nat
        BY <1>1, <1>7, <2>1
      <3>2. s <= s - 1
        BY <1>8, <3>1
      <3>. QED
        BY <1>5, <3>2
    <2>. QED
      BY <2>1
  <1>. QED
    BY <1>5, <1>7, <1>8, <1>9

\* ... and for a bucket without a run the slot behind the run that holds its
\* home slot.
LEMMA NewRunStart ==
    ASSUME NEW qf, NEW U, NEW h, Homed(qf, U, h), Stored(qf, U, h), NEW b \in U, b \notin Homes(U, h)
    PROVE  run_start(qf, b) = EndOf(U, h, b) + 1
  <1>1. /\ Laid(U, h, PastEnd) /\ U \in SUBSET Slots /\ PastEnd \in Nat
        /\ \A i \in U : i \in Nat /\ h[i] \in Nat /\ h[i] <= i /\ h[i] # b
    BY HomedTypes DEF Homes
  <1>2. b \in Nat /\ b # 0
    BY <1>1
  <1>. DEFINE p == b - 1
              m == EndOf(U, h, p)
              n == EndOf(U, h, b)
  <1>3. p \in Nat /\ p \in Slots
    BY <1>1, <1>2, Sizes
  <1>4. p \in U
    <2>1. \A j \in Nat : h[b] <= j /\ j <= b => j \in U
      BY <1>1, LaidSlot
    <2>2. h[b] \in Nat /\ h[b] <= b /\ h[b] # b
      BY <1>1
    <2>. QED
      BY <1>2, <1>3, <2>1, <2>2
  <1>5. /\ m \in U /\ m \in Nat /\ h[m] <= p
        /\ \A i \in U : m < i => h[i] > p
    <2>. HIDE DEF p
    <2>. QED
      BY <1>1, <1>4, EndFacts
  <1>6. /\ n \in U /\ n \in Nat /\ h[n] <= b
        /\ \A i \in U : n < i => h[i] > b
    BY <1>1, EndFacts
  <1>7. run_start(qf, b) = m + 1
    BY <1>2, <1>3, <1>4, RunEndExact DEF run_start, RunEndAt
  <1>. HIDE DEF m, n
  <1>8. ~(m < n)
    <2>1. ASSUME m < n PROVE FALSE
      <3>1. h[n] > p /\ h[n] \in Nat /\ h[n] # b
        BY <1>1, <1>5, <1>6, <2>1
      <3>. QED
        BY <1>2, <1>6, <3>1
    <2>. QED
      BY <2>1
  <1>9. ~(n < m)
    <2>1. ASSUME n < m PROVE FALSE
      <3>1. h[m] > b /\ h[m] \in Nat
        BY <1>1, <1>5, <1>6, <2>1
      <3>. QED
        BY <1>2, <1>5, <3>1
    <2>. QED
      BY <2>1
  <1>. QED
    BY <1>5, <1>6, <1>7, <1>8, <1>9 DEF n

-----------------------------------------------------------------------------
(***************************************************************************)
(* From item to item                                                       *)
(***************************************************************************)
\* The items of a bucket: the slots of its run without chunks and counters.
Items(qf, U, h, b) == {i \in U \ qf.extensions : h[i] = b}

\* What lies between two slots of a run is of that run.
LEMMA InRun ==
    ASSUME NEW U, NEW h, NEW N, Laid(U, h, N), NEW i \in U, NEW j \in U, h[i] = h[j],
           NEW k \in Nat, i <= k, k <= j
    PROVE  k \in U /\ h[k] = h[i]
  <1>1. /\ i \in Nat /\ j \in Nat /\ h[j] \in Nat /\ h[i] <= i
        /\ \A x \in Nat : h[j] <= x /\ x <= j => x \in U
    BY LaidSlot
  <1>2. k \in U
    BY <1>1
  <1>3. h[i] <= h[k] /\ h[k] <= h[j] /\ h[k] \in Nat
    <2>1. h[i] <= h[k]
      BY <1>2, HomesAscend
    <2>2. h[k] <= h[j]
      BY <1>2, HomesAscend
    <2>. QED
      BY <1>2, <2>1, <2>2, LaidSlot
  <1>. QED
    BY <1>1, <1>2, <1>3

\* Behind an item that does not end its run comes the run's next item ...
LEMMA NextItem ==
    ASSUME NEW qf, NEW U, NEW h, Homed(qf, U, h), NEW b, NEW i \in Items(qf, U, h, b), i \notin RunEnds(qf),
           NEW n, n = skip_extensions(qf, i + 1)
    PROVE  /\ n \in Items(qf, U, h, b) /\ n \in Nat /\ i < n
           /\ \A j \in Items(qf, U, h, b) : i < j => n <= j
  <1>1. /\ Laid(U, h, PastEnd) /\ PastEnd \in Nat /\ qf.extensions \in SUBSET Slots
        /\ RunEnds(qf) = LastItems(U, h, qf.extensions)
        /\ \A j \in U : j \in Nat /\ j < PastEnd
    BY HomedTypes
  <1>2. i \in U /\ i \notin qf.extensions /\ h[i] = b /\ i \in Nat /\ i + 1 \in Nat /\ i + 1 <= PastEnd
    BY <1>1 DEF Items
  <1>3. PICK x \in U : i < x /\ h[x] = h[i] /\ x \notin qf.extensions
    BY <1>1, <1>2 DEF LastItems
  <1>4. /\ n \in Nat /\ i + 1 <= n /\ n <= PastEnd /\ n \notin qf.extensions
        /\ \A k \in Nat : i + 1 <= k /\ k < n => k \in qf.extensions
    BY <1>1, <1>2, SkipIs
  <1>5. \A j \in Nat : i < j /\ j \notin qf.extensions => n <= j
    BY <1>2, <1>4
  <1>6. n <= x /\ i <= n
    <2>1. x \in Nat
      BY <1>1, <1>3
    <2>. QED
      BY <1>2, <1>3, <1>4, <1>5, <2>1
  <1>7. n \in U /\ h[n] = h[i]
    <2>1. h[i] = h[x]
      BY <1>3
    <2>. QED
      BY <1>1, <1>2, <1>3, <1>4, <1>6, <2>1, InRun
  <1>. QED
    BY <1>1, <1>2, <1>4, <1>5, <1>7 DEF Items

\* ... and behind one that does, the run's end.
LEMMA BehindLast ==
    ASSUME NEW qf, NEW U, NEW h, Homed(qf, U, h), NEW i \in RunEnds(qf)
    PROVE  skip_extensions(qf, i + 1) = EndOf(U, h, h[i]) + 1
  <1>1. i \in U
    BY HomedTypes
  <1>2. h[i] \in Homes(U, h)
    BY <1>1 DEF Homes
  <1>3. PICK r \in RunEnds(qf) : h[r] = h[i] /\ skip_extensions(qf, r + 1) = EndOf(U, h, h[i]) + 1
    BY <1>2, HasLastItem
  <1>4. r = i
    BY <1>3, OneLastItem
  <1>. QED
    BY <1>3, <1>4

\* A run's last item is its only one without an item behind it.
LEMMA LastItemOnly ==
    ASSUME NEW qf, NEW U, NEW h, Homed(qf, U, h), NEW b, NEW i \in Items(qf, U, h, b)
    PROVE  i \in RunEnds(qf) <=> \A j \in Items(qf, U, h, b) : j <= i
  <1>1. /\ RunEnds(qf) = LastItems(U, h, qf.extensions) /\ \A j \in U : j \in Nat
    BY HomedTypes
  <1>. QED
    BY <1>1 DEF Items, LastItems

\* Behind the slot of an item come its chunks, behind those its counter.
LEMMA InfoPlaces ==
    ASSUME NEW qf, qf.extensions \in SUBSET Slots, NEW i \in Slots,
           NEW info, info = get_slot_info(qf, i),
           NEW c, c = i + 1 + info.ext_len, NEW e, e = c + info.count_len
    PROVE  /\ info.ext_len \in Nat /\ info.count_len \in Nat
           /\ c \in Nat /\ i + 1 <= c /\ c <= PastEnd /\ ~is_extension(qf, c)
           /\ \A k \in Nat : i + 1 <= k /\ k < c => is_extension(qf, k)
           /\ e \in Nat /\ c <= e /\ e <= PastEnd /\ ~is_counter(qf, e)
           /\ \A k \in Nat : c <= k /\ k < e => is_counter(qf, k)
           /\ info.ext = number(qf, i + 1, c)
           /\ info.count = IF e = c THEN 1 ELSE number(qf, c, e)
  <1>. DEFINE ce == extension_end(qf, i + 1)
              ee == counter_end(qf, ce)
  <1>1. /\ PastEnd \in Nat /\ Slots = 0 .. PastEnd - 1
        /\ i \in Nat /\ i < PastEnd /\ i + 1 \in Nat /\ i + 1 <= PastEnd
    BY Sizes
  <1>2. /\ info.ext_len = ce - (i + 1) /\ info.count_len = ee - ce
        /\ info.ext = number(qf, i + 1, ce)
        /\ info.count = IF ee = ce THEN 1 ELSE number(qf, ce, ee)
    BY DEF get_slot_info
  <1>3. /\ ce \in Nat /\ i + 1 <= ce /\ ce <= PastEnd /\ ~is_extension(qf, ce)
        /\ \A k \in Nat : i + 1 <= k /\ k < ce => is_extension(qf, k)
    <2>. DEFINE S == {j \in Slots \cup {i + 1} : ~is_extension(qf, j)}
    <2>1. S \in SUBSET Nat /\ ce = FirstFrom(S, i + 1)
      BY <1>1 DEF extension_end
    <2>2. \/ ce \in S /\ i + 1 <= ce /\ \A k \in S : i + 1 <= k => ce <= k
          \/ ce = PastEnd /\ \A k \in S : k < i + 1
      <3>. DEFINE a == i + 1
      <3>1. a \in Nat /\ S \in SUBSET Nat /\ ce = FirstFrom(S, a)
        BY <1>1, <2>1
      <3>. HIDE DEF S, ce, a
      <3>2. \/ ce \in S /\ a <= ce /\ \A k \in S : a <= k => ce <= k
            \/ ce = PastEnd /\ \A k \in S : k < a
        BY <3>1, FirstFromIs
      <3>. QED
        BY <3>2 DEF a
    <2>. HIDE DEF ce
    <2>3. PastEnd \notin qf.extensions
      BY <1>1
    <2>4. ~is_extension(qf, PastEnd)
      BY <2>3 DEF is_extension
    <2>5. ce \in Nat /\ i + 1 <= ce /\ ce <= PastEnd /\ ~is_extension(qf, ce)
      BY <1>1, <2>2, <2>4
    <2>6. ASSUME NEW k \in Nat, i + 1 <= k, k < ce PROVE is_extension(qf, k)
      <3>1. k \in Slots
        BY <1>1, <2>5, <2>6
      <3>2. k \notin S
        BY <1>1, <2>2, <2>5, <2>6
      <3>. QED
        BY <3>1, <3>2
    <2>. QED
      BY <2>5, <2>6
  <1>. HIDE DEF ce
  <1>4. /\ ee \in Nat /\ ce <= ee /\ ee <= PastEnd /\ ~is_counter(qf, ee)
        /\ \A k \in Nat : ce <= k /\ k < ee => is_counter(qf, k)
    <2>. DEFINE S == {j \in Slots \cup {ce} : ~is_counter(qf, j)}
    <2>1. S \in SUBSET Nat /\ ee = FirstFrom(S, ce)
      BY <1>1, <1>3 DEF counter_end
    <2>2. \/ ee \in S /\ ce <= ee /\ \A k \in S : ce <= k => ee <= k
          \/ ee = PastEnd /\ \A k \in S : k < ce
      <3>1. ce \in Nat /\ S \in SUBSET Nat /\ ee = FirstFrom(S, ce)
        BY <1>3, <2>1
      <3>. HIDE DEF S, ee
      <3>. QED
        BY <3>1, FirstFromIs
    <2>. HIDE DEF ee
    <2>3. PastEnd \notin qf.extensions
      BY <1>1
    <2>4. ~is_counter(qf, PastEnd)
      BY <2>3 DEF is_counter
    <2>5. ee \in Nat /\ ce <= ee /\ ee <= PastEnd /\ ~is_counter(qf, ee)
      BY <1>1, <1>3, <2>2, <2>4
    <2>6. ASSUME NEW k \in Nat, ce <= k, k < ee PROVE is_counter(qf, k)
      <3>1. k \in Slots
        BY <1>1, <2>5, <2>6
      <3>2. k \notin S
        BY <1>1, <1>3, <2>2, <2>5, <2>6
      <3>. QED
        BY <3>1, <3>2
    <2>. QED
      BY <2>5, <2>6
  <1>. HIDE DEF ee
  <1>5. c = ce /\ e = ee
    BY <1>1, <1>2, <1>3, <1>4
  <1>. QED
    BY <1>2, <1>3, <1>4, <1>5, <1>1

\* The chunks of an item and its counter end where its slots do.
LEMMA InfoIs ==
    ASSUME NEW qf, NEW U, NEW h, Homed(qf, U, h), ChunksFirst(qf), NEW i \in U,
           NEW info, info = get_slot_info(qf, i), NEW n, n = skip_extensions(qf, i + 1)
    PROVE  /\ info.ext_len \in Nat /\ info.count_len \in Nat
           /\ i + 1 + info.ext_len + info.count_len = n
           /\ \A k \in Nat : i < k /\ k < i + 1 + info.ext_len => is_extension(qf, k)
           /\ \A k \in Nat : i + 1 + info.ext_len <= k /\ k < n => is_counter(qf, k)
  <1>. DEFINE c == i + 1 + info.ext_len
              e == c + info.count_len
  <1>1. /\ PastEnd \in Nat /\ Slots = 0 .. PastEnd - 1 /\ qf.extensions \in SUBSET Slots
        /\ i \in Nat /\ i < PastEnd /\ i + 1 \in Nat /\ i + 1 <= PastEnd /\ i \in Slots
    BY HomedTypes, Sizes
  <1>2. /\ info.ext_len \in Nat /\ info.count_len \in Nat
        /\ c \in Nat /\ i + 1 <= c /\ c <= PastEnd /\ ~is_extension(qf, c)
        /\ \A k \in Nat : i + 1 <= k /\ k < c => is_extension(qf, k)
        /\ e \in Nat /\ c <= e /\ e <= PastEnd /\ ~is_counter(qf, e)
        /\ \A k \in Nat : c <= k /\ k < e => is_counter(qf, k)
    <2>1. c = i + 1 + info.ext_len /\ e = c + info.count_len
      OBVIOUS
    <2>2. qf.extensions \in SUBSET Slots /\ i \in Slots
      BY <1>1
    <2>. HIDE DEF c, e
    <2>. QED
      BY <2>1, <2>2, InfoPlaces
  <1>3. i + 1 + info.ext_len = c /\ i + 1 + info.ext_len + info.count_len = e
    OBVIOUS
  <1>. HIDE DEF c, e
  <1>5. ~is_extension(qf, e)
    <2>1. CASE e = c
      BY <1>2, <2>1
    <2>2. CASE e # c
      <3>1. e - 1 \in Nat /\ c <= e - 1 /\ e - 1 < e /\ e - 1 \in Slots /\ (e - 1) + 1 = e
        BY <1>1, <1>2, <2>2
      <3>2. is_counter(qf, e - 1)
        BY <1>2, <3>1
      <3>. QED
        BY <3>1, <3>2 DEF ChunksFirst
    <2>. QED
      BY <2>1, <2>2
  <1>6. e \notin qf.extensions
    BY <1>2, <1>5 DEF is_extension, is_counter
  <1>7. \A k \in Nat : i + 1 <= k /\ k < e => k \in qf.extensions
    BY <1>2 DEF is_extension, is_counter
  <1>8. /\ n \in Nat /\ i + 1 <= n /\ n <= PastEnd /\ n \notin qf.extensions
        /\ \A k \in Nat : i + 1 <= k /\ k < n => k \in qf.extensions
    BY <1>1, SkipIs
  <1>9. n = e
    BY <1>1, <1>2, <1>6, <1>7, <1>8
  <1>. QED
    BY <1>1, <1>2, <1>3, <1>9

-----------------------------------------------------------------------------
(***************************************************************************)
(* The scan of the queries                                                 *)
(***************************************************************************)
\* The answer where nothing matches.
NotFound == [found |-> FALSE, index |-> PastEnd, rank |-> 0, count |-> 0, ext_len |-> 0]

\* The answer where the item at i matches.
Hit(i, info) ==
    [found |-> TRUE, index |-> i, rank |-> 0, count |-> info.count, ext_len |-> info.ext_len]

\* The answer of the scan from the item behind, if that has the remainder too.
Ranked(r) == IF r.found THEN [r EXCEPT !.rank = @ + 1] ELSE r

\* One visit of Lookup's loop, which goes on as g says.
Visit(qf, hash, g, i) ==
    LET info == get_slot_info(qf, i)
    IN IF i >= XnSlots THEN NotFound
       ELSE IF get_slot(qf, i) = remainder(hash)
            THEN IF hash_ext(hash, info.ext_len) = info.ext THEN Hit(i, info)
                 ELSE IF is_runend(qf, i) THEN NotFound
                 ELSE Ranked(g[i + 1 + info.ext_len + info.count_len])
       ELSE IF is_runend(qf, i) THEN NotFound
       ELSE g[skip_extensions(qf, i + 1)]

\* The loop, from k on.
IsLookup(qf, hash, k, g) == g = [i \in k .. PastEnd |-> Visit(qf, hash, g, i)]

\* A query is the loop from the run's start on.
LEMMA LookupDef ==
    ASSUME NEW qf, NEW hash
    PROVE  Lookup(qf, hash) = IF bucket(hash) \notin qf.occupieds THEN NotFound
                              ELSE (CHOOSE g : IsLookup(qf, hash, 0, g))[run_start(qf, bucket(hash))]
  BY DEF Lookup, IsLookup, Visit, NotFound, Hit, Ranked, is_occupied

\* The loop moves on.
LEMMA VisitMoves ==
    ASSUME NEW qf, qf.extensions \in SUBSET Slots, NEW i \in Slots
    PROVE  LET info == get_slot_info(qf, i)
           IN  /\ i + 1 + info.ext_len + info.count_len \in i + 1 .. PastEnd
               /\ skip_extensions(qf, i + 1) \in i + 1 .. PastEnd
  <1>. DEFINE info == get_slot_info(qf, i)
              c == i + 1 + info.ext_len
              e == c + info.count_len
              n == skip_extensions(qf, i + 1)
  <1>1. i \in Nat /\ i + 1 \in Nat /\ i + 1 <= PastEnd /\ PastEnd \in Nat
    BY Sizes
  <1>2. c \in Nat /\ e \in Nat /\ i + 1 <= c /\ c <= e /\ e <= PastEnd
    <2>1. c = i + 1 + info.ext_len /\ e = c + info.count_len
      OBVIOUS
    <2>. HIDE DEF c, e, info
    <2>. QED
      BY <2>1, InfoPlaces DEF info
  <1>3. n \in Nat /\ i + 1 <= n /\ n <= PastEnd
    <2>. HIDE DEF n
    <2>. QED
      BY <1>1, SkipIs DEF n
  <1>4. e = i + 1 + info.ext_len + info.count_len
    OBVIOUS
  <1>. HIDE DEF c, e, n, info
  <1>5. e \in i + 1 .. PastEnd /\ n \in i + 1 .. PastEnd
    BY <1>1, <1>2, <1>3
  <1>. QED
    BY <1>4, <1>5 DEF n, info

\* There is such a loop.
LEMMA LookupExists ==
    ASSUME NEW qf, qf.extensions \in SUBSET Slots, NEW hash
    PROVE  \E g : IsLookup(qf, hash, 0, g)
  <1>. DEFINE K == {k \in Nat : k <= PastEnd + 1 /\ \E g : IsLookup(qf, hash, k, g)}
  <1>1. PastEnd \in Nat /\ XnSlots \in Nat /\ XnSlots <= PastEnd /\ Slots = 0 .. PastEnd - 1
    BY Sizes
  <1>2. PastEnd + 1 \in K
    <2>. DEFINE g == [i \in {} |-> 0]
    <2>1. (PastEnd + 1) .. PastEnd = {}
      BY <1>1
    <2>2. [i \in (PastEnd + 1) .. PastEnd |-> Visit(qf, hash, g, i)] = g
      BY <2>1
    <2>3. IsLookup(qf, hash, PastEnd + 1, g)
      BY <2>2 DEF IsLookup
    <2>. QED
      BY <1>1, <2>3
  <1>3. PICK k \in K : \A m \in K : k <= m
    <2>1. K \in SUBSET Nat /\ K # {}
      BY <1>2
    <2>. HIDE DEF K
    <2>. QED
      BY <2>1, SmallestNat
  <1>4. k \in Nat /\ k <= PastEnd + 1 /\ \E g : IsLookup(qf, hash, k, g)
    BY <1>3
  <1>5. CASE k = 0
    BY <1>4, <1>5
  <1>6. CASE k # 0
    <2>. DEFINE p == k - 1
    <2>1. p \in Nat /\ p <= PastEnd /\ p < k /\ ~(k <= p)
      BY <1>1, <1>4, <1>6
    <2>2. PICK g : IsLookup(qf, hash, k, g)
      BY <1>4
    <2>. DEFINE new == [i \in p .. PastEnd |-> IF i = p THEN Visit(qf, hash, g, p) ELSE g[i]]
    <2>3. ASSUME NEW i \in p .. PastEnd PROVE Visit(qf, hash, new, i) = Visit(qf, hash, g, i)
      <3>. DEFINE info == get_slot_info(qf, i)
                  e == i + 1 + info.ext_len + info.count_len
                  n == skip_extensions(qf, i + 1)
      <3>1. CASE i >= XnSlots
        BY <3>1 DEF Visit
      <3>2. CASE ~(i >= XnSlots)
        <4>1. i \in Slots /\ i \in Nat /\ p <= i
          BY <1>1, <2>1, <3>2
        <4>2. e \in i + 1 .. PastEnd /\ n \in i + 1 .. PastEnd
          BY <4>1, VisitMoves
        <4>. HIDE DEF e, n, p
        <4>3. e \in p .. PastEnd /\ e # p /\ n \in p .. PastEnd /\ n # p
          BY <1>1, <2>1, <4>1, <4>2
        <4>4. new[e] = g[e] /\ new[n] = g[n]
          BY <4>3
        <4>. HIDE DEF new, info
        <4>. QED
          BY <4>4 DEF Visit, e, n, info
      <3>. QED
        BY <3>1, <3>2
    <2>4. ASSUME NEW i \in p .. PastEnd PROVE new[i] = Visit(qf, hash, new, i)
      <3>1. CASE i = p
        <4>1. new[i] = Visit(qf, hash, g, p)
          BY <3>1
        <4>. QED
          BY <2>3, <3>1, <4>1
      <3>2. CASE i # p
        <4>1. i \in k .. PastEnd
          BY <1>1, <1>4, <2>1, <3>2
        <4>2. g[i] = Visit(qf, hash, g, i)
          <5>. HIDE DEF new, p
          <5>. QED
            BY <2>2, <4>1 DEF IsLookup
        <4>3. new[i] = g[i]
          BY <3>2
        <4>. QED
          BY <2>3, <4>2, <4>3
      <3>. QED
        BY <3>1, <3>2
    <2>5. IsLookup(qf, hash, p, new)
      <3>1. new = [i \in p .. PastEnd |-> new[i]]
        OBVIOUS
      <3>. HIDE DEF new
      <3>2. new = [i \in p .. PastEnd |-> Visit(qf, hash, new, i)]
        BY <2>4, <3>1
      <3>. QED
        BY <3>2 DEF IsLookup
    <2>6. p \in K
      <3>. HIDE DEF new, p
      <3>. QED
        BY <1>1, <2>1, <2>5
    <2>. QED
      BY <1>3, <2>1, <2>6
  <1>. QED
    BY <1>5, <1>6

\* Stepping from an item to the next passes one item.
LEMMA RankStep ==
    ASSUME NEW qf, NEW U, NEW h, Homed(qf, U, h), NEW b, NEW i \in Items(qf, U, h, b), i \notin RunEnds(qf),
           NEW n, n = skip_extensions(qf, i + 1), NEW T \in SUBSET Items(qf, U, h, b),
           NEW x \in Nat, n <= x
    PROVE  /\ CountIn(T, n, x - 1) \in Nat
           /\ CountIn(T, i, x - 1) = (IF i \in T THEN 1 ELSE 0) + CountIn(T, n, x - 1)
  <1>1. /\ n \in Items(qf, U, h, b) /\ n \in Nat /\ i < n
        /\ \A j \in Items(qf, U, h, b) : i < j => n <= j
    BY NextItem
  <1>2. T \in SUBSET Nat /\ i \in Nat
    BY HomedTypes DEF Items
  <1>. DEFINE y == x - 1
              m == n - 1
  <1>3. y \in Int /\ m \in Int /\ i <= m /\ m <= y /\ m + 1 = n
    BY <1>1, <1>2
  <1>. HIDE DEF y, m
  <1>4. CountIn(T, i, y) = CountIn(T, i, m) + CountIn(T, m + 1, y)
    BY <1>2, <1>3, CountSplit
  <1>5. CountIn(T, i, m) = CountIn(T, i, i) + CountIn(T, i + 1, m)
    BY <1>2, <1>3, CountSplit
  <1>6. CountIn(T, i, i) = IF i \in T THEN 1 ELSE 0
    BY <1>2, CountOne
  <1>7. CountIn(T, i + 1, m) = 0
    <2>1. ASSUME NEW j \in T, i + 1 <= j, j <= m PROVE FALSE
      <3>1. j \in Nat /\ i < j /\ ~(n <= j)
        BY <1>1, <1>2, <1>3, <2>1
      <3>. QED
        BY <1>1, <3>1
    <2>. QED
      BY <2>1, CountNone
  <1>8. CountIn(T, n, y) \in Nat
    <2>1. CountIn(T, n, y) \in 0 .. y - n + 1
      BY <1>1, <1>2, <1>3, CountType
    <2>. QED
      BY <1>1, <1>3, <2>1
  <1>. QED
    BY <1>3, <1>4, <1>5, <1>6, <1>7, <1>8 DEF y

\* The chunks of the item at i are those of hash.
Extends(qf, hash, i) ==
    LET info == get_slot_info(qf, i) IN hash_ext(hash, info.ext_len) = info.ext

\* The items of hash's fingerprint in its run, and those that match the hash.
Minirun(qf, U, h, hash) ==
    {i \in Items(qf, U, h, bucket(hash)) : get_slot(qf, i) = remainder(hash)}
\* The items of a minirun whose chunks are the hash's.
Matching(qf, U, h, hash) == {i \in Minirun(qf, U, h, hash) : Extends(qf, hash, i)}

\* r is the right answer of the scan from item i on.
Answer(qf, U, h, hash, i, r) ==
    LET T == Minirun(qf, U, h, hash)
        M == Matching(qf, U, h, hash)
    IN  /\ r = [found |-> r.found, index |-> r.index, rank |-> r.rank,
                count |-> r.count, ext_len |-> r.ext_len]
        /\ r.found \in BOOLEAN
        /\ ~r.found => \A j \in M : j < i
        /\ r.found => /\ r.index \in M /\ i <= r.index /\ \A j \in M : i <= j => r.index <= j
                      /\ r.rank = CountIn(T, i, r.index - 1)
                      /\ r.count = get_slot_info(qf, r.index).count

\* A visit answers rightly if the rest of the loop does.
LEMMA VisitAnswers ==
    ASSUME NEW qf, NEW U, NEW h, Homed(qf, U, h), ChunksFirst(qf), \A j \in U : j < XnSlots,
           NEW hash, NEW g, NEW i \in Items(qf, U, h, bucket(hash)),
           NEW r, r = Visit(qf, hash, g, i),
           \A n \in Items(qf, U, h, bucket(hash)) : i < n => Answer(qf, U, h, hash, n, g[n])
    PROVE  Answer(qf, U, h, hash, i, r)
  <1>. DEFINE b == bucket(hash)
              B == Items(qf, U, h, b)
              T == Minirun(qf, U, h, hash)
              M == Matching(qf, U, h, hash)
              info == get_slot_info(qf, i)
              n == skip_extensions(qf, i + 1)
  <1>1. /\ i \in U /\ i \in Nat /\ i < XnSlots /\ XnSlots \in Nat
        /\ B \in SUBSET Nat /\ T \in SUBSET B /\ M \in SUBSET T
    BY HomedTypes, Sizes DEF Items, Minirun, Matching
  <1>2. ~(i >= XnSlots)
    BY <1>1
  <1>3. i + 1 + info.ext_len + info.count_len = n
    BY <1>1, InfoIs
  <1>4. is_runend(qf, i) <=> i \in RunEnds(qf)
    BY DEF is_runend, RunEnds
  <1>5. ASSUME i \in RunEnds(qf), i \notin M, r = NotFound PROVE Answer(qf, U, h, hash, i, r)
    <2>1. \A j \in B : j <= i
      BY <1>5, LastItemOnly
    <2>2. \A j \in M : j < i
      BY <1>1, <1>5, <2>1
    <2>. QED
      BY <1>5, <2>2 DEF Answer, NotFound
  <1>6. ASSUME i \in M, r = Hit(i, info) PROVE Answer(qf, U, h, hash, i, r)
    <2>1. CountIn(T, i, i - 1) = 0
      <3>1. \A j \in T : ~(i <= j /\ j <= i - 1)
        BY <1>1
      <3>. QED
        BY <3>1, CountNone
    <2>2. i <= i
      BY <1>1
    <2>. HIDE DEF T, M
    <2>. QED
      BY <1>6, <2>1, <2>2 DEF Answer, Hit, T, M
  <1>7. ASSUME i \notin RunEnds(qf), i \notin M, r = IF i \in T THEN Ranked(g[n]) ELSE g[n]
        PROVE  Answer(qf, U, h, hash, i, r)
    <2>. DEFINE a == g[n]
    <2>1. n \in B /\ n \in Nat /\ i < n /\ \A j \in B : i < j => n <= j
      BY <1>7, NextItem
    <2>2. Answer(qf, U, h, hash, n, a)
      BY <2>1
    <2>3. /\ a = [found |-> a.found, index |-> a.index, rank |-> a.rank,
                  count |-> a.count, ext_len |-> a.ext_len]
          /\ a.found \in BOOLEAN
          /\ ~a.found => \A j \in M : j < n
          /\ a.found => /\ a.index \in M /\ n <= a.index /\ \A j \in M : n <= j => a.index <= j
                        /\ a.rank = CountIn(T, n, a.index - 1)
                        /\ a.count = get_slot_info(qf, a.index).count
      BY <2>2 DEF Answer
    <2>. HIDE DEF a, B
    <2>4. CASE ~a.found
      <3>1. r = a
        BY <1>7, <2>4 DEF Ranked, a
      <3>2. ASSUME NEW j \in M PROVE j < i
        <4>1. j < n /\ j \in B /\ j \in Nat
          BY <1>1, <2>3, <2>4
        <4>2. j # i
          BY <1>7
        <4>. QED
          BY <1>1, <2>1, <4>1, <4>2
      <3>. HIDE DEF M, T
      <3>. QED
        BY <2>3, <2>4, <3>1, <3>2 DEF Answer, M, T
    <2>5. CASE a.found
      <3>. DEFINE x == a.index
      <3>1. x \in M /\ n <= x /\ x \in Nat /\ i <= x
        BY <1>1, <2>1, <2>3, <2>5
      <3>2. /\ CountIn(T, n, x - 1) \in Nat
            /\ CountIn(T, i, x - 1) = (IF i \in T THEN 1 ELSE 0) + CountIn(T, n, x - 1)
        <4>. HIDE DEF T, x, n
        <4>. QED
          BY <1>1, <1>7, <3>1, RankStep DEF B, n
      <3>3. ASSUME NEW j \in M, i <= j PROVE x <= j
        <4>1. j \in B /\ j \in Nat /\ j # i
          BY <1>1, <1>7
        <4>2. n <= j
          BY <1>1, <2>1, <3>3, <4>1
        <4>. QED
          BY <2>3, <2>5, <4>2
      <3>4. /\ r = [found |-> r.found, index |-> r.index, rank |-> r.rank,
                    count |-> r.count, ext_len |-> r.ext_len]
            /\ r.found = TRUE /\ r.index = x /\ r.count = a.count
            /\ r.rank = IF i \in T THEN a.rank + 1 ELSE a.rank
        <4>1. CASE i \in T
          <5>1. r = [a EXCEPT !.rank = @ + 1]
            BY <1>7, <2>5, <4>1 DEF Ranked, a
          <5>. QED
            BY <2>3, <2>5, <4>1, <5>1
        <4>2. CASE i \notin T
          <5>1. r = a
            BY <1>7, <4>2 DEF a
          <5>. QED
            BY <2>3, <2>5, <4>2, <5>1
        <4>. QED
          BY <4>1, <4>2
      <3>5. r.rank = CountIn(T, i, x - 1)
        BY <2>3, <2>5, <3>2, <3>4
      <3>6. r.count = get_slot_info(qf, x).count
        BY <2>3, <2>5, <3>4
      <3>. HIDE DEF M, T, x
      <3>. QED
        BY <3>1, <3>3, <3>4, <3>5, <3>6 DEF Answer, M, T
    <2>. QED
      BY <2>3, <2>4, <2>5
  <1>8. CASE get_slot(qf, i) = remainder(hash)
    <2>1. i \in T
      BY <1>8 DEF Minirun
    <2>2. i \in M <=> hash_ext(hash, info.ext_len) = info.ext
      BY <2>1 DEF Matching, Extends
    <2>3. r = IF i \in M THEN Hit(i, info) ELSE IF is_runend(qf, i) THEN NotFound ELSE Ranked(g[n])
      <3>. HIDE DEF M, info, n
      <3>. QED
        BY <1>2, <1>3, <1>8, <2>2 DEF Visit, info
    <2>. HIDE DEF M, T, info, n
    <2>. QED
      BY <1>4, <1>5, <1>6, <1>7, <2>1, <2>3
  <1>9. CASE get_slot(qf, i) # remainder(hash)
    <2>1. i \notin T /\ i \notin M
      BY <1>9 DEF Minirun, Matching
    <2>2. r = IF is_runend(qf, i) THEN NotFound ELSE g[n]
      BY <1>2, <1>9 DEF Visit
    <2>. HIDE DEF M, T, info, n
    <2>. QED
      BY <1>4, <1>5, <1>7, <2>1, <2>2
  <1>. QED
    BY <1>8, <1>9

(***************************************************************************)
(* A query finds the first item of its run whose remainder and chunks are  *)
(* the hash's, if there is one, and its rank is the number of items with   *)
(* that remainder in front of it.                                          *)
(***************************************************************************)
THEOREM LookupExact ==
    ASSUME NEW qf, NEW U, NEW h, Homed(qf, U, h), Stored(qf, U, h), ChunksFirst(qf),
           \A j \in U : j < XnSlots, NEW hash, NEW r, r = Lookup(qf, hash)
    PROVE  /\ r.found <=> Matching(qf, U, h, hash) # {}
           /\ r.found => /\ r.index \in Matching(qf, U, h, hash)
                         /\ \A j \in Matching(qf, U, h, hash) : r.index <= j
                         /\ r.rank = CountIn(Minirun(qf, U, h, hash), 0, r.index - 1)
                         /\ r.count = get_slot_info(qf, r.index).count
  <1>. DEFINE b == bucket(hash)
              B == Items(qf, U, h, b)
              T == Minirun(qf, U, h, hash)
              M == Matching(qf, U, h, hash)
              f == CHOOSE g : IsLookup(qf, hash, 0, g)
              Wrong == {i \in B : ~Answer(qf, U, h, hash, i, f[i])}
  <1>1. /\ qf.extensions \in SUBSET Slots /\ qf.occupieds = Homes(U, h) /\ PastEnd \in Nat
        /\ \A j \in U : j \in Nat /\ j < PastEnd
        /\ B \in SUBSET U /\ B \in SUBSET Nat /\ T \in SUBSET B /\ M \in SUBSET T
    BY HomedTypes DEF Items, Minirun, Matching
  <1>2. IsLookup(qf, hash, 0, f)
    BY <1>1, LookupExists
  <1>3. r = IF b \notin qf.occupieds THEN NotFound ELSE f[run_start(qf, b)]
    BY LookupDef
  <1>. HIDE DEF f
  <1>4. Wrong = {}
    <2>1. ASSUME Wrong # {} PROVE FALSE
      <3>. DEFINE i == Max(Wrong)
      <3>1. i \in Wrong /\ \A k \in Wrong : k <= i
        <4>1. Wrong \in SUBSET Nat /\ \A k \in Wrong : k <= PastEnd
          BY <1>1
        <4>. HIDE DEF Wrong
        <4>. QED
          BY <1>1, <2>1, <4>1, MaxOfNats
      <3>. HIDE DEF i
      <3>2. i \in B /\ i \in Nat /\ i \in 0 .. PastEnd /\ ~Answer(qf, U, h, hash, i, f[i])
        BY <1>1, <3>1
      <3>3. f[i] = Visit(qf, hash, f, i)
        BY <1>2, <3>2 DEF IsLookup
      <3>4. ASSUME NEW n \in B, i < n PROVE Answer(qf, U, h, hash, n, f[n])
        <4>1. n \in Nat /\ ~(n <= i)
          BY <1>1, <3>2, <3>4
        <4>. QED
          BY <3>1, <4>1
      <3>5. Answer(qf, U, h, hash, i, f[i])
        <4>. HIDE DEF Wrong
        <4>. QED
          BY <3>2, <3>3, <3>4, VisitAnswers
      <3>. QED
        BY <3>2, <3>5
    <2>. QED
      BY <2>1
  <1>5. CASE b \notin qf.occupieds
    <2>1. M = {}
      BY <1>1, <1>5 DEF Matching, Minirun, Items, Homes
    <2>2. r.found = FALSE
      BY <1>3, <1>5 DEF NotFound
    <2>. QED
      BY <2>1, <2>2
  <1>6. CASE b \in qf.occupieds
    <2>. DEFINE s == run_start(qf, b)
    <2>1. /\ s \in U /\ s \in Nat /\ h[s] = b /\ s \notin qf.extensions
          /\ \A i \in U : h[i] = b => s <= i
      BY <1>1, <1>6, RunStartIs
    <2>2. s \in B /\ \A i \in B : s <= i
      BY <2>1 DEF Items
    <2>3. r = f[s]
      BY <1>3, <1>6
    <2>. HIDE DEF s
    <2>4. Answer(qf, U, h, hash, s, r)
      BY <1>4, <2>2, <2>3
    <2>5. /\ r.found \in BOOLEAN
          /\ ~r.found => \A j \in M : j < s
          /\ r.found => /\ r.index \in M /\ s <= r.index /\ \A j \in M : s <= j => r.index <= j
                        /\ r.rank = CountIn(T, s, r.index - 1)
                        /\ r.count = get_slot_info(qf, r.index).count
      BY <2>4 DEF Answer
    <2>. HIDE DEF B, T, M
    <2>6. \A j \in M : s <= j /\ j \in Nat
      BY <1>1, <2>2
    <2>7. ~r.found => M = {}
      <3>1. ASSUME ~r.found, NEW j \in M PROVE FALSE
        BY <2>1, <2>5, <2>6, <3>1
      <3>. QED
        BY <3>1
    <2>8. ASSUME r.found PROVE r.rank = CountIn(T, 0, r.index - 1)
      <3>. DEFINE x == r.index
                  y == x - 1
      <3>0. x \in Nat /\ s <= x /\ T \in SUBSET Nat
        BY <1>1, <2>5, <2>6, <2>8
      <3>. HIDE DEF x
      <3>1. x \in Nat /\ s <= x /\ y \in Int /\ s - 1 <= y /\ s - 1 \in Int /\ 0 <= (s - 1) + 1
            /\ T \in SUBSET Nat /\ (s - 1) + 1 = s
        BY <2>1, <3>0
      <3>. HIDE DEF x, y
      <3>2. CountIn(T, 0, y) = CountIn(T, 0, s - 1) + CountIn(T, (s - 1) + 1, y)
        BY <3>1, CountSplit
      <3>3. CountIn(T, 0, s - 1) = 0
        <4>1. ASSUME NEW j \in T, j <= s - 1 PROVE FALSE
          <5>1. j \in Nat /\ s <= j
            BY <1>1, <2>2, <3>1
          <5>. QED
            BY <2>1, <4>1, <5>1
        <4>. QED
          BY <4>1, CountNone
      <3>4. CountIn(T, s, y) \in Nat
        <4>1. CountIn(T, s, y) \in 0 .. y - s + 1 
          BY <2>1, <3>1, CountType
        <4>. QED
          BY <2>1, <3>1, <4>1
      <3>5. r.rank = CountIn(T, s, y)
        BY <2>5, <2>8 DEF x, y
      <3>. QED
        BY <3>1, <3>2, <3>3, <3>4, <3>5 DEF x, y
    <2>9. /\ r.found <=> M # {}
          /\ r.found => /\ r.index \in M /\ \A j \in M : r.index <= j
                        /\ r.count = get_slot_info(qf, r.index).count
      BY <2>5, <2>6, <2>7
    <2>. QED
      BY <2>8, <2>9 DEF M, T
  <1>. QED
    BY <1>5, <1>6

-----------------------------------------------------------------------------
(***************************************************************************)
(* The walk of qf_adapt_using_ll_table                                     *)
(***************************************************************************)
\* The slot i holds the remainder rem.
HoldsRem(qf, rem, i) == i < XnSlots /\ get_slot(qf, i) = rem
\* The first slot from i on of an item with at least that remainder.
NextAtLeast(qf, rem, i) ==
    FirstFrom({j \in (Slots \ qf.extensions) \cup {i} : get_slot(qf, j) >= rem}, i)

\* The index of rank m, if g has those of the ranks before.
WalkStep(qf, hash, g, m) ==
    LET rem == remainder(hash)
        i == g[m - 1]
        info == get_slot_info(qf, i)
    IN IF m = 0 THEN NextAtLeast(qf, rem, run_start(qf, bucket(hash)))
       ELSE IF HoldsRem(qf, rem, i) /\ ~is_runend(qf, i)
            THEN NextAtLeast(qf, rem, i + 1 + info.ext_len + info.count_len)
       ELSE PastEnd

\* g has the indices of the ranks up to n.
IsWalk(qf, hash, n, g) == g = [m \in 0 .. n |-> WalkStep(qf, hash, g, m)]

\* The walk's definition by its steps.
LEMMA WalkDef ==
    ASSUME NEW qf, NEW orig, NEW hash, NEW m
    PROVE  LET i == (CHOOSE g : IsWalk(qf, hash, PastEnd, g))[m]
           IN  qf_adapt_using_ll_table(qf, orig, hash, m)
                 = IF bucket(hash) \in qf.occupieds /\ HoldsRem(qf, remainder(hash), i)
                   THEN qf_adapt(qf, i, orig, hash) ELSE qf
  BY DEF qf_adapt_using_ll_table, IsWalk, WalkStep, HoldsRem, NextAtLeast, is_occupied

\* There is such a walk.
LEMMA WalkExists ==
    ASSUME NEW qf, NEW hash, NEW n \in Nat
    PROVE  \E g : IsWalk(qf, hash, n, g)
  <1>. DEFINE K == {k \in Nat : k <= n /\ \E g : IsWalk(qf, hash, k, g)}
              c == WalkStep(qf, hash, <<>>, 0)
  <1>1. 0 \in K
    <2>. DEFINE g == [m \in 0 .. 0 |-> c]
    <2>1. \A m \in 0 .. 0 : m = 0
      OBVIOUS
    <2>2. WalkStep(qf, hash, g, 0) = c
      BY DEF WalkStep
    <2>. HIDE DEF c
    <2>3. g = [m \in 0 .. 0 |-> WalkStep(qf, hash, g, m)]
      BY <2>1, <2>2
    <2>. HIDE DEF g
    <2>. QED
      BY <2>3 DEF IsWalk
  <1>2. PICK k \in K : \A m \in K : m <= k
    <2>1. K \in SUBSET Nat /\ K # {} /\ \A m \in K : m <= n
      BY <1>1
    <2>. HIDE DEF K
    <2>. QED
      BY <2>1, MaxOfNats
  <1>3. k \in Nat /\ k <= n
    OBVIOUS
  <1>4. PICK g : IsWalk(qf, hash, k, g)
    OBVIOUS
  <1>5. CASE k = n
    BY <1>4, <1>5
  <1>6. CASE k # n
    <2>. DEFINE p == k + 1
                new == [m \in 0 .. p |-> IF m = p THEN WalkStep(qf, hash, g, p) ELSE g[m]]
    <2>1. p \in Nat /\ p <= n /\ ~(p <= k)
      BY <1>3, <1>6
    <2>2. ASSUME NEW m \in 0 .. p PROVE new[m] = WalkStep(qf, hash, new, m)
      <3>1. m # 0 => m - 1 \in 0 .. p /\ m - 1 # p
        BY <2>1
      <3>2. m # 0 => new[m - 1] = g[m - 1]
        BY <3>1
      <3>. HIDE DEF new
      <3>3. WalkStep(qf, hash, new, m) = WalkStep(qf, hash, g, m)
        BY <3>2 DEF WalkStep
      <3>. USE DEF new
      <3>4. CASE m = p
        <4>1. new[m] = WalkStep(qf, hash, g, p)
          BY <3>4
        <4>. QED
          BY <3>3, <3>4, <4>1
      <3>5. CASE m # p
        <4>1. m \in 0 .. k
          BY <1>3, <2>1, <3>5
        <4>2. g[m] = WalkStep(qf, hash, g, m)
          <5>. HIDE DEF new
          <5>. QED
            BY <1>4, <4>1 DEF IsWalk
        <4>3. new[m] = g[m]
          BY <3>5
        <4>. QED
          BY <3>3, <4>2, <4>3
      <3>. QED
        BY <3>4, <3>5
    <2>3. IsWalk(qf, hash, p, new)
      <3>1. new = [m \in 0 .. p |-> new[m]]
        OBVIOUS
      <3>. HIDE DEF new
      <3>2. new = [m \in 0 .. p |-> WalkStep(qf, hash, new, m)]
        BY <2>2, <3>1
      <3>. QED
        BY <3>2 DEF IsWalk
    <2>4. p \in K
      <3>. HIDE DEF new, p
      <3>. QED
        BY <2>1, <2>3
    <2>. QED
      BY <1>2, <2>1, <2>4
  <1>. QED
    BY <1>5, <1>6

\* From an item of the run on, up to a later item of the minirun.
LEMMA NextAtLeastIs ==
    ASSUME NEW qf, NEW U, NEW h, Homed(qf, U, h), NEW hash,
           NEW i \in Items(qf, U, h, bucket(hash)), NEW x \in Minirun(qf, U, h, hash), i <= x,
           remainder(hash) \in Int, \A j \in Slots : get_slot(qf, j) \in Int,
           NEW j, j = NextAtLeast(qf, remainder(hash), i)
    PROVE  /\ j \in Items(qf, U, h, bucket(hash)) /\ j \in Nat /\ i <= j /\ j <= x
           /\ get_slot(qf, j) >= remainder(hash)
           /\ get_slot(qf, j) = remainder(hash) => j \in Minirun(qf, U, h, hash)
           /\ \A k \in Minirun(qf, U, h, hash) : i <= k => j <= k
  <1>. DEFINE rem == remainder(hash)
              b == bucket(hash)
              B == Items(qf, U, h, b)
              S == {k \in (Slots \ qf.extensions) \cup {i} : get_slot(qf, k) >= rem}
  <1>1. /\ Laid(U, h, PastEnd) /\ PastEnd \in Nat /\ U \in SUBSET Slots /\ Slots \in SUBSET Nat
        /\ \A k \in U : k \in Nat /\ k < PastEnd
    BY HomedTypes, Sizes
  <1>2. /\ i \in U /\ i \in Nat /\ h[i] = b /\ i \notin qf.extensions
        /\ x \in U /\ x \in Nat /\ h[x] = b /\ x \notin qf.extensions /\ x < PastEnd
        /\ get_slot(qf, x) = rem
    BY <1>1 DEF Items, Minirun
  <1>3. S \in SUBSET Nat /\ x \in S /\ j = FirstFrom(S, i)
    <2>1. rem \in Int /\ x \in Slots
      BY <1>1, <1>2
    <2>2. get_slot(qf, x) >= rem
      <3>. HIDE DEF rem
      <3>. QED
        BY <1>2, <2>1
    <2>3. x \in (Slots \ qf.extensions) \cup {i}
      BY <1>2, <2>1
    <2>4. j = FirstFrom(S, i)
      BY DEF NextAtLeast
    <2>. HIDE DEF rem
    <2>. QED
      BY <1>1, <1>2, <2>2, <2>3, <2>4
  <1>4. \/ j \in S /\ i <= j /\ \A k \in S : i <= k => j <= k
        \/ j = PastEnd /\ \A k \in S : k < i
    <2>. HIDE DEF S
    <2>. QED
      BY <1>2, <1>3, FirstFromIs
  <1>5. j \in S /\ i <= j /\ j <= x /\ j \in Nat /\ \A k \in S : i <= k => j <= k
    BY <1>2, <1>3, <1>4
  <1>6. j \in U /\ h[j] = b /\ j \notin qf.extensions
    <2>1. h[i] = h[x]
      BY <1>2
    <2>2. j \in U /\ h[j] = h[i]
      BY <1>1, <1>2, <1>5, <2>1, InRun
    <2>. QED
      BY <1>2, <1>5, <2>2
  <1>7. ASSUME NEW k \in Minirun(qf, U, h, hash), i <= k PROVE j <= k
    <2>1. k \in U /\ k \notin qf.extensions /\ get_slot(qf, k) = rem
      BY DEF Minirun, Items
    <2>2. k \in S
      BY <1>1, <2>1
    <2>. QED
      BY <1>5, <1>7, <2>2
  <1>. QED
    BY <1>5, <1>6, <1>7 DEF Items, Minirun

\* Remainders and the contents of slots are slot values, get_slot's answer
\* behind the filter is none.
LEMMA SlotTypes ==
    /\ \A qf \in Filters, j \in Slots : get_slot(qf, j) \in Nat
    /\ \A hash \in Nat : remainder(hash) \in SlotValues /\ remainder(hash) \in Nat
    /\ SlotValues \in SUBSET Nat /\ 0 \in SlotValues
  <1>. DEFINE P == 2 ^ BitsPerSlot
  <1>1. P \in Nat \ {0}
    BY GQFAssumption, PowerOfTwo
  <1>2. SlotValues = 0 .. P - 1
    BY DEF SlotValues
  <1>3. ASSUME NEW qf \in Filters, NEW j \in Slots PROVE get_slot(qf, j) \in Nat
    <2>1. get_slot(qf, j) = P \/ get_slot(qf, j) = qf.slots[j]
      BY DEF get_slot
    <2>2. qf.slots[j] \in SlotValues
      BY DEF Filters
    <2>. HIDE DEF P
    <2>. QED
      BY <1>1, <1>2, <2>1, <2>2
  <1>4. ASSUME NEW hash \in Nat PROVE remainder(hash) \in 0 .. P - 1
    <2>1. remainder(hash) = hash % P
      BY DEF remainder
    <2>. HIDE DEF P
    <2>. QED
      BY <1>1, <2>1, DivFacts
  <1>. HIDE DEF P
  <1>. QED
    BY <1>1, <1>2, <1>3, <1>4

\* The walk of rank m, if it stays on items of the minirun, arrives at the
\* item with m of them in front of it.
LEMMA WalkFinds ==
    ASSUME NEW qf \in Filters, NEW U, NEW h, Homed(qf, U, h), Stored(qf, U, h), ChunksFirst(qf),
           NEW hash \in Nat, NEW x \in Minirun(qf, U, h, hash),
           NEW g, IsWalk(qf, hash, PastEnd, g), NEW m \in Nat,
           m <= CountIn(Minirun(qf, U, h, hash), 0, x - 1), HoldsRem(qf, remainder(hash), g[m])
    PROVE  /\ g[m] \in Minirun(qf, U, h, hash) /\ g[m] <= x
           /\ CountIn(Minirun(qf, U, h, hash), 0, g[m] - 1) = m
  <1>. DEFINE T == Minirun(qf, U, h, hash)
              b == bucket(hash)
              B == Items(qf, U, h, b)
              rem == remainder(hash)
              rank == CountIn(T, 0, x - 1)
              Good(k) == HoldsRem(qf, rem, g[k])
                           => g[k] \in T /\ g[k] <= x /\ CountIn(T, 0, g[k] - 1) = k
              Wrong == {k \in Nat : k <= m /\ ~Good(k)}
  <1>1. /\ PastEnd \in Nat /\ XnSlots \in Nat /\ XnSlots <= PastEnd /\ Slots = 0 .. PastEnd - 1
        /\ U \in SUBSET Slots /\ B \in SUBSET U /\ T \in SUBSET B /\ T \in SUBSET Nat /\ B \in SUBSET Nat
        /\ qf.extensions \in SUBSET Slots
        /\ x \in T /\ x \in Nat /\ x < PastEnd
    BY HomedTypes, Sizes DEF Items, Minirun
  <1>2. rem \in Int /\ \A j \in Slots : get_slot(qf, j) \in Int
    BY SlotTypes
  <1>3. m <= PastEnd /\ m <= rank /\ rank \in Nat
    <2>. DEFINE y == x - 1
    <2>1. y \in Int /\ 0 <= y + 1 /\ y + 1 < PastEnd
      BY <1>1
    <2>. HIDE DEF y
    <2>2. CountIn(T, 0, y) \in 0 .. y - 0 + 1
      BY <1>1, <2>1, CountType
    <2>3. rank = CountIn(T, 0, y)
      BY DEF y
    <2>. HIDE DEF rank, T
    <2>4. m <= rank
      BY DEF rank, T
    <2>. QED
      BY <1>1, <2>1, <2>2, <2>3, <2>4
  <1>4. ASSUME NEW k \in Nat, k <= m PROVE g[k] = WalkStep(qf, hash, g, k)
    <2>1. k \in 0 .. PastEnd
      BY <1>1, <1>3, <1>4
    <2>. QED
      BY <2>1 DEF IsWalk
  <1>5. Good(0)
    <2>. DEFINE s == run_start(qf, b)
    <2>1. b \in Homes(U, h)
      BY <1>1 DEF Items, Minirun, Homes
    <2>2. /\ s \in U /\ s \in Nat /\ h[s] = b /\ s \notin qf.extensions
          /\ \A i \in U : h[i] = b => s <= i
      BY <2>1, RunStartIs
    <2>3. s \in B /\ \A i \in B : s <= i
      BY <2>2 DEF Items
    <2>4. g[0] = NextAtLeast(qf, rem, s)
      BY <1>4 DEF WalkStep
    <2>. DEFINE j == g[0]
    <2>5. s <= x
      BY <1>1, <2>3
    <2>. HIDE DEF s
    <2>6. /\ j \in B /\ j \in Nat /\ s <= j /\ j <= x
          /\ get_slot(qf, j) = rem => j \in T
          /\ \A k \in T : s <= k => j <= k
      <3>. HIDE DEF j
      <3>1. j = NextAtLeast(qf, rem, s)
        BY <2>4 DEF j
      <3>. QED
        BY <1>1, <1>2, <2>3, <2>5, <3>1, NextAtLeastIs
    <2>7. \A k \in T : ~(0 <= k /\ k <= j - 1)
      <3>1. \A k \in T : k \in Nat /\ j <= k
        BY <1>1, <2>3, <2>6
      <3>. QED
        BY <2>6, <3>1
    <2>8. CountIn(T, 0, j - 1) = 0
      BY <2>7, CountNone
    <2>. QED
      BY <2>6, <2>8 DEF HoldsRem
  <1>6. ASSUME NEW k \in Nat, k + 1 <= m, Good(k) PROVE Good(k + 1)
    <2>. DEFINE i == g[k]
                j == g[k + 1]
                info == get_slot_info(qf, i)
    <2>1. SUFFICES ASSUME HoldsRem(qf, rem, j)
                   PROVE  j \in T /\ j <= x /\ CountIn(T, 0, j - 1) = k + 1
      OBVIOUS
    <2>2. j = IF HoldsRem(qf, rem, i) /\ ~is_runend(qf, i)
              THEN NextAtLeast(qf, rem, i + 1 + info.ext_len + info.count_len) ELSE PastEnd
      <3>1. k + 1 # 0 /\ (k + 1) - 1 = k
        OBVIOUS
      <3>2. j = WalkStep(qf, hash, g, k + 1)
        BY <1>4, <1>6
      <3>. QED
        BY <3>1, <3>2 DEF WalkStep
    <2>3. HoldsRem(qf, rem, i) /\ ~is_runend(qf, i)
      <3>1. j # PastEnd
        BY <1>1, <2>1 DEF HoldsRem
      <3>. QED
        BY <2>2, <3>1
    <2>4. /\ i \in T /\ i \in B /\ i \in U /\ i \in Nat /\ i <= x /\ CountIn(T, 0, i - 1) = k
          /\ i \notin RunEnds(qf)
      <3>1. i \in T /\ i <= x /\ CountIn(T, 0, i - 1) = k
        BY <1>6, <2>3
      <3>. QED
        BY <1>1, <2>3, <3>1 DEF is_runend, RunEnds
    <2>. DEFINE n == skip_extensions(qf, i + 1)
    <2>5. i + 1 + info.ext_len + info.count_len = n
      BY <2>4, InfoIs
    <2>6. /\ n \in B /\ n \in Nat /\ i < n /\ \A y \in B : i < y => n <= y
      BY <2>4, NextItem
    <2>7. i # x
      <3>1. k < rank
        <4>. HIDE DEF rank, Good, i, j
        <4>. QED
          BY <1>3, <1>6
      <3>. QED
        BY <1>3, <2>4, <3>1
    <2>8. n <= x
      BY <1>1, <2>4, <2>6, <2>7
    <2>9. j = NextAtLeast(qf, rem, n)
      BY <2>2, <2>3, <2>5
    <2>. HIDE DEF n, j
    <2>10. /\ j \in B /\ j \in Nat /\ n <= j /\ j <= x
           /\ get_slot(qf, j) = rem => j \in T
           /\ \A y \in T : n <= y => j <= y
      BY <1>1, <1>2, <2>6, <2>8, <2>9, NextAtLeastIs
    <2>11. j \in T
      BY <2>1, <2>10 DEF HoldsRem
    <2>. HIDE DEF i, T, B
    <2>12. CountIn(T, i, j - 1) = 1 + CountIn(T, n, j - 1)
      <3>1. n = skip_extensions(qf, i + 1) /\ T \in SUBSET Items(qf, U, h, b) /\ i \in Items(qf, U, h, b)
        BY <1>1, <2>4 DEF n, B
      <3>2. CountIn(T, i, j - 1) = (IF i \in T THEN 1 ELSE 0) + CountIn(T, n, j - 1)
        BY <2>4, <2>10, <3>1, RankStep
      <3>. QED
        BY <2>4, <3>2
    <2>13. CountIn(T, n, j - 1) = 0
      <3>1. \A y \in T : ~(n <= y /\ y <= j - 1)
        <4>1. \A y \in T : y \in Nat /\ (n <= y => j <= y)
          BY <1>1, <2>10
        <4>. QED
          BY <2>10, <4>1
      <3>. QED
        BY <3>1, CountNone
    <2>14. CountIn(T, 0, j - 1) = CountIn(T, 0, i - 1) + CountIn(T, i, j - 1)
      <3>. DEFINE y == j - 1
                  z == i - 1
      <3>1. y \in Int /\ z \in Int /\ 0 <= z + 1 /\ z <= y /\ z + 1 = i
        BY <2>4, <2>6, <2>10
      <3>. HIDE DEF y, z
      <3>2. CountIn(T, 0, y) = CountIn(T, 0, z) + CountIn(T, z + 1, y)
        BY <1>1, <3>1, CountSplit
      <3>. QED
        BY <3>1, <3>2 DEF y, z
    <2>. QED
      BY <2>4, <2>10, <2>11, <2>12, <2>13, <2>14
  <1>. HIDE DEF Good
  <1>7. Wrong = {}
    <2>1. SUFFICES ASSUME Wrong # {} PROVE FALSE
      OBVIOUS
    <2>2. PICK k \in Wrong : \A y \in Wrong : k <= y
      <3>1. Wrong \in SUBSET Nat
        OBVIOUS
      <3>. HIDE DEF Wrong
      <3>. QED
        BY <2>1, <3>1, SmallestNat
    <2>3. k \in Nat /\ k <= m /\ ~Good(k) /\ k # 0
      BY <1>5
    <2>. DEFINE p == k - 1
    <2>4. p \in Nat /\ p + 1 = k /\ p <= m /\ ~(k <= p)
      BY <2>3
    <2>. HIDE DEF p
    <2>5. Good(p)
      <3>1. p \notin Wrong
        BY <2>2, <2>4
      <3>. QED
        BY <2>4, <3>1
    <2>6. Good(p + 1)
      BY <1>6, <2>3, <2>4, <2>5
    <2>. QED
      BY <2>3, <2>4, <2>6
  <1>8. Good(m)
    <2>1. m \notin Wrong
      BY <1>7
    <2>. QED
      BY <2>1
  <1>. QED
    BY <1>8 DEF Good

(***************************************************************************)
(* qf_adapt_using_ll_table, given the rank a query answered, adapts the    *)
(* item of that rank, or leaves the filter alone.                          *)
(***************************************************************************)
THEOREM WalkExact ==
    ASSUME NEW qf \in Filters, NEW U, NEW h, Homed(qf, U, h), Stored(qf, U, h), ChunksFirst(qf),
           \A j \in U : j < XnSlots, NEW orig, NEW hash \in Nat,
           Lookup(qf, hash).found,
           NEW m \in Nat, m <= Lookup(qf, hash).rank
    PROVE  \/ qf_adapt_using_ll_table(qf, orig, hash, m) = qf
           \/ \E j \in Minirun(qf, U, h, hash) :
                 /\ CountIn(Minirun(qf, U, h, hash), 0, j - 1) = m
                 /\ qf_adapt_using_ll_table(qf, orig, hash, m) = qf_adapt(qf, j, orig, hash)
  <1>. DEFINE r == Lookup(qf, hash)
              T == Minirun(qf, U, h, hash)
              g == CHOOSE w : IsWalk(qf, hash, PastEnd, w)
              j == g[m]
  <1>1. r.index \in T /\ r.rank = CountIn(T, 0, r.index - 1)
    <2>. HIDE DEF T
    <2>. QED
      BY LookupExact DEF Matching, T
  <1>2. IsWalk(qf, hash, PastEnd, g)
    BY WalkExists, Sizes
  <1>3. qf_adapt_using_ll_table(qf, orig, hash, m)
          = IF bucket(hash) \in qf.occupieds /\ HoldsRem(qf, remainder(hash), j)
            THEN qf_adapt(qf, j, orig, hash) ELSE qf
    BY WalkDef
  <1>. HIDE DEF g
  <1>4. CASE HoldsRem(qf, remainder(hash), j)
    <2>1. j \in T /\ CountIn(T, 0, j - 1) = m
      BY <1>1, <1>2, <1>4, WalkFinds
    <2>. QED
      BY <1>3, <2>1
  <1>5. CASE ~HoldsRem(qf, remainder(hash), j)
    BY <1>3, <1>5
  <1>. QED
    BY <1>4, <1>5

-----------------------------------------------------------------------------
(***************************************************************************)
(* Insertion keeps the filter in shape                                     *)
(***************************************************************************)
\* No slot behind the filter's last is in use.
Fits(U) == \A i \in U : i < XnSlots

\* The filter is in the shape of some layout.
Kept(qf) == \E U, h : Shaped(qf, U, h) /\ Fits(U)

\* Buckets are home slots.
LEMMA BucketType ==
    ASSUME NEW hash \in Nat
    PROVE  /\ bucket(hash) \in Buckets /\ bucket(hash) \in Nat /\ bucket(hash) \in Slots
           /\ bucket(hash) < XnSlots /\ bucket(hash) < PastEnd
  <1>. DEFINE P == 2 ^ BitsPerSlot
              Q == 2 ^ QuotientBits
  <1>1. P \in Nat \ {0} /\ Q \in Nat \ {0}
    BY GQFAssumption, PowerOfTwo
  <1>2. bucket(hash) = (hash \div P) % Q /\ nslots = Q
    BY DEF bucket, nslots
  <1>. HIDE DEF P, Q
  <1>3. hash \div P \in Nat
    BY <1>1, DivFacts
  <1>4. bucket(hash) \in 0 .. Q - 1
    BY <1>1, <1>2, <1>3, DivFacts
  <1>. QED
    BY <1>1, <1>2, <1>4, Sizes DEF Buckets

\* A filter with new fields.
Updated(qf, slots, occupieds, runends, extensions, noccupied, nelts, ndistinct) ==
    [slots |-> slots, occupieds |-> occupieds, runends |-> runends, extensions |-> extensions,
     offset |-> qf.offset, noccupied_slots |-> noccupied, nelts |-> nelts, ndistinct_elts |-> ndistinct]

\* Its fields are those, and their ranges are the filter's.
LEMMA UpdatedFields ==
    ASSUME NEW qf \in Filters, NEW slots \in [Slots -> SlotValues], NEW occupieds \in SUBSET Buckets,
           NEW runends \in SUBSET Slots, NEW extensions \in SUBSET Slots,
           NEW noccupied \in Nat, NEW nelts \in Nat, NEW ndistinct \in Nat,
           NEW new, new = Updated(qf, slots, occupieds, runends, extensions, noccupied, nelts, ndistinct)
    PROVE  /\ new \in Filters /\ new.occupieds = occupieds /\ new.runends = runends
           /\ new.extensions = extensions /\ new.offset = qf.offset
           /\ new.noccupied_slots = noccupied /\ new.slots = slots
  BY DEF Updated, Filters

\* make_space where there is space.
LEMMA SpaceMade ==
    ASSUME NEW qf, NEW U, NEW h, Shaped(qf, U, h), NEW b \in Nat, NEW at \in Nat, HasSpace(qf, at),
           NEW value \in SlotValues, NEW u, u = find_first_empty_slot(qf, at),
           NEW new, new = make_space(qf, b, at, u, value)
    PROVE  /\ insert_one_slot(qf, b, at, value) = new
           /\ FreeFrom(U, at, u) /\ u < PastEnd /\ u < XnSlots /\ u \in Nat /\ at <= u
           /\ new \in Filters /\ new.occupieds = qf.occupieds
           /\ new.runends = ShiftBits(qf.runends, at, u)
           /\ new.extensions = ShiftBits(qf.extensions, at, u)
           /\ Nudged(qf, b, u, new)
           /\ new.noccupied_slots = qf.noccupied_slots
           /\ new.slots = ShiftedSlots(qf, at, u, value)
  <1>1. u < XnSlots
    BY DEF HasSpace
  <1>2. FreeFrom(U, at, u) /\ u < PastEnd /\ u \in Slots /\ u \in Nat /\ at <= u
    <2>1. Homed(qf, U, h) /\ Stored(qf, U, h)
      BY DEF Shaped
    <2>2. FreeFrom(U, at, u) /\ u < PastEnd /\ u \in Slots
      BY <1>1, <2>1, SpaceFound
    <2>. QED
      BY <2>2 DEF FreeFrom
  <1>3. ~(u >= XnSlots)
    BY <1>1, <1>2, Sizes
  <1>4. insert_one_slot(qf, b, at, value) = new
    BY <1>3 DEF insert_one_slot
  <1>5. qf \in Filters
    BY DEF Shaped
  <1>6. /\ new \in Filters
        /\ new.occupieds = qf.occupieds
        /\ new.runends = ShiftBits(qf.runends, at, u)
        /\ new.extensions = ShiftBits(qf.extensions, at, u)
        /\ new.offset = [k \in Blocks |->
               IF b \div SlotsPerBlock < k /\ k <= u \div SlotsPerBlock /\ qf.offset[k] < OffsetMax
               THEN qf.offset[k] + 1 ELSE qf.offset[k]]
        /\ new.noccupied_slots = qf.noccupied_slots
        /\ new.slots = ShiftedSlots(qf, at, u, value)
    BY <1>2, <1>5, MakeSpaceFields
  <1>. QED
    BY <1>1, <1>2, <1>4, <1>6 DEF Nudged

\* An insertion into an empty home slot.
LEMMA HomeInserted ==
    ASSUME NEW qf, NEW U, NEW h, Shaped(qf, U, h), NEW hash \in Nat, bucket(hash) \notin U,
           NEW new, new = insert_at_home(qf, hash, 1)
    PROVE  /\ Shaped(new, U \cup {bucket(hash)}, AloneHomes(U, h, bucket(hash)))
           /\ new.slots = [qf.slots EXCEPT ![bucket(hash)] = remainder(hash)]
           /\ new.extensions = qf.extensions
  <1>. DEFINE b == bucket(hash)
              rem == remainder(hash)
              slots == [qf.slots EXCEPT ![b] = rem]
  <1>1. b \in Buckets /\ b \in Slots /\ rem \in SlotValues
    BY BucketType, SlotTypes
  <1>2. qf \in Filters
    BY DEF Shaped
  <1>3. new = [qf EXCEPT !.slots[b] = rem, !.runends = @ \cup {b}, !.occupieds = @ \cup {b},
                         !.ndistinct_elts = @ + 1, !.noccupied_slots = @ + 1, !.nelts = @ + 1]
    <2>1. ~(1 > 1)
      OBVIOUS
    <2>2. new = counted([qf EXCEPT !.slots[b] = rem, !.runends = @ \cup {b}, !.occupieds = @ \cup {b}], 1)
      BY <2>1 DEF insert_at_home, add_counter
    <2>. QED
      BY <1>2, <2>2 DEF counted, Filters
  <1>4. slots \in [Slots -> SlotValues]
    BY <1>1, <1>2 DEF Filters
  <1>5. new = Updated(qf, slots, qf.occupieds \cup {b}, qf.runends \cup {b}, qf.extensions,
                      qf.noccupied_slots + 1, qf.nelts + 1, qf.ndistinct_elts + 1)
    BY <1>2, <1>3 DEF Filters, Updated
  <1>. HIDE DEF slots, b, rem
  <1>6. /\ new \in Filters /\ new.occupieds = qf.occupieds \cup {b}
        /\ new.extensions = qf.extensions /\ new.runends = qf.runends \cup {b}
        /\ new.offset = qf.offset /\ new.noccupied_slots = qf.noccupied_slots + 1 /\ new.slots = slots
    <2>1. /\ qf.occupieds \cup {b} \in SUBSET Buckets /\ qf.runends \cup {b} \in SUBSET Slots
          /\ qf.extensions \in SUBSET Slots /\ qf.noccupied_slots + 1 \in Nat
          /\ qf.nelts + 1 \in Nat /\ qf.ndistinct_elts + 1 \in Nat
      BY <1>1, <1>2 DEF Filters
    <2>. QED
      BY <1>2, <1>4, <1>5, <2>1, UpdatedFields
  <1>7. b \notin U
    BY DEF b
  <1>8. Shaped(new, U \cup {b}, AloneHomes(U, h, b))
    BY <1>1, <1>6, <1>7, AloneShaped
  <1>. QED
    BY <1>6, <1>8 DEF b, rem, slots

\* new is qf with one remainder more, in slot at: u is the free slot that took
\* the shift, and every slot, run end and extension bit of [at, u) moved up by one.
ItemPut(qf, U, h, q, at, u, rem, new) ==
    /\ u < XnSlots /\ Shaped(new, U \cup {u}, PutHomes(U, h, q, u))
    /\ at \in Nat /\ FreeFrom(U, at, u)
    /\ new.slots = ShiftedSlots(qf, at, u, rem)
    /\ new.extensions = ShiftBits(qf.extensions, at, u)

\* An insertion that starts a run elsewhere than in its home slot.
LEMMA NewRunInserted ==
    ASSUME NEW qf, NEW U, NEW h, Shaped(qf, U, h), NEW hash \in Nat, bucket(hash) \in U,
           bucket(hash) \notin Homes(U, h),
           NEW at, at = EndOf(U, h, bucket(hash)) + 1, HasSpace(qf, at),
           NEW u, u = find_first_empty_slot(qf, at),
           NEW new, new = insert_new_run(qf, hash, 1)
    PROVE  ItemPut(qf, U, h, bucket(hash), at, u, remainder(hash), new)
  <1>. DEFINE b == bucket(hash)
              rem == remainder(hash)
              moved == make_space(qf, b, at, u, rem)
  <1>1. b \in Buckets /\ b \in Nat /\ rem \in SlotValues
    BY BucketType, SlotTypes
  <1>2. qf \in Filters /\ Homed(qf, U, h) /\ Stored(qf, U, h) /\ Laid(U, h, PastEnd)
    BY DEF Shaped, Homed
  <1>3. at \in Nat /\ at = run_start(qf, b)
    <2>1. EndOf(U, h, b) \in Nat
      BY <1>2, EndFacts
    <2>2. run_start(qf, b) = EndOf(U, h, b) + 1
      BY <1>2, NewRunStart
    <2>. QED
      BY <2>1, <2>2
  <1>4. /\ insert_one_slot(qf, b, at, rem) = moved
        /\ FreeFrom(U, at, u) /\ u < PastEnd /\ u < XnSlots /\ u \in Nat /\ at <= u
        /\ moved \in Filters /\ moved.occupieds = qf.occupieds
        /\ moved.runends = ShiftBits(qf.runends, at, u)
        /\ moved.extensions = ShiftBits(qf.extensions, at, u)
        /\ Nudged(qf, b, u, moved)
        /\ moved.noccupied_slots = qf.noccupied_slots
        /\ moved.slots = ShiftedSlots(qf, at, u, rem)
    <2>. HIDE DEF b, rem, moved
    <2>1. moved = make_space(qf, b, at, u, rem)
      BY DEF moved
    <2>. QED
      BY <1>1, <1>3, <2>1, SpaceMade
  <1>. HIDE DEF moved
  <1>5. new = Updated(moved, moved.slots, moved.occupieds \cup {b}, moved.runends \cup {at}, moved.extensions,
                      moved.noccupied_slots + 1, moved.nelts + 1, moved.ndistinct_elts + 1)
    <2>1. ~(1 > 1)
      OBVIOUS
    <2>2. new = counted([moved EXCEPT !.runends = @ \cup {at}, !.occupieds = @ \cup {b}], 1)
      BY <1>3, <1>4, <2>1 DEF insert_new_run, add_counter
    <2>. QED
      BY <1>4, <2>2 DEF counted, Filters, Updated
  <1>6. at \in Slots
    BY <1>3, <1>4, Sizes
  <1>7. b \in U /\ b \notin Homes(U, h) /\ at = EndOf(U, h, b) + 1
    OBVIOUS
  <1>. HIDE DEF b, rem
  <1>8. /\ new \in Filters /\ new.occupieds = qf.occupieds \cup {b}
        /\ new.extensions = ShiftBits(qf.extensions, at, u)
        /\ new.runends = ShiftBits(qf.runends, at, u) \cup {at}
        /\ new.offset = moved.offset /\ new.noccupied_slots = qf.noccupied_slots + 1
        /\ new.slots = ShiftedSlots(qf, at, u, rem)
    <2>1. /\ moved.occupieds \cup {b} \in SUBSET Buckets /\ moved.runends \cup {at} \in SUBSET Slots
          /\ moved.extensions \in SUBSET Slots /\ moved.noccupied_slots + 1 \in Nat
          /\ moved.nelts + 1 \in Nat /\ moved.ndistinct_elts + 1 \in Nat
          /\ moved.slots \in [Slots -> SlotValues]
      BY <1>1, <1>4, <1>6 DEF Filters
    <2>2. /\ new \in Filters /\ new.occupieds = moved.occupieds \cup {b}
          /\ new.extensions = moved.extensions /\ new.runends = moved.runends \cup {at}
          /\ new.offset = moved.offset /\ new.noccupied_slots = moved.noccupied_slots + 1
          /\ new.slots = moved.slots
      BY <1>4, <1>5, <2>1, UpdatedFields
    <2>. QED
      BY <1>4, <2>2
  <1>9. Nudged(qf, b, u, new)
    BY <1>4, <1>8 DEF Nudged
  <1>10. Shaped(new, U \cup {u}, PutHomes(U, h, b, u))
    BY <1>4, <1>7, <1>8, <1>9, NewRunShaped
  <1>. QED
    BY <1>3, <1>4, <1>8, <1>10 DEF b, rem, ItemPut

\* An insertion among the items of a run, in front of one of them or behind the
\* last one.
LEMMA InRunInserted ==
    ASSUME NEW qf, NEW U, NEW h, Shaped(qf, U, h), NEW hash \in Nat,
           NEW index \in Items(qf, U, h, bucket(hash)), NEW at_end \in BOOLEAN,
           at_end => index \in RunEnds(qf), NEW added \in Nat,
           NEW at, at = IF at_end THEN EndOf(U, h, bucket(hash)) + 1 ELSE index, HasSpace(qf, at),
           NEW u, u = find_first_empty_slot(qf, at),
           NEW new, new = insert_in_run(qf, hash, 1, index, at_end, added)
    PROVE  ItemPut(qf, U, h, bucket(hash), at, u, remainder(hash), new)
  <1>. DEFINE b == bucket(hash)
              rem == remainder(hash)
              moved == make_space(qf, b, at, u, rem)
              Flip(bits, i) == IF i \in bits THEN bits \ {i} ELSE bits \cup {i}
              ends == IF at_end THEN Flip(moved.runends \cup {at}, index) ELSE moved.runends
  <1>1. b \in Buckets /\ b \in Nat /\ rem \in SlotValues
    BY BucketType, SlotTypes
  <1>2. /\ qf \in Filters /\ Homed(qf, U, h) /\ Stored(qf, U, h) /\ Laid(U, h, PastEnd)
        /\ qf.occupieds = Homes(U, h) /\ qf.runends \in SUBSET Nat
    BY ChunkFacts DEF Shaped, Homed
  <1>3. index \in U /\ index \in Nat /\ h[index] = b /\ index \notin qf.extensions
    BY <1>2, HomedTypes DEF Items
  <1>4. b \in U /\ EndOf(U, h, b) \in Nat /\ index <= EndOf(U, h, b)
    <2>1. b \in U
      BY <1>1, <1>2, <1>3, LaidSlot
    <2>2. /\ EndOf(U, h, b) \in Nat /\ \A i \in U : EndOf(U, h, b) < i => h[i] > b
      BY <1>2, <2>1, EndFacts
    <2>. QED
      BY <1>1, <1>3, <2>1, <2>2
  <1>5. at \in Nat /\ at = IF at_end THEN skip_extensions(qf, index + 1) ELSE index
    <2>1. CASE at_end
      BY <1>2, <1>3, <1>4, <2>1, BehindLast
    <2>2. CASE ~at_end
      BY <1>3, <2>2
    <2>. QED
      BY <2>1, <2>2
  <1>6. /\ insert_one_slot(qf, b, at, rem) = moved
        /\ FreeFrom(U, at, u) /\ u < PastEnd /\ u < XnSlots /\ u \in Nat /\ at <= u
        /\ moved \in Filters /\ moved.occupieds = qf.occupieds
        /\ moved.runends = ShiftBits(qf.runends, at, u)
        /\ moved.extensions = ShiftBits(qf.extensions, at, u)
        /\ Nudged(qf, b, u, moved)
        /\ moved.noccupied_slots = qf.noccupied_slots
        /\ moved.slots = ShiftedSlots(qf, at, u, rem)
    <2>. HIDE DEF b, rem, moved
    <2>1. moved = make_space(qf, b, at, u, rem)
      BY DEF moved
    <2>. QED
      BY <1>1, <1>5, <2>1, SpaceMade
  <1>. HIDE DEF moved
  <1>7. new = Updated(moved, moved.slots, moved.occupieds, ends, moved.extensions,
                      moved.noccupied_slots + 1, moved.nelts + added, moved.ndistinct_elts + 1)
    <2>1. ~(1 > 1)
      OBVIOUS
    <2>2. new = counted([moved EXCEPT !.runends = ends], added)
      BY <1>5, <1>6, <2>1 DEF insert_in_run, add_counter
    <2>. HIDE DEF ends
    <2>. QED
      BY <1>6, <2>2 DEF counted, Filters, Updated
  <1>8. at \in Slots /\ index \in Slots
    BY <1>2, <1>3, <1>5, <1>6, Sizes, HomedTypes
  <1>9. ends \in SUBSET Slots
    BY <1>6, <1>8 DEF Filters
  <1>10. /\ new \in Filters /\ new.occupieds = qf.occupieds
         /\ new.extensions = ShiftBits(qf.extensions, at, u)
         /\ new.runends = ends
         /\ new.offset = moved.offset /\ new.noccupied_slots = qf.noccupied_slots + 1
         /\ new.slots = ShiftedSlots(qf, at, u, rem)
    <2>. HIDE DEF ends
    <2>1. /\ moved.occupieds \in SUBSET Buckets /\ moved.extensions \in SUBSET Slots
          /\ moved.noccupied_slots + 1 \in Nat
          /\ moved.nelts + added \in Nat /\ moved.ndistinct_elts + 1 \in Nat
          /\ moved.slots \in [Slots -> SlotValues]
      BY <1>6 DEF Filters
    <2>2. /\ new \in Filters /\ new.occupieds = moved.occupieds
          /\ new.extensions = moved.extensions /\ new.runends = ends
          /\ new.offset = moved.offset /\ new.noccupied_slots = moved.noccupied_slots + 1
          /\ new.slots = moved.slots
      BY <1>6, <1>7, <1>9, <2>1, UpdatedFields
    <2>. QED
      BY <1>6, <2>2
  <1>11. Nudged(qf, b, u, new)
    BY <1>6, <1>10 DEF Nudged
  <1>12. CASE ~at_end
    <2>1. at = index /\ new.runends = ShiftBits(qf.runends, at, u)
      BY <1>6, <1>10, <1>12
    <2>. HIDE DEF b, rem, ends
    <2>2. at \in U /\ at \notin qf.extensions /\ b = h[at]
      BY <1>3, <2>1
    <2>3. Shaped(new, U \cup {u}, PutHomes(U, h, b, u))
      BY <1>6, <1>10, <1>11, <2>1, <2>2, FrontShaped
    <2>. QED
      BY <1>5, <1>6, <1>10, <2>3 DEF b, rem, ItemPut
  <1>13. CASE at_end
    <2>1. index \in RunEnds(qf) /\ at = EndOf(U, h, b) + 1 /\ index < at /\ index \in qf.runends
      BY <1>3, <1>4, <1>13 DEF RunEnds
    <2>2. index \in ShiftBits(qf.runends, at, u)
      BY <1>2, <1>3, <1>5, <1>6, <2>1, BitsBefore
    <2>3. new.runends = (ShiftBits(qf.runends, at, u) \cup {at}) \ {index}
      BY <1>6, <1>10, <1>13, <2>2
    <2>. HIDE DEF b, rem, ends
    <2>4. Shaped(new, U \cup {u}, PutHomes(U, h, b, u))
      BY <1>3, <1>6, <1>10, <1>11, <2>1, <2>3, EndShaped
    <2>. QED
      BY <1>5, <1>6, <1>10, <2>4 DEF b, rem, ItemPut
  <1>. QED
    BY <1>12, <1>13

\* What fits still does with one slot more.
LEMMA FitsMore ==
    ASSUME NEW U, Fits(U), NEW u, u < XnSlots
    PROVE  Fits(U \cup {u})
  BY DEF Fits

\* Where insert_using_ll_table stops in a run: the first item whose remainder
\* is not less than the hash's, or the run's last.
LEMMA StopIs ==
    ASSUME NEW qf \in Filters, NEW U, NEW h, Homed(qf, U, h), NEW b, NEW rem \in Int,
           NEW s \in Items(qf, U, h, b), NEW x \in Items(qf, U, h, b), s <= x, x \in RunEnds(qf),
           NEW i, i = FirstFrom({j \in (Slots \ qf.extensions) \cup {s} :
                                    get_slot(qf, j) >= rem \/ is_runend(qf, j)}, s)
    PROVE  /\ i \in Items(qf, U, h, b) /\ i \in Nat
           /\ get_slot(qf, i) < rem => i \in RunEnds(qf)
  <1>. DEFINE S == {j \in (Slots \ qf.extensions) \cup {s} : get_slot(qf, j) >= rem \/ is_runend(qf, j)}
  <1>1. /\ Laid(U, h, PastEnd) /\ U \in SUBSET Slots /\ Slots \in SUBSET Nat
        /\ \A k \in U : k \in Nat /\ k < PastEnd /\ PastEnd \in Nat
    BY HomedTypes, Sizes
  <1>2. /\ s \in U /\ s \in Nat /\ h[s] = b /\ s \notin qf.extensions
        /\ x \in U /\ x \in Nat /\ h[x] = b /\ x \notin qf.extensions /\ x < PastEnd
    BY <1>1 DEF Items
  <1>3. S \in SUBSET Nat /\ x \in S /\ i = FirstFrom(S, s)
    <2>1. is_runend(qf, x)
      BY DEF is_runend, RunEnds
    <2>2. x \in (Slots \ qf.extensions) \cup {s}
      BY <1>1, <1>2
    <2>. QED
      BY <1>1, <1>2, <2>1, <2>2
  <1>4. \/ i \in S /\ s <= i /\ \A k \in S : s <= k => i <= k
        \/ i = PastEnd /\ \A k \in S : k < s
    <2>. HIDE DEF S
    <2>. QED
      BY <1>2, <1>3, FirstFromIs
  <1>5. i \in S /\ s <= i /\ i <= x /\ i \in Nat
    BY <1>2, <1>3, <1>4
  <1>6. i \in U /\ h[i] = b /\ i \notin qf.extensions
    <2>1. h[s] = h[x]
      BY <1>2
    <2>2. i \in U /\ h[i] = h[s]
      BY <1>1, <1>2, <1>5, <2>1, InRun
    <2>. QED
      BY <1>2, <1>5, <2>2
  <1>7. get_slot(qf, i) >= rem \/ i \in RunEnds(qf)
    BY <1>5 DEF is_runend, RunEnds
  <1>8. get_slot(qf, i) \in Nat
    BY <1>1, <1>6, SlotTypes
  <1>. QED
    BY <1>5, <1>6, <1>7, <1>8 DEF Items

(***************************************************************************)
(* insert_using_ll_table keeps the filter in shape as long as there is a   *)
(* free slot behind the hash's bucket, and stores the item.                *)
(***************************************************************************)
THEOREM InsertionKeeps ==
    ASSUME NEW qf, Kept(qf), NEW hash \in Nat,
           NEW free \in bucket(hash) .. XnSlots - 1, free \notin UsedSlots(qf),
           NEW result, result = insert_using_ll_table(qf, hash, 1)
    PROVE  Kept(result.qf) /\ result.ret = 0
  <1>. DEFINE b == bucket(hash)
              rem == remainder(hash)
  <1>1. PICK U, h : Shaped(qf, U, h) /\ Fits(U)
    BY DEF Kept
  <1>2. /\ qf \in Filters /\ Homed(qf, U, h) /\ Stored(qf, U, h) /\ Laid(U, h, PastEnd)
        /\ qf.occupieds = Homes(U, h)
    BY <1>1 DEF Shaped, Homed
  <1>3. b \in Buckets /\ b \in Nat /\ b \in Slots /\ b < XnSlots /\ rem \in Nat /\ rem \in Int
    BY BucketType, SlotTypes
  <1>4. free \notin U /\ free \in Nat /\ b <= free /\ free < XnSlots
    <2>1. UsedSlots(qf) = U
      BY <1>2, LayoutIsRead
    <2>. QED
      BY <1>3, <2>1, Sizes
  <1>5. ASSUME NEW at \in Nat, at <= free PROVE HasSpace(qf, at)
    BY <1>2, <1>4, <1>5, RoomFound
  <1>6. home_slot_empty(qf, b) <=> b \notin U
    BY <1>2, <1>3, HomeSlotEmptyIs
  <1>7. ASSUME NEW V, NEW g, Shaped(result.qf, V, g), Fits(V) PROVE Kept(result.qf)
    BY <1>7 DEF Kept
  <1>8. CASE b \notin U
    <2>1. result.qf = insert_at_home(qf, hash, 1) /\ result.ret = 0
      BY <1>6, <1>8 DEF insert_using_ll_table
    <2>2. Shaped(result.qf, U \cup {b}, AloneHomes(U, h, b))
      BY <1>1, <1>8, <2>1, HomeInserted
    <2>3. Fits(U \cup {b})
      BY <1>1, <1>3, FitsMore
    <2>. QED
      BY <1>7, <2>1, <2>2, <2>3
  <1>9. CASE b \in U
    <2>. DEFINE m == EndOf(U, h, b)
                at == m + 1
    <2>1. m \in Nat /\ at \in Nat /\ at <= free
      <3>1. m \in Nat /\ \A i \in Nat : b <= i /\ i <= m => i \in U
        BY <1>2, <1>9, EndFacts
      <3>2. ~(free <= m)
        BY <1>3, <1>4, <3>1
      <3>. QED
        BY <1>4, <3>1, <3>2
    <2>2. HasSpace(qf, at)
      BY <1>5, <2>1
    <2>3. CASE b \notin Homes(U, h)
      <3>. DEFINE u == find_first_empty_slot(qf, at)
      <3>1. result.qf = insert_new_run(qf, hash, 1) /\ result.ret = 0
        BY <1>2, <1>6, <1>9, <2>3 DEF insert_using_ll_table, is_occupied
      <3>2. u < XnSlots /\ Shaped(result.qf, U \cup {u}, PutHomes(U, h, b, u))
        BY <1>1, <1>9, <2>2, <2>3, <3>1, NewRunInserted DEF ItemPut
      <3>3. Fits(U \cup {u})
        BY <1>1, <3>2, FitsMore
      <3>. QED
        BY <1>7, <3>1, <3>2, <3>3
    <2>4. CASE b \in Homes(U, h)
      <3>. DEFINE s == run_start(qf, b)
                  i == FirstFrom({j \in (Slots \ qf.extensions) \cup {s} :
                                     get_slot(qf, j) >= rem \/ is_runend(qf, j)}, s)
                  at_end == get_slot(qf, i) < rem
                  place == IF at_end THEN at ELSE i
                  u == find_first_empty_slot(qf, place)
      <3>1. s \in Items(qf, U, h, b) /\ \A k \in U : h[k] = b => s <= k
        <4>1. s \in U /\ h[s] = b /\ s \notin qf.extensions /\ \A k \in U : h[k] = b => s <= k
          BY <1>2, <2>4, RunStartIs
        <4>. QED
          BY <4>1 DEF Items
      <3>. HIDE DEF s
      <3>2. PICK x \in RunEnds(qf) : h[x] = b
        BY <1>2, <2>4, HasLastItem
      <3>3. x \in Items(qf, U, h, b) /\ s <= x
        <4>1. x \in U /\ x \notin qf.extensions
          BY <1>2, <3>2, HomedTypes DEF RunEnds
        <4>. QED
          BY <3>1, <3>2, <4>1 DEF Items
      <3>4. /\ i \in Items(qf, U, h, b) /\ i \in Nat
            /\ at_end => i \in RunEnds(qf)
        <4>. HIDE DEF b, rem
        <4>. QED
          BY <1>2, <1>3, <3>1, <3>2, <3>3, StopIs
      <3>5. result.qf = insert_in_run(qf, hash, 1, i, at_end, 1) /\ result.ret = 0
        <4>1. ~(i >= XnSlots)
          BY <1>1, <3>4, Sizes DEF Items, Fits
        <4>2. is_occupied(qf, b) /\ ~home_slot_empty(qf, b)
          BY <1>2, <1>6, <1>9, <2>4 DEF is_occupied
        <4>. QED
          BY <4>1, <4>2 DEF insert_using_ll_table, s
      <3>. HIDE DEF i
      <3>6. HasSpace(qf, place)
        <4>1. i <= m
          <5>1. \A k \in U : m < k => h[k] > b
            BY <1>2, <1>9, EndFacts
          <5>2. i \in U /\ h[i] = b
            BY <3>4 DEF Items
          <5>. QED
            BY <1>3, <2>1, <3>4, <5>1, <5>2
        <4>2. i <= free
          BY <1>4, <2>1, <3>4, <4>1
        <4>. QED
          BY <1>5, <2>2, <3>4, <4>2
      <3>7. u < XnSlots /\ Shaped(result.qf, U \cup {u}, PutHomes(U, h, b, u))
        <4>1. at_end \in BOOLEAN /\ place = (IF at_end THEN EndOf(U, h, b) + 1 ELSE i) /\ 1 \in Nat
          OBVIOUS
        <4>. HIDE DEF place, at_end, m, at
        <4>. QED
          BY <1>1, <3>4, <3>5, <3>6, <4>1, InRunInserted DEF ItemPut
      <3>8. Fits(U \cup {u})
        BY <1>1, <3>7, FitsMore
      <3>. QED
        BY <1>7, <3>5, <3>7, <3>8
    <2>. QED
      BY <2>3, <2>4
  <1>. QED
    BY <1>8, <1>9

-----------------------------------------------------------------------------
(***************************************************************************)
(* Chunks and counter slots                                                *)
(***************************************************************************)
\* The slot at is the first behind some item of bucket b and its chunks and
\* counter slots.
Behind(qf, U, h, b, at) == at \in Nat /\ at # 0 /\ at - 1 \in U /\ h[at - 1] = b /\ at \notin qf.extensions

\* The filter with a slot put in at at and marked as a chunk (ends = {}) or as
\* a counter slot (ends = {at}).
Marked(moved, at, ends) ==
    [moved EXCEPT !.extensions = @ \cup {at}, !.runends = @ \cup ends, !.noccupied_slots = @ + 1]

\* Such a slot can be put in: a chunk not behind a counter slot.
Markable(qf, U, h, b, at, ends) ==
    /\ Shaped(qf, U, h) /\ Fits(U)
    /\ Behind(qf, U, h, b, at) /\ HasSpace(qf, at)
    /\ ends \in SUBSET {at}
    /\ at \notin ends => at - 1 \notin qf.extensions \intersect qf.runends

\* new is qf with value put in at such a slot and what was there moved up to u.
IsMarked(qf, U, h, b, at, ends, value, u, new) ==
    /\ Shaped(new, U \cup {u}, PutHomes(U, h, b, u)) /\ Fits(U \cup {u})
    /\ Behind(new, U \cup {u}, PutHomes(U, h, b, u), b, at + 1)
    /\ at \notin ends => at \notin new.extensions \intersect new.runends
    /\ u \in Nat /\ u \notin U /\ at <= u /\ u < XnSlots
    /\ Placed(U, h, b, at) /\ FreeFrom(U, at, u)
    /\ new.slots = ShiftedSlots(qf, at, u, value)
    /\ new.extensions = ShiftBits(qf.extensions, at, u) \cup {at}
    /\ new.runends = ShiftBits(qf.runends, at, u) \cup ends

\* It keeps the filter in shape, and the next one may follow it.
LEMMA MarkedFields ==
    ASSUME NEW qf, NEW U, NEW h, NEW b \in Nat, NEW at, NEW ends, Markable(qf, U, h, b, at, ends),
           NEW value \in SlotValues, NEW u, u = find_first_empty_slot(qf, at),
           NEW new, new = Marked(make_space(qf, b, at, u, value), at, ends)
    PROVE  IsMarked(qf, U, h, b, at, ends, value, u, new)
  <1>0. /\ Shaped(qf, U, h) /\ Fits(U) /\ Behind(qf, U, h, b, at) /\ HasSpace(qf, at)
        /\ ends \in SUBSET {at}
        /\ at \notin ends => at - 1 \notin qf.extensions \intersect qf.runends
    BY DEF Markable
  <1>. DEFINE moved == make_space(qf, b, at, u, value)
              V == U \cup {u}
              g == PutHomes(U, h, b, u)
  <1>1. at \in Nat /\ at # 0 /\ at - 1 \in U /\ h[at - 1] = b /\ at \notin qf.extensions
    BY <1>0 DEF Behind
  <1>2. qf \in Filters /\ Laid(U, h, PastEnd) /\ qf.extensions \in SUBSET U /\ qf.runends \in SUBSET U
        /\ U \in SUBSET Nat
    BY <1>0, ChunkFacts DEF Shaped, Homed
  <1>3. /\ FreeFrom(U, at, u) /\ u < PastEnd /\ u < XnSlots /\ u \in Nat /\ at <= u
        /\ moved \in Filters /\ moved.occupieds = qf.occupieds
        /\ moved.runends = ShiftBits(qf.runends, at, u)
        /\ moved.extensions = ShiftBits(qf.extensions, at, u)
        /\ Nudged(qf, b, u, moved)
        /\ moved.noccupied_slots = qf.noccupied_slots
        /\ moved.slots = ShiftedSlots(qf, at, u, value)
    <2>. HIDE DEF moved
    <2>1. moved = make_space(qf, b, at, u, value)
      BY DEF moved
    <2>. QED
      BY <1>0, <1>1, <2>1, SpaceMade
  <1>. HIDE DEF moved
  <1>4. new = Updated(moved, moved.slots, moved.occupieds, moved.runends \cup ends, moved.extensions \cup {at},
                      moved.noccupied_slots + 1, moved.nelts, moved.ndistinct_elts)
    <2>1. new = Marked(moved, at, ends)
      BY DEF moved
    <2>. QED
      BY <1>3, <2>1 DEF Marked, Filters, Updated
  <1>5. at \in Slots /\ ends \in SUBSET Slots
    BY <1>0, <1>1, <1>3, Sizes
  <1>6. /\ new \in Filters /\ new.occupieds = qf.occupieds
        /\ new.extensions = ShiftBits(qf.extensions, at, u) \cup {at}
        /\ new.runends = ShiftBits(qf.runends, at, u) \cup ends
        /\ new.offset = moved.offset /\ new.noccupied_slots = qf.noccupied_slots + 1
        /\ new.slots = ShiftedSlots(qf, at, u, value)
    <2>1. /\ moved.occupieds \in SUBSET Buckets /\ moved.runends \cup ends \in SUBSET Slots
          /\ moved.extensions \cup {at} \in SUBSET Slots
          /\ moved.noccupied_slots + 1 \in Nat
          /\ moved.nelts \in Nat /\ moved.ndistinct_elts \in Nat
          /\ moved.slots \in [Slots -> SlotValues]
      BY <1>3, <1>5 DEF Filters
    <2>2. /\ new \in Filters /\ new.occupieds = moved.occupieds
          /\ new.extensions = moved.extensions \cup {at} /\ new.runends = moved.runends \cup ends
          /\ new.offset = moved.offset /\ new.noccupied_slots = moved.noccupied_slots + 1
          /\ new.slots = moved.slots
      BY <1>3, <1>4, <2>1, UpdatedFields
    <2>. QED
      BY <1>3, <2>2
  <1>7. Nudged(qf, b, u, new)
    BY <1>3, <1>6 DEF Nudged
  <1>8. Placed(U, h, b, at) /\ Shaped(new, V, g)
    <2>. HIDE DEF V, g
    <2>1. Placed(U, h, b, at) /\ Shaped(new, U \cup {u}, PutHomes(U, h, b, u))
      <3>1. MarkedAt(qf, U, h, b, at, u, ends, new)
        BY <1>0, <1>1, <1>3, <1>6, <1>7 DEF MarkedAt
      <3>. QED
        BY <1>0, <3>1, MarkedShaped
    <2>. QED
      BY <2>1 DEF V, g
  <1>9. Fits(V)
    BY <1>0, <1>3, FitsMore
  <1>10. at \in V /\ g[at] = b
    <2>1. at \in new.extensions
      BY <1>6
    <2>2. /\ new.extensions \in SUBSET V
          /\ \A i \in new.extensions : i - 1 \in V /\ g[i - 1] = g[i]
      <3>. HIDE DEF V, g
      <3>. QED
        BY <1>8 DEF Shaped, Homed
    <2>3. at - 1 \in Nat /\ at - 1 < at
      BY <1>1
    <2>4. Up(at, u, at - 1) = at - 1
      BY <1>1, <2>3 DEF Up
    <2>5. \A i \in U : g[Up(at, u, i)] = h[i]
      <3>1. g = PutHomes(U, h, b, u)
        OBVIOUS
      <3>. HIDE DEF g
      <3>. QED
        BY <1>2, <1>3, <1>8, <3>1, UpFacts
    <2>6. g[at - 1] = b
      <3>. HIDE DEF g
      <3>1. g[Up(at, u, at - 1)] = h[at - 1]
        BY <1>1, <2>5
      <3>. QED
        BY <1>1, <2>4, <3>1
    <2>. QED
      BY <2>1, <2>2, <2>6
  <1>11. at + 1 \notin new.extensions
    <2>0. at + 1 # at /\ new.extensions = ShiftBits(qf.extensions, at, u) \cup {at}
      BY <1>1, <1>6
    <2>1. SUFFICES ASSUME at + 1 \in ShiftBits(qf.extensions, at, u) PROVE FALSE
      BY <2>0
    <2>2. at + 1 \in Nat /\ (at + 1) - 1 = at /\ qf.extensions \in SUBSET Nat
      <3>1. at + 1 \in Nat /\ (at + 1) - 1 = at
        BY <1>1
      <3>2. qf.extensions \in SUBSET Nat
        BY <1>2
      <3>. QED
        BY <3>1, <3>2
    <2>3. \/ at + 1 \in qf.extensions /\ at + 1 < at
          \/ at < at + 1 /\ at + 1 <= u /\ (at + 1) - 1 \in qf.extensions
          \/ at + 1 \in qf.extensions /\ u < at + 1
      BY <1>1, <1>3, <2>1, <2>2, ShiftedBits
    <2>4. at + 1 \in qf.extensions /\ u < at + 1
      BY <1>1, <2>2, <2>3
    <2>5. u = at
      BY <1>1, <1>3, <2>4
    <2>6. at \in U
      <3>1. (at + 1) - 1 \in U
        BY <1>0, <2>4 DEF Shaped, Homed
      <3>. QED
        BY <2>2, <3>1
    <2>. QED
      BY <1>3, <2>5, <2>6 DEF FreeFrom
  <1>12. ASSUME at \notin ends PROVE at \notin new.runends
    <2>1. at \notin ShiftBits(qf.runends, at, u)
      <3>1. qf.runends \in SUBSET Nat
        BY <1>2
      <3>2. at \in ShiftBits(qf.runends, at, u) <=>
              \/ at \in qf.runends /\ at < at
              \/ at < at /\ at <= u /\ at - 1 \in qf.runends
              \/ at \in qf.runends /\ u < at
        BY <1>1, <1>3, <3>1, ShiftedBits
      <3>3. ~(at < at) /\ ~(u < at)
        BY <1>1, <1>3
      <3>. QED
        BY <3>2, <3>3
    <2>. QED
      BY <1>6, <1>12, <2>1
  <1>13. Behind(new, V, g, b, at + 1)
    <2>1. (at + 1) - 1 = at /\ at + 1 \in Nat /\ at + 1 # 0
      BY <1>1
    <2>. HIDE DEF V, g
    <2>. QED
      BY <1>10, <1>11, <2>1 DEF Behind
  <1>14. u \notin U
    BY <1>3 DEF FreeFrom
  <1>. QED
    BY <1>3, <1>6, <1>8, <1>9, <1>12, <1>13, <1>14 DEF IsMarked

\* In short.
LEMMA MarkedKept ==
    ASSUME NEW qf, NEW U, NEW h, NEW b \in Nat, NEW at, NEW ends, Markable(qf, U, h, b, at, ends),
           NEW value \in SlotValues, NEW u, u = find_first_empty_slot(qf, at),
           NEW new, new = Marked(make_space(qf, b, at, u, value), at, ends)
    PROVE  /\ Shaped(new, U \cup {u}, PutHomes(U, h, b, u)) /\ Fits(U \cup {u})
           /\ Behind(new, U \cup {u}, PutHomes(U, h, b, u), b, at + 1)
           /\ at \notin ends => at \notin new.extensions \intersect new.runends
           /\ u \in Nat /\ u \notin U /\ at <= u /\ u < XnSlots
  <1>1. IsMarked(qf, U, h, b, at, ends, value, u, new)
    BY MarkedFields
  <1>. QED
    BY <1>1 DEF IsMarked

\* Chunks are slot values.
LEMMA ChunkType ==
    ASSUME NEW hash \in Nat, NEW j \in Nat
    PROVE  chunk(hash, j) \in SlotValues
  <1>. DEFINE P == 2 ^ BitsPerSlot
              e == BitsPerSlot * (j + 1)
              k == QuotientBits + e
              Q == 2 ^ k
  <1>1. BitsPerSlot \in Nat /\ QuotientBits \in Nat
    BY GQFAssumption
  <1>2. e \in Nat
    <2>1. \A x, y \in Nat : x * y \in Nat
      OBVIOUS
    <2>2. j + 1 \in Nat
      OBVIOUS
    <2>. QED
      BY <1>1, <2>1, <2>2
  <1>. HIDE DEF e
  <1>3. k \in Nat
    BY <1>1, <1>2
  <1>. HIDE DEF k
  <1>4. P \in Nat \ {0} /\ Q \in Nat \ {0}
    BY <1>1, <1>3, PowerOfTwo
  <1>5. chunk(hash, j) = (hash \div Q) % P /\ SlotValues = 0 .. P - 1
    BY DEF chunk, SlotValues, k, e
  <1>. HIDE DEF P, Q
  <1>6. hash \div Q \in Nat
    BY <1>4, DivFacts
  <1>. QED
    BY <1>4, <1>5, <1>6, DivFacts

\* Other slot values and other runend bits of extensions leave the shape alone.
LEMMA SameShape ==
    ASSUME NEW qf, NEW U, NEW h, Shaped(qf, U, h), NEW new \in Filters,
           new.occupieds = qf.occupieds, new.extensions = qf.extensions,
           new.runends \in SUBSET qf.runends, RunEnds(new) = RunEnds(qf),
           new.offset = qf.offset, new.noccupied_slots = qf.noccupied_slots, ChunksFirst(new)
    PROVE  Shaped(new, U, h)
  <1>1. Homed(new, U, h)
    <2>1. Homed(qf, U, h)
      BY DEF Shaped
    <2>2. new.runends \in SUBSET U
      BY <2>1 DEF Homed
    <2>. QED
      BY <2>1, <2>2 DEF Homed
  <1>2. Stored(new, U, h)
    BY DEF Shaped, Stored
  <1>. QED
    BY <1>1, <1>2 DEF Shaped

\* Chunks of an item of bucket b may go on at at, or there is no free slot from
\* there on.
Growing(qf, b, at) ==
    \E U, h :
        /\ Shaped(qf, U, h) /\ Fits(U)
        /\ \/ Behind(qf, U, h, b, at) /\ at - 1 \notin qf.extensions \intersect qf.runends
           \/ \A k \in Nat : at <= k /\ k < XnSlots => k \in U

\* A chunk put in at at.
Grown(qf, b, at, value) ==
    [make_space(qf, b, at, find_first_empty_slot(qf, at), value) EXCEPT
        !.extensions = @ \cup {at}, !.noccupied_slots = @ + 1]
\* A chunk put in at at, if there is space.
Appended(qf, b, at, value) == IF ~HasSpace(qf, at) THEN qf ELSE Grown(qf, b, at, value)
\* A chunk in place of a counter slot.
Overwritten(qf, at, value) == [qf EXCEPT !.slots[at] = value, !.runends = @ \ {at}]

\* Whether or not there is space for it, behind a chunk the next one may go on.
LEMMA ChunkAppended ==
    ASSUME NEW qf, NEW b \in Nat, NEW at \in Nat, Growing(qf, b, at), NEW value \in SlotValues,
           NEW new, new = Appended(qf, b, at, value)
    PROVE  Growing(new, b, at + 1)
  <1>1. PICK U, h :
           /\ Shaped(qf, U, h) /\ Fits(U)
           /\ \/ Behind(qf, U, h, b, at) /\ at - 1 \notin qf.extensions \intersect qf.runends
              \/ \A k \in Nat : at <= k /\ k < XnSlots => k \in U
    BY DEF Growing
  <1>2. CASE ~HasSpace(qf, at)
    <2>1. Homed(qf, U, h) /\ Stored(qf, U, h)
      BY <1>1 DEF Shaped
    <2>2. ASSUME NEW k \in Nat, at + 1 <= k, k < XnSlots PROVE k \in U
      <3>1. at <= k
        BY <2>2
      <3>. QED
        BY <1>2, <2>1, <2>2, <3>1, RoomFound
    <2>3. new = qf
      BY <1>2 DEF Appended
    <2>. QED
      BY <1>1, <2>2, <2>3 DEF Growing
  <1>3. CASE HasSpace(qf, at)
    <2>. DEFINE u == find_first_empty_slot(qf, at)
                moved == make_space(qf, b, at, u, value)
                V == U \cup {u}
                g == PutHomes(U, h, b, u)
    <2>1. Behind(qf, U, h, b, at) /\ at - 1 \notin qf.extensions \intersect qf.runends
      <3>1. Homed(qf, U, h) /\ Stored(qf, U, h)
        BY <1>1 DEF Shaped
      <3>2. u < XnSlots
        BY <1>3 DEF HasSpace
      <3>3. FreeFrom(U, at, u)
        BY <3>1, <3>2, SpaceFound
      <3>4. u \in Nat /\ u \notin U /\ at <= u
        BY <3>3 DEF FreeFrom
      <3>. HIDE DEF u
      <3>. QED
        BY <1>1, <3>2, <3>4
    <2>2. moved \in Filters
      <3>1. moved = make_space(qf, b, at, u, value)
        OBVIOUS
      <3>. HIDE DEF u, moved
      <3>2. u = find_first_empty_slot(qf, at)
        BY DEF u
      <3>. QED
        BY <1>1, <1>3, <3>1, <3>2, SpaceMade
    <2>3. new = Marked(moved, at, {})
      <3>1. new = [moved EXCEPT !.extensions = @ \cup {at}, !.noccupied_slots = @ + 1]
        BY <1>3 DEF Appended, Grown
      <3>. HIDE DEF moved
      <3>2. moved.runends \cup {} = moved.runends
        OBVIOUS
      <3>. QED
        BY <2>2, <3>1, <3>2 DEF Marked, Filters
    <2>4. /\ Shaped(new, V, g) /\ Fits(V) /\ Behind(new, V, g, b, at + 1)
          /\ at \notin new.extensions \intersect new.runends
      <3>. DEFINE ends == {}
      <3>1. ends \in SUBSET {at} /\ at \notin ends
        OBVIOUS
      <3>2. new = Marked(make_space(qf, b, at, u, value), at, ends) /\ u = find_first_empty_slot(qf, at)
        BY <2>3
      <3>3. Shaped(qf, U, h) /\ Fits(U)
        BY <1>1
      <3>. HIDE DEF u, moved, ends
      <3>5. Markable(qf, U, h, b, at, ends)
        BY <1>3, <2>1, <3>1, <3>3 DEF Markable
      <3>4. /\ Shaped(new, U \cup {u}, PutHomes(U, h, b, u)) /\ Fits(U \cup {u})
            /\ Behind(new, U \cup {u}, PutHomes(U, h, b, u), b, at + 1)
            /\ at \notin ends => at \notin new.extensions \intersect new.runends
        BY <3>2, <3>5, MarkedKept
      <3>. QED
        BY <3>1, <3>4
    <2>5. (at + 1) - 1 = at
      OBVIOUS
    <2>. HIDE DEF V, g
    <2>. QED
      BY <2>4, <2>5 DEF Growing
  <1>. QED
    BY <1>2, <1>3

\* The chunks and the counter of an item are slots of its run.
LEMMA ItemSlots ==
    ASSUME NEW qf, NEW U, NEW h, Homed(qf, U, h), NEW i \in U,
           NEW n, n = skip_extensions(qf, i + 1), NEW k \in Nat, i <= k, k < n
    PROVE  k \in U /\ h[k] = h[i]
  <1>. DEFINE Bad == {j \in Nat : i <= j /\ j < n /\ ~(j \in U /\ h[j] = h[i])}
  <1>1. /\ U \in SUBSET Slots /\ Slots \in SUBSET Nat /\ qf.extensions \in SUBSET Slots
        /\ \A j \in qf.extensions : j - 1 \in U /\ h[j - 1] = h[j]
        /\ PastEnd \in Nat /\ Slots = 0 .. PastEnd - 1 /\ qf.extensions \in SUBSET U
    <2>1. Slots = 0 .. PastEnd - 1 /\ PastEnd \in Nat
      BY Sizes
    <2>2. \A j \in qf.extensions : j - 1 \in U /\ h[j - 1] = h[j]
      BY DEF Homed
    <2>3. U \in SUBSET Slots /\ qf.extensions \in SUBSET Slots /\ qf.extensions \in SUBSET U
      BY HomedTypes
    <2>4. Slots \in SUBSET Nat
      BY <2>1
    <2>. QED
      BY <2>1, <2>2, <2>3, <2>4
  <1>2. i \in Nat /\ i + 1 \in Nat /\ i + 1 <= PastEnd
    BY <1>1
  <1>3. n \in Nat /\ \A j \in Nat : i + 1 <= j /\ j < n => j \in qf.extensions
    BY <1>1, <1>2, SkipIs
  <1>4. Bad = {}
    <2>1. SUFFICES ASSUME Bad # {} PROVE FALSE
      OBVIOUS
    <2>2. PICK j \in Bad : \A x \in Bad : j <= x
      <3>1. Bad \in SUBSET Nat
        OBVIOUS
      <3>. HIDE DEF Bad
      <3>. QED
        BY <2>1, <3>1, SmallestNat
    <2>3. j \in Nat /\ j # i /\ i <= j /\ j < n
      BY <1>2, <2>2
    <2>4. j - 1 \in Nat /\ i <= j - 1 /\ j - 1 < n /\ ~(j <= j - 1) /\ i + 1 <= j
      BY <1>2, <1>3, <2>3
    <2>5. j - 1 \in U /\ h[j - 1] = h[i]
      BY <2>2, <2>4
    <2>6. j \in qf.extensions
      BY <1>3, <2>3, <2>4
    <2>. QED
      BY <1>1, <2>2, <2>5, <2>6
  <1>. QED
    BY <1>4

\* A counter of one slot turned into a chunk.
LEMMA OverwrittenFields ==
    ASSUME NEW qf, NEW U, NEW h, Shaped(qf, U, h), Fits(U), NEW b \in Nat, NEW index \in Items(qf, U, h, b),
           NEW info, info = get_slot_info(qf, index), info.count_len = 1,
           NEW at, at = index + info.ext_len + 1, NEW value \in SlotValues,
           NEW new, new = Overwritten(qf, at, value)
    PROVE  /\ Growing(new, b, at + 1)
           /\ Shaped(new, U, h) /\ Behind(new, U, h, b, at + 1)
           /\ at \in Nat /\ at \in qf.extensions \intersect qf.runends /\ index < at
           /\ new.extensions = qf.extensions /\ new.runends = qf.runends \ {at}
           /\ new.slots = [qf.slots EXCEPT ![at] = value]
  <1>. DEFINE n == skip_extensions(qf, index + 1)
              slots == [qf.slots EXCEPT ![at] = value]
  <1>1. /\ qf \in Filters /\ Homed(qf, U, h) /\ ChunksFirst(qf) /\ Laid(U, h, PastEnd)
        /\ U \in SUBSET Slots /\ Slots \in SUBSET Nat /\ qf.extensions \in SUBSET U
        /\ \A i \in qf.extensions : i - 1 \in U /\ h[i - 1] = h[i]
        /\ PastEnd \in Nat /\ Slots = 0 .. PastEnd - 1
    <2>1. qf \in Filters /\ Homed(qf, U, h) /\ ChunksFirst(qf)
      BY DEF Shaped
    <2>2. Slots = 0 .. PastEnd - 1 /\ PastEnd \in Nat
      BY Sizes
    <2>3. Slots \in SUBSET Nat
      BY <2>2
    <2>4. qf.extensions \in SUBSET U /\ \A i \in qf.extensions : i - 1 \in U /\ h[i - 1] = h[i]
      BY <2>1 DEF Homed
    <2>. QED
      BY <2>1, <2>2, <2>3, <2>4, HomedTypes
  <1>2. index \in U /\ index \in Nat /\ h[index] = b /\ index \notin qf.extensions
    BY <1>1 DEF Items
  <1>3. /\ info.ext_len \in Nat /\ info.count_len \in Nat
        /\ index + 1 + info.ext_len + info.count_len = n
        /\ \A k \in Nat : index < k /\ k < index + 1 + info.ext_len => is_extension(qf, k)
        /\ \A k \in Nat : index + 1 + info.ext_len <= k /\ k < n => is_counter(qf, k)
    <2>1. Homed(qf, U, h) /\ ChunksFirst(qf) /\ index \in U /\ n = skip_extensions(qf, index + 1)
      BY <1>1, <1>2
    <2>. HIDE DEF n, slots
    <2>. QED
      BY <2>1, InfoIs
  <1>4. /\ n \in Nat /\ n \notin qf.extensions /\ \A k \in Nat : index + 1 <= k /\ k < n => k \in qf.extensions
    <2>1. qf.extensions \in SUBSET Slots /\ index + 1 \in Nat /\ index + 1 <= PastEnd
      <3>1. index < PastEnd /\ PastEnd \in Nat /\ qf.extensions \in SUBSET Slots
        BY <1>1, <1>2, HomedTypes
      <3>2. index + 1 \in Nat /\ index + 1 <= PastEnd
        BY <1>2, <3>1
      <3>. QED
        BY <3>1, <3>2
    <2>. QED
      BY <2>1, SkipIs
  <1>. HIDE DEF n
  <1>5. /\ at \in Nat /\ at # 0 /\ at + 1 = n /\ at \in qf.extensions /\ at \in qf.runends
        /\ at \in U /\ at \in Slots /\ index < at
    <2>1. at \in Nat /\ at + 1 = n /\ index < at /\ at = index + 1 + info.ext_len
      BY <1>2, <1>3
    <2>2. is_counter(qf, at)
      BY <1>3, <2>1
    <2>. QED
      BY <1>1, <1>2, <2>1, <2>2 DEF is_counter
  <1>6. at - 1 \notin qf.extensions \intersect qf.runends
    <2>1. CASE at - 1 = index
      BY <1>2, <2>1
    <2>2. CASE at - 1 # index
      <3>1. at - 1 \in Nat /\ index < at - 1 /\ at - 1 < index + 1 + info.ext_len
        BY <1>2, <1>3, <1>5, <2>2
      <3>2. is_extension(qf, at - 1)
        BY <1>3, <3>1
      <3>. QED
        BY <3>2 DEF is_extension
    <2>. QED
      BY <2>1, <2>2
  <1>7. h[at] = b
    BY <1>1, <1>2, <1>4, <1>5, ItemSlots DEF n
  <1>8. slots \in [Slots -> SlotValues]
    BY <1>1, <1>5 DEF Filters
  <1>9. new = Updated(qf, slots, qf.occupieds, qf.runends \ {at}, qf.extensions,
                      qf.noccupied_slots, qf.nelts, qf.ndistinct_elts)
    BY <1>1 DEF Filters, Updated, Overwritten
  <1>. HIDE DEF slots
  <1>10. /\ new \in Filters /\ new.occupieds = qf.occupieds /\ new.runends = qf.runends \ {at}
         /\ new.extensions = qf.extensions /\ new.offset = qf.offset
         /\ new.noccupied_slots = qf.noccupied_slots /\ new.slots = slots
    <2>1. /\ qf.occupieds \in SUBSET Buckets /\ qf.runends \ {at} \in SUBSET Slots
          /\ qf.extensions \in SUBSET Slots /\ qf.noccupied_slots \in Nat
          /\ qf.nelts \in Nat /\ qf.ndistinct_elts \in Nat
      BY <1>1 DEF Filters
    <2>. QED
      BY <1>1, <1>8, <1>9, <2>1, UpdatedFields
  <1>11. ChunksFirst(new)
    <2>1. SUFFICES ASSUME NEW i \in Slots, is_counter(new, i), is_extension(new, i + 1) PROVE FALSE
      BY DEF ChunksFirst
    <2>2. is_counter(qf, i) /\ i \in Nat
      BY <1>1, <1>10, <2>1 DEF is_counter
    <2>3. ~is_extension(qf, i + 1)
      BY <2>1, <2>2, <1>1 DEF ChunksFirst
    <2>4. i + 1 = at
      BY <1>10, <2>1, <2>3 DEF is_extension
    <2>5. at - 1 = i
      BY <2>2, <2>4
    <2>. QED
      BY <1>6, <2>2, <2>5 DEF is_counter
  <1>12. RunEnds(new) = RunEnds(qf)
    BY <1>5, <1>10 DEF RunEnds
  <1>13. Shaped(new, U, h)
    <2>1. new.runends \in SUBSET qf.runends
      BY <1>10
    <2>. QED
      BY <1>10, <1>11, <1>12, <2>1, SameShape
  <1>14. Behind(new, U, h, b, at + 1) /\ (at + 1) - 1 = at /\ at \notin new.runends
    <2>1. at + 1 \in Nat /\ at + 1 # 0 /\ (at + 1) - 1 = at /\ at + 1 \notin new.extensions
      BY <1>4, <1>5, <1>10
    <2>. QED
      BY <1>5, <1>7, <1>10, <2>1 DEF Behind
  <1>. QED
    BY <1>5, <1>10, <1>13, <1>14 DEF Growing, slots

\* In short.
LEMMA CounterOverwritten ==
    ASSUME NEW qf, NEW U, NEW h, Shaped(qf, U, h), Fits(U), NEW b \in Nat, NEW index \in Items(qf, U, h, b),
           NEW info, info = get_slot_info(qf, index), info.count_len = 1,
           NEW at, at = index + info.ext_len + 1, NEW value \in SlotValues,
           NEW new, new = Overwritten(qf, at, value)
    PROVE  Growing(new, b, at + 1)
  <1>1. /\ Growing(new, b, at + 1)
        /\ Shaped(new, U, h) /\ Behind(new, U, h, b, at + 1)
        /\ at \in Nat /\ at \in qf.extensions \intersect qf.runends /\ index < at
        /\ new.extensions = qf.extensions /\ new.runends = qf.runends \ {at}
        /\ new.slots = [qf.slots EXCEPT ![at] = value]
    BY OverwrittenFields
  <1>. QED
    BY <1>1

\* The loop of adapt: the filter after i rounds, if g has those before.
AppendStep(qf, index, info, b, hash, g, i) ==
    LET at == index + info.ext_len + i
        value == chunk(hash, info.ext_len + i - 1)
        q == g[i - 1]
    IN IF i = 0 THEN qf
       ELSE IF ~HasSpace(q, at) THEN q
       ELSE IF i = 1 /\ info.count_len = 1 THEN Overwritten(q, at, value)
       ELSE Grown(q, b, at, value)

\* g has the filters after up to n rounds.
IsAppend(qf, index, info, b, hash, n, g) ==
    g = [i \in 0 .. n |-> AppendStep(qf, index, info, b, hash, g, i)]

\* The number of rounds.
Rounds(info, hash, other) ==
    Min({i \in 1 .. HashBits :
             \/ chunk(hash, info.ext_len + i - 1) # chunk(other, info.ext_len + i - 1)
             \/ QuotientBits + BitsPerSlot * (info.ext_len + i + 1) >= HashBits})

\* append_chunks by its rounds.
LEMMA AppendDef ==
    ASSUME NEW qf, NEW index, NEW info, NEW b, NEW hash, NEW other, NEW n, n = Rounds(info, hash, other)
    PROVE  append_chunks(qf, index, info, b, hash, other)
             = (CHOOSE g : IsAppend(qf, index, info, b, hash, n, g))[n]
  BY DEF append_chunks, IsAppend, AppendStep, Rounds, Grown, Overwritten

\* There is such a loop.
LEMMA AppendExists ==
    ASSUME NEW qf, NEW index, NEW info, NEW b, NEW hash, NEW n \in Nat
    PROVE  \E g : IsAppend(qf, index, info, b, hash, n, g)
  <1>. DEFINE K == {k \in Nat : k <= n /\ \E g : IsAppend(qf, index, info, b, hash, k, g)}
              c == AppendStep(qf, index, info, b, hash, <<>>, 0)
  <1>1. 0 \in K
    <2>. DEFINE g == [m \in 0 .. 0 |-> c]
    <2>1. \A m \in 0 .. 0 : m = 0
      OBVIOUS
    <2>2. AppendStep(qf, index, info, b, hash, g, 0) = c
      BY DEF AppendStep
    <2>. HIDE DEF c
    <2>3. g = [m \in 0 .. 0 |-> AppendStep(qf, index, info, b, hash, g, m)]
      BY <2>1, <2>2
    <2>. HIDE DEF g
    <2>. QED
      BY <2>3 DEF IsAppend
  <1>2. PICK k \in K : \A m \in K : m <= k
    <2>1. K \in SUBSET Nat /\ K # {} /\ \A m \in K : m <= n
      BY <1>1
    <2>. HIDE DEF K
    <2>. QED
      BY <2>1, MaxOfNats
  <1>3. k \in Nat /\ k <= n
    OBVIOUS
  <1>4. PICK g : IsAppend(qf, index, info, b, hash, k, g)
    OBVIOUS
  <1>5. CASE k = n
    BY <1>4, <1>5
  <1>6. CASE k # n
    <2>. DEFINE p == k + 1
                new == [m \in 0 .. p |-> IF m = p THEN AppendStep(qf, index, info, b, hash, g, p) ELSE g[m]]
    <2>1. p \in Nat /\ p <= n /\ ~(p <= k)
      BY <1>3, <1>6
    <2>2. ASSUME NEW m \in 0 .. p PROVE new[m] = AppendStep(qf, index, info, b, hash, new, m)
      <3>1. m # 0 => m - 1 \in 0 .. p /\ m - 1 # p
        BY <2>1
      <3>2. m # 0 => new[m - 1] = g[m - 1]
        BY <3>1
      <3>. HIDE DEF new
      <3>3. AppendStep(qf, index, info, b, hash, new, m) = AppendStep(qf, index, info, b, hash, g, m)
        BY <3>2 DEF AppendStep
      <3>. USE DEF new
      <3>4. CASE m = p
        <4>1. new[m] = AppendStep(qf, index, info, b, hash, g, p)
          BY <3>4
        <4>. QED
          BY <3>3, <3>4, <4>1
      <3>5. CASE m # p
        <4>1. m \in 0 .. k
          BY <1>3, <2>1, <3>5
        <4>2. g[m] = AppendStep(qf, index, info, b, hash, g, m)
          <5>. HIDE DEF new
          <5>. QED
            BY <1>4, <4>1 DEF IsAppend
        <4>3. new[m] = g[m]
          BY <3>5
        <4>. QED
          BY <3>3, <4>2, <4>3
      <3>. QED
        BY <3>4, <3>5
    <2>3. IsAppend(qf, index, info, b, hash, p, new)
      <3>1. new = [m \in 0 .. p |-> new[m]]
        OBVIOUS
      <3>. HIDE DEF new
      <3>2. new = [m \in 0 .. p |-> AppendStep(qf, index, info, b, hash, new, m)]
        BY <2>2, <3>1
      <3>. QED
        BY <3>2 DEF IsAppend
    <2>4. p \in K
      <3>. HIDE DEF new, p
      <3>. QED
        BY <2>1, <2>3
    <2>. QED
      BY <1>2, <2>1, <2>4
  <1>. QED
    BY <1>5, <1>6

\* The rounds are finitely many: each uses up chunks of the hash.
LEMMA RoundsType ==
    ASSUME NEW info, info.ext_len \in Nat, NEW hash, NEW other
    PROVE  Rounds(info, hash, other) \in Nat \ {0}
  <1>. DEFINE S == {i \in 1 .. HashBits :
                      \/ chunk(hash, info.ext_len + i - 1) # chunk(other, info.ext_len + i - 1)
                      \/ QuotientBits + BitsPerSlot * (info.ext_len + i + 1) >= HashBits}
              m == info.ext_len + HashBits + 1
              p == BitsPerSlot * m
  <1>1. QuotientBits \in Nat /\ BitsPerSlot \in Nat \ {0} /\ HashBits \in Nat \ {0}
    BY GQFAssumption
  <1>2. m \in Nat /\ m >= HashBits
    BY <1>1
  <1>. HIDE DEF m
  <1>3. p \in Nat /\ p >= m
    <2>1. \A x \in Nat \ {0}, y \in Nat : x * y \in Nat /\ x * y >= y
      OBVIOUS
    <2>. QED
      BY <1>1, <1>2, <2>1
  <1>4. p = BitsPerSlot * (info.ext_len + HashBits + 1)
    BY DEF m
  <1>. HIDE DEF p
  <1>5. HashBits \in S
    <2>1. QuotientBits + p >= HashBits
      BY <1>1, <1>2, <1>3
    <2>2. QuotientBits + BitsPerSlot * (info.ext_len + HashBits + 1) >= HashBits
      BY <1>4, <2>1
    <2>. QED
      BY <1>1, <2>2
  <1>6. S \in SUBSET Nat /\ 0 \notin S
    OBVIOUS
  <1>7. Rounds(info, hash, other) = Min(S)
    BY DEF Rounds
  <1>. HIDE DEF S
  <1>8. Min(S) \in S
    BY <1>5, <1>6, MinOfNats
  <1>. QED
    BY <1>6, <1>7, <1>8

(***************************************************************************)
(* Appending chunks to an item without a longer counter keeps the filter   *)
(* in shape, also if it runs out of slots on the way.                      *)
(***************************************************************************)
THEOREM AdaptKeeps ==
    ASSUME NEW qf, NEW U, NEW h, Shaped(qf, U, h), Fits(U), NEW b \in Nat, NEW index \in Items(qf, U, h, b),
           NEW hash \in Nat, NEW other \in Nat
    PROVE  Kept(adapt(qf, index, b, hash, other))
  <1>. DEFINE info == get_slot_info(qf, index)
              n == Rounds(info, hash, other)
              at(i) == index + info.ext_len + i
              g == CHOOSE f : IsAppend(qf, index, info, b, hash, n, f)
  <1>1. /\ qf \in Filters /\ Homed(qf, U, h) /\ ChunksFirst(qf) /\ U \in SUBSET Nat
        /\ index \in U /\ index \in Nat /\ h[index] = b
    <2>1. qf \in Filters /\ Homed(qf, U, h) /\ ChunksFirst(qf)
      BY DEF Shaped
    <2>2. U \in SUBSET Nat
      BY <2>1, HomedTypes
    <2>. QED
      BY <2>1, <2>2 DEF Items
  <1>2. /\ info.ext_len \in Nat /\ info.count_len \in Nat
        /\ index + 1 + info.ext_len + info.count_len = skip_extensions(qf, index + 1)
        /\ \A k \in Nat : index < k /\ k < index + 1 + info.ext_len => is_extension(qf, k)
    BY <1>1, InfoIs
  <1>3. CASE info.count_len > 1
    <2>1. adapt(qf, index, b, hash, other) = qf
      BY <1>3 DEF adapt
    <2>. QED
      BY <2>1 DEF Kept
  <1>4. CASE ~(info.count_len > 1)
    <2>1. n \in Nat
      BY <1>2, RoundsType
    <2>2. IsAppend(qf, index, info, b, hash, n, g)
      <3>. HIDE DEF info, n
      <3>1. \E f : IsAppend(qf, index, info, b, hash, n, f)
        BY <2>1, AppendExists
      <3>. QED
        BY <3>1
    <2>3. adapt(qf, index, b, hash, other) = g[n]
      <3>1. adapt(qf, index, b, hash, other) = append_chunks(qf, index, info, b, hash, other)
        BY <1>4 DEF adapt
      <3>2. n = Rounds(info, hash, other) /\ g = CHOOSE f : IsAppend(qf, index, info, b, hash, n, f)
        OBVIOUS
      <3>. HIDE DEF info, n, g
      <3>. QED
        BY <3>1, <3>2, AppendDef
    <2>. HIDE DEF g, n
    <2>4. ASSUME NEW i \in 0 .. n PROVE g[i] = AppendStep(qf, index, info, b, hash, g, i)
      <3>. HIDE DEF info
      <3>. QED
        BY <2>2 DEF IsAppend
    <2>5. ASSUME NEW i \in Nat
          PROVE  at(i) \in Nat /\ at(i) + 1 = at(i + 1) /\ chunk(hash, info.ext_len + i) \in SlotValues
      <3>1. at(i) \in Nat /\ at(i) + 1 = at(i + 1) /\ info.ext_len + i \in Nat
        BY <1>1, <1>2
      <3>. QED
        BY <3>1, ChunkType
    <2>6. CASE n = 0
      <3>1. g[n] = qf
        BY <2>1, <2>4, <2>6 DEF AppendStep
      <3>. QED
        BY <2>3, <3>1 DEF Kept
    <2>7. CASE n # 0
      <3>. DEFINE Good(i) == Growing(g[i], b, at(i + 1))
                  value(i) == chunk(hash, info.ext_len + i - 1)
      <3>1. Good(1)
        <4>1. 1 \in 0 .. n /\ 0 \in 0 .. n
          BY <2>1, <2>7
        <4>2. g[0] = qf
          BY <2>4, <4>1 DEF AppendStep
        <4>3. value(1) \in SlotValues
          <5>1. info.ext_len + 1 - 1 = info.ext_len + 0
            BY <1>2
          <5>. QED
            BY <2>5, <5>1
        <4>4. /\ at(1) \in Nat /\ at(1) + 1 = at(2) /\ at(1) # 0 /\ at(1) - 1 = index + info.ext_len
              /\ at(1) = index + 1 + info.ext_len
          BY <1>1, <1>2
        <4>5. CASE info.count_len = 1
          <5>1. CASE ~HasSpace(qf, at(1))
            <6>1. g[1] = qf
              <7>1. g[1 - 1] = qf
                BY <4>2
              <7>. QED
                BY <2>4, <4>1, <5>1, <7>1 DEF AppendStep, Appended
            <6>2. Homed(qf, U, h) /\ Stored(qf, U, h)
              BY DEF Shaped
            <6>3. ASSUME NEW k \in Nat, at(2) <= k, k < XnSlots PROVE k \in U
              <7>1. at(1) <= k
                BY <4>4, <6>3
              <7>. HIDE DEF at
              <7>. QED
                BY <4>4, <5>1, <6>2, <6>3, <7>1, RoomFound
            <6>4. at(1 + 1) = at(2)
              OBVIOUS
            <6>. HIDE DEF at
            <6>5. Growing(qf, b, at(2))
              BY <6>3 DEF Growing
            <6>. QED
              BY <6>1, <6>4, <6>5
          <5>2. CASE HasSpace(qf, at(1))
            <6>1. g[1] = Overwritten(qf, at(1), value(1))
              <7>1. g[1 - 1] = qf
                BY <4>2
              <7>. QED
                BY <2>4, <4>1, <4>5, <5>2, <7>1 DEF AppendStep
            <6>2. at(1) = index + info.ext_len + 1 /\ at(1) + 1 = at(1 + 1)
              BY <4>4
            <6>. HIDE DEF at, info, value
            <6>3. Growing(g[1], b, at(1) + 1)
              <7>1. info = get_slot_info(qf, index)
                BY DEF info
              <7>. QED
                BY <4>3, <4>5, <6>1, <6>2, <7>1, CounterOverwritten
            <6>. QED
              BY <6>2, <6>3
          <5>. QED
            BY <5>1, <5>2
        <4>6. CASE info.count_len # 1
          <5>1. info.count_len = 0
            BY <1>2, <1>4, <4>6
          <5>2. at(1) = skip_extensions(qf, index + 1)
            BY <1>2, <4>4, <5>1
          <5>3. at(1) \notin qf.extensions
            <6>1. /\ qf.extensions \in SUBSET Slots /\ index + 1 \in Nat /\ index + 1 <= PastEnd
              <7>1. index < PastEnd /\ PastEnd \in Nat /\ qf.extensions \in SUBSET Slots
                BY <1>1, HomedTypes
              <7>. QED
                BY <1>1, <7>1
            <6>. HIDE DEF at
            <6>. QED
              BY <5>2, <6>1, SkipIs
          <5>4. /\ at(1) - 1 \in U /\ h[at(1) - 1] = b
            <6>1. at(1) - 1 \in Nat /\ index <= at(1) - 1 /\ at(1) - 1 < at(1)
              BY <1>1, <1>2, <4>4
            <6>. HIDE DEF at
            <6>. QED
              BY <1>1, <5>2, <6>1, ItemSlots
          <5>5. at(1) - 1 \notin qf.extensions \intersect qf.runends
            <6>1. CASE info.ext_len = 0
              <7>1. at(1) - 1 = index /\ index \notin qf.extensions
                BY <1>1, <4>4, <6>1 DEF Items
              <7>. QED
                BY <7>1
            <6>2. CASE info.ext_len # 0
              <7>1. at(1) - 1 \in Nat /\ index < at(1) - 1 /\ at(1) - 1 < index + 1 + info.ext_len
                BY <1>1, <1>2, <4>4, <6>2
              <7>. HIDE DEF at
              <7>2. is_extension(qf, at(1) - 1)
                BY <1>2, <7>1
              <7>. QED
                BY <7>2 DEF is_extension
            <6>. QED
              BY <6>1, <6>2
          <5>6. Growing(qf, b, at(1))
            <6>1. Behind(qf, U, h, b, at(1))
              BY <4>4, <5>3, <5>4 DEF Behind
            <6>. HIDE DEF at
            <6>. QED
              BY <5>5, <6>1 DEF Growing
          <5>7. g[1] = Appended(qf, b, at(1), value(1))
            <6>1. g[1 - 1] = qf
              BY <4>2
            <6>. QED
              BY <2>4, <4>1, <4>6, <6>1 DEF AppendStep, Appended
          <5>8. at(1) + 1 = at(1 + 1)
            BY <4>4
          <5>. HIDE DEF at, info, value
          <5>9. Growing(g[1], b, at(1) + 1)
            BY <4>3, <4>4, <5>6, <5>7, ChunkAppended
          <5>. QED
            BY <5>8, <5>9
        <4>. QED
          BY <4>5, <4>6
      <3>2. ASSUME NEW i \in 1 .. n, i # 1, Good(i - 1) PROVE Good(i)
        <4>1. i \in 0 .. n /\ i \in Nat /\ i # 0 /\ i - 1 \in Nat /\ (i - 1) + 1 = i
          BY <2>1, <3>2
        <4>2. value(i) \in SlotValues /\ at(i) \in Nat /\ at(i) + 1 = at(i + 1)
          <5>1. info.ext_len + i - 1 = info.ext_len + (i - 1)
            BY <1>2, <4>1
          <5>. QED
            BY <2>5, <4>1, <5>1
        <4>3. g[i] = Appended(g[i - 1], b, at(i), value(i))
          BY <2>4, <3>2, <4>1 DEF AppendStep, Appended
        <4>4. Growing(g[i - 1], b, at(i))
          BY <3>2, <4>1
        <4>. HIDE DEF at, info, value
        <4>5. Growing(g[i], b, at(i) + 1)
          BY <4>2, <4>3, <4>4, ChunkAppended
        <4>. QED
          BY <4>2, <4>5
      <3>3. Good(n)
        <4>. DEFINE Bad == {i \in 1 .. n : ~Good(i)}
        <4>1. SUFFICES ASSUME Bad # {} PROVE FALSE
          <5>1. n \in 1 .. n
            BY <2>1, <2>7
          <5>. HIDE DEF Good
          <5>. QED
            BY <5>1
        <4>. HIDE DEF Good
        <4>2. PICK i \in Bad : \A j \in Bad : i <= j
          <5>1. Bad \in SUBSET Nat
            OBVIOUS
          <5>. HIDE DEF Bad
          <5>. QED
            BY <4>1, <5>1, SmallestNat
        <4>3. i \in 1 .. n /\ ~Good(i) /\ i # 1
          BY <3>1, <4>2
        <4>4. i - 1 \in 1 .. n /\ ~(i <= i - 1)
          BY <2>1, <4>3
        <4>5. Good(i - 1)
          BY <4>2, <4>4
        <4>. QED
          BY <3>2, <4>3, <4>5
      <3>. QED
        BY <2>3, <3>3 DEF Growing, Kept
    <2>. QED
      BY <2>6, <2>7
  <1>. QED
    BY <1>3, <1>4

-----------------------------------------------------------------------------
(***************************************************************************)
(* Counters                                                                *)
(***************************************************************************)
\* Powers of two multiply.
LEMMA PowerSum ==
    ASSUME NEW a \in Nat, NEW b \in Nat
    PROVE  2 ^ (a + b) = 2 ^ a * 2 ^ b
  <1>. DEFINE A == 1 .. a
              B == a + 1 .. a + b
              S == SUBSET A
              T == SUBSET B
              W == SUBSET (1 .. a + b)
              f == [p \in S \X T |-> p[1] \cup p[2]]
  <1>1. /\ IsFiniteSet(A) /\ Cardinality(A) = a /\ IsFiniteSet(B) /\ Cardinality(B) = b
        /\ IsFiniteSet(1 .. a + b) /\ Cardinality(1 .. a + b) = a + b
    <2>1. /\ IsFiniteSet(A) /\ Cardinality(A) = IF 1 > a THEN 0 ELSE a - 1 + 1
          /\ IsFiniteSet(B) /\ Cardinality(B) = IF a + 1 > a + b THEN 0 ELSE a + b - (a + 1) + 1
          /\ IsFiniteSet(1 .. a + b) /\ Cardinality(1 .. a + b) = IF 1 > a + b THEN 0 ELSE a + b - 1 + 1
      BY FS_Interval
    <2>. HIDE DEF A, B
    <2>. QED
      BY <2>1
  <1>2. A \cup B = 1 .. a + b /\ A \intersect B = {}
    OBVIOUS
  <1>3. /\ IsFiniteSet(S) /\ Cardinality(S) = 2 ^ a /\ IsFiniteSet(T) /\ Cardinality(T) = 2 ^ b
        /\ IsFiniteSet(W) /\ Cardinality(W) = 2 ^ (a + b)
    BY <1>1, FS_SUBSET
  <1>4. IsFiniteSet(S \X T) /\ Cardinality(S \X T) = 2 ^ a * 2 ^ b
    <2>. HIDE DEF S, T
    <2>. QED
      BY <1>3, FS_Product
  <1>5. f \in Bijection(S \X T, W)
    <2>1. f \in [S \X T -> W]
      <3>1. ASSUME NEW p \in S \X T PROVE p[1] \cup p[2] \in W
        <4>1. p[1] \in S /\ p[2] \in T
          OBVIOUS
        <4>. HIDE DEF A, B
        <4>. QED
          BY <1>2, <4>1
      <3>. HIDE DEF S, T, W
      <3>. QED
        BY <3>1
    <2>2. ASSUME NEW p \in S \X T, NEW q \in S \X T, f[p] = f[q] PROVE p = q
      <3>1. p[1] \in S /\ p[2] \in T /\ q[1] \in S /\ q[2] \in T /\ p = <<p[1], p[2]>> /\ q = <<q[1], q[2]>>
        OBVIOUS
      <3>2. p[1] \cup p[2] = q[1] \cup q[2]
        BY <2>2
      <3>. DEFINE x == p[1]
                  y == p[2]
                  z == q[1]
                  w == q[2]
      <3>3. x = z /\ y = w
        <4>. HIDE DEF A, B, f
        <4>1. x \in SUBSET A /\ z \in SUBSET A /\ y \in SUBSET B /\ w \in SUBSET B /\ x \cup y = z \cup w
          BY <3>1, <3>2
        <4>. HIDE DEF x, y, z, w
        <4>2. x = (x \cup y) \intersect A /\ z = (z \cup w) \intersect A
          BY <1>2, <4>1
        <4>3. y = (x \cup y) \intersect B /\ w = (z \cup w) \intersect B
          BY <1>2, <4>1
        <4>. QED
          BY <4>1, <4>2, <4>3
      <3>. QED
        BY <3>1, <3>3
    <2>3. ASSUME NEW v \in W PROVE \E p \in S \X T : f[p] = v
      <3>. DEFINE p == <<v \intersect A, v \intersect B>>
      <3>1. p \in S \X T /\ p[1] = v \intersect A /\ p[2] = v \intersect B
        OBVIOUS
      <3>2. (v \intersect A) \cup (v \intersect B) = v
        <4>. HIDE DEF A, B
        <4>. QED
          BY <1>2
      <3>3. f[p] = v
        <4>1. f[p] = p[1] \cup p[2]
          BY <3>1
        <4>. HIDE DEF p, f
        <4>. QED
          BY <3>1, <3>2, <4>1
      <3>. QED
        BY <3>1, <3>3
    <2>. HIDE DEF f, S, T, W
    <2>. QED
      BY <2>1, <2>2, <2>3 DEF Bijection, Injection, Surjection, IsInjective
  <1>6. Cardinality(W) = Cardinality(S \X T)
    <2>1. ExistsBijection(S \X T, W)
      <3>. HIDE DEF f, S, T, W
      <3>. QED
        BY <1>5 DEF ExistsBijection
    <2>. HIDE DEF S, T, W
    <2>. QED
      BY <1>4, <2>1, FS_Bijection
  <1>. HIDE DEF S, T, W
  <1>. QED
    BY <1>3, <1>4, <1>6

\* The least powers of two.
LEMMA PowerSmall == 2 ^ 0 = 1 /\ 2 ^ 1 = 2
  <1>1. 2 ^ 0 = 1
    <2>1. IsFiniteSet({}) /\ Cardinality({}) = 0
      BY FS_EmptySet
    <2>2. Cardinality(SUBSET {}) = 2 ^ 0
      BY <2>1, FS_SUBSET
    <2>3. SUBSET {} = {{}}
      OBVIOUS
    <2>. QED
      BY <2>2, <2>3, FS_Singleton
  <1>2. 2 ^ 1 = 2
    <2>. DEFINE x == CHOOSE y : y \notin {}
    <2>1. IsFiniteSet({1}) /\ Cardinality({1}) = 1
      BY FS_Singleton
    <2>2. IsFiniteSet(SUBSET {1}) /\ Cardinality(SUBSET {1}) = 2 ^ 1
      BY <2>1, FS_SUBSET
    <2>3. SUBSET {1} = {{}, {1}} /\ {1} # {}
      OBVIOUS
    <2>4. {{}, {1}} \ {{1}} = {{}} /\ {1} \in {{}, {1}}
      OBVIOUS
    <2>5. Cardinality({{}}) = Cardinality({{}, {1}}) - 1
      <3>1. IsFiniteSet({{}, {1}})
        BY <2>2, <2>3
      <3>. QED
        BY <2>4, <3>1, FS_RemoveElement
    <2>6. Cardinality({{}}) = 1 /\ Cardinality({{}, {1}}) \in Nat
      BY <2>2, <2>3, FS_Singleton, FS_CardinalityType
    <2>. QED
      BY <2>2, <2>3, <2>5, <2>6
  <1>. QED
    BY <1>1, <1>2

\* Powers of two grow, and faster than their exponents.
LEMMA PowerGrows ==
    ASSUME NEW a \in Nat, NEW b \in Nat, a <= b
    PROVE  2 ^ a <= 2 ^ b /\ (a # b => 2 * 2 ^ a <= 2 ^ b)
  <1>. DEFINE d == b - a
              A == 2 ^ a
              D == 2 ^ d
              E == 2 ^ (d - 1)
  <1>1. d \in Nat /\ a + d = b
    OBVIOUS
  <1>. HIDE DEF d
  <1>2. 2 ^ b = A * D /\ A \in Nat \ {0} /\ D \in Nat \ {0}
    BY <1>1, PowerSum, PowerOfTwo
  <1>3. d # 0 => D = 2 * E /\ E \in Nat \ {0}
    <2>1. ASSUME d # 0 PROVE D = 2 * E /\ E \in Nat \ {0}
      <3>1. d - 1 \in Nat /\ 1 + (d - 1) = d
        BY <1>1, <2>1
      <3>2. 2 ^ (1 + (d - 1)) = 2 ^ 1 * 2 ^ (d - 1) /\ E \in Nat \ {0}
        BY <3>1, PowerSum, PowerOfTwo
      <3>. QED
        BY <3>1, <3>2, PowerSmall
    <2>. QED
      BY <2>1
  <1>4. a # b => d # 0
    BY <1>1
  <1>5. \A x, y \in Nat \ {0} : x <= x * y /\ 2 * x <= x * (2 * y)
    OBVIOUS
  <1>. HIDE DEF A, D, E
  <1>. QED
    BY <1>2, <1>3, <1>4, <1>5 DEF A

\* A power of two is more than its exponent.
LEMMA PowerExceeds ==
    ASSUME NEW n \in Nat
    PROVE  n < 2 ^ n
  <1>. DEFINE Bad == {k \in Nat : ~(k < 2 ^ k)}
  <1>1. SUFFICES ASSUME Bad # {} PROVE FALSE
    OBVIOUS
  <1>2. PICK k \in Bad : \A j \in Bad : k <= j
    <2>1. Bad \in SUBSET Nat
      OBVIOUS
    <2>. HIDE DEF Bad
    <2>. QED
      BY <1>1, <2>1, SmallestNat
  <1>3. k \in Nat /\ ~(k < 2 ^ k)
    OBVIOUS
  <1>4. k # 0
    <2>1. SUFFICES ASSUME k = 0 PROVE k < 2 ^ k
      BY <1>3
    <2>2. 2 ^ k = 1
      BY <2>1, PowerSmall
    <2>. HIDE DEF Bad
    <2>. QED
      BY <2>1, <2>2
  <1>5. k - 1 \in Nat /\ k - 1 <= k /\ k - 1 # k /\ ~(k <= k - 1)
    BY <1>3, <1>4
  <1>. DEFINE p == 2 ^ (k - 1)
              q == 2 ^ k
  <1>6. p \in Nat /\ q \in Nat /\ 2 * p <= q
    BY <1>3, <1>5, PowerGrows, PowerOfTwo
  <1>7. k - 1 < p
    BY <1>2, <1>5
  <1>8. ~(k < q)
    BY <1>3
  <1>. HIDE DEF p, q
  <1>. QED
    BY <1>3, <1>4, <1>6, <1>7, <1>8

\* The definition of number, from slot i on.
Digits(qf, to, n, i) ==
    IF i = to THEN 0 ELSE get_slot(qf, i) + 2 ^ BitsPerSlot * n[i + 1]
\* n has the numbers from every slot on.
IsNumber(qf, from, to, n) == n = [i \in from .. to |-> Digits(qf, to, n, i)]

\* number by those numbers.
LEMMA NumberDef ==
    ASSUME NEW qf, NEW from, NEW to
    PROVE  number(qf, from, to) = (CHOOSE n : IsNumber(qf, from, to, n))[from]
  BY DEF number, IsNumber, Digits

\* There is such a function.
LEMMA NumberExists ==
    ASSUME NEW qf, NEW from \in Nat, NEW to \in Nat, from <= to
    PROVE  \E n : IsNumber(qf, from, to, n)
  <1>. DEFINE K == {k \in Nat : from <= k /\ k <= to /\ \E n : IsNumber(qf, k, to, n)}
  <1>1. to \in K
    <2>. DEFINE n == [i \in to .. to |-> 0]
    <2>1. \A i \in to .. to : i = to
      OBVIOUS
    <2>2. \A i \in to .. to : Digits(qf, to, n, i) = 0
      BY <2>1 DEF Digits
    <2>3. n = [i \in to .. to |-> Digits(qf, to, n, i)]
      BY <2>2
    <2>. HIDE DEF n
    <2>. QED
      BY <2>3 DEF IsNumber
  <1>2. PICK k \in K : \A m \in K : k <= m
    <2>1. K \in SUBSET Nat /\ K # {}
      BY <1>1
    <2>. HIDE DEF K
    <2>. QED
      BY <2>1, SmallestNat
  <1>3. k \in Nat /\ from <= k /\ k <= to
    OBVIOUS
  <1>4. PICK n : IsNumber(qf, k, to, n)
    OBVIOUS
  <1>5. CASE k = from
    BY <1>4, <1>5
  <1>6. CASE k # from
    <2>. DEFINE p == k - 1
                new == [i \in p .. to |-> IF i = p THEN Digits(qf, to, n, p) ELSE n[i]]
    <2>1. p \in Nat /\ from <= p /\ p < to /\ ~(k <= p) /\ p < k
      BY <1>3, <1>6
    <2>2. ASSUME NEW i \in p .. to PROVE new[i] = Digits(qf, to, new, i)
      <3>1. i # to => i + 1 \in p .. to /\ i + 1 # p
        BY <2>1
      <3>2. i # to => new[i + 1] = n[i + 1]
        BY <3>1
      <3>. HIDE DEF new
      <3>3. Digits(qf, to, new, i) = Digits(qf, to, n, i)
        BY <3>2 DEF Digits
      <3>. USE DEF new
      <3>4. CASE i = p
        <4>1. new[i] = Digits(qf, to, n, p)
          BY <3>4
        <4>. QED
          BY <3>3, <3>4, <4>1
      <3>5. CASE i # p
        <4>1. i \in k .. to
          BY <1>3, <2>1, <3>5
        <4>2. n[i] = Digits(qf, to, n, i)
          <5>. HIDE DEF new
          <5>. QED
            BY <1>4, <4>1 DEF IsNumber
        <4>3. new[i] = n[i]
          BY <3>5
        <4>. QED
          BY <3>3, <4>2, <4>3
      <3>. QED
        BY <3>4, <3>5
    <2>3. IsNumber(qf, p, to, new)
      <3>1. new = [i \in p .. to |-> new[i]]
        OBVIOUS
      <3>. HIDE DEF new
      <3>2. new = [i \in p .. to |-> Digits(qf, to, new, i)]
        BY <2>2, <3>1
      <3>. QED
        BY <3>2 DEF IsNumber
    <2>4. p \in K
      <3>. HIDE DEF new, p
      <3>. QED
        BY <1>3, <2>1, <2>3
    <2>. QED
      BY <1>2, <2>1, <2>4
  <1>. QED
    BY <1>5, <1>6

\* Exponents of the powers that occur.
LEMMA Exponents ==
    ASSUME NEW n \in Nat
    PROVE  /\ BitsPerSlot * n \in Nat /\ n <= BitsPerSlot * n
           /\ BitsPerSlot * (n + 1) = BitsPerSlot + BitsPerSlot * n
           /\ \A m \in Nat : n <= m => BitsPerSlot * n <= BitsPerSlot * m
  <1>1. BitsPerSlot \in Nat \ {0}
    BY GQFAssumption
  <1>2. \A x \in Nat \ {0}, y \in Nat : x * y \in Nat /\ y <= x * y /\ x * (y + 1) = x + x * y
    OBVIOUS
  <1>3. \A x \in Nat \ {0}, y, z \in Nat : y <= z => x * y <= x * z
    OBVIOUS
  <1>. QED
    BY <1>1, <1>2, <1>3

\* A digit in front of a number of so many.
LEMMA NextDigit ==
    ASSUME NEW x \in Nat, NEW y \in Nat, NEW z \in Nat, NEW w \in Nat, w < x, y < z
    PROVE  w + x * y \in Nat /\ w + x * y < x * z
  <1>. DEFINE d == z - (y + 1)
              a == x * y
              b == x * d
  <1>1. d \in Nat /\ z = y + 1 + d
    OBVIOUS
  <1>. HIDE DEF d
  <1>2. a \in Nat /\ b \in Nat /\ x * (y + 1 + d) = a + x + b
    BY <1>1
  <1>3. x * z = a + x + b
    BY <1>1, <1>2
  <1>. HIDE DEF a, b
  <1>4. w + a \in Nat /\ w + a < a + x + b
    BY <1>2
  <1>. QED
    BY <1>3, <1>4 DEF a

\* A number of so many digits is less than the power of that.
LEMMA NumberBound ==
    ASSUME NEW qf \in Filters, NEW from \in Nat, NEW to \in Nat, from <= to,
           \A k \in Nat : from <= k /\ k < to => k \in Slots /\ k < XnSlots,
           NEW m, m = number(qf, from, to)
    PROVE  m \in Nat /\ m < 2 ^ (BitsPerSlot * (to - from))
  <1>. DEFINE n == CHOOSE f : IsNumber(qf, from, to, f)
              P == 2 ^ BitsPerSlot
              Q(d) == 2 ^ (BitsPerSlot * d)
              Good(d) == n[to - d] \in Nat /\ n[to - d] < Q(d)
              Bad == {d \in Nat : d <= to - from /\ ~Good(d)}
  <1>1. IsNumber(qf, from, to, n) /\ m = n[from]
    <2>1. \E f : IsNumber(qf, from, to, f)
      BY NumberExists
    <2>2. IsNumber(qf, from, to, n)
      BY <2>1
    <2>. HIDE DEF n
    <2>3. n = CHOOSE f : IsNumber(qf, from, to, f)
      BY DEF n
    <2>. QED
      BY <2>2, <2>3, NumberDef
  <1>. HIDE DEF n
  <1>2. \A i \in from .. to : n[i] = Digits(qf, to, n, i)
    BY <1>1 DEF IsNumber
  <1>3. P \in Nat \ {0}
    BY GQFAssumption, PowerOfTwo
  <1>4. ASSUME NEW d \in Nat PROVE Q(d) \in Nat \ {0} /\ Q(d + 1) = P * Q(d)
    <2>1. BitsPerSlot * d \in Nat /\ BitsPerSlot * (d + 1) = BitsPerSlot + BitsPerSlot * d /\ BitsPerSlot \in Nat
      BY Exponents, GQFAssumption
    <2>. DEFINE e == BitsPerSlot * d
    <2>2. e \in Nat /\ BitsPerSlot * (d + 1) = BitsPerSlot + e
      BY <2>1
    <2>. HIDE DEF e
    <2>3. 2 ^ e \in Nat \ {0} /\ 2 ^ (BitsPerSlot + e) = 2 ^ BitsPerSlot * 2 ^ e
      BY <2>1, <2>2, PowerOfTwo, PowerSum
    <2>. QED
      BY <2>2, <2>3 DEF e
  <1>5. Good(0)
    <2>1. to - 0 = to /\ to \in from .. to
      OBVIOUS
    <2>2. n[to] = 0
      BY <1>2, <2>1 DEF Digits
    <2>3. Q(0) \in Nat \ {0}
      BY <1>4
    <2>. HIDE DEF Q
    <2>. QED
      BY <2>1, <2>2, <2>3
  <1>6. ASSUME NEW d \in Nat, d + 1 <= to - from, Good(d) PROVE Good(d + 1)
    <2>. DEFINE i == to - (d + 1)
                s == get_slot(qf, i)
                q == Q(d)
                v == n[to - d]
    <2>1. i \in from .. to /\ i # to /\ i + 1 = to - d /\ i \in Nat /\ i < to /\ from <= i
      BY <1>6
    <2>2. s \in 0 .. P - 1
      <3>1. i \in Slots /\ ~(i > XnSlots)
        <4>1. i \in Slots /\ i < XnSlots /\ XnSlots \in Nat
          BY <2>1, Sizes
        <4>. QED
          BY <2>1, <4>1
      <3>2. s = qf.slots[i]
        BY <3>1 DEF get_slot
      <3>. QED
        BY <3>1, <3>2 DEF Filters, SlotValues
    <2>3. n[i] = s + P * n[i + 1]
      BY <1>2, <2>1 DEF Digits
    <2>4. n[i] = s + P * v /\ v \in Nat /\ v < q
      <3>1. n[i + 1] = v
        BY <2>1
      <3>2. v \in Nat /\ v < q
        BY <1>6
      <3>. HIDE DEF v, s, P, q, i
      <3>. QED
        BY <2>3, <3>1, <3>2
    <2>5. q \in Nat /\ Q(d + 1) = P * q
      BY <1>4
    <2>7. s + P * v \in Nat /\ s + P * v < P * q
      <3>. HIDE DEF s, P, v, q
      <3>1. P \in Nat /\ s \in Nat /\ s < P
        BY <1>3, <2>2
      <3>. QED
        BY <2>4, <2>5, <3>1, NextDigit
    <2>8. n[i] \in Nat /\ n[i] < Q(d + 1)
      <3>. HIDE DEF s, P, v, q, Q, i
      <3>. QED
        BY <2>4, <2>5, <2>7
    <2>. QED
      BY <2>8
  <1>7. Bad = {}
    <2>. HIDE DEF Good
    <2>1. SUFFICES ASSUME Bad # {} PROVE FALSE
      OBVIOUS
    <2>2. PICK d \in Bad : \A j \in Bad : d <= j
      <3>1. Bad \in SUBSET Nat
        OBVIOUS
      <3>. HIDE DEF Bad
      <3>. QED
        BY <2>1, <3>1, SmallestNat
    <2>3. d \in Nat /\ d <= to - from /\ ~Good(d) /\ d # 0
      BY <1>5, <2>2
    <2>. DEFINE p == d - 1
    <2>4. p \in Nat /\ p + 1 = d /\ p + 1 <= to - from /\ p <= to - from /\ ~(d <= p)
      BY <2>3
    <2>. HIDE DEF p
    <2>5. Good(p)
      BY <2>2, <2>4
    <2>6. Good(p + 1)
      BY <1>6, <2>4, <2>5
    <2>. QED
      BY <2>3, <2>4, <2>6
  <1>8. Good(to - from)
    <2>1. to - from \in Nat /\ to - from <= to - from
      OBVIOUS
    <2>2. to - from \notin Bad
      <3>. HIDE DEF Bad
      <3>. QED
        BY <1>7
    <2>. HIDE DEF Good
    <2>. QED
      BY <2>1, <2>2
  <1>9. to - (to - from) = from
    OBVIOUS
  <1>. QED
    BY <1>1, <1>8, <1>9

\* The digits that rewrite_counter counts.
Length(c) ==
    CHOOSE n \in 0 .. c : c < 2 ^ (BitsPerSlot * n) /\ (n > 0 => c >= 2 ^ (BitsPerSlot * (n - 1)))

\* A number has no more digits than it needs.
LEMMA LengthIs ==
    ASSUME NEW c \in Nat, NEW m \in Nat, c < 2 ^ (BitsPerSlot * m)
    PROVE  Length(c) \in Nat /\ Length(c) <= m
  <1>. DEFINE Q(n) == 2 ^ (BitsPerSlot * n)
              S == {n \in Nat : c < Q(n)}
              Is(n) == c < Q(n) /\ (n > 0 => c >= Q(n - 1))
  <1>1. ASSUME NEW n \in Nat PROVE Q(n) \in Nat /\ n < Q(n) /\ \A k \in Nat : n <= k => Q(n) <= Q(k)
    <2>. DEFINE e == BitsPerSlot * n
    <2>1. e \in Nat /\ n <= e
      BY Exponents
    <2>2. ASSUME NEW k \in Nat, n <= k PROVE Q(n) <= Q(k)
      <3>1. BitsPerSlot * k \in Nat /\ BitsPerSlot * n <= BitsPerSlot * k /\ BitsPerSlot * n \in Nat
        BY <2>2, Exponents
      <3>. QED
        BY <3>1, PowerGrows
    <2>. HIDE DEF e
    <2>3. 2 ^ e \in Nat /\ e < 2 ^ e
      BY <2>1, PowerOfTwo, PowerExceeds
    <2>4. Q(n) = 2 ^ e
      BY DEF e
    <2>. HIDE DEF Q
    <2>. QED
      BY <2>1, <2>2, <2>3, <2>4
  <1>2. m \in S /\ S \in SUBSET Nat
    OBVIOUS
  <1>. HIDE DEF Q
  <1>3. PICK n \in S : \A k \in S : n <= k
    <2>. HIDE DEF S
    <2>. QED
      BY <1>2, SmallestNat
  <1>4. n \in Nat /\ Is(n)
    <2>1. ASSUME n > 0 PROVE c >= Q(n - 1)
      <3>1. n - 1 \in Nat /\ ~(n <= n - 1)
        BY <2>1
      <3>2. ~(c < Q(n - 1))
        BY <1>3, <3>1
      <3>3. Q(n - 1) \in Nat
        BY <1>1, <3>1
      <3>. QED
        BY <3>2, <3>3
    <2>. QED
      BY <2>1
  <1>5. n \in 0 .. c
    <2>1. CASE n = 0
      BY <2>1
    <2>2. CASE n # 0
      <3>1. n - 1 \in Nat /\ n > 0
        BY <1>4, <2>2
      <3>2. n - 1 < Q(n - 1) /\ Q(n - 1) \in Nat /\ c >= Q(n - 1)
        BY <1>1, <1>4, <3>1
      <3>. QED
        BY <1>4, <3>1, <3>2
    <2>. QED
      BY <2>1, <2>2
  <1>. DEFINE L == CHOOSE k \in 0 .. c : Is(k)
  <1>6. L \in 0 .. c /\ Is(L)
    <2>. HIDE DEF Is
    <2>. QED
      BY <1>4, <1>5
  <1>7. Length(c) = L
    BY DEF Length, Q
  <1>. HIDE DEF L
  <1>8. L \in Nat /\ L <= m
    <2>1. SUFFICES ASSUME ~(L <= m) PROVE FALSE
      BY <1>6
    <2>2. L - 1 \in Nat /\ m <= L - 1 /\ L > 0
      BY <1>6, <2>1
    <2>3. Q(m) <= Q(L - 1) /\ Q(m) \in Nat /\ Q(L - 1) \in Nat /\ c >= Q(L - 1)
      BY <1>1, <1>6, <2>2
    <2>4. c < Q(m)
      BY <1>2
    <2>. QED
      BY <2>3, <2>4
  <1>. QED
    BY <1>7, <1>8

\* An item's count is a number of as many digits as it has counter slots.
LEMMA CountIs ==
    ASSUME NEW qf, NEW U, NEW h, Shaped(qf, U, h), Fits(U), NEW i \in U, NEW info, info = get_slot_info(qf, i)
    PROVE  /\ info.ext \in Nat /\ info.count \in Nat
           /\ info.count_len = 0 => info.count = 1
           /\ info.count_len # 0 => info.count < 2 ^ (BitsPerSlot * info.count_len)
  <1>. DEFINE c == i + 1 + info.ext_len
              e == c + info.count_len
              n == skip_extensions(qf, i + 1)
  <1>1. qf \in Filters /\ Homed(qf, U, h) /\ ChunksFirst(qf)
    BY DEF Shaped
  <1>2. /\ i \in Nat /\ i < PastEnd /\ PastEnd \in Nat /\ i \in Slots /\ U \in SUBSET Slots
        /\ qf.extensions \in SUBSET Slots /\ i + 1 \in Nat
    BY <1>1, HomedTypes
  <1>3. /\ info.ext_len \in Nat /\ info.count_len \in Nat
        /\ c \in Nat /\ i + 1 <= c /\ e \in Nat /\ c <= e
        /\ info.ext = number(qf, i + 1, c)
        /\ info.count = IF e = c THEN 1 ELSE number(qf, c, e)
    <2>1. c = i + 1 + info.ext_len /\ e = c + info.count_len
      OBVIOUS
    <2>. HIDE DEF c, e
    <2>. QED
      BY <1>2, <2>1, InfoPlaces
  <1>4. e = n
    <2>1. i + 1 + info.ext_len + info.count_len = n
      <3>1. n = skip_extensions(qf, i + 1)
        OBVIOUS
      <3>. HIDE DEF n
      <3>. QED
        BY <1>1, <3>1, InfoIs
    <2>. QED
      BY <2>1
  <1>5. ASSUME NEW k \in Nat, i <= k, k < e PROVE k \in Slots /\ k < XnSlots
    <2>1. k \in U
      <3>. HIDE DEF n, e
      <3>1. n = skip_extensions(qf, i + 1) /\ k < n
        BY <1>4, <1>5 DEF n
      <3>. QED
        BY <1>1, <1>5, <3>1, ItemSlots
    <2>. QED
      BY <1>2, <2>1 DEF Fits
  <1>6. e - c = info.count_len
    BY <1>3
  <1>. HIDE DEF c, e, n
  <1>7. info.ext \in Nat
    <2>1. \A k \in Nat : i + 1 <= k /\ k < c => k \in Slots /\ k < XnSlots
      BY <1>2, <1>3, <1>5
    <2>. QED
      BY <1>1, <1>2, <1>3, <2>1, NumberBound
  <1>8. CASE e = c
    <2>1. info.count_len = 0 /\ info.count = 1
      BY <1>3, <1>6, <1>8
    <2>. QED
      BY <1>7, <2>1
  <1>9. CASE e # c
    <2>1. \A k \in Nat : c <= k /\ k < e => k \in Slots /\ k < XnSlots
      BY <1>2, <1>3, <1>5
    <2>2. info.count = number(qf, c, e) /\ info.count_len # 0
      BY <1>3, <1>6, <1>9
    <2>3. info.count \in Nat /\ info.count < 2 ^ (BitsPerSlot * (e - c))
      BY <1>1, <1>3, <2>1, <2>2, NumberBound
    <2>. QED
      BY <1>6, <1>7, <2>2, <2>3
  <1>. QED
    BY <1>8, <1>9

\* One more needs at most two more slots.
LEMMA LengthGrows ==
    ASSUME NEW info, info.count_len \in Nat, info.count \in Nat, info.count_len = 0 => info.count = 1,
           info.count_len # 0 => info.count < 2 ^ (BitsPerSlot * info.count_len),
           NEW n, n = Max({info.count_len, Length(info.count + 1)})
    PROVE  n \in Nat /\ info.count_len <= n /\ n <= info.count_len + 2
  <1>. DEFINE l == info.count_len
              c == info.count + 1
              m == l + 2
              L == Length(c)
              e == BitsPerSlot * l
              f == BitsPerSlot * m
  <1>1. l \in Nat /\ c \in Nat /\ m \in Nat /\ l <= m /\ l # m
    OBVIOUS
  <1>2. e \in Nat /\ f \in Nat /\ e <= f /\ m <= f
    <2>. HIDE DEF l, m
    <2>. QED
      BY <1>1, Exponents
  <1>3. 2 ^ e \in Nat /\ 2 ^ f \in Nat /\ 2 ^ e <= 2 ^ f /\ f < 2 ^ f /\ (e # f => 2 * 2 ^ e <= 2 ^ f)
    <2>. HIDE DEF e, f
    <2>. QED
      BY <1>2, PowerOfTwo, PowerGrows, PowerExceeds
  <1>4. c < 2 ^ f
    <2>1. CASE l = 0
      <3>1. c = 2 /\ m = 2
        BY <2>1
      <3>. HIDE DEF c, m, f, e
      <3>. QED
        BY <1>2, <1>3, <3>1
    <2>2. CASE l # 0
      <3>1. info.count < 2 ^ e
        BY <2>2
      <3>2. e # f
        <4>1. l < f
          BY <1>1, <1>2
        <4>2. l + 1 \in Nat /\ l + 1 <= m
          BY <1>1
        <4>4. BitsPerSlot * (l + 1) = BitsPerSlot + e
          <5>. HIDE DEF l, m, f
          <5>. QED
            BY <1>1, Exponents
        <4>5. BitsPerSlot \in Nat \ {0}
          BY GQFAssumption
        <4>3. BitsPerSlot * (l + 1) <= f /\ BitsPerSlot * (l + 1) \in Nat
          <5>. HIDE DEF l, m, e
          <5>. QED
            BY <1>1, <4>2, Exponents
        <4>. HIDE DEF e, f
        <4>. QED
          BY <1>2, <4>3, <4>4, <4>5
      <3>3. info.count \in Nat /\ c = info.count + 1
        OBVIOUS
      <3>. DEFINE x == 2 ^ e
                  y == 2 ^ f
      <3>4. x \in Nat /\ y \in Nat /\ 2 * x <= y /\ info.count < x
        BY <1>3, <3>1, <3>2
      <3>. HIDE DEF x, y, c, e, f
      <3>5. c < y
        BY <3>3, <3>4
      <3>. QED
        BY <3>5 DEF y
    <2>. QED
      BY <2>1, <2>2
  <1>5. L \in Nat /\ L <= m
    <2>. HIDE DEF c, m
    <2>. QED
      BY <1>1, <1>4, LengthIs
  <1>6. n = Max({l, L})
    OBVIOUS
  <1>7. m = l + 2
    OBVIOUS
  <1>. HIDE DEF L, m, l
  <1>8. Max({l, L}) = IF l <= L THEN L ELSE l
    <2>1. l \in Int /\ L \in Int
      BY <1>1, <1>5
    <2>. QED
      BY <2>1, MinMaxOfTwo
  <1>9. n \in Nat /\ l <= n /\ n <= l + 2
    BY <1>1, <1>5, <1>6, <1>7, <1>8
  <1>. QED
    BY <1>9 DEF l

\* The loop of increment_counter: the filter after i rounds, if g has those
\* before.
RewriteStep(qf, index, info, hash, total, g, i) ==
    LET value == (total \div 2 ^ (BitsPerSlot * (i - 1))) % 2 ^ BitsPerSlot
        at == index + info.ext_len + i
        q == g[i - 1]
    IN IF i = 0 THEN qf
       ELSE IF i <= info.count_len THEN set_slot(q, index + info.ext + i, value)
       ELSE Marked(insert_one_slot(q, bucket(hash), at, value), at, {at})

\* g has the filters after up to n rounds.
IsRewrite(qf, index, info, hash, total, n, g) ==
    g = [i \in 0 .. n |-> RewriteStep(qf, index, info, hash, total, g, i)]

\* rewrite_counter by its rounds.
LEMMA RewriteDef ==
    ASSUME NEW qf, NEW index, NEW info, NEW hash, NEW total, NEW n, n = Max({info.count_len, Length(total)})
    PROVE  rewrite_counter(qf, index, info, hash, total)
             = (CHOOSE g : IsRewrite(qf, index, info, hash, total, n, g))[n]
  BY DEF rewrite_counter, IsRewrite, RewriteStep, Length, Marked

\* There is such a loop.
LEMMA RewriteExists ==
    ASSUME NEW qf, NEW index, NEW info, NEW hash, NEW total, NEW n \in Nat
    PROVE  \E g : IsRewrite(qf, index, info, hash, total, n, g)
  <1>. DEFINE K == {k \in Nat : k <= n /\ \E g : IsRewrite(qf, index, info, hash, total, k, g)}
              c == RewriteStep(qf, index, info, hash, total, <<>>, 0)
  <1>1. 0 \in K
    <2>. DEFINE g == [m \in 0 .. 0 |-> c]
    <2>1. \A m \in 0 .. 0 : m = 0
      OBVIOUS
    <2>2. RewriteStep(qf, index, info, hash, total, g, 0) = c
      BY DEF RewriteStep
    <2>. HIDE DEF c
    <2>3. g = [m \in 0 .. 0 |-> RewriteStep(qf, index, info, hash, total, g, m)]
      BY <2>1, <2>2
    <2>. HIDE DEF g
    <2>. QED
      BY <2>3 DEF IsRewrite
  <1>2. PICK k \in K : \A m \in K : m <= k
    <2>1. K \in SUBSET Nat /\ K # {} /\ \A m \in K : m <= n
      BY <1>1
    <2>. HIDE DEF K
    <2>. QED
      BY <2>1, MaxOfNats
  <1>3. k \in Nat /\ k <= n
    OBVIOUS
  <1>4. PICK g : IsRewrite(qf, index, info, hash, total, k, g)
    OBVIOUS
  <1>5. CASE k = n
    BY <1>4, <1>5
  <1>6. CASE k # n
    <2>. DEFINE p == k + 1
                new == [m \in 0 .. p |-> IF m = p THEN RewriteStep(qf, index, info, hash, total, g, p) ELSE g[m]]
    <2>1. p \in Nat /\ p <= n /\ ~(p <= k)
      BY <1>3, <1>6
    <2>2. ASSUME NEW m \in 0 .. p PROVE new[m] = RewriteStep(qf, index, info, hash, total, new, m)
      <3>1. m # 0 => m - 1 \in 0 .. p /\ m - 1 # p
        BY <2>1
      <3>2. m # 0 => new[m - 1] = g[m - 1]
        BY <3>1
      <3>. HIDE DEF new
      <3>3. RewriteStep(qf, index, info, hash, total, new, m) = RewriteStep(qf, index, info, hash, total, g, m)
        BY <3>2 DEF RewriteStep
      <3>. USE DEF new
      <3>4. CASE m = p
        <4>1. new[m] = RewriteStep(qf, index, info, hash, total, g, p)
          BY <3>4
        <4>. QED
          BY <3>3, <3>4, <4>1
      <3>5. CASE m # p
        <4>1. m \in 0 .. k
          BY <1>3, <2>1, <3>5
        <4>2. g[m] = RewriteStep(qf, index, info, hash, total, g, m)
          <5>. HIDE DEF new
          <5>. QED
            BY <1>4, <4>1 DEF IsRewrite
        <4>3. new[m] = g[m]
          BY <3>5
        <4>. QED
          BY <3>3, <4>2, <4>3
      <3>. QED
        BY <3>4, <3>5
    <2>3. IsRewrite(qf, index, info, hash, total, p, new)
      <3>1. new = [m \in 0 .. p |-> new[m]]
        OBVIOUS
      <3>. HIDE DEF new
      <3>2. new = [m \in 0 .. p |-> RewriteStep(qf, index, info, hash, total, new, m)]
        BY <2>2, <3>1
      <3>. QED
        BY <3>2 DEF IsRewrite
    <2>4. p \in K
      <3>. HIDE DEF new, p
      <3>. QED
        BY <2>1, <2>3
    <2>. QED
      BY <1>2, <2>1, <2>4
  <1>. QED
    BY <1>5, <1>6

\* At least m slots from at on are free.
Room(U, at, m) ==
    \E F : /\ IsFiniteSet(F) /\ Cardinality(F) >= m
           /\ \A f \in F : f \in Nat /\ at <= f /\ f < XnSlots /\ f \notin U

\* A counter of an item of bucket b may go on at at, by up to m slots.
Counting(qf, b, at, m) ==
    \E U, h : Shaped(qf, U, h) /\ Fits(U) /\ Behind(qf, U, h, b, at) /\ Room(U, at, m)

\* Writing to a slot leaves the shape alone.
LEMMA SlotSet ==
    ASSUME NEW qf, NEW b, NEW at, NEW m, Counting(qf, b, at, m), NEW i, NEW value \in SlotValues,
           NEW new, new = set_slot(qf, i, value)
    PROVE  Counting(new, b, at, m)
  <1>1. PICK U, h : Shaped(qf, U, h) /\ Fits(U) /\ Behind(qf, U, h, b, at) /\ Room(U, at, m)
    BY DEF Counting
  <1>2. CASE i \notin Slots
    <2>1. new = qf
      BY <1>2 DEF set_slot
    <2>. QED
      BY <2>1
  <1>3. CASE i \in Slots
    <2>. DEFINE slots == [qf.slots EXCEPT ![i] = value]
    <2>1. qf \in Filters
      BY <1>1 DEF Shaped
    <2>2. slots \in [Slots -> SlotValues]
      BY <2>1, <1>3 DEF Filters
    <2>3. new = Updated(qf, slots, qf.occupieds, qf.runends, qf.extensions,
                        qf.noccupied_slots, qf.nelts, qf.ndistinct_elts)
      BY <2>1, <1>3 DEF Filters, Updated, set_slot
    <2>. HIDE DEF slots
    <2>4. /\ new \in Filters /\ new.occupieds = qf.occupieds /\ new.runends = qf.runends
          /\ new.extensions = qf.extensions /\ new.offset = qf.offset
          /\ new.noccupied_slots = qf.noccupied_slots
      <3>1. /\ qf.occupieds \in SUBSET Buckets /\ qf.runends \in SUBSET Slots
            /\ qf.extensions \in SUBSET Slots /\ qf.noccupied_slots \in Nat
            /\ qf.nelts \in Nat /\ qf.ndistinct_elts \in Nat
        BY <2>1 DEF Filters
      <3>. QED
        BY <2>1, <2>2, <2>3, <3>1, UpdatedFields
    <2>5. ChunksFirst(new)
      BY <1>1, <2>4 DEF Shaped, ChunksFirst, is_counter, is_extension
    <2>6. RunEnds(new) = RunEnds(qf) /\ new.runends \in SUBSET qf.runends
      BY <2>4 DEF RunEnds
    <2>7. Shaped(new, U, h)
      BY <1>1, <2>4, <2>5, <2>6, SameShape
    <2>8. Behind(new, U, h, b, at)
      BY <1>1, <2>4 DEF Behind
    <2>. QED
      BY <1>1, <2>7, <2>8 DEF Counting
  <1>. QED
    BY <1>2, <1>3

\* A counter slot more takes one of the free slots.
LEMMA CounterSlotAdded ==
    ASSUME NEW qf, NEW b \in Nat, NEW at \in Nat, NEW m \in Nat \ {0}, Counting(qf, b, at, m),
           NEW value \in SlotValues, NEW new, new = Marked(insert_one_slot(qf, b, at, value), at, {at})
    PROVE  Counting(new, b, at + 1, m - 1)
  <1>1. PICK U, h : Shaped(qf, U, h) /\ Fits(U) /\ Behind(qf, U, h, b, at) /\ Room(U, at, m)
    BY DEF Counting
  <1>2. PICK F : /\ IsFiniteSet(F) /\ Cardinality(F) >= m
                 /\ \A f \in F : f \in Nat /\ at <= f /\ f < XnSlots /\ f \notin U
    BY <1>1 DEF Room
  <1>3. PICK f \in F : TRUE
    <2>1. F # {}
      BY <1>2, FS_EmptySet
    <2>. QED
      BY <2>1
  <1>4. HasSpace(qf, at)
    <2>1. Homed(qf, U, h) /\ Stored(qf, U, h)
      BY <1>1 DEF Shaped
    <2>. QED
      BY <1>2, <1>3, <2>1, RoomFound
  <1>. DEFINE u == find_first_empty_slot(qf, at)
              moved == make_space(qf, b, at, u, value)
              ends == {at}
              V == U \cup {u}
              g == PutHomes(U, h, b, u)
  <1>5. insert_one_slot(qf, b, at, value) = moved /\ FreeFrom(U, at, u) /\ u \in Nat /\ at <= u
    <2>1. u = find_first_empty_slot(qf, at) /\ moved = make_space(qf, b, at, u, value)
      OBVIOUS
    <2>. HIDE DEF u, moved
    <2>. QED
      BY <1>1, <1>4, <2>1, SpaceMade
  <1>6. Shaped(new, V, g) /\ Fits(V) /\ Behind(new, V, g, b, at + 1)
    <2>1. u = find_first_empty_slot(qf, at) /\ new = Marked(make_space(qf, b, at, u, value), at, ends)
      BY <1>5
    <2>2. Markable(qf, U, h, b, at, ends)
      <3>. HIDE DEF u, moved
      <3>. QED
        BY <1>1, <1>4 DEF Markable
    <2>3. /\ Shaped(new, U \cup {u}, PutHomes(U, h, b, u)) /\ Fits(U \cup {u})
          /\ Behind(new, U \cup {u}, PutHomes(U, h, b, u), b, at + 1)
      <3>. HIDE DEF u, moved, ends
      <3>. QED
        BY <2>1, <2>2, MarkedKept
    <2>. QED
      BY <2>3
  <1>7. Room(V, at + 1, m - 1)
    <2>. DEFINE G == F \ {u}
    <2>1. IsFiniteSet(G) /\ Cardinality(G) >= m - 1
      <3>1. /\ IsFiniteSet(G) /\ Cardinality(F) \in Nat
            /\ Cardinality(G) = IF u \in F THEN Cardinality(F) - 1 ELSE Cardinality(F)
        BY <1>2, FS_RemoveElement, FS_CardinalityType
      <3>. HIDE DEF G, u
      <3>. QED
        BY <1>2, <3>1
    <2>2. ASSUME NEW k \in G PROVE k \in Nat /\ at + 1 <= k /\ k < XnSlots /\ k \notin V
      <3>. HIDE DEF u
      <3>1. k \in F /\ k # u
        BY <2>2
      <3>2. k \in Nat /\ at <= k /\ k < XnSlots /\ k \notin U
        BY <1>2, <3>1
      <3>3. \A j \in Nat : at <= j /\ j < u => j \in U
        BY <1>5 DEF FreeFrom
      <3>4. k # at
        <4>1. ~(k < u)
          BY <3>2, <3>3
        <4>. QED
          BY <1>5, <3>1, <3>2, <4>1
      <3>. QED
        BY <3>1, <3>2, <3>4
    <2>. HIDE DEF G, V
    <2>. QED
      BY <2>1, <2>2 DEF Room
  <1>. HIDE DEF V, g
  <1>. QED
    BY <1>6, <1>7 DEF Counting

\* Behind an item with room for m slots from its bucket on, its counter may go
\* on by as many.
LEMMA CountingStarts ==
    ASSUME NEW qf, NEW U, NEW h, Shaped(qf, U, h), Fits(U), NEW b \in Nat, NEW index \in Items(qf, U, h, b),
           NEW m, Room(U, b, m), NEW n, n = skip_extensions(qf, index + 1)
    PROVE  n \in Nat /\ Counting(qf, b, n, m)
  <1>1. /\ qf \in Filters /\ Homed(qf, U, h) /\ U \in SUBSET Nat /\ Laid(U, h, PastEnd)
        /\ index \in U /\ index \in Nat /\ h[index] = b
    <2>1. qf \in Filters /\ Homed(qf, U, h) /\ Laid(U, h, PastEnd)
      BY DEF Shaped, Homed
    <2>2. U \in SUBSET Nat
      BY <2>1, HomedTypes
    <2>. QED
      BY <2>1, <2>2 DEF Items
  <1>2. /\ n \in Nat /\ n \notin qf.extensions /\ index + 1 <= n
    <2>1. /\ qf.extensions \in SUBSET Slots /\ index + 1 \in Nat /\ index + 1 <= PastEnd
      <3>1. index < PastEnd /\ PastEnd \in Nat /\ qf.extensions \in SUBSET Slots
        BY <1>1, HomedTypes
      <3>. QED
        BY <1>1, <3>1
    <2>. QED
      BY <2>1, SkipIs
  <1>3. Behind(qf, U, h, b, n)
    <2>1. n - 1 \in Nat /\ index <= n - 1 /\ n - 1 < n /\ n # 0
      BY <1>1, <1>2
    <2>2. n - 1 \in U /\ h[n - 1] = b
      BY <1>1, <2>1, ItemSlots
    <2>. QED
      BY <1>2, <2>1, <2>2 DEF Behind
  <1>4. Room(U, n, m)
    <2>1. PICK F : /\ IsFiniteSet(F) /\ Cardinality(F) >= m
                   /\ \A f \in F : f \in Nat /\ b <= f /\ f < XnSlots /\ f \notin U
      BY DEF Room
    <2>2. ASSUME NEW f \in F PROVE n <= f
      <3>1. f \in Nat /\ b <= f /\ f \notin U
        BY <2>1
      <3>2. ~(f <= index)
        <4>1. \A j \in Nat : h[index] <= j /\ j <= index => j \in U
          BY <1>1, LaidSlot
        <4>. QED
          BY <1>1, <3>1, <4>1
      <3>3. ~(index <= f /\ f < n)
        BY <1>1, <3>1, ItemSlots
      <3>. QED
        BY <1>1, <1>2, <3>1, <3>2, <3>3
    <2>. QED
      BY <2>1, <2>2 DEF Room
  <1>. QED
    BY <1>2, <1>3, <1>4 DEF Counting

\* A digit is a slot value.
LEMMA DigitType ==
    ASSUME NEW total \in Nat, NEW i \in Nat
    PROVE  (total \div 2 ^ (BitsPerSlot * i)) % 2 ^ BitsPerSlot \in SlotValues
  <1>. DEFINE P == 2 ^ BitsPerSlot
              e == BitsPerSlot * i
              Q == 2 ^ e
  <1>1. BitsPerSlot \in Nat /\ e \in Nat
    BY GQFAssumption, Exponents
  <1>. HIDE DEF e
  <1>2. P \in Nat \ {0} /\ Q \in Nat \ {0}
    BY <1>1, PowerOfTwo
  <1>3. SlotValues = 0 .. P - 1
    BY DEF SlotValues
  <1>4. (total \div 2 ^ (BitsPerSlot * i)) % 2 ^ BitsPerSlot = (total \div Q) % P
    BY DEF e
  <1>. HIDE DEF P, Q
  <1>5. total \div Q \in Nat
    BY <1>2, DivFacts
  <1>6. (total \div Q) % P \in 0 .. P - 1
    BY <1>2, <1>5, DivFacts
  <1>. QED
    BY <1>3, <1>4, <1>6

(***************************************************************************)
(* Counting an item's next occurrence keeps the filter in shape if two     *)
(* slots from the item's bucket on are free.  What it writes over if the   *)
(* item has an extension, the filter's shape does not tell.                *)
(***************************************************************************)
THEOREM IncrementKeeps ==
    ASSUME NEW qf, NEW U, NEW h, Shaped(qf, U, h), Fits(U), NEW hash \in Nat,
           NEW index \in Items(qf, U, h, bucket(hash)), Room(U, bucket(hash), 2)
    PROVE  Kept(increment_counter(qf, index, hash, 1))
  <1>. DEFINE b == bucket(hash)
              info == get_slot_info(qf, index)
              total == info.count + 1
              l == info.count_len
              n == Max({l, Length(total)})
              at(i) == index + info.ext_len + i
              last(i) == IF i <= l THEN l ELSE i
              g == CHOOSE f : IsRewrite(qf, index, info, hash, total, n, f)
              Good(i) == Counting(g[i], b, at(last(i) + 1), 2 - (last(i) - l))
  <1>1. /\ qf \in Filters /\ Homed(qf, U, h) /\ ChunksFirst(qf) /\ index \in U /\ index \in Nat
    <2>1. qf \in Filters /\ Homed(qf, U, h) /\ ChunksFirst(qf)
      BY DEF Shaped
    <2>2. U \in SUBSET Nat
      BY <2>1, HomedTypes
    <2>. QED
      BY <2>1, <2>2 DEF Items
  <1>2. /\ info.ext_len \in Nat /\ l \in Nat /\ b \in Nat
        /\ index + 1 + info.ext_len + l = skip_extensions(qf, index + 1)
    <2>1. b \in Nat
      BY BucketType
    <2>. QED
      BY <1>1, <2>1, InfoIs
  <1>3. total \in Nat /\ n \in Nat /\ l <= n /\ n <= l + 2
    <2>1. info = get_slot_info(qf, index)
      OBVIOUS
    <2>2. n = Max({info.count_len, Length(info.count + 1)})
      OBVIOUS
    <2>3. info.count_len \in Nat
      BY <1>2
    <2>. HIDE DEF info, n
    <2>4. /\ info.count \in Nat
          /\ info.count_len = 0 => info.count = 1
          /\ info.count_len # 0 => info.count < 2 ^ (BitsPerSlot * info.count_len)
      BY <1>1, <2>1, CountIs
    <2>5. n \in Nat /\ info.count_len <= n /\ n <= info.count_len + 2
      BY <2>2, <2>3, <2>4, LengthGrows
    <2>. QED
      BY <2>4, <2>5
  <1>4. IsRewrite(qf, index, info, hash, total, n, g)
    <2>1. g = CHOOSE f : IsRewrite(qf, index, info, hash, total, n, f)
      OBVIOUS
    <2>. HIDE DEF info, total, n, g
    <2>2. \E f : IsRewrite(qf, index, info, hash, total, n, f)
      BY <1>3, RewriteExists
    <2>. QED
      BY <2>1, <2>2
  <1>5. rewrite_counter(qf, index, info, hash, total) = g[n]
    <2>1. n = Max({info.count_len, Length(total)}) /\ g = CHOOSE f : IsRewrite(qf, index, info, hash, total, n, f)
      OBVIOUS
    <2>. HIDE DEF info, total, n, g, l, at, last, Good
    <2>2. rewrite_counter(qf, index, info, hash, total)
             = (CHOOSE f : IsRewrite(qf, index, info, hash, total, n, f))[n]
      BY <2>1, RewriteDef
    <2>. QED
      BY <2>1, <2>2
  <1>6. increment_counter(qf, index, hash, 1) = [g[n] EXCEPT !.nelts = @ + 1]
    BY <1>5 DEF increment_counter
  <1>7. info.count_len = l /\ index + 1 + info.ext_len + l = at(l + 1)
    BY <1>1, <1>2
  <1>. HIDE DEF g, n, total, info, b, l
  <1>8. ASSUME NEW i \in 0 .. n PROVE g[i] = RewriteStep(qf, index, info, hash, total, g, i)
    BY <1>4 DEF IsRewrite
  <1>9. Good(0)
    <2>1. 0 \in 0 .. n
      BY <1>3
    <2>2. g[0] = qf
      BY <1>8, <2>1 DEF RewriteStep
    <2>3. last(0) = l /\ 2 - (l - l) = 2
      BY <1>2
    <2>4. at(l + 1) = skip_extensions(qf, index + 1)
      BY <1>2, <1>7
    <2>5. index \in Items(qf, U, h, b) /\ Room(U, b, 2)
      BY DEF b
    <2>. HIDE DEF at, last
    <2>6. Counting(qf, b, at(l + 1), 2)
      BY <1>2, <2>4, <2>5, CountingStarts
    <2>. QED
      BY <2>2, <2>3, <2>6
  <1>10. ASSUME NEW i \in 1 .. n, Good(i - 1) PROVE Good(i)
    <2>. DEFINE value == (total \div 2 ^ (BitsPerSlot * (i - 1))) % 2 ^ BitsPerSlot
    <2>1. i \in 0 .. n /\ i \in Nat /\ i # 0 /\ i - 1 \in Nat
      BY <1>3
    <2>2. value \in SlotValues
      BY <1>3, <2>1, DigitType
    <2>. HIDE DEF value
    <2>3. CASE i <= l
      <3>1. last(i) = l /\ last(i - 1) = l
        BY <1>2, <2>1, <2>3
      <3>2. g[i] = set_slot(g[i - 1], index + info.ext + i, value)
        BY <1>7, <1>8, <2>1, <2>3 DEF RewriteStep, value
      <3>3. Counting(g[i - 1], b, at(l + 1), 2 - (l - l))
        BY <1>10, <3>1
      <3>. HIDE DEF at, last
      <3>4. Counting(g[i], b, at(l + 1), 2 - (l - l))
        BY <2>2, <3>2, <3>3, SlotSet
      <3>. QED
        BY <3>1, <3>4
    <2>4. CASE ~(i <= l)
      <3>. DEFINE m == 2 - ((i - 1) - l)
      <3>1. last(i) = i /\ last(i - 1) = i - 1 /\ (i - 1) + 1 = i
        BY <1>2, <2>1, <2>4
      <3>2. g[i] = Marked(insert_one_slot(g[i - 1], b, at(i), value), at(i), {at(i)})
        BY <1>7, <1>8, <2>1, <2>4 DEF RewriteStep, value, b
      <3>3. /\ m \in Nat \ {0} /\ m - 1 = 2 - (i - l)
        BY <1>2, <1>3, <2>1, <2>4
      <3>4. /\ at(i) \in Nat /\ at(i) + 1 = at(i + 1)
        BY <1>1, <1>2, <2>1
      <3>5. Counting(g[i - 1], b, at(i), m)
        BY <1>10, <3>1
      <3>. HIDE DEF at, last, m
      <3>6. Counting(g[i], b, at(i) + 1, m - 1)
        BY <1>2, <2>2, <3>2, <3>3, <3>4, <3>5, CounterSlotAdded
      <3>. QED
        BY <3>1, <3>3, <3>4, <3>6
    <2>. QED
      BY <2>3, <2>4
  <1>11. Good(n)
    <2>. DEFINE Bad == {i \in 0 .. n : ~Good(i)}
    <2>. HIDE DEF Good
    <2>1. SUFFICES ASSUME Bad # {} PROVE FALSE
      <3>1. n \in 0 .. n
        BY <1>3
      <3>. QED
        BY <3>1
    <2>2. PICK i \in Bad : \A j \in Bad : i <= j
      <3>1. Bad \in SUBSET Nat
        OBVIOUS
      <3>. HIDE DEF Bad
      <3>. QED
        BY <2>1, <3>1, SmallestNat
    <2>3. i \in 0 .. n /\ ~Good(i) /\ i # 0
      BY <1>9, <2>2
    <2>4. i - 1 \in 0 .. n /\ i \in 1 .. n /\ ~(i <= i - 1)
      BY <1>3, <2>3
    <2>5. Good(i - 1)
      BY <2>2, <2>4
    <2>. QED
      BY <1>10, <2>3, <2>4, <2>5
  <1>. DEFINE new == [g[n] EXCEPT !.nelts = @ + 1]
  <1>12. PICK V, k : Shaped(g[n], V, k) /\ Fits(V)
    BY <1>11 DEF Counting
  <1>13. Kept(new)
    <2>. DEFINE q == g[n]
    <2>1. q \in Filters /\ Shaped(q, V, k)
      BY <1>12 DEF Shaped
    <2>. HIDE DEF q
    <2>2. new = [q EXCEPT !.nelts = @ + 1]
      BY DEF q
    <2>. HIDE DEF new
    <2>3. new = Updated(q, q.slots, q.occupieds, q.runends, q.extensions,
                        q.noccupied_slots, q.nelts + 1, q.ndistinct_elts)
      BY <2>1, <2>2 DEF Filters, Updated
    <2>4. /\ new \in Filters /\ new.occupieds = q.occupieds /\ new.runends = q.runends
          /\ new.extensions = q.extensions /\ new.offset = q.offset
          /\ new.noccupied_slots = q.noccupied_slots
      <3>1. /\ q.slots \in [Slots -> SlotValues] /\ q.occupieds \in SUBSET Buckets /\ q.runends \in SUBSET Slots
            /\ q.extensions \in SUBSET Slots /\ q.noccupied_slots \in Nat
            /\ q.nelts + 1 \in Nat /\ q.ndistinct_elts \in Nat
        BY <2>1 DEF Filters
      <3>. QED
        BY <2>1, <2>3, <3>1, UpdatedFields
    <2>5. ChunksFirst(new)
      BY <2>1, <2>4 DEF Shaped, ChunksFirst, is_counter, is_extension
    <2>6. RunEnds(new) = RunEnds(q) /\ new.runends \in SUBSET q.runends
      BY <2>4 DEF RunEnds
    <2>7. Shaped(new, V, k)
      BY <2>1, <2>4, <2>5, <2>6, SameShape
    <2>. QED
      BY <1>12, <2>7 DEF Kept
  <1>. HIDE DEF new
  <1>14. increment_counter(qf, index, hash, 1) = new
    BY <1>6 DEF new
  <1>. QED
    BY <1>13, <1>14

\* The fingerprint's quotient is the bucket.
LEMMA MinirunBucket ==
    ASSUME NEW x \in Nat
    PROVE  bucket(x) = minirun_id(x) \div 2 ^ BitsPerSlot
  <1>. DEFINE P == 2 ^ BitsPerSlot
              Q == 2 ^ QuotientBits
              R == 2 ^ (QuotientBits + BitsPerSlot)
              v == x % R
              c == x \div R
              w == v \div P
              r == v % P
              a == Q * c + w
  <1>1. BitsPerSlot \in Nat /\ QuotientBits \in Nat /\ QuotientBits + BitsPerSlot \in Nat
    BY GQFAssumption
  <1>2. P \in Nat \ {0} /\ Q \in Nat \ {0} /\ R \in Nat \ {0} /\ R = Q * P
    BY <1>1, PowerOfTwo, PowerSum
  <1>3. bucket(x) = (x \div P) % Q /\ minirun_id(x) \div 2 ^ BitsPerSlot = w
    BY DEF bucket, minirun_id
  <1>. HIDE DEF P, Q, R
  <1>4. c \in Nat /\ v \in Nat /\ v < R /\ x = R * c + v
    <2>1. c \in Nat /\ v \in 0 .. R - 1 /\ x = R * c + v
      BY <1>2, DivFacts
    <2>. HIDE DEF c, v
    <2>. QED
      BY <1>2, <2>1
  <1>. HIDE DEF c, v
  <1>5. w \in Nat /\ r \in Nat /\ r < P /\ v = P * w + r
    <2>1. w \in Nat /\ r \in 0 .. P - 1 /\ v = P * w + r
      BY <1>2, <1>4, DivFacts
    <2>. HIDE DEF w, r
    <2>. QED
      BY <1>2, <2>1
  <1>. HIDE DEF w, r
  <1>6. w < Q
    <2>1. \A p, q, k \in Nat : q <= k => q * p <= p * k
      OBVIOUS
    <2>2. ~(Q <= w)
      <3>1. SUFFICES ASSUME Q <= w PROVE FALSE
        OBVIOUS
      <3>2. Q * P <= P * w /\ P * w \in Nat
        <4>1. \A p, q \in Nat : p * q \in Nat
          OBVIOUS
        <4>. QED
          BY <1>2, <1>5, <2>1, <3>1, <4>1
      <3>. DEFINE y == P * w
                  z == Q * P
      <3>3. z <= y /\ y \in Nat /\ v = y + r /\ v < z /\ z \in Nat
        BY <1>2, <1>4, <1>5, <3>2
      <3>. HIDE DEF y, z
      <3>. QED
        BY <1>5, <3>3
    <2>. QED
      BY <1>2, <1>5, <2>2
  <1>7. P * a + r = x /\ a \in Nat
    <2>1. \A p, q, k, m \in Nat : p * (q * k + m) = (q * p) * k + p * m /\ q * k + m \in Nat /\ p * m \in Nat
                                  /\ (q * p) * k \in Nat
      OBVIOUS
    <2>2. P * a = R * c + P * w /\ a \in Nat /\ P * w \in Nat /\ R * c \in Nat
      BY <1>2, <1>4, <1>5, <2>1
    <2>. DEFINE y == P * w
                z == R * c
                t == P * a
    <2>3. t = z + y /\ v = y + r /\ x = z + v /\ y \in Nat /\ z \in Nat
      BY <1>4, <1>5, <2>2
    <2>4. t + r = x
      <3>. HIDE DEF y, z, t
      <3>. QED
        BY <1>5, <2>3
    <2>. QED
      BY <2>2, <2>4
  <1>8. x \div P = a
    <2>. DEFINE t == P * a
    <2>1. t <= x /\ x < t + P
      <3>1. t \in Nat /\ t + r = x
        <4>1. \A p, q \in Nat : p * q \in Nat
          OBVIOUS
        <4>. QED
          BY <1>2, <1>7, <4>1
      <3>. HIDE DEF t
      <3>. QED
        BY <1>2, <1>5, <3>1
    <2>2. a \in Int
      BY <1>7
    <2>. HIDE DEF a
    <2>. QED
      BY <1>2, <2>1, <2>2, DivUnique
  <1>9. a \div Q = c
    <2>. DEFINE t == Q * c
    <2>1. t \in Nat
      <3>1. \A p, q \in Nat : p * q \in Nat
        OBVIOUS
      <3>. QED
        BY <1>2, <1>4, <3>1
    <2>2. t <= a /\ a < t + Q
      <3>1. a = t + w
        OBVIOUS
      <3>. HIDE DEF t, a
      <3>. QED
        BY <1>2, <1>5, <1>6, <2>1, <3>1
    <2>3. c \in Int
      BY <1>4
    <2>. HIDE DEF a
    <2>. QED
      BY <1>2, <1>7, <2>2, <2>3, DivUnique
  <1>10. a % Q = w
    <2>. DEFINE t == Q * c
    <2>1. t \in Nat
      <3>1. \A p, q \in Nat : p * q \in Nat
        OBVIOUS
      <3>. QED
        BY <1>2, <1>4, <3>1
    <2>2. a = t + w
      OBVIOUS
    <2>3. a % Q \in 0 .. Q - 1 /\ a = t + (a % Q)
      <3>. HIDE DEF a
      <3>1. a % Q \in 0 .. Q - 1 /\ a = Q * (a \div Q) + (a % Q)
        BY <1>2, <1>7, DivFacts
      <3>. QED
        BY <1>9, <3>1
    <2>. HIDE DEF t, a
    <2>4. a % Q \in Int
      BY <1>2, <2>3
    <2>. QED
      BY <1>5, <2>1, <2>2, <2>3, <2>4
  <1>. QED
    BY <1>3, <1>8, <1>10

\* Keys of one fingerprint share their bucket.
LEMMA SameBucket ==
    ASSUME NEW x \in Nat, NEW y \in Nat, minirun_id(x) = minirun_id(y)
    PROVE  bucket(x) = bucket(y)
  BY MinirunBucket

(***************************************************************************)
(* Adapting the item of a rank up to the one a query answered keeps the    *)
(* filter in shape, if the key fetched for it has the query's fingerprint. *)
(***************************************************************************)
THEOREM TableAdaptKeeps ==
    ASSUME NEW qf, Kept(qf), NEW orig \in Nat, NEW hash \in Nat, minirun_id(orig) = minirun_id(hash),
           Lookup(qf, hash).found, NEW m \in Nat, m <= Lookup(qf, hash).rank
    PROVE  Kept(qf_adapt_using_ll_table(qf, orig, hash, m))
  <1>. DEFINE b == bucket(hash)
              new == qf_adapt_using_ll_table(qf, orig, hash, m)
  <1>1. PICK U, h : Shaped(qf, U, h) /\ Fits(U)
    BY DEF Kept
  <1>2. qf \in Filters /\ Homed(qf, U, h) /\ Stored(qf, U, h) /\ ChunksFirst(qf) /\ \A j \in U : j < XnSlots
    BY <1>1 DEF Shaped, Fits
  <1>3. b \in Nat /\ bucket(orig) = b
    BY BucketType, SameBucket
  <1>4. \/ new = qf
        \/ \E j \in Minirun(qf, U, h, hash) : new = qf_adapt(qf, j, orig, hash)
    <2>1. \/ new = qf
          \/ \E j \in Minirun(qf, U, h, hash) :
                /\ CountIn(Minirun(qf, U, h, hash), 0, j - 1) = m
                /\ new = qf_adapt(qf, j, orig, hash)
      BY <1>2, WalkExact
    <2>. QED
      BY <2>1
  <1>5. CASE new = qf
    BY <1>5
  <1>6. ASSUME NEW j \in Minirun(qf, U, h, hash), new = qf_adapt(qf, j, orig, hash) PROVE Kept(new)
    <2>. HIDE DEF new
    <2>1. j \in Items(qf, U, h, b)
      BY DEF Minirun
    <2>2. CASE orig = hash
      BY <1>6, <2>2 DEF qf_adapt
    <2>3. CASE orig # hash
      <3>1. new = adapt(qf, j, b, orig, hash)
        BY <1>3, <1>6, <2>3 DEF qf_adapt
      <3>. HIDE DEF b
      <3>. QED
        BY <1>1, <1>3, <2>1, <3>1, AdaptKeeps
    <2>. QED
      BY <2>2, <2>3
  <1>. QED
    BY <1>4, <1>5, <1>6
=============================================================================
