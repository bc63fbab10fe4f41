----------------------------- MODULE RunLayout -----------------------------
(***************************************************************************)
(* Layouts of a quotient filter as sets: which slots are in use and which  *)
(* home each entry has.  What rank and select count in such a layout, and  *)
(* what an insertion makes of it, with the facts about natural numbers and *)
(* sets of them that this takes: least and greatest elements, quotients    *)
(* and remainders, powers of two, how many elements of a set lie in an     *)
(* interval.  Nothing here is about one program's state; TAFProofs uses it *)
(* for the telescoping filter.                                             *)
(***************************************************************************)
EXTENDS Integers, FiniteSets, FiniteSetsExt, FiniteSetTheorems, WellFoundedInduction, TLAPS

\* The order of the naturals is well-founded.
LEMMA SmallestNat ==
    ASSUME NEW S \in SUBSET Nat, S # {}
    PROVE  \E m \in S : \A k \in S : m <= k
  <1>1. IsWellFoundedOn(OpToRel(<, Nat), Nat)
    BY NatLessThanWellFounded
  <1>2. PICK m \in S : \A k \in S : <<k, m>> \notin OpToRel(<, Nat)
    BY <1>1, WFMin
  <1>3. \A k \in S : ~(k < m)
    BY <1>2 DEF OpToRel
  <1>. QED
    BY <1>3

\* A set of naturals that is not empty has a least element, and Min is it.
LEMMA MinOfNats ==
    ASSUME NEW S \in SUBSET Nat, S # {}
    PROVE  Min(S) \in S /\ \A k \in S : Min(S) <= k
  <1>1. \E m \in S : \A k \in S : m <= k
    BY SmallestNat
  <1>. QED
    BY <1>1 DEF Min

\* A bounded set of naturals that is not empty has a greatest element, and
\* Max is it.
LEMMA MaxOfNats ==
    ASSUME NEW S \in SUBSET Nat, S # {}, NEW n \in Nat, \A k \in S : k <= n
    PROVE  Max(S) \in S /\ \A k \in S : k <= Max(S)
  <1>. DEFINE D == {d \in Nat : n - d \in S}
  <1>1. D # {}
    <2>1. PICK k \in S : TRUE
      OBVIOUS
    <2>2. k <= n /\ n - k \in Nat /\ n - (n - k) = k
      OBVIOUS
    <2>. QED
      BY <2>2
  <1>2. PICK d \in D : \A e \in D : d <= e
    <2>1. D \in SUBSET Nat
      OBVIOUS
    <2>. HIDE DEF D
    <2>. QED
      BY <1>1, <2>1, SmallestNat
  <1>3. \A k \in S : n - k \in D
    OBVIOUS
  <1>4. \A k \in S : k <= n - d
    BY <1>2, <1>3
  <1>5. n - d \in S
    BY <1>2
  <1>. HIDE DEF D
  <1>6. \E m \in S : \A k \in S : m >= k
    BY <1>4, <1>5
  <1>. QED
    BY <1>6 DEF Max

\* The greatest element is the only one that no other exceeds.
LEMMA MaxIs ==
    ASSUME NEW S \in SUBSET Int, NEW m \in S, \A k \in S : k <= m
    PROVE  Max(S) = m
  <1>1. m >= m /\ \A k \in S : k \in Int /\ m >= k
    OBVIOUS
  <1>2. PICK x \in S : x = Max(S) /\ \A k \in S : x >= k
    BY <1>1 DEF Max
  <1>3. x \in Int /\ m \in Int /\ x >= m /\ m >= x
    BY <1>1, <1>2
  <1>. QED
    BY <1>2, <1>3

\* The least element is the only one that exceeds no other.
LEMMA MinIs ==
    ASSUME NEW S \in SUBSET Int, NEW m \in S, \A k \in S : m <= k
    PROVE  Min(S) = m
  <1>1. \A k \in S : k \in Int /\ m <= k
    OBVIOUS
  <1>2. PICK x \in S : x = Min(S) /\ \A k \in S : x <= k
    BY <1>1 DEF Min
  <1>3. x \in Int /\ m \in Int /\ x <= m /\ m <= x
    BY <1>1, <1>2
  <1>. QED
    BY <1>2, <1>3

\* The lesser, and the greater, of two.
LEMMA MinMaxOfTwo ==
    ASSUME NEW a \in Int, NEW b \in Int
    PROVE  /\ Min({a, b}) = IF a <= b THEN a ELSE b
           /\ Max({a, b}) = IF a <= b THEN b ELSE a
  <1>1. {a, b} \in SUBSET Int /\ a \in {a, b} /\ b \in {a, b}
    OBVIOUS
  <1>2. CASE a <= b
    <2>1. (\A k \in {a, b} : a <= k) /\ (\A k \in {a, b} : k <= b)
      BY <1>2
    <2>. QED
      BY <1>1, <1>2, <2>1, MinIs, MaxIs
  <1>3. CASE ~(a <= b)
    <2>1. (\A k \in {a, b} : b <= k) /\ (\A k \in {a, b} : k <= a)
      BY <1>3
    <2>. QED
      BY <1>1, <1>3, <2>1, MinIs, MaxIs
  <1>. QED
    BY <1>2, <1>3

\* Powers of two are positive.
LEMMA PowerOfTwo == ASSUME NEW n \in Nat PROVE 2 ^ n \in Nat \ {0}
  <1>1. IsFiniteSet(1 .. n) /\ Cardinality(1 .. n) = n
    BY FS_Interval
  <1>2. IsFiniteSet(SUBSET (1 .. n)) /\ Cardinality(SUBSET (1 .. n)) = 2 ^ n
    BY <1>1, FS_SUBSET
  <1>3. Cardinality(SUBSET (1 .. n)) \in Nat
    BY <1>2, FS_CardinalityType
  <1>4. Cardinality(SUBSET (1 .. n)) # 0
    BY <1>2, FS_EmptySet
  <1>. QED
    BY <1>2, <1>3, <1>4

\* Division and remainder by a positive number.
LEMMA DivFacts ==
    ASSUME NEW n \in Nat \ {0}, NEW s \in Nat
    PROVE  /\ s \div n \in Nat
           /\ s % n \in 0 .. n - 1
           /\ s = n * (s \div n) + (s % n)
  OBVIOUS

\* The quotient is the one multiple that fits.
LEMMA DivUnique ==
    ASSUME NEW n \in Nat \ {0}, NEW s \in Nat, NEW q \in Int, n * q <= s, s < n * q + n
    PROVE  s \div n = q
  <1>. DEFINE p == s \div n
  <1>1. p \in Nat /\ n * p <= s /\ s < n * p + n
    BY DivFacts
  <1>. HIDE DEF p
  <1>2. CASE p < q
    <2>1. n * (p + 1) <= n * q
      BY <1>1, <1>2
    <2>2. n * (p + 1) = n * p + n
      BY <1>1
    <2>. QED
      BY <1>1, <2>1, <2>2
  <1>3. CASE q < p
    <2>1. n * (q + 1) <= n * p
      BY <1>1, <1>3
    <2>2. n * (q + 1) = n * q + n
      OBVIOUS
    <2>. QED
      BY <1>1, <2>1, <2>2
  <1>. QED
    BY <1>1, <1>2, <1>3 DEF p

-----------------------------------------------------------------------------
(***************************************************************************)
(* How many elements of R are in lo .. hi, which is what counting the bits *)
(* of a stretch of slots computes.                                         *)
(***************************************************************************)
Between(R, lo, hi) == {x \in R : lo <= x /\ x <= hi}
CountIn(R, lo, hi) == Cardinality(Between(R, lo, hi))

\* A stretch is part of its interval.
LEMMA BetweenIs ==
    ASSUME NEW R \in SUBSET Nat, NEW lo \in Nat, NEW hi \in Int
    PROVE  Between(R, lo, hi) = R \cap (lo .. hi)
  <1>1. \A x \in R : x \in lo .. hi <=> lo <= x /\ x <= hi
    OBVIOUS
  <1>. QED
    BY <1>1, Zenon DEF Between

\* A stretch holds finitely many, no more than it has places.
LEMMA CountType ==
    ASSUME NEW R \in SUBSET Nat, NEW lo \in Nat, NEW hi \in Int, lo <= hi + 1
    PROVE  /\ IsFiniteSet(Between(R, lo, hi))
           /\ CountIn(R, lo, hi) \in 0 .. hi - lo + 1
  <1>1. IsFiniteSet(lo .. hi) /\ Cardinality(lo .. hi) = IF lo > hi THEN 0 ELSE hi - lo + 1
    BY FS_Interval
  <1>2. Between(R, lo, hi) \in SUBSET (lo .. hi)
    BY BetweenIs
  <1>3. IsFiniteSet(Between(R, lo, hi)) /\ Cardinality(Between(R, lo, hi)) <= Cardinality(lo .. hi)
    BY <1>1, <1>2, FS_Subset
  <1>4. Cardinality(Between(R, lo, hi)) \in Nat
    BY <1>3, FS_CardinalityType
  <1>. QED
    BY <1>1, <1>3, <1>4 DEF CountIn

\* Where every place is taken, and only there, the count is the length.
LEMMA CountFull ==
    ASSUME NEW R \in SUBSET Nat, NEW lo \in Nat, NEW hi \in Nat, lo <= hi,
           CountIn(R, lo, hi) = hi - lo + 1
    PROVE  lo .. hi \subseteq R
  <1>1. IsFiniteSet(lo .. hi) /\ Cardinality(lo .. hi) = hi - lo + 1
    BY FS_Interval
  <1>2. Between(R, lo, hi) \in SUBSET (lo .. hi)
    BY BetweenIs
  <1>3. Between(R, lo, hi) = lo .. hi
    BY <1>1, <1>2, FS_Subset DEF CountIn
  <1>. QED
    BY <1>3 DEF Between

\* Counts of adjacent stretches add up.
LEMMA CountSplit ==
    ASSUME NEW R \in SUBSET Nat, NEW lo \in Nat, NEW mid \in Int, NEW hi \in Int,
           lo <= mid + 1, mid <= hi
    PROVE  CountIn(R, lo, hi) = CountIn(R, lo, mid) + CountIn(R, mid + 1, hi)
  <1>. DEFINE A == Between(R, lo, mid)
              C == Between(R, mid + 1, hi)
  <1>1. IsFiniteSet(A) /\ IsFiniteSet(C)
    BY CountType
  <1>2. A \cup C = Between(R, lo, hi) /\ A \cap C = {}
    <2>1. \A x \in R : (lo <= x /\ x <= mid) \/ (mid + 1 <= x /\ x <= hi) <=> lo <= x /\ x <= hi
      OBVIOUS
    <2>2. \A x \in R : ~(x <= mid /\ mid + 1 <= x)
      OBVIOUS
    <2>3. A \cup C = Between(R, lo, hi)
      BY <2>1, Zenon DEF Between
    <2>4. A \cap C = {}
      BY <2>2, Zenon DEF Between
    <2>. QED
      BY <2>3, <2>4
  <1>. HIDE DEF A, C
  <1>3. /\ Cardinality(A \cup C) = Cardinality(A) + Cardinality(C) - Cardinality(A \cap C)
    BY <1>1, FS_Union
  <1>4. Cardinality(A \cap C) = 0
    BY <1>2, FS_EmptySet
  <1>5. Cardinality(A) \in Nat /\ Cardinality(C) \in Nat
    BY <1>1, FS_CardinalityType
  <1>6. Cardinality(A \cup C) = Cardinality(A) + Cardinality(C)
    BY <1>3, <1>4, <1>5
  <1>. QED
    BY <1>2, <1>6 DEF CountIn, A, C

\* An element that ends the longer stretch makes its count larger.
LEMMA CountGrows ==
    ASSUME NEW R \in SUBSET Nat, NEW lo \in Nat, NEW mid \in Int, NEW x \in R,
           lo <= mid + 1, mid < x
    PROVE  CountIn(R, lo, mid) < CountIn(R, lo, x)
  <1>1. CountIn(R, lo, x) = CountIn(R, lo, mid) + CountIn(R, mid + 1, x)
    BY CountSplit
  <1>2. IsFiniteSet(Between(R, mid + 1, x)) /\ CountIn(R, mid + 1, x) \in Nat
    BY CountType
  <1>3. x \in Between(R, mid + 1, x)
    BY DEF Between
  <1>4. CountIn(R, mid + 1, x) # 0
    BY <1>2, <1>3, FS_EmptySet DEF CountIn
  <1>5. CountIn(R, lo, mid) \in Nat
    BY CountType
  <1>. QED
    BY <1>1, <1>2, <1>4, <1>5

\* Counting nothing.
LEMMA CountNone ==
    ASSUME NEW R, NEW lo, NEW hi, \A x \in R : ~(lo <= x /\ x <= hi)
    PROVE  CountIn(R, lo, hi) = 0
  <1>1. Between(R, lo, hi) = {}
    BY DEF Between
  <1>. QED
    BY <1>1, FS_EmptySet DEF CountIn

\* Counting one place.
LEMMA CountOne ==
    ASSUME NEW R \in SUBSET Nat, NEW x \in Nat
    PROVE  CountIn(R, x, x) = IF x \in R THEN 1 ELSE 0
  <1>1. \A y \in R : x <= y /\ y <= x <=> y = x
    OBVIOUS
  <1>2. Between(R, x, x) = IF x \in R THEN {x} ELSE {}
    BY <1>1, Zenon DEF Between
  <1>. QED
    BY <1>2, FS_EmptySet, FS_Singleton DEF CountIn

-----------------------------------------------------------------------------
(***************************************************************************)
(* The layout of a quotient filter: U is the set of slots in use and h the *)
(* home of what each holds.  Everything is at or behind its home, in the   *)
(* order of the homes and without a gap.                                   *)
(***************************************************************************)
Ordered(U, h) == \A i \in U : h[i] <= i /\ \A j \in h[i] .. i : j \in U /\ h[j] <= h[i]

Laid(U, h, N) == N \in Nat /\ U \in SUBSET (0 .. N - 1) /\ h \in [U -> Nat] /\ Ordered(U, h)

\* The slots that end a run.
EndsOfRuns(U, h) == {i \in U : i + 1 \notin U \/ h[i + 1] # h[i]}

\* The slots from x on that hold what belongs to x or before it.
EndsAt(U, h, x) == {i \in U : i >= x /\ h[i] <= x}

Homes(U, h) == {h[i] : i \in U}

\* What Laid says of one slot.
LEMMA LaidSlot ==
    ASSUME NEW U, NEW h, NEW N, Laid(U, h, N), NEW i \in U
    PROVE  /\ i \in Nat /\ i < N /\ h[i] \in Nat /\ h[i] <= i
           /\ \A j \in Nat : h[i] <= j /\ j <= i => j \in U /\ h[j] <= h[i]
  BY DEF Laid, Ordered

\* The homes of the slots ascend.
LEMMA HomesAscend ==
    ASSUME NEW U, NEW h, NEW N, Laid(U, h, N), NEW i \in U, NEW j \in U, i <= j
    PROVE  h[i] <= h[j]
  <1>1. /\ i \in Nat /\ h[i] \in Nat /\ h[i] <= i
        /\ j \in Nat /\ h[j] \in Nat
        /\ h[j] <= i /\ i <= j => h[i] <= h[j]
    BY LaidSlot
  <1>. QED
    BY <1>1

\* A slot is in use where something reaches over it from its home.
LEMMA UsedIffReached ==
    ASSUME NEW U, NEW h, NEW N, Laid(U, h, N), NEW x \in Nat
    PROVE  x \in U <=> EndsAt(U, h, x) # {}
  <1>1. ASSUME x \in U PROVE x \in EndsAt(U, h, x)
    <2>1. h[x] <= x /\ x >= x
      BY <1>1, LaidSlot
    <2>. QED
      BY <1>1, <2>1 DEF EndsAt
  <1>2. ASSUME NEW i \in EndsAt(U, h, x) PROVE x \in U
    <2>1. i \in U /\ i >= x /\ h[i] <= x
      BY <1>2 DEF EndsAt
    <2>. QED
      BY <2>1, LaidSlot
  <1>. QED
    BY <1>1, <1>2

EndOf(U, h, x) == Max(EndsAt(U, h, x))

\* The last slot that reaches over x ends a run, everything from x to it
\* belongs to x or before, and everything behind it to a later home.
LEMMA EndFacts ==
    ASSUME NEW U, NEW h, NEW N, Laid(U, h, N), NEW x \in U, NEW m, m = EndOf(U, h, x)
    PROVE  /\ m \in U /\ m \in Nat /\ m < N /\ x <= m /\ h[m] <= x /\ h[x] <= h[m]
           /\ m \in EndsOfRuns(U, h)
           /\ \A i \in Nat : x <= i /\ i <= m => i \in U /\ h[i] <= x
           /\ \A i \in U : m < i => h[i] > x
  <1>. DEFINE S == EndsAt(U, h, x)
  <1>1. x \in Nat /\ S # {}
    BY LaidSlot, UsedIffReached
  <1>2. N \in Nat /\ \A k \in S : k \in Nat /\ k <= N
    BY LaidSlot DEF EndsAt, Laid
  <1>3. S \in SUBSET Nat
    BY <1>2
  <1>4. \A k : k \in S <=> k \in U /\ k >= x /\ h[k] <= x
    BY DEF EndsAt
  <1>. HIDE DEF S
  <1>5. m \in S /\ \A k \in S : k <= m
    BY <1>1, <1>2, <1>3, MaxOfNats DEF EndOf, S
  <1>6. m \in U /\ m >= x /\ h[m] <= x
    BY <1>4, <1>5
  <1>7. m \in Nat /\ m < N /\ h[m] \in Nat /\ x \in Nat
    BY <1>6, LaidSlot
  <1>8. ASSUME NEW i \in U, m < i PROVE h[i] > x
    <2>1. i \in Nat /\ h[i] \in Nat
      BY LaidSlot
    <2>2. i \notin S
      BY <1>5, <1>7, <1>8, <2>1
    <2>. QED
      BY <1>4, <1>6, <1>7, <1>8, <2>1, <2>2
  <1>9. ASSUME NEW i \in Nat, x <= i, i <= m PROVE i \in U /\ h[i] <= x
    <2>1. i \in U /\ h[i] <= h[m]
      BY <1>6, <1>7, <1>9, LaidSlot
    <2>2. h[i] \in Nat
      BY <2>1, LaidSlot
    <2>. QED
      BY <1>6, <1>7, <2>1, <2>2
  <1>10. m \in EndsOfRuns(U, h)
    <2>1. ASSUME m + 1 \in U, h[m + 1] = h[m] PROVE FALSE
      <3>1. h[m + 1] > x
        BY <1>7, <1>8, <2>1
      <3>. QED
        BY <1>6, <1>7, <2>1, <3>1
    <2>. QED
      BY <1>6, <2>1 DEF EndsOfRuns
  <1>11. h[x] <= h[m]
    BY <1>6, <1>7, HomesAscend
  <1>. QED
    BY <1>6, <1>7, <1>8, <1>9, <1>10, <1>11

\* Slots later on are reached by later ends.
LEMMA EndsAscend ==
    ASSUME NEW U, NEW h, NEW N, Laid(U, h, N), NEW x \in U, NEW y \in U, x <= y
    PROVE  EndOf(U, h, x) <= EndOf(U, h, y)
  <1>. DEFINE m == EndOf(U, h, x)
              n == EndOf(U, h, y)
  <1>1. m \in U /\ m \in Nat /\ h[m] <= x
    BY EndFacts
  <1>2. n \in Nat /\ y <= n /\ \A i \in U : n < i => h[i] > y
    BY EndFacts
  <1>3. x \in Nat /\ y \in Nat /\ h[m] \in Nat
    BY <1>1, LaidSlot
  <1>. HIDE DEF m, n
  <1>4. ~(n < m)
    BY <1>1, <1>2, <1>3
  <1>. QED
    BY <1>1, <1>2, <1>4 DEF m, n

\* Every home has a run, and the run has an end: the last slot that reaches
\* over the home.
LEMMA HomeHasEnd ==
    ASSUME NEW U, NEW h, NEW N, Laid(U, h, N), NEW q \in Homes(U, h)
    PROVE  /\ q \in U /\ q \in Nat
           /\ EndOf(U, h, q) \in EndsOfRuns(U, h)
           /\ h[EndOf(U, h, q)] = q
  <1>. DEFINE e == EndOf(U, h, q)
  <1>1. PICK i \in U : q = h[i]
    BY DEF Homes
  <1>2. q \in Nat /\ q <= i /\ i \in Nat
    BY <1>1, LaidSlot
  <1>3. q \in U
    BY <1>1, <1>2, LaidSlot
  <1>4. /\ e \in U /\ e \in Nat /\ h[e] <= q /\ e \in EndsOfRuns(U, h)
        /\ \A j \in U : e < j => h[j] > q
    BY <1>3, EndFacts
  <1>. HIDE DEF e
  <1>5. h[e] \in Nat
    BY <1>4, LaidSlot
  <1>6. i <= e
    BY <1>1, <1>2, <1>4
  <1>7. q <= h[e]
    BY <1>1, <1>4, <1>6, HomesAscend
  <1>. QED
    BY <1>2, <1>3, <1>4, <1>5, <1>7 DEF e

\* Two ends of runs of one home are the same slot.
LEMMA OneEndPerHome ==
    ASSUME NEW U, NEW h, NEW N, Laid(U, h, N),
           NEW i \in EndsOfRuns(U, h), NEW j \in EndsOfRuns(U, h), h[i] = h[j]
    PROVE  i = j
  <1>1. SUFFICES ASSUME NEW a \in EndsOfRuns(U, h), NEW b \in EndsOfRuns(U, h), h[a] = h[b], a < b
                 PROVE  FALSE
    <2>1. i \in Nat /\ j \in Nat
      BY LaidSlot DEF EndsOfRuns
    <2>. QED
      BY <1>1, <2>1
  <1>2. a \in U /\ b \in U
    BY DEF EndsOfRuns
  <1>3. /\ a \in Nat /\ b \in Nat /\ h[a] \in Nat /\ h[a] <= a
        /\ \A k \in Nat : h[b] <= k /\ k <= b => k \in U
    BY <1>2, LaidSlot
  <1>4. a + 1 \in U
    BY <1>1, <1>3
  <1>5. h[a] <= h[a + 1] /\ h[a + 1] <= h[b]
    BY <1>1, <1>2, <1>3, <1>4, HomesAscend
  <1>6. h[a + 1] \in Nat
    BY <1>4, LaidSlot
  <1>7. h[a + 1] = h[a]
    BY <1>1, <1>3, <1>5, <1>6
  <1>. QED
    BY <1>4, <1>7 DEF EndsOfRuns

-----------------------------------------------------------------------------
(***************************************************************************)
(* rank and select.  The runs whose homes are behind slot s are those that *)
(* lie behind what reaches over s; counting their homes and counting their *)
(* ends comes to the same.                                                 *)
(***************************************************************************)
\* Where the runs of the homes behind s begin.
BehindStart(U, h, s) == IF s \in U THEN EndOf(U, h, s) + 1 ELSE s

\* What lies there has a home behind s, and only that has.
LEMMA BehindHome ==
    ASSUME NEW U, NEW h, NEW N, Laid(U, h, N), NEW s \in Nat, NEW base, base = BehindStart(U, h, s)
    PROVE  base \in Nat /\ s <= base /\ \A i \in U : i >= base <=> h[i] > s
  <1>1. CASE s \in U
    <2>. DEFINE m == EndOf(U, h, s)
    <2>1. /\ m \in Nat /\ s <= m /\ base = m + 1
          /\ \A i \in Nat : s <= i /\ i <= m => i \in U /\ h[i] <= s
          /\ \A i \in U : m < i => h[i] > s
      BY <1>1, EndFacts DEF BehindStart
    <2>. HIDE DEF m
    <2>2. ASSUME NEW i \in U PROVE i >= base <=> h[i] > s
      <3>1. i \in Nat /\ h[i] \in Nat /\ h[i] <= i
        BY LaidSlot
      <3>. QED
        BY <2>1, <3>1
    <2>. QED
      BY <2>1, <2>2
  <1>2. CASE s \notin U
    <2>1. base = s
      BY <1>2 DEF BehindStart
    <2>2. ASSUME NEW i \in U PROVE i >= s <=> h[i] > s
      <3>1. i \in Nat /\ h[i] \in Nat /\ h[i] <= i /\ (h[i] <= s /\ s <= i => s \in U)
        BY LaidSlot
      <3>. QED
        BY <1>2, <3>1
    <2>. QED
      BY <2>1, <2>2
  <1>. QED
    BY <1>1, <1>2

\* The ends of the runs behind s, up to e, are as many as the homes behind s
\* up to e's.
LEMMA EndsAreHomes ==
    ASSUME NEW U, NEW h, NEW N, Laid(U, h, N), NEW s \in Nat, NEW base, base = BehindStart(U, h, s),
           NEW e \in EndsOfRuns(U, h), e >= base
    PROVE  CountIn(EndsOfRuns(U, h), base, e) = CountIn(Homes(U, h), s + 1, h[e])
  <1>. DEFINE R == EndsOfRuns(U, h)
              S == Between(R, base, e)
              T == Between(Homes(U, h), s + 1, h[e])
              f == [i \in S |-> h[i]]
  <1>1. base \in Nat /\ \A i \in U : i >= base <=> h[i] > s
    BY BehindHome
  <1>2. R \in SUBSET U /\ U \in SUBSET Nat
    BY LaidSlot DEF EndsOfRuns
  <1>3. e \in U /\ e \in Nat /\ h[e] \in Nat
    BY <1>2, LaidSlot
  <1>4. IsFiniteSet(S)
    BY <1>1, <1>2, <1>3, CountType
  <1>5. ASSUME NEW i \in S PROVE f[i] \in T
    <2>1. i \in U /\ i \in R /\ base <= i /\ i <= e
      BY <1>2 DEF Between
    <2>2. i \in Nat /\ h[i] \in Nat /\ h[i] <= h[e] /\ h[i] > s
      BY <1>1, <1>3, <2>1, LaidSlot, HomesAscend
    <2>3. h[i] \in Homes(U, h) /\ s + 1 <= h[i]
      BY <2>1, <2>2 DEF Homes
    <2>. QED
      BY <2>2, <2>3 DEF Between
  <1>6. ASSUME NEW i \in S, NEW j \in S, f[i] = f[j] PROVE i = j
    <2>1. i \in R /\ j \in R /\ h[i] = h[j]
      BY <1>6 DEF Between
    <2>. QED
      BY <2>1, OneEndPerHome
  <1>7. ASSUME NEW q \in T PROVE \E i \in S : f[i] = q
    <2>1. q \in Homes(U, h) /\ s + 1 <= q /\ q <= h[e]
      BY DEF Between
    <2>. DEFINE i == EndOf(U, h, q)
    <2>2. i \in R /\ h[i] = q /\ q \in Nat
      BY <2>1, HomeHasEnd
    <2>. HIDE DEF i
    <2>3. i \in U /\ i \in Nat
      BY <1>2, <2>2
    <2>4. i >= base
      BY <1>1, <2>1, <2>2, <2>3
    <2>5. i <= e
      <3>1. CASE e < i
        <4>1. h[e] <= h[i]
          BY <1>3, <2>3, <3>1, HomesAscend
        <4>2. h[i] = h[e]
          BY <1>3, <2>1, <2>2, <4>1
        <4>. QED
          BY <2>2, <2>3, <1>3, <3>1, <4>2, OneEndPerHome
      <3>. QED
        BY <1>3, <2>3, <3>1
    <2>6. i \in S
      BY <2>2, <2>3, <2>4, <2>5 DEF Between
    <2>. QED
      BY <2>2, <2>6
  <1>. HIDE DEF S, T
  <1>8. f \in Bijection(S, T)
    BY <1>5, <1>6, <1>7 DEF Bijection, Injection, Surjection, IsInjective
  <1>9. Cardinality(T) = Cardinality(S)
    BY <1>4, <1>8, FS_Bijection DEF ExistsBijection
  <1>. QED
    BY <1>9 DEF CountIn, S, T

\* Between the home of the end that reaches over x, and x, there is no home.
LEMMA NoHomeBetween ==
    ASSUME NEW U, NEW h, NEW N, Laid(U, h, N), NEW x \in U, NEW q \in Homes(U, h), q <= x
    PROVE  q <= h[EndOf(U, h, x)]
  <1>. DEFINE e == EndOf(U, h, x)
  <1>1. PICK i \in U : q = h[i]
    BY DEF Homes
  <1>2. e \in U /\ e \in Nat /\ \A j \in U : e < j => h[j] > x
    BY EndFacts
  <1>. HIDE DEF e
  <1>3. i \in Nat /\ q \in Nat /\ x \in Nat /\ h[e] \in Nat
    BY <1>1, <1>2, LaidSlot
  <1>4. i <= e
    BY <1>1, <1>2, <1>3
  <1>. QED
    BY <1>1, <1>2, <1>3, <1>4, HomesAscend DEF e

\* The count that rank_select arrives at, from the first slot t of the block
\* that s's end lies in, is that of the end that reaches over x ...
LEMMA RankOfUsed ==
    ASSUME NEW U, NEW h, NEW N, Laid(U, h, N), NEW s \in Nat, NEW base, base = BehindStart(U, h, s),
           NEW t \in Nat, t <= base, NEW x \in U, s < x
    PROVE  LET e == EndOf(U, h, x)
           IN  /\ e >= base - 1
               /\ CountIn(EndsOfRuns(U, h), t, base - 1) + CountIn(Homes(U, h), s + 1, x)
                    = CountIn(EndsOfRuns(U, h), t, e)
  <1>. DEFINE e == EndOf(U, h, x)
              R == EndsOfRuns(U, h)
              H == Homes(U, h)
  <1>1. /\ e \in U /\ e \in Nat /\ x <= e /\ h[e] <= x /\ e \in R
        /\ \A i \in U : e < i => h[i] > x
    BY EndFacts
  <1>2. base \in Nat /\ s <= base /\ \A i \in U : i >= base <=> h[i] > s
    BY BehindHome
  <1>3. x \in Nat /\ h[e] \in Nat
    BY <1>1, LaidSlot
  <1>4. R \in SUBSET Nat /\ H \in SUBSET Nat
    BY LaidSlot DEF EndsOfRuns, Homes
  <1>5. CASE e >= base
    <2>1. CountIn(R, base, e) = CountIn(H, s + 1, h[e])
      BY <1>1, <1>5, EndsAreHomes
    <2>2. h[e] > s
      BY <1>1, <1>2, <1>5
    <2>3. CountIn(H, s + 1, x) = CountIn(H, s + 1, h[e]) + CountIn(H, h[e] + 1, x)
      BY <1>1, <1>3, <1>4, <2>2, CountSplit
    <2>4. \A q \in H : ~(h[e] + 1 <= q /\ q <= x)
      <3>1. ASSUME NEW q \in H, q <= x PROVE q <= h[e]
        BY <3>1, NoHomeBetween
      <3>. QED
        BY <1>3, <1>4, <3>1
    <2>5. CountIn(H, h[e] + 1, x) = 0
      BY <2>4, CountNone
    <2>6. CountIn(H, s + 1, h[e]) \in Nat
      BY <1>3, <1>4, <2>2, CountType
    <2>7. CountIn(R, t, e) = CountIn(R, t, base - 1) + CountIn(R, base, e)
      <3>1. t <= (base - 1) + 1 /\ base - 1 <= e /\ base - 1 \in Int /\ (base - 1) + 1 = base
        BY <1>1, <1>2, <1>5
      <3>. QED
        BY <1>1, <1>4, <3>1, CountSplit
    <2>. QED
      BY <1>1, <1>2, <1>5, <2>1, <2>3, <2>5, <2>6, <2>7
  <1>6. CASE e < base
    <2>. DEFINE m == EndOf(U, h, s)
    <2>1. s \in U /\ base = m + 1
      BY <1>1, <1>3, <1>6 DEF BehindStart
    <2>2. m \in U /\ m \in Nat /\ h[m] <= s
      BY <2>1, EndFacts
    <2>. HIDE DEF m
    <2>3. h[m] \in Nat /\ ~(e < m)
      BY <1>1, <1>3, <2>2, LaidSlot
    <2>4. e = m
      BY <1>1, <1>6, <2>1, <2>2, <2>3
    <2>5. \A q \in H : ~(s + 1 <= q /\ q <= x)
      <3>1. ASSUME NEW q \in H, q <= x PROVE q <= h[e]
        BY <3>1, NoHomeBetween
      <3>. QED
        BY <1>3, <1>4, <2>2, <2>4, <3>1
    <2>6. CountIn(H, s + 1, x) = 0
      BY <2>5, CountNone
    <2>7. CountIn(R, t, e) \in Nat
      BY <1>1, <1>4, <1>6, <2>1, <2>4, CountType
    <2>. QED
      BY <1>1, <2>1, <2>2, <2>4, <2>6, <2>7
  <1>. QED
    BY <1>1, <1>2, <1>5, <1>6

\* ... and where nothing reaches over x it is none, or that of an end before x.
LEMMA RankOfUnused ==
    ASSUME NEW U, NEW h, NEW N, Laid(U, h, N), NEW s \in Nat, NEW base, base = BehindStart(U, h, s),
           NEW t \in Nat, t <= base, s \in U => t < base, s \notin U => t = base,
           NEW x \in Nat \ U, s < x
    PROVE  LET D == CountIn(EndsOfRuns(U, h), t, base - 1) + CountIn(Homes(U, h), s + 1, x)
           IN  \/ D = 0
               \/ \E e \in EndsOfRuns(U, h) : t <= e /\ base - 1 <= e /\ e < x /\ h[e] <= x
                                           /\ D = CountIn(EndsOfRuns(U, h), t, e)
  <1>. DEFINE R == EndsOfRuns(U, h)
              H == Homes(U, h)
              T == Between(H, s + 1, x)
  <1>2. base \in Nat /\ s <= base /\ \A i \in U : i >= base <=> h[i] > s
    BY BehindHome
  <1>4. R \in SUBSET Nat /\ H \in SUBSET Nat
    BY LaidSlot DEF EndsOfRuns, Homes
  <1>5. CASE T = {}
    <2>1. CountIn(H, s + 1, x) = 0
      BY <1>5, FS_EmptySet DEF CountIn
    <2>2. CASE s \in U
      <3>. DEFINE m == EndOf(U, h, s)
      <3>1. /\ base = m + 1 /\ m \in R /\ m \in Nat /\ h[m] <= s /\ h[m] \in Nat
            /\ \A i \in Nat : s <= i /\ i <= m => i \in U
        BY <2>2, EndFacts, LaidSlot DEF BehindStart
      <3>. HIDE DEF m
      <3>2. m < x /\ t <= m /\ h[m] <= x
        BY <2>2, <3>1
      <3>3. CountIn(R, t, m) \in Nat
        BY <1>4, <3>1, <3>2, CountType
      <3>. QED
        BY <2>1, <3>1, <3>2, <3>3
    <2>3. CASE s \notin U
      <3>1. \A i \in R : ~(t <= i /\ i <= base - 1)
        BY <1>2, <1>4, <2>3
      <3>2. CountIn(R, t, base - 1) = 0
        BY <3>1, CountNone
      <3>. QED
        BY <2>1, <3>2
    <2>. QED
      BY <2>2, <2>3
  <1>6. CASE T # {}
    <2>. DEFINE q == Max(T)
                e == EndOf(U, h, q)
    <2>1. T \in SUBSET Nat /\ \A k \in T : k <= x
      BY <1>4 DEF Between
    <2>2. q \in T /\ \A k \in T : k <= q
      BY <1>6, <2>1, MaxOfNats
    <2>3. q \in H /\ s + 1 <= q /\ q <= x /\ q \in Nat
      BY <1>4, <2>2 DEF Between
    <2>. HIDE DEF q
    <2>4. e \in R /\ h[e] = q
      BY <2>3, HomeHasEnd
    <2>. HIDE DEF e
    <2>5. e \in U /\ e \in Nat
      BY <1>4, <2>4 DEF EndsOfRuns
    <2>6. e >= base
      BY <1>2, <2>3, <2>4, <2>5
    <2>7. e < x
      <3>1. x <= e /\ h[e] <= x => x \in U
        BY <2>5, LaidSlot
      <3>. QED
        BY <2>3, <2>4, <2>5, <3>1
    <2>8. CountIn(R, base, e) = CountIn(H, s + 1, q)
      BY <2>4, <2>6, EndsAreHomes
    <2>9. CountIn(H, s + 1, x) = CountIn(H, s + 1, q) + CountIn(H, q + 1, x)
      BY <1>4, <2>3, CountSplit
    <2>10. \A k \in H : ~(q + 1 <= k /\ k <= x)
      <3>1. \A k \in H : s + 1 <= k /\ k <= x => k <= q
        BY <2>2 DEF Between
      <3>. QED
        BY <1>4, <2>3, <3>1
    <2>11. CountIn(H, q + 1, x) = 0
      BY <2>10, CountNone
    <2>12. CountIn(H, s + 1, q) \in Nat
      BY <1>4, <2>3, CountType
    <2>13. CountIn(R, t, e) = CountIn(R, t, base - 1) + CountIn(R, base, e)
      <3>1. t <= (base - 1) + 1 /\ base - 1 <= e /\ base - 1 \in Int /\ (base - 1) + 1 = base
        BY <1>2, <2>5, <2>6
      <3>. QED
        BY <1>4, <2>5, <3>1, CountSplit
    <2>14. CountIn(R, t, base - 1) + CountIn(H, s + 1, x) = CountIn(R, t, e)
      BY <2>8, <2>9, <2>11, <2>12, <2>13
    <2>15. t <= e /\ base - 1 <= e /\ h[e] <= x
      BY <1>2, <2>3, <2>4, <2>5, <2>6
    <2>. QED
      BY <2>4, <2>7, <2>14, <2>15
  <1>. QED
    BY <1>5, <1>6

-----------------------------------------------------------------------------
(***************************************************************************)
(* Insertion.  Something with home q goes in behind slot r, the end that   *)
(* reaches over q, and what is between there and the unused slot u moves   *)
(* up by one.                                                              *)
(***************************************************************************)
InsertedHomes(U, h, q, r, u) ==
    [i \in U \cup {u} |-> IF i = r + 1 THEN q
                          ELSE IF r + 1 < i /\ i <= u THEN h[i - 1]
                          ELSE h[i]]

Insertion(U, h, N, q, r, u) ==
    /\ Laid(U, h, N)
    /\ q \in U
    /\ r = EndOf(U, h, q)
    /\ u \in Nat \ U /\ r < u
    /\ \A i \in Nat : r < i /\ i < u => i \in U

\* What is behind r has a later home than q, what is behind u a later home
\* than u, and the new homes by the place of the slot.
LEMMA InsertionFacts ==
    ASSUME NEW U, NEW h, NEW N, NEW q, NEW r, NEW u, Insertion(U, h, N, q, r, u),
           NEW g, g = InsertedHomes(U, h, q, r, u)
    PROVE  /\ q \in Nat /\ q <= r /\ r \in U /\ r \in Nat /\ h[r] \in Nat /\ h[r] <= q
           /\ r \in EndsOfRuns(U, h)
           /\ \A i \in Nat : q <= i /\ i <= r => i \in U /\ h[i] <= q
           /\ \A i \in U : r < i => h[i] > q
           /\ \A i \in U : u < i => h[i] > u
           /\ \A i \in U : i <= r \/ u < i => g[i] = h[i]
           /\ g[r + 1] = q
           /\ \A i \in Nat : r + 1 < i /\ i <= u => i - 1 \in U /\ g[i] = h[i - 1] /\ i \in U \cup {u}
           /\ r + 1 \in U \cup {u}
  <1>. USE DEF Insertion
  <1>1. /\ r \in U /\ r \in Nat /\ q <= r /\ h[r] <= q /\ r \in EndsOfRuns(U, h)
        /\ \A i \in Nat : q <= i /\ i <= r => i \in U /\ h[i] <= q
        /\ \A i \in U : r < i => h[i] > q
    BY EndFacts
  <1>2. q \in Nat /\ h[r] \in Nat
    BY <1>1, LaidSlot
  <1>3. ASSUME NEW i \in U, u < i PROVE h[i] > u
    <2>1. i \in Nat /\ h[i] \in Nat /\ (h[i] <= u /\ u <= i => u \in U)
      BY LaidSlot
    <2>. QED
      BY <1>3, <2>1
  <1>4. ASSUME NEW i \in U, i <= r \/ u < i PROVE g[i] = h[i]
    <2>1. i \in Nat
      BY LaidSlot
    <2>. QED
      BY <1>1, <1>4, <2>1 DEF InsertedHomes
  <1>5. r + 1 \in U \cup {u}
    BY <1>1
  <1>6. g[r + 1] = q
    BY <1>5 DEF InsertedHomes
  <1>7. ASSUME NEW i \in Nat, r + 1 < i, i <= u
        PROVE  i - 1 \in U /\ g[i] = h[i - 1] /\ i \in U \cup {u}
    <2>1. i - 1 \in Nat /\ r < i - 1 /\ i - 1 < u /\ i # r + 1
      BY <1>1, <1>7
    <2>2. i \in U \cup {u}
      BY <1>1, <1>7, <2>1
    <2>. QED
      BY <1>7, <2>1, <2>2 DEF InsertedHomes
  <1>. QED
    BY <1>1, <1>2, <1>3, <1>4, <1>5, <1>6, <1>7

\* The slots in use after an insertion, by their place.
LEMMA InsertedPlaces ==
    ASSUME NEW U, NEW h, NEW N, NEW q, NEW r, NEW u, Insertion(U, h, N, q, r, u),
           NEW i \in U \cup {u}
    PROVE  /\ i \in Nat
           /\ \/ i \in U /\ i <= r
              \/ i = r + 1
              \/ r + 1 < i /\ i <= u
              \/ i \in U /\ u < i
  <1>1. i \in Nat /\ u \in Nat /\ r \in Nat /\ r < u
    BY LaidSlot, InsertionFacts DEF Insertion
  <1>. QED
    BY <1>1

\* An insertion keeps everything at or behind its home, in order and without
\* a gap.
LEMMA InsertionLaid ==
    ASSUME NEW U, NEW h, NEW N, NEW q, NEW r, NEW u, Insertion(U, h, N, q, r, u),
           NEW M \in Nat, N <= M, u < M
    PROVE  Laid(U \cup {u}, InsertedHomes(U, h, q, r, u), M)
  <1>. DEFINE V == U \cup {u}
              g == InsertedHomes(U, h, q, r, u)
  <1>0. Laid(U, h, N) /\ u \in Nat /\ r < u
    BY DEF Insertion
  <1>1. /\ q \in Nat /\ q <= r /\ r \in U /\ r \in Nat /\ h[r] \in Nat /\ h[r] <= q
        /\ \A i \in Nat : q <= i /\ i <= r => i \in U /\ h[i] <= q
        /\ \A i \in U : r < i => h[i] > q
        /\ \A i \in U : u < i => h[i] > u
        /\ \A i \in U : i <= r \/ u < i => g[i] = h[i]
        /\ g[r + 1] = q
        /\ \A i \in Nat : r + 1 < i /\ i <= u => i - 1 \in U /\ g[i] = h[i - 1] /\ i \in V
        /\ r + 1 \in V
    BY InsertionFacts
  <1>. HIDE DEF g, V
  <1>2. ASSUME NEW i \in V
        PROVE  /\ i \in Nat
               /\ (i \in U /\ i <= r) \/ i = r + 1 \/ (r + 1 < i /\ i <= u) \/ (i \in U /\ u < i)
    BY InsertedPlaces DEF V
  <1>3. ASSUME NEW i \in V
        PROVE  g[i] \in Nat /\ g[i] <= i /\ \A j \in Nat : g[i] <= j /\ j <= i => j \in V /\ g[j] <= g[i]
    <2>1. CASE i \in U /\ i <= r
      <3>1. i \in Nat /\ h[i] \in Nat /\ h[i] <= i /\ g[i] = h[i]
            /\ \A j \in Nat : h[i] <= j /\ j <= i => j \in U /\ h[j] <= h[i]
        BY <1>0, <1>1, <2>1, LaidSlot
      <3>2. \A j \in Nat : h[i] <= j /\ j <= i => j \in V /\ g[j] = h[j] /\ h[j] <= h[i]
        BY <1>1, <2>1, <3>1 DEF V
      <3>. QED
        BY <3>1, <3>2
    <2>2. CASE i = r + 1
      <3>1. ASSUME NEW j \in Nat, q <= j, j <= r + 1 PROVE j \in V /\ g[j] <= q
        <4>1. CASE j = r + 1
          BY <1>1, <4>1
        <4>2. CASE j <= r
          <5>1. j \in U /\ h[j] <= q /\ g[j] = h[j]
            BY <1>1, <3>1, <4>2
          <5>. QED
            BY <5>1 DEF V
        <4>. QED
          BY <1>1, <3>1, <4>1, <4>2
      <3>. QED
        BY <1>1, <2>2, <3>1
    <2>3. CASE r + 1 < i /\ i <= u
      <3>. DEFINE p == i - 1
      <3>1. p \in U /\ g[i] = h[p] /\ i \in Nat /\ r < p
        BY <1>1, <1>2, <2>3
      <3>2. p \in Nat /\ h[p] \in Nat /\ h[p] <= p /\ h[p] > q
            /\ \A j \in Nat : h[p] <= j /\ j <= p => j \in U /\ h[j] <= h[p]
        BY <1>0, <1>1, <3>1, LaidSlot
      <3>3. p < i
        BY <3>1, <3>2
      <3>4. ASSUME NEW j \in Nat, h[p] <= j, j <= i PROVE j \in V /\ g[j] <= h[p]
        <4>1. CASE j <= r
          <5>1. j \in U /\ h[j] <= h[p] /\ g[j] = h[j]
            BY <1>1, <3>1, <3>2, <3>4, <4>1
          <5>. QED
            BY <5>1 DEF V
        <4>2. CASE j = r + 1
          BY <1>1, <3>2, <4>2
        <4>3. CASE r + 1 < j
          <5>1. j - 1 \in U /\ g[j] = h[j - 1] /\ j \in V /\ j - 1 <= p
            BY <1>0, <1>1, <2>3, <3>1, <3>4, <4>3
          <5>2. h[j - 1] <= h[p]
            BY <1>0, <3>1, <5>1, HomesAscend
          <5>. QED
            BY <5>1, <5>2
        <4>. QED
          BY <1>1, <3>4, <4>1, <4>2, <4>3
      <3>. QED
        BY <3>1, <3>2, <3>3, <3>4
    <2>4. CASE i \in U /\ u < i
      <3>1. i \in Nat /\ h[i] \in Nat /\ h[i] <= i /\ g[i] = h[i] /\ u < h[i]
            /\ \A j \in Nat : h[i] <= j /\ j <= i => j \in U /\ h[j] <= h[i]
        BY <1>0, <1>1, <2>4, LaidSlot
      <3>2. \A j \in Nat : h[i] <= j /\ j <= i => u < j /\ j \in V /\ h[j] <= h[i]
        BY <1>0, <3>1 DEF V
      <3>3. \A j \in Nat : h[i] <= j /\ j <= i => g[j] = h[j]
        BY <1>1, <3>1, <3>2
      <3>. QED
        BY <3>1, <3>2, <3>3
    <2>. QED
      BY <1>2, <2>1, <2>2, <2>3, <2>4
  <1>4. V \in SUBSET (0 .. M - 1)
    <2>1. \A i \in U : i \in Nat /\ i < N
      BY <1>0, LaidSlot
    <2>2. N \in Nat
      BY <1>0 DEF Laid
    <2>. QED
      BY <1>0, <2>1, <2>2 DEF V
  <1>5. g \in [V -> Nat]
    <2>1. DOMAIN g = V /\ g = [i \in V |-> g[i]]
      BY DEF g, V, InsertedHomes
    <2>. QED
      BY <1>3, <2>1
  <1>6. Ordered(V, g)
    <2>1. \A i \in V : \A j \in g[i] .. i : j \in Nat /\ g[i] <= j /\ j <= i
      BY <1>2, <1>3
    <2>. QED
      BY <1>3, <2>1 DEF Ordered
  <1>. QED
    BY <1>4, <1>5, <1>6 DEF Laid, V, g

\* The ends of the runs move with what they end, and the new slot is one.
LEMMA InsertionRunEnds ==
    ASSUME NEW U, NEW h, NEW N, NEW q, NEW r, NEW u, Insertion(U, h, N, q, r, u),
           NEW i \in Nat
    PROVE  i \in EndsOfRuns(U \cup {u}, InsertedHomes(U, h, q, r, u)) <=>
             \/ i < r /\ i \in EndsOfRuns(U, h)
             \/ i = r /\ q \notin Homes(U, h)
             \/ i = r + 1
             \/ r + 1 < i /\ i <= u /\ i - 1 \in EndsOfRuns(U, h)
             \/ u < i /\ i \in EndsOfRuns(U, h)
  <1>. DEFINE V == U \cup {u}
              g == InsertedHomes(U, h, q, r, u)
              End(j) == j \in EndsOfRuns(U, h)
  <1>0. Laid(U, h, N) /\ u \in Nat /\ r < u /\ q \in U /\ u \notin U
    BY DEF Insertion
  <1>1. /\ q \in Nat /\ q <= r /\ r \in U /\ r \in Nat /\ h[r] \in Nat /\ h[r] <= q
        /\ \A j \in U : r < j => h[j] > q
        /\ \A j \in U : u < j => h[j] > u
        /\ \A j \in U : j <= r \/ u < j => g[j] = h[j]
        /\ g[r + 1] = q
        /\ \A j \in Nat : r + 1 < j /\ j <= u => j - 1 \in U /\ g[j] = h[j - 1] /\ j \in V
        /\ r + 1 \in V
    BY InsertionFacts
  <1>2. /\ i \in EndsOfRuns(V, g) <=> i \in V /\ (i + 1 \notin V \/ g[i + 1] # g[i])
        /\ \A j : End(j) <=> j \in U /\ (j + 1 \notin U \/ h[j + 1] # h[j])
    BY DEF EndsOfRuns
  <1>. HIDE DEF g, End
  <1>3. CASE i < r
    <2>1. (i \in V <=> i \in U) /\ (i + 1 \in V <=> i + 1 \in U)
      BY <1>0, <1>1, <1>3
    <2>2. /\ i \in U => g[i] = h[i]
          /\ i + 1 \in U => g[i + 1] = h[i + 1]
      BY <1>1, <1>3
    <2>3. i \in EndsOfRuns(V, g) <=> End(i)
      BY <1>2, <2>1, <2>2
    <2>. QED
      BY <1>0, <1>1, <1>3, <2>3 DEF End, V, g
  <1>4. CASE i = r
    <2>1. i \in V /\ i + 1 \in V /\ g[i + 1] = q /\ g[i] = h[r]
      BY <1>1, <1>4
    <2>2. q \in Homes(U, h) <=> h[r] = q
      <3>1. q \in Homes(U, h) => h[r] = q
        BY <1>0, HomeHasEnd DEF Insertion
      <3>. QED
        BY <1>1, <3>1 DEF Homes
    <2>3. i \in EndsOfRuns(V, g) <=> q \notin Homes(U, h)
      BY <1>2, <2>1, <2>2
    <2>. QED
      BY <1>0, <1>1, <1>4, <2>3 DEF V, g
  <1>5. CASE i = r + 1
    <2>1. ASSUME i + 1 \in V PROVE g[i + 1] # q
      <3>1. CASE i + 1 <= u
        <4>1. i \in U /\ g[i + 1] = h[i]
          BY <1>1, <1>5, <3>1
        <4>2. h[i] > q
          BY <1>1, <1>5, <4>1
        <4>. QED
          BY <1>1, <4>1, <4>2
      <3>2. CASE u < i + 1
        <4>1. i + 1 \in U /\ g[i + 1] = h[i + 1] /\ h[i + 1] > u
          BY <1>0, <1>1, <2>1, <3>2
        <4>. QED
          BY <1>0, <1>1, <4>1
      <3>. QED
        BY <1>0, <3>1, <3>2
    <2>2. i \in EndsOfRuns(V, g)
      BY <1>1, <1>2, <1>5, <2>1
    <2>. QED
      BY <1>0, <1>1, <1>5, <2>2 DEF V, g
  <1>6. CASE r + 1 < i /\ i <= u
    <2>1. i - 1 \in U /\ g[i] = h[i - 1] /\ i \in V
      BY <1>1, <1>6
    <2>2. CASE i < u
      <3>1. i \in U /\ i + 1 \in V /\ g[i + 1] = h[i]
        BY <1>0, <1>1, <1>6, <2>2
      <3>2. i \in EndsOfRuns(V, g) <=> End(i - 1)
        BY <1>2, <2>1, <3>1
      <3>. QED
        BY <1>0, <1>1, <1>6, <3>2 DEF End, V, g
    <2>3. CASE i = u
      <3>1. ASSUME i + 1 \in V PROVE g[i + 1] # g[i]
        <4>1. i + 1 \in U /\ g[i + 1] = h[i + 1] /\ h[i + 1] > u
          BY <1>0, <1>1, <2>3, <3>1
        <4>2. i - 1 \in Nat /\ h[i - 1] \in Nat /\ h[i - 1] <= i - 1
          BY <1>0, <2>1, LaidSlot
        <4>. QED
          BY <1>0, <2>1, <2>3, <4>1, <4>2
      <3>2. i \in EndsOfRuns(V, g) /\ End(i - 1)
        BY <1>0, <1>2, <2>1, <2>3, <3>1
      <3>. QED
        BY <1>0, <1>1, <1>6, <3>2 DEF End, V, g
    <2>. QED
      BY <1>0, <1>6, <2>2, <2>3
  <1>7. CASE u < i
    <2>1. (i \in V <=> i \in U) /\ (i + 1 \in V <=> i + 1 \in U)
      BY <1>0, <1>7
    <2>2. /\ i \in U => g[i] = h[i]
          /\ i + 1 \in U => g[i + 1] = h[i + 1]
      BY <1>0, <1>1, <1>7
    <2>3. i \in EndsOfRuns(V, g) <=> End(i)
      BY <1>2, <2>1, <2>2
    <2>. QED
      BY <1>0, <1>1, <1>7, <2>3 DEF End, V, g
  <1>. QED
    BY <1>0, <1>1, <1>3, <1>4, <1>5, <1>6, <1>7

\* Where the slots that are reached over from behind their home end now: an
\* end that moved moved by one, the end at r moved by one for the slots that
\* the new element's home does not come after, and the others stay.
LEMMA InsertionEndOf ==
    ASSUME NEW U, NEW h, NEW N, NEW q, NEW r, NEW u, Insertion(U, h, N, q, r, u),
           NEW x \in U, NEW m, m = EndOf(U, h, x)
    PROVE  EndOf(U \cup {u}, InsertedHomes(U, h, q, r, u), x)
             = IF (r < m /\ m < u) \/ (m = r /\ q <= x) THEN m + 1 ELSE m
  <1>. DEFINE V == U \cup {u}
              g == InsertedHomes(U, h, q, r, u)
              n == IF (r < m /\ m < u) \/ (m = r /\ q <= x) THEN m + 1 ELSE m
              S == EndsAt(V, g, x)
  <1>0. Laid(U, h, N) /\ u \in Nat /\ r < u /\ q \in U /\ u \notin U
    BY DEF Insertion
  <1>1. /\ q \in Nat /\ q <= r /\ r \in U /\ r \in Nat /\ h[r] \in Nat /\ h[r] <= q
        /\ \A j \in U : r < j => h[j] > q
        /\ \A j \in U : u < j => h[j] > u
        /\ \A j \in U : j <= r \/ u < j => g[j] = h[j]
        /\ g[r + 1] = q
        /\ \A j \in Nat : r + 1 < j /\ j <= u => j - 1 \in U /\ g[j] = h[j - 1] /\ j \in V
        /\ r + 1 \in V
    BY InsertionFacts
  <1>2. /\ m \in U /\ m \in Nat /\ x <= m /\ h[m] <= x
        /\ \A i \in Nat : x <= i /\ i <= m => i \in U
        /\ \A i \in U : m < i => h[i] > x
    BY <1>0, EndFacts
  <1>3. x \in Nat /\ h[m] \in Nat /\ n \in Nat
    BY <1>0, <1>2, LaidSlot
  <1>4. \A i : i \in S <=> i \in V /\ i >= x /\ g[i] <= x
    BY DEF EndsAt
  <1>. HIDE DEF g, S
  <1>5. m < r => q > x
    BY <1>1, <1>2, <1>3
  <1>6. n \in V /\ n >= x /\ g[n] <= x
    <2>1. CASE r < m /\ m < u
      <3>1. n = m + 1 /\ n \in V /\ g[n] = h[m]
        BY <1>0, <1>1, <1>2, <2>1
      <3>. QED
        BY <1>2, <1>3, <3>1
    <2>2. CASE m = r /\ q <= x
      BY <1>1, <1>2, <1>3, <2>2
    <2>3. CASE ~((r < m /\ m < u) \/ (m = r /\ q <= x))
      <3>1. n = m /\ (m <= r \/ u < m)
        BY <1>0, <1>1, <1>2, <2>3
      <3>. QED
        BY <1>1, <1>2, <3>1
    <2>. QED
      BY <2>1, <2>2, <2>3
  <1>7. ASSUME NEW i \in S PROVE i \in Nat /\ i <= n
    <2>1. i \in V /\ i >= x /\ g[i] <= x
      BY <1>4
    <2>2. /\ i \in Nat
          /\ (i \in U /\ i <= r) \/ i = r + 1 \/ (r + 1 < i /\ i <= u) \/ (i \in U /\ u < i)
      BY <2>1, InsertedPlaces
    <2>3. CASE i \in U /\ i <= r
      <3>1. ~(m < i)
        BY <1>0, <1>1, <1>2, <1>3, <2>1, <2>3, LaidSlot
      <3>. QED
        BY <1>2, <2>2, <3>1
    <2>4. CASE i = r + 1
      <3>1. q <= x
        BY <1>1, <2>1, <2>4
      <3>2. m >= r
        BY <1>1, <1>2, <1>3, <1>5, <3>1
      <3>3. m < u \/ u < m
        BY <1>0, <1>2
      <3>. QED
        BY <1>0, <1>1, <1>2, <2>4, <3>1, <3>2, <3>3
    <2>5. CASE r + 1 < i /\ i <= u
      <3>1. i - 1 \in U /\ g[i] = h[i - 1] /\ h[i - 1] \in Nat
        BY <1>0, <1>1, <2>2, <2>5, LaidSlot
      <3>2. ~(m < i - 1)
        BY <1>2, <1>3, <2>1, <3>1
      <3>. QED
        BY <1>0, <1>1, <1>2, <2>2, <2>5, <3>2
    <2>6. CASE i \in U /\ u < i
      <3>1. h[i] <= x /\ h[i] \in Nat /\ g[i] = h[i]
        BY <1>0, <1>1, <2>1, <2>6, LaidSlot
      <3>2. ~(m < i)
        BY <1>2, <1>3, <2>6, <3>1
      <3>. QED
        BY <1>2, <2>2, <3>2
    <2>. QED
      BY <2>2, <2>3, <2>4, <2>5, <2>6
  <1>. HIDE DEF n, V
  <1>8. n \in S
    BY <1>4, <1>6
  <1>9. S \in SUBSET Int
    BY <1>7
  <1>10. Max(S) = n
    BY <1>7, <1>8, <1>9, MaxIs
  <1>. QED
    BY <1>10 DEF EndOf, S, n, V, g

\* The slot that was unused ends the reach over itself.
LEMMA InsertionEndAtU ==
    ASSUME NEW U, NEW h, NEW N, NEW q, NEW r, NEW u, Insertion(U, h, N, q, r, u)
    PROVE  EndOf(U \cup {u}, InsertedHomes(U, h, q, r, u), u) = u
  <1>. DEFINE V == U \cup {u}
              g == InsertedHomes(U, h, q, r, u)
  <1>0. Laid(U, h, N) /\ u \in Nat /\ N \in Nat
    BY DEF Insertion, Laid
  <1>1. /\ \A j \in U : u < j => h[j] > u
        /\ \A j \in U : j <= r \/ u < j => g[j] = h[j]
    BY InsertionFacts
  <1>2. Laid(V, g, N + u + 1)
    BY <1>0, InsertionLaid
  <1>3. u \in V
    OBVIOUS
  <1>. DEFINE n == EndOf(V, g, u)
  <1>4. n \in V /\ n \in Nat /\ u <= n /\ g[n] <= u
    BY <1>2, <1>3, EndFacts
  <1>. HIDE DEF n, g
  <1>5. ~(u < n)
    <2>1. ASSUME u < n PROVE FALSE
      <3>1. n \in U /\ g[n] = h[n] /\ h[n] > u /\ h[n] \in Nat
        BY <1>0, <1>1, <1>4, <2>1, LaidSlot
      <3>. QED
        BY <1>0, <1>4, <3>1
    <2>. QED
      BY <2>1
  <1>. QED
    BY <1>0, <1>4, <1>5 DEF n, g

-----------------------------------------------------------------------------
(***************************************************************************)
(* Something goes into its own home, which was unused: it is a run by      *)
(* itself and every other run stays as it was.                             *)
(***************************************************************************)
AloneHomes(U, h, q) == [i \in U \cup {q} |-> IF i = q THEN q ELSE h[i]]

\* The layout stays one.
LEMMA AloneLaid ==
    ASSUME NEW U, NEW h, NEW N, Laid(U, h, N), NEW q \in 0 .. N - 1, q \notin U
    PROVE  Laid(U \cup {q}, AloneHomes(U, h, q), N)
  <1>. DEFINE V == U \cup {q}
              g == AloneHomes(U, h, q)
  <1>1. g[q] = q /\ \A i \in U : i \in V /\ g[i] = h[i]
    BY DEF AloneHomes
  <1>2. DOMAIN g = V /\ g = [i \in V |-> g[i]]
    BY DEF AloneHomes
  <1>. HIDE DEF g
  <1>3. N \in Nat /\ U \in SUBSET (0 .. N - 1) /\ q \in Nat
    BY DEF Laid
  <1>4. ASSUME NEW i \in V
        PROVE  g[i] \in Nat /\ g[i] <= i /\ \A j \in g[i] .. i : j \in V /\ g[j] <= g[i]
    <2>1. CASE i = q
      BY <1>1, <1>3, <2>1
    <2>2. CASE i \in U
      <3>1. /\ i \in Nat /\ h[i] \in Nat /\ h[i] <= i
            /\ \A j \in Nat : h[i] <= j /\ j <= i => j \in U /\ h[j] <= h[i]
        BY <2>2, LaidSlot
      <3>2. \A j \in h[i] .. i : j \in Nat /\ h[i] <= j /\ j <= i
        BY <3>1
      <3>. QED
        BY <1>1, <2>2, <3>1, <3>2
    <2>. QED
      BY <2>1, <2>2
  <1>5. g \in [V -> Nat]
    BY <1>2, <1>4
  <1>6. Ordered(V, g)
    BY <1>4 DEF Ordered
  <1>. QED
    BY <1>3, <1>5, <1>6 DEF Laid, g

\* The new slot ends its run, and the other ends are the same.
LEMMA AloneRunEnds ==
    ASSUME NEW U, NEW h, NEW N, Laid(U, h, N), NEW q \in 0 .. N - 1, q \notin U
    PROVE  EndsOfRuns(U \cup {q}, AloneHomes(U, h, q)) = EndsOfRuns(U, h) \cup {q}
  <1>. DEFINE V == U \cup {q}
              g == AloneHomes(U, h, q)
  <1>1. g[q] = q /\ \A i \in U : i # q /\ i \in V /\ g[i] = h[i]
    BY DEF AloneHomes
  <1>. HIDE DEF g
  <1>2. q \in Nat
    OBVIOUS
  <1>3. q + 1 \notin V \/ g[q + 1] # q
    <2>1. ASSUME q + 1 \in U, h[q + 1] = q PROVE FALSE
      <3>1. \A j \in Nat : h[q + 1] <= j /\ j <= q + 1 => j \in U
        BY <2>1, LaidSlot
      <3>. QED
        BY <1>2, <2>1, <3>1
    <2>. QED
      BY <1>1, <1>2, <2>1
  <1>4. ASSUME NEW i \in U
        PROVE  (i + 1 \notin V \/ g[i + 1] # g[i]) <=> (i + 1 \notin U \/ h[i + 1] # h[i])
    <2>1. i \in Nat /\ h[i] \in Nat /\ h[i] <= i
      BY LaidSlot
    <2>2. CASE i + 1 = q
      BY <1>1, <2>1, <2>2
    <2>3. CASE i + 1 # q
      BY <1>1, <2>3
    <2>. QED
      BY <2>2, <2>3
  <1>. QED
    BY <1>1, <1>3, <1>4 DEF EndsOfRuns, g

\* It is reached over by itself, and by nothing else.
LEMMA AloneEndOf ==
    ASSUME NEW U, NEW h, NEW N, Laid(U, h, N), NEW q \in 0 .. N - 1, q \notin U,
           NEW x \in U \cup {q}
    PROVE  EndOf(U \cup {q}, AloneHomes(U, h, q), x) = IF x = q THEN q ELSE EndOf(U, h, x)
  <1>. DEFINE V == U \cup {q}
              g == AloneHomes(U, h, q)
  <1>1. g[q] = q /\ \A i \in U : i # q /\ g[i] = h[i]
    BY DEF AloneHomes
  <1>. HIDE DEF g
  <1>2. q \in Nat /\ x \in Nat
    BY LaidSlot
  <1>3. CASE x = q
    <2>1. ~\E i \in U : i >= q /\ h[i] <= q
      BY <1>2, UsedIffReached DEF EndsAt
    <2>2. \A i \in V : i >= q /\ g[i] <= q <=> i = q
      BY <1>1, <1>2, <2>1
    <2>3. EndsAt(V, g, q) = {q}
      BY <2>2, Zenon DEF EndsAt
    <2>4. Max({q}) = q
      BY <1>2, MaxIs
    <2>. QED
      BY <1>3, <2>3, <2>4 DEF EndOf, g
  <1>4. CASE x # q
    <2>1. ~(q >= x /\ g[q] <= x)
      BY <1>1, <1>2, <1>4
    <2>2. \A i \in V : i >= x /\ g[i] <= x <=> i \in U /\ i >= x /\ h[i] <= x
      BY <1>1, <2>1
    <2>3. EndsAt(V, g, x) = EndsAt(U, h, x)
      BY <2>2, Zenon DEF EndsAt
    <2>. QED
      BY <1>4, <2>3 DEF EndOf, g
  <1>. QED
    BY <1>3, <1>4
=============================================================================
