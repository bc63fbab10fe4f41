----------------------------- MODULE PartsProofs -----------------------------
(***************************************************************************)
(* Theorems about three parts that share nothing with each other: the      *)
(* partitioned counter, the adaptive cuckoo filter and HybridSkiQF's       *)
(* windows over the abstract filter.                                       *)
(*                                                                         *)
(* pc_add and pc_sync, for every number of threads and counters and every  *)
(* threshold.  That the local counters are inside the band when no call is *)
(* in progress is not inductive.  The invariant says whose duty it is to   *)
(* bring one back: a thread that has yet to exchange it.                   *)
(*                                                                         *)
(* The adaptive cuckoo filter ties every tag to an item, for every number  *)
(* of buckets, slots, selectors and rounds, and all hash functions.        *)
(* MapTied is not inductive: a kick moves an item out of its slot, and     *)
(* what is on the move has to be an item that was added, on its way to one *)
(* of its buckets, and in no slot.                                         *)
(*                                                                         *)
(* HybridSkiQF, for every window size, threshold and precision of the      *)
(* averages, is one of the behaviours AdaptiveFilter allows, and does not  *)
(* begin to adapt without repeats.  RepeatsComeFirst is not inductive.     *)
(* Its strengthening, AverageIsEarned and NothingCorrected, says that no   *)
(* average is above the most repeats a window has had, and that before the *)
(* first adaptation no minirun has an extension, so that nothing can have  *)
(* been counted as a correction.                                           *)
(***************************************************************************)
EXTENDS PartitionedCounter, ACF, HybridWindow, AdaptiveFilterProofs, FiniteSetTheorems

-----------------------------------------------------------------------------
(***************************************************************************)
(* Sums over finite sets.  SumOver is a recursion over subsets; that there *)
(* is a function it describes, that there is only one, and what the sum is *)
(* are all shown by looking at a smallest subset for which it fails.       *)
(***************************************************************************)
\* A non-empty collection of subsets of a finite set has a minimal one.
LEMMA MinimalSubset ==
    ASSUME NEW S, IsFiniteSet(S), NEW C \in SUBSET SUBSET S, C # {}
    PROVE  \E m \in C : \A u \in SUBSET m : u # m => u \notin C
  <1>. DEFINE R == StrictSubsetOrdering(S)
  <1>1. IsWellFoundedOn(R, SUBSET S)
    BY FS_StrictSubsetOrderingWellFounded, FS_FiniteSubsetsOfFinite
  <1>2. PICK m \in C : \A u \in C : <<u, m>> \notin R
    BY <1>1, WFMin
  <1>3. ASSUME NEW u \in SUBSET m, u # m, u \in C
        PROVE  FALSE
    <2>1. <<u, m>> \in (SUBSET S) \X (SUBSET S)
      BY <1>3
    <2>2. <<u, m>> \in R
      BY <1>3, <2>1 DEF StrictSubsetOrdering
    <2>. QED
      BY <1>2, <1>3, <2>2
  <1>. QED
    BY <1>2, <1>3

\* The element MapThenFoldSet takes first.
First(s) == CHOOSE x \in s : TRUE

\* g adds f up over every subset of S.
Sums(g, f, S) ==
    g = [s \in SUBSET S |-> IF s = {} THEN 0 ELSE f[First(s)] + g[s \ {First(s)}]]

\* SumOver is a recursive function of sets, applied to S.
LEMMA SumOverDef == ASSUME NEW f, NEW S PROVE SumOver(f, S) = (CHOOSE g : Sums(g, f, S))[S]
  BY DEF SumOver, MapThenSumSet, MapThenFoldSet, Sums, First

\* There is one way to add f up.
LEMMA SumsUnique ==
    ASSUME NEW f, NEW S, IsFiniteSet(S), NEW g, NEW T \in SUBSET S, NEW h,
           Sums(g, f, S), Sums(h, f, T), NEW s \in SUBSET T
    PROVE  g[s] = h[s]
  <1>. DEFINE C == {u \in SUBSET T : g[u] # h[u]}
  <1>1. SUFFICES ASSUME C # {} PROVE FALSE
    OBVIOUS
  <1>2. IsFiniteSet(T)
    BY FS_Subset
  <1>3. PICK m \in C : \A u \in SUBSET m : u # m => u \notin C
    BY <1>1, <1>2, MinimalSubset
  <1>4. CASE m = {}
    BY <1>3, <1>4 DEF Sums
  <1>5. CASE m # {}
    <2>. DEFINE u == m \ {First(m)}
    <2>1. First(m) \in m
      BY <1>5 DEF First
    <2>2. u \in SUBSET m /\ u # m /\ u \in SUBSET T /\ u \in SUBSET S
      BY <2>1, <1>3
    <2>3. g[u] = h[u]
      BY <1>3, <2>2
    <2>4. g[m] = f[First(m)] + g[u]
      BY <1>5, <2>2 DEF Sums
    <2>5. h[m] = f[First(m)] + h[u]
      BY <1>5, <2>2 DEF Sums
    <2>. QED
      BY <2>3, <2>4, <2>5
  <1>. QED
    BY <1>4, <1>5

\* There is one for every finite set.
LEMMA SumsExist ==
    ASSUME NEW f, NEW S, IsFiniteSet(S)
    PROVE  \E g : Sums(g, f, S)
  <1>. DEFINE C == {T \in SUBSET S : ~ \E g : Sums(g, f, T)}
  <1>1. SUFFICES ASSUME C # {} PROVE FALSE
    OBVIOUS
  <1>2. PICK m \in C : \A u \in SUBSET m : u # m => u \notin C
    <2>1. C \in SUBSET SUBSET S
      OBVIOUS
    <2>. HIDE DEF C
    <2>. QED
      BY <1>1, <2>1, MinimalSubset
  <1>. DEFINE G(u) == CHOOSE g : Sums(g, f, u)
              Sum(u) == IF u = {} THEN 0 ELSE f[First(u)] + G(u \ {First(u)})[u \ {First(u)}]
              h == [u \in SUBSET m |-> Sum(u)]
  <1>3. \A u \in SUBSET m : u # m => Sums(G(u), f, u)
    BY <1>2
  <1>4. ASSUME NEW u \in SUBSET m, u # {}
        PROVE  h[u \ {First(u)}] = G(u \ {First(u)})[u \ {First(u)}]
    <2>. DEFINE v == u \ {First(u)}
    <2>1. First(u) \in u
      BY <1>4 DEF First
    <2>2. v \in SUBSET m /\ v # m
      BY <2>1
    <2>3. Sums(G(v), f, v)
      BY <1>3, <2>2
    <2>4. h[v] = Sum(v)
      BY <2>2
    <2>5. CASE v = {}
      BY <2>3, <2>4, <2>5 DEF Sums
    <2>6. CASE v # {}
      <3>. DEFINE w == v \ {First(v)}
      <3>1. First(v) \in v
        BY <2>6 DEF First
      <3>2. w \in SUBSET m /\ w # m /\ w \in SUBSET v
        BY <2>2, <3>1
      <3>3. Sums(G(w), f, w)
        BY <1>3, <3>2
      <3>4. IsFiniteSet(v)
        BY <2>2, FS_Subset
      <3>5. G(v)[w] = G(w)[w]
        BY <2>3, <3>2, <3>3, <3>4, SumsUnique
      <3>6. G(v)[v] = f[First(v)] + G(v)[w]
        BY <2>3, <2>6 DEF Sums
      <3>. QED
        BY <2>4, <2>6, <3>5, <3>6
    <2>. QED
      BY <2>5, <2>6
  <1>5. Sums(h, f, m)
    <2>1. h = [u \in SUBSET m |-> Sum(u)]
      OBVIOUS
    <2>. HIDE DEF h
    <2>2. ASSUME NEW u \in SUBSET m
          PROVE  Sum(u) = IF u = {} THEN 0 ELSE f[First(u)] + h[u \ {First(u)}]
      <3>1. CASE u = {}
        BY <3>1
      <3>2. CASE u # {}
        <4>1. h[u \ {First(u)}] = G(u \ {First(u)})[u \ {First(u)}]
          BY <1>4, <3>2
        <4>. QED
          BY <3>2, <4>1
      <3>. QED
        BY <3>1, <3>2
    <2>. HIDE DEF Sum
    <2>. QED
      BY <2>1, <2>2 DEF Sums
  <1>. QED
    BY <1>2, <1>5

\* The sum over no element, and over one more.
LEMMA SumOverEmpty == ASSUME NEW f PROVE SumOver(f, {}) = 0
  <1>1. IsFiniteSet({})
    BY FS_EmptySet
  <1>2. \E g : Sums(g, f, {})
    BY <1>1, SumsExist
  <1>3. Sums(CHOOSE g : Sums(g, f, {}), f, {})
    BY <1>2
  <1>. QED
    BY <1>3, SumOverDef DEF Sums

\* A sum is one summand and the sum of the others.
LEMMA SumOverStep ==
    ASSUME NEW f, NEW S, IsFiniteSet(S), S # {}
    PROVE  First(S) \in S /\ SumOver(f, S) = f[First(S)] + SumOver(f, S \ {First(S)})
  <1>. DEFINE T == S \ {First(S)}
              g == CHOOSE g : Sums(g, f, S)
              h == CHOOSE h : Sums(h, f, T)
  <1>1. First(S) \in S
    BY DEF First
  <1>2. T \in SUBSET S /\ IsFiniteSet(T)
    BY FS_Subset
  <1>3. Sums(g, f, S) /\ Sums(h, f, T)
    BY <1>2, SumsExist
  <1>4. SumOver(f, S) = g[S] /\ SumOver(f, T) = h[T]
    BY SumOverDef
  <1>. HIDE DEF g, h
  <1>5. g[T] = h[T]
    BY <1>2, <1>3, SumsUnique
  <1>6. g[S] = f[First(S)] + g[T]
    BY <1>3 DEF Sums
  <1>. QED
    BY <1>1, <1>4, <1>5, <1>6

\* Sums of integers are integers.
LEMMA SumOverInt ==
    ASSUME NEW S, IsFiniteSet(S), NEW f, \A x \in S : f[x] \in Int
    PROVE  SumOver(f, S) \in Int
  <1>. DEFINE C == {u \in SUBSET S : SumOver(f, u) \notin Int}
  <1>1. SUFFICES ASSUME C # {} PROVE FALSE
    OBVIOUS
  <1>2. C \in SUBSET SUBSET S
    OBVIOUS
  <1>3. PICK m \in C : \A u \in SUBSET m : u # m => u \notin C
    <2>. HIDE DEF C
    <2>. QED
      BY <1>1, <1>2, MinimalSubset
  <1>4. m # {}
    <2>1. SumOver(f, {}) = 0
      BY SumOverEmpty
    <2>. QED
      BY <2>1
  <1>5. IsFiniteSet(m)
    BY FS_Subset
  <1>6. First(m) \in m /\ SumOver(f, m) = f[First(m)] + SumOver(f, m \ {First(m)})
    BY <1>4, <1>5, SumOverStep
  <1>7. SumOver(f, m \ {First(m)}) \in Int
    BY <1>3, <1>6
  <1>. QED
    BY <1>6, <1>7

\* Changing f at one element changes the sum by as much.
LEMMA SumOverExcept ==
    ASSUME NEW S, IsFiniteSet(S), NEW a, NEW f, NEW g,
           \A x \in S : f[x] \in Int /\ g[x] \in Int,
           \A x \in S \ {a} : g[x] = f[x]
    PROVE  SumOver(g, S) = SumOver(f, S) + IF a \in S THEN g[a] - f[a] ELSE 0
  <1>. DEFINE D(u) == IF a \in u THEN g[a] - f[a] ELSE 0
              C == {u \in SUBSET S : SumOver(g, u) # SumOver(f, u) + D(u)}
  <1>1. SUFFICES ASSUME C # {} PROVE FALSE
    OBVIOUS
  <1>2. C \in SUBSET SUBSET S
    OBVIOUS
  <1>3. PICK m \in C : \A u \in SUBSET m : u # m => u \notin C
    <2>. HIDE DEF C
    <2>. QED
      BY <1>1, <1>2, MinimalSubset
  <1>4. m # {}
    <2>1. SumOver(f, {}) = 0 /\ SumOver(g, {}) = 0
      BY SumOverEmpty
    <2>2. SumOver(g, {}) = SumOver(f, {}) + D({})
      BY <2>1
    <2>. QED
      BY <2>2
  <1>5. IsFiniteSet(m)
    BY FS_Subset
  <1>. DEFINE x == First(m)
              u == m \ {x}
  <1>6. x \in m /\ SumOver(f, m) = f[x] + SumOver(f, u) /\ SumOver(g, m) = g[x] + SumOver(g, u)
    BY <1>4, <1>5, SumOverStep
  <1>7. u \in SUBSET S /\ u \in SUBSET m /\ u # m /\ IsFiniteSet(u)
    BY <1>5, <1>6, FS_Subset
  <1>8. SumOver(f, u) \in Int /\ SumOver(g, u) \in Int
    BY <1>7, SumOverInt
  <1>9. SumOver(g, u) = SumOver(f, u) + D(u)
    BY <1>3, <1>7
  <1>. HIDE DEF x
  <1>10. x \in S /\ f[x] \in Int /\ g[x] \in Int
    BY <1>6
  <1>11. CASE x = a
    BY <1>6, <1>8, <1>9, <1>10, <1>11
  <1>12. CASE x # a
    <2>1. g[x] = f[x] /\ D(m) = D(u) /\ D(u) \in Int
      BY <1>6, <1>10, <1>12
    <2>. HIDE DEF D
    <2>. QED
      BY <1>6, <1>8, <1>9, <1>10, <2>1
  <1>. QED
    BY <1>11, <1>12

\* A sum of numbers in a band.
LEMMA SumOverBand ==
    ASSUME NEW S, IsFiniteSet(S), NEW f, NEW B \in Nat,
           \A x \in S : f[x] \in Int /\ f[x] <= B /\ -f[x] <= B
    PROVE  /\ SumOver(f, S) <= Cardinality(S) * B
           /\ -SumOver(f, S) <= Cardinality(S) * B
  <1>. DEFINE In(u) == SumOver(f, u) <= Cardinality(u) * B /\ -SumOver(f, u) <= Cardinality(u) * B
              C == {u \in SUBSET S : ~In(u)}
  <1>1. SUFFICES ASSUME C # {} PROVE FALSE
    OBVIOUS
  <1>2. C \in SUBSET SUBSET S
    OBVIOUS
  <1>3. PICK m \in C : \A u \in SUBSET m : u # m => u \notin C
    <2>. HIDE DEF C
    <2>. QED
      BY <1>1, <1>2, MinimalSubset
  <1>4. m # {}
    <2>1. SumOver(f, {}) = 0 /\ Cardinality({}) = 0
      BY SumOverEmpty, FS_EmptySet
    <2>. QED
      BY <2>1
  <1>5. IsFiniteSet(m)
    BY FS_Subset
  <1>. DEFINE x == First(m)
              u == m \ {x}
  <1>6. x \in m /\ SumOver(f, m) = f[x] + SumOver(f, u)
    BY <1>4, <1>5, SumOverStep
  <1>7. u \in SUBSET S /\ u \in SUBSET m /\ u # m /\ IsFiniteSet(u)
    BY <1>5, <1>6, FS_Subset
  <1>8. SumOver(f, u) \in Int /\ In(u)
    BY <1>3, <1>7, SumOverInt
  <1>. HIDE DEF x
  <1>9. f[x] \in Int /\ f[x] <= B /\ -f[x] <= B
    BY <1>6
  <1>10. Cardinality(u) \in Nat /\ Cardinality(m) = Cardinality(u) + 1
    BY <1>5, <1>6, <1>7, FS_RemoveElement, FS_CardinalityType
  <1>11. Cardinality(m) * B = Cardinality(u) * B + B
    BY <1>10
  <1>. QED
    BY <1>3, <1>6, <1>8, <1>9, <1>10, <1>11

-----------------------------------------------------------------------------

AtRest == \A t \in Threads : pc[t] = "idle"

LocalsInBand ==
    AtRest => \A c \in Counters : local_counters[c] <= Threshold /\ -local_counters[c] <= Threshold

\* Somebody is about to spill every counter outside the band.
SomebodySpills ==
    \A c \in Counters : Beyond(local_counters[c]) =>
        \E t \in Threads : pc[t] = "add_exchange" /\ idx[t] = c

\* The invariant behind LocalsInBand.
BandInv == PCTypeOK /\ SomebodySpills

\* Every local counter starts inside the band.
LEMMA BandInvInit == PCInit => BandInv
  <1>1. 0 \in Counters /\ ~Beyond(0)
    BY PCAssumption DEF Counters, Beyond
  <1>. QED
    BY <1>1, PCAssumption DEF PCInit, BandInv, PCTypeOK, SomebodySpills

\* An add that leaves the band goes on to the exchange.
LEMMA BandInvAddLocal ==
    ASSUME BandInv, NEW t \in Threads, NEW c \in Counters, NEW count \in Deltas, AddLocal(t, c, count)
    PROVE  BandInv'
  <1>1. count \in Int /\ MaxAdds \in Nat
    BY PCAssumption
  <1>2. PCTypeOK'
    BY <1>1 DEF BandInv, PCTypeOK, AddLocal
  <1>3. ASSUME NEW d \in Counters, Beyond(local_counters'[d])
        PROVE  \E u \in Threads : pc'[u] = "add_exchange" /\ idx'[u] = d
    <2>1. CASE d = c
      <3>1. Beyond(local_counters[c] + count)
        BY <1>3, <2>1 DEF BandInv, PCTypeOK, AddLocal
      <3>. QED
        BY <2>1, <3>1 DEF BandInv, PCTypeOK, AddLocal
    <2>2. CASE d # c
      <3>1. Beyond(local_counters[d])
        BY <1>3, <2>2 DEF BandInv, PCTypeOK, AddLocal
      <3>2. PICK u \in Threads : pc[u] = "add_exchange" /\ idx[u] = d
        BY <3>1 DEF BandInv, SomebodySpills
      <3>3. u # t
        BY <3>2 DEF AddLocal
      <3>. QED
        BY <3>2, <3>3 DEF BandInv, PCTypeOK, AddLocal
    <2>. QED
      BY <2>1, <2>2
  <1>. QED
    BY <1>2, <1>3 DEF BandInv, SomebodySpills, Beyond

\* An exchange puts its counter at 0, which is inside the band.
LEMMA BandInvExchange ==
    ASSUME BandInv, NEW t \in Threads, AddExchange(t) \/ SyncExchange(t)
    PROVE  BandInv'
  <1>1. idx[t] \in Counters /\ ~Beyond(0)
    BY PCAssumption DEF BandInv, PCTypeOK, Beyond
  <1>2. PCTypeOK'
    BY <1>1 DEF BandInv, PCTypeOK, AddExchange, SyncExchange, Exchange
  <1>3. ASSUME NEW d \in Counters, Beyond(local_counters'[d])
        PROVE  \E u \in Threads : pc'[u] = "add_exchange" /\ idx'[u] = d
    <2>1. d # idx[t]
      BY <1>1, <1>3 DEF BandInv, PCTypeOK, AddExchange, SyncExchange, Exchange
    <2>2. Beyond(local_counters[d])
      BY <1>3, <2>1 DEF BandInv, PCTypeOK, AddExchange, SyncExchange, Exchange
    <2>3. PICK u \in Threads : pc[u] = "add_exchange" /\ idx[u] = d
      BY <2>2 DEF BandInv, SomebodySpills
    <2>4. u # t
      BY <2>1, <2>3
    <2>. QED
      BY <2>3, <2>4 DEF BandInv, PCTypeOK, AddExchange, SyncExchange, Exchange
  <1>. QED
    BY <1>2, <1>3 DEF BandInv, SomebodySpills, Beyond

\* The other steps leave the local counters, and those about to spill one,
\* alone.
LEMMA BandInvOther ==
    ASSUME BandInv, NEW t \in Threads, AddGlobal(t) \/ SyncStart(t) \/ SyncGlobal(t)
    PROVE  BandInv'
  <1>1. 0 \in Counters /\ (idx[t] + 1 < NumCounters => idx[t] + 1 \in Counters)
    BY PCAssumption DEF BandInv, PCTypeOK, Counters
  <1>2. PCTypeOK'
    BY <1>1 DEF BandInv, PCTypeOK, AddGlobal, SyncStart, SyncGlobal
  <1>3. pc[t] # "add_exchange" /\ local_counters' = local_counters
    BY DEF AddGlobal, SyncStart, SyncGlobal
  <1>4. \A u \in Threads : u # t => pc'[u] = pc[u] /\ idx'[u] = idx[u]
    BY DEF BandInv, PCTypeOK, AddGlobal, SyncStart, SyncGlobal
  <1>5. ASSUME NEW d \in Counters, Beyond(local_counters'[d])
        PROVE  \E u \in Threads : pc'[u] = "add_exchange" /\ idx'[u] = d
    <2>1. PICK u \in Threads : pc[u] = "add_exchange" /\ idx[u] = d
      BY <1>3, <1>5 DEF BandInv, SomebodySpills
    <2>. QED
      BY <1>3, <1>4, <2>1
  <1>. QED
    BY <1>2, <1>5 DEF BandInv, SomebodySpills, Beyond

\* Every step of every thread keeps the inductive invariant.
LEMMA BandInvNext == BandInv /\ [PCNext]_pcVars => BandInv'
  <1>. SUFFICES ASSUME BandInv, [PCNext]_pcVars PROVE BandInv'
    OBVIOUS
  <1>1. CASE UNCHANGED pcVars
    BY <1>1 DEF pcVars, BandInv, PCTypeOK, SomebodySpills, Beyond
  <1>2. CASE PCNext
    BY <1>2, BandInvAddLocal, BandInvExchange, BandInvOther DEF PCNext
  <1>. QED
    BY <1>1, <1>2

-----------------------------------------------------------------------------
\* pc_sync never leaves the array of local counters.
THEOREM IndexInRange == PCSpec => []PCTypeOK
  <1>1. BandInv => PCTypeOK
    BY DEF BandInv
  <1>. QED
    BY <1>1, BandInvInit, BandInvNext, PTL DEF PCSpec

\* With no call in progress every local counter is within the threshold: what
\* qf_get_num_occupied_slots misses is at most that much per counter.
THEOREM SettlesInBand == PCSpec => []LocalsInBand
  <1>1. BandInv => LocalsInBand
    BY PCAssumption DEF BandInv, PCTypeOK, SomebodySpills, LocalsInBand, AtRest, Beyond
  <1>. QED
    BY <1>1, BandInvInit, BandInvNext, PTL DEF PCSpec
-----------------------------------------------------------------------------
(***************************************************************************)
(* Conservation is not inductive either: an exchange overwrites what its   *)
(* thread holds, so a thread must come to it with empty hands.             *)
(***************************************************************************)
HandsEmpty ==
    \A t \in Threads : pc[t] \in {"idle", "add_exchange", "sync_exchange"} => held[t] = 0

\* The invariant behind Conservation.
SumInv == PCTypeOK /\ HandsEmpty /\ Conservation

\* Threads and local counters are finitely many.
LEMMA FiniteParts == IsFiniteSet(Threads) /\ IsFiniteSet(Counters) /\ Cardinality(Counters) = NumCounters
  BY FS_Interval, PCAssumption DEF Counters

\* The sums of Conservation are integers.
LEMMA SumsAreInt ==
    ASSUME PCTypeOK
    PROVE  SumOver(local_counters, Counters) \in Int /\ SumOver(held, Threads) \in Int
  BY FiniteParts, SumOverInt DEF PCTypeOK

\* What one local counter gains or loses, the sum does; and so for the hands.
LEMMA LocalSum ==
    ASSUME PCTypeOK, NEW c \in Counters, NEW n \in Int,
           local_counters' = [local_counters EXCEPT ![c] = n]
    PROVE  SumOver(local_counters', Counters) = SumOver(local_counters, Counters) + (n - local_counters[c])
  <1>1. \A d \in Counters : local_counters[d] \in Int /\ local_counters'[d] \in Int
    BY DEF PCTypeOK
  <1>2. \A d \in Counters \ {c} : local_counters'[d] = local_counters[d]
    BY DEF PCTypeOK
  <1>3. local_counters'[c] = n
    BY DEF PCTypeOK
  <1>4. IsFiniteSet(Counters)
    BY FiniteParts
  <1>5. SumOver(local_counters', Counters) = SumOver(local_counters, Counters)
          + IF c \in Counters THEN local_counters'[c] - local_counters[c] ELSE 0
    BY <1>1, <1>2, <1>4, SumOverExcept
  <1>. QED
    BY <1>3, <1>5

\* What a change in one thread's hands does to the sum over all of them.
LEMMA HeldSum ==
    ASSUME PCTypeOK, NEW t \in Threads, NEW n \in Int,
           held' = [held EXCEPT ![t] = n]
    PROVE  SumOver(held', Threads) = SumOver(held, Threads) + (n - held[t])
  <1>1. \A u \in Threads : held[u] \in Int /\ held'[u] \in Int
    BY DEF PCTypeOK
  <1>2. \A u \in Threads \ {t} : held'[u] = held[u]
    BY DEF PCTypeOK
  <1>3. held'[t] = n
    BY DEF PCTypeOK
  <1>4. IsFiniteSet(Threads)
    BY FiniteParts
  <1>5. SumOver(held', Threads) = SumOver(held, Threads)
          + IF t \in Threads THEN held'[t] - held[t] ELSE 0
    BY <1>1, <1>2, <1>4, SumOverExcept
  <1>. QED
    BY <1>3, <1>5

\* Nothing is in the counters at first.
LEMMA SumInvInit == PCInit => SumInv
  <1>. SUFFICES ASSUME PCInit PROVE SumInv
    OBVIOUS
  <1>1. PCTypeOK /\ HandsEmpty
    BY BandInvInit DEF BandInv, PCInit, HandsEmpty
  <1>2. SumOver(local_counters, Counters) = 0
    <2>1. \A c \in Counters : local_counters[c] \in Int /\ local_counters[c] <= 0 /\ -local_counters[c] <= 0
      BY DEF PCInit
    <2>2. /\ SumOver(local_counters, Counters) <= Cardinality(Counters) * 0
          /\ -SumOver(local_counters, Counters) <= Cardinality(Counters) * 0
      BY <2>1, FiniteParts, SumOverBand
    <2>. QED
      BY <1>1, <2>2, FiniteParts, SumsAreInt, PCAssumption
  <1>3. SumOver(held, Threads) = 0
    <2>1. \A t \in Threads : held[t] \in Int /\ held[t] <= 0 /\ -held[t] <= 0
      BY DEF PCInit
    <2>2. /\ SumOver(held, Threads) <= Cardinality(Threads) * 0
          /\ -SumOver(held, Threads) <= Cardinality(Threads) * 0
      BY <2>1, FiniteParts, SumOverBand
    <2>. QED
      BY <1>1, <2>2, FiniteParts, SumsAreInt, FS_CardinalityType
  <1>. QED
    BY <1>1, <1>2, <1>3 DEF SumInv, PCInit, Conservation

\* Every step moves what it takes from one place to another.
LEMMA SumInvNext == SumInv /\ BandInv /\ [PCNext]_pcVars => SumInv'
  <1>. SUFFICES ASSUME SumInv, BandInv, [PCNext]_pcVars PROVE SumInv'
    OBVIOUS
  <1>1. PCTypeOK'
    BY BandInvNext DEF BandInv
  <1>2. SumOver(local_counters, Counters) \in Int /\ SumOver(held, Threads) \in Int
    BY SumsAreInt DEF SumInv
  <1>3. ASSUME NEW t \in Threads, NEW c \in Counters, NEW count \in Deltas, AddLocal(t, c, count)
        PROVE  SumInv'
    <2>1. count \in Int /\ local_counters[c] \in Int
      BY PCAssumption DEF SumInv, PCTypeOK
    <2>. DEFINE n == local_counters[c] + count
    <2>2. n \in Int /\ local_counters' = [local_counters EXCEPT ![c] = n]
      BY <1>3, <2>1 DEF AddLocal
    <2>3. n - local_counters[c] = count
      BY <2>1
    <2>. HIDE DEF n
    <2>4. SumOver(local_counters', Counters) = SumOver(local_counters, Counters) + (n - local_counters[c])
      BY <2>2, LocalSum DEF SumInv
    <2>5. HandsEmpty'
      BY <1>3 DEF SumInv, PCTypeOK, HandsEmpty, AddLocal
    <2>6. Conservation'
      BY <1>2, <1>3, <2>1, <2>3, <2>4 DEF SumInv, PCTypeOK, Conservation, AddLocal
    <2>. QED
      BY <1>1, <2>5, <2>6 DEF SumInv
  <1>4. ASSUME NEW t \in Threads, AddExchange(t) \/ SyncExchange(t)
        PROVE  SumInv'
    <2>1. idx[t] \in Counters /\ local_counters[idx[t]] \in Int /\ held[t] = 0
      BY <1>4 DEF SumInv, PCTypeOK, HandsEmpty, AddExchange, SyncExchange, Exchange
    <2>2. SumOver(local_counters', Counters) = SumOver(local_counters, Counters) + (0 - local_counters[idx[t]])
      BY <1>4, <2>1, LocalSum DEF SumInv, AddExchange, SyncExchange, Exchange
    <2>3. SumOver(held', Threads) = SumOver(held, Threads) + (local_counters[idx[t]] - held[t])
      BY <1>4, <2>1, HeldSum DEF SumInv, AddExchange, SyncExchange, Exchange
    <2>4. HandsEmpty'
      BY <1>4 DEF SumInv, PCTypeOK, HandsEmpty, AddExchange, SyncExchange, Exchange
    <2>5. total' = total /\ global_counter' = global_counter
      BY <1>4 DEF AddExchange, SyncExchange, Exchange
    <2>6. Conservation'
      BY <1>2, <2>1, <2>2, <2>3, <2>5 DEF SumInv, PCTypeOK, Conservation
    <2>. QED
      BY <1>1, <2>4, <2>6 DEF SumInv
  <1>5. ASSUME NEW t \in Threads, AddGlobal(t) \/ SyncGlobal(t)
        PROVE  SumInv'
    <2>1. held[t] \in Int
      BY DEF SumInv, PCTypeOK
    <2>2. SumOver(held', Threads) = SumOver(held, Threads) + (0 - held[t])
      BY <1>5, HeldSum DEF SumInv, AddGlobal, SyncGlobal
    <2>3. HandsEmpty'
      BY <1>5 DEF SumInv, PCTypeOK, HandsEmpty, AddGlobal, SyncGlobal
    <2>4. /\ total' = total
          /\ global_counter' = global_counter + held[t]
          /\ local_counters' = local_counters
      BY <1>5 DEF AddGlobal, SyncGlobal
    <2>5. Conservation'
      BY <1>2, <2>1, <2>2, <2>4 DEF SumInv, PCTypeOK, Conservation
    <2>. QED
      BY <1>1, <2>3, <2>5 DEF SumInv
  <1>6. ASSUME NEW t \in Threads, SyncStart(t)
        PROVE  SumInv'
    BY <1>1, <1>6 DEF SumInv, PCTypeOK, HandsEmpty, Conservation, SyncStart
  <1>7. CASE UNCHANGED pcVars
    BY <1>1, <1>7 DEF SumInv, HandsEmpty, Conservation, pcVars
  <1>8. CASE PCNext
    BY <1>3, <1>4, <1>5, <1>6, <1>8 DEF PCNext
  <1>. QED
    BY <1>7, <1>8

\* Nothing added is lost or counted twice, whatever the interleaving of pc_add
\* and pc_sync.
THEOREM NothingLost == PCSpec => []Conservation
  <1>1. SumInv => Conservation
    BY DEF SumInv
  <1>. QED
    BY <1>1, BandInvInit, BandInvNext, SumInvInit, SumInvNext, PTL DEF PCSpec

\* With no call in progress an unsynchronised read of the global counter is off
\* by at most the threshold for every local counter.
THEOREM ErrorIsBounded == PCSpec => []QuiescentError
  <1>1. BandInv /\ SumInv => QuiescentError
    <2>. SUFFICES ASSUME BandInv, SumInv, \A t \in Threads : pc[t] = "idle"
                  PROVE  LET error == total - global_counter IN
                         error <= NumCounters * Threshold /\ -error <= NumCounters * Threshold
      BY DEF QuiescentError
    <2>1. \A c \in Counters : /\ local_counters[c] \in Int
                             /\ local_counters[c] <= Threshold
                             /\ -local_counters[c] <= Threshold
      BY PCAssumption DEF BandInv, PCTypeOK, SomebodySpills, Beyond
    <2>2. /\ SumOver(local_counters, Counters) <= NumCounters * Threshold
          /\ -SumOver(local_counters, Counters) <= NumCounters * Threshold
      BY <2>1, FiniteParts, SumOverBand, PCAssumption
    <2>3. SumOver(held, Threads) = 0
      <3>1. \A t \in Threads : held[t] \in Int /\ held[t] <= 0 /\ -held[t] <= 0
        BY DEF SumInv, PCTypeOK, HandsEmpty
      <3>2. /\ SumOver(held, Threads) <= Cardinality(Threads) * 0
            /\ -SumOver(held, Threads) <= Cardinality(Threads) * 0
        BY <3>1, FiniteParts, SumOverBand
      <3>. QED
        BY <3>2, FiniteParts, SumsAreInt, FS_CardinalityType DEF SumInv
    <2>4. total - global_counter = SumOver(local_counters, Counters)
      BY <2>3, SumsAreInt DEF SumInv, PCTypeOK, Conservation
    <2>. QED
      BY <2>2, <2>4
  <1>. QED
    BY <1>1, BandInvInit, BandInvNext, SumInvInit, SumInvNext, PTL DEF PCSpec

-----------------------------------------------------------------------------
(***************************************************************************)
(* The adaptive cuckoo filter                                              *)
(***************************************************************************)
Typed ==
    /\ tags \in [Buckets -> [Slots -> Nat]]
    /\ hash_sels \in [Buckets -> Sels]
    /\ outside \in Memories
    /\ backing_map \in [Buckets -> [Slots -> ItemType \union {NoItem}]]
    /\ added \subseteq ItemType
    /\ adding.item \in ItemType \union {NoItem}
    /\ adding = [item |-> adding.item, index |-> adding.index, count |-> adding.count]

SlotsTied ==
    \A i \in Buckets, j \in Slots :
        IF tags[i][j] = 0 THEN At(i, j) = NoItem
        ELSE /\ At(i, j) \in added
             /\ i \in {Index1(At(i, j)), Index2(At(i, j))}
             /\ InFamily(i) => tags[i][j] = GenerateTagHash(At(i, j), i, outside)

NoneLost ==
    \A item \in added :
        \/ \E i \in Buckets, j \in Slots : At(i, j) = item
        \/ item = adding.item
        \/ victim.used /\ item = victim.item

InOneSlot ==
    \A i, k \in Buckets, j, l \in Slots :
        At(i, j) = At(k, l) /\ At(i, j) # NoItem => i = k /\ j = l

OnTheMove ==
    ~Idle => /\ ~victim.used
             /\ adding.item \in added
             /\ adding.index \in {Index1(adding.item), Index2(adding.item)}
             /\ \A i \in Buckets, j \in Slots : At(i, j) # adding.item

VictimHome ==
    victim.used => victim.item \in ItemType /\ victim.index \in {Index1(victim.item), Index2(victim.item)}

ACFInv == Typed /\ SlotsTied /\ NoneLost /\ InOneSlot /\ OnTheMove /\ VictimHome

-----------------------------------------------------------------------------
\* An item's buckets are buckets of the table.
LEMMA IndexRange ==
    ASSUME NEW item \in ItemType
    PROVE  Index1(item) \in Buckets /\ Index2(item) \in Buckets
  <1>1. NumBuckets \in Nat \ {0} /\ Hasher[item] \in Nat /\ AltHasher[item] \in Nat
    BY ACFAssumption
  <1>2. Hasher[item] % NumBuckets \in 0 .. NumBuckets - 1 /\ AltHasher[item] % NumBuckets \in 0 .. NumBuckets - 1
    BY <1>1
  <1>. QED
    BY <1>1, <1>2 DEF Index1, Index2, GenerateIndexHash, GenerateAltIndexHash, Before, Buckets

\* From either of its buckets an item moves to the other: the assertion of
\* Contain, for every pair of hashes, equal ones included.
THEOREM MovesBack ==
    ASSUME NEW item \in ItemType
    PROVE  /\ AltIndexFromKey(Index1(item), item) = Index2(item)
           /\ AltIndexFromKey(Index2(item), item) = Index1(item)
  <1>1. NumBuckets \in Nat \ {0} /\ Hasher[item] \in Nat /\ AltHasher[item] \in Nat
    BY ACFAssumption
  <1>2. Hasher[item] % NumBuckets \in 0 .. NumBuckets - 1 /\ AltHasher[item] % NumBuckets \in 0 .. NumBuckets - 1
    BY <1>1
  <1>. QED
    BY <1>1, <1>2 DEF AltIndexFromKey, Index1, Index2, GenerateIndexHash, GenerateAltIndexHash, Before

\* A selector leads to one of the family or in front of it; no item has tag
\* 0, which stands for an empty slot, whichever it is.
LEMMA TagFacts ==
    ASSUME NEW item \in ItemType, NEW index \in Buckets, NEW s \in Sels, NEW memory \in Memories
    PROVE  TagFor(item, index, s, memory) \in Nat /\ TagFor(item, index, s, memory) # 0
  <1>. DEFINE hash_sel == HashSel(index, s)
  <1>1. hash_sel \in Sels \/ hash_sel \in OutsideSels
    BY ACFAssumption DEF HashSel, Sels, OutsideSels
  <1>. HIDE DEF hash_sel
  <1>2. hash_sel \in Sels => HashFcns[hash_sel][item] \in Nat
    BY ACFAssumption
  <1>3. hash_sel \notin Sels => memory[hash_sel][item] \in Nat
    BY <1>1, ACFAssumption DEF Memories
  <1>. QED
    BY <1>2, <1>3 DEF TagFor, hash_sel

\* A tag that is made by one of the family does not depend on the memory in
\* front of it.
LEMMA FamilyTags ==
    ASSUME NEW item, NEW index, NEW s, HashSel(index, s) \in Sels, NEW memory, NEW other
    PROVE  TagFor(item, index, s, memory) = TagFor(item, index, s, other)
  BY DEF TagFor

\* The next selector is one of the family.
LEMMA NextSel ==
    ASSUME NEW s \in Sels
    PROVE  (s + 1) % NumSels \in Sels
  BY ACFAssumption DEF Sels

-----------------------------------------------------------------------------
\* The table begins empty.
LEMMA ACFInvInit == ACFInit => ACFInv
  BY ACFAssumption DEF ACFInit, ACFInv, Typed, SlotsTied, NoneLost, InOneSlot, OnTheMove, VictimHome, Idle, At

\* What is on the move stands before a bucket of the table.
LEMMA MovingFacts ==
    ASSUME ACFInv, ~Idle
    PROVE  /\ adding.item \in ItemType /\ adding.item # NoItem
           /\ adding.index \in Buckets
           /\ GenerateTagHash(adding.item, adding.index, outside) \in Nat \ {0}
  <1>1. adding.item \in ItemType /\ adding.item # NoItem
    BY DEF ACFInv, Typed, Idle
  <1>2. adding.index \in Buckets
    BY <1>1, IndexRange DEF ACFInv, OnTheMove
  <1>3. hash_sels[adding.index] \in Sels /\ outside \in Memories
    BY <1>2 DEF ACFInv, Typed
  <1>. QED
    BY <1>1, <1>2, <1>3, TagFacts DEF GenerateTagHash

\* Putting it into a slot changes that slot only.
LEMMA PutFacts ==
    ASSUME ACFInv, ~Idle, NEW j \in Slots, PutInto(j)
    PROVE  /\ tags' \in [Buckets -> [Slots -> Nat]]
           /\ backing_map' \in [Buckets -> [Slots -> ItemType \union {NoItem}]]
           /\ \A i \in Buckets, l \in Slots :
                 IF i = adding.index /\ l = j
                 THEN tags'[i][l] = GenerateTagHash(adding.item, i, outside) /\ backing_map'[i][l] = adding.item
                 ELSE tags'[i][l] = tags[i][l] /\ backing_map'[i][l] = backing_map[i][l]
  BY MovingFacts DEF PutInto, ACFInv, Typed

\* The slot it is put into is tied to it, the others stay tied, and no item
\* is in two of them.
LEMMA PutKeepsTies ==
    ASSUME ACFInv, ~Idle, NEW j \in Slots, PutInto(j)
    PROVE  SlotsTied' /\ InOneSlot'
  <1>1. /\ adding.item \in ItemType /\ adding.item # NoItem /\ adding.index \in Buckets
        /\ GenerateTagHash(adding.item, adding.index, outside) # 0
        /\ adding.item \in added /\ adding.index \in {Index1(adding.item), Index2(adding.item)}
    BY MovingFacts DEF ACFInv, OnTheMove
  <1>2. UNCHANGED <<hash_sels, added>>
    BY DEF PutInto
  <1>3. SlotsTied'
    <2>1. ASSUME NEW i \in Buckets, InFamily(i), NEW item
          PROVE  GenerateTagHash(item, i, outside)' = GenerateTagHash(item, i, outside)
      BY <1>2, <2>1, FamilyTags DEF InFamily, GenerateTagHash
    <2>2. \A i \in Buckets : InFamily(i)' <=> InFamily(i)
      BY <1>2 DEF InFamily
    <2>3. ASSUME NEW i \in Buckets, NEW l \in Slots
          PROVE  IF tags'[i][l] = 0 THEN At(i, l)' = NoItem
                 ELSE /\ At(i, l)' \in added
                      /\ i \in {Index1(At(i, l)'), Index2(At(i, l)')}
                      /\ InFamily(i) => tags'[i][l] = GenerateTagHash(At(i, l)', i, outside)
      BY <1>1, PutFacts DEF ACFInv, SlotsTied, At
    <2>4. ASSUME NEW i \in Buckets, InFamily(i), NEW l \in Slots
          PROVE  GenerateTagHash(At(i, l), i, outside)' = GenerateTagHash(At(i, l)', i, outside)
      BY <1>2, <2>4, FamilyTags DEF InFamily, GenerateTagHash
    <2>. QED
      BY <1>2, <2>2, <2>3, <2>4 DEF SlotsTied, Index1, Index2, GenerateIndexHash, GenerateAltIndexHash
  <1>4. \A i \in Buckets, l \in Slots : backing_map[i][l] # adding.item
    BY DEF ACFInv, OnTheMove, At
  <1>5. InOneSlot'
    <2>1. \A i \in Buckets, l \in Slots :
              backing_map'[i][l] = IF i = adding.index /\ l = j THEN adding.item ELSE backing_map[i][l]
      BY PutFacts
    <2>. QED
      BY <1>4, <2>1 DEF ACFInv, InOneSlot, At
  <1>. QED
    BY <1>3, <1>5

\* A new item is in no slot yet.
LEMMA ACFInvAddStart ==
    ASSUME ACFInv, NEW item \in ItemType, AddStart(item)
    PROVE  ACFInv'
  <1>1. UNCHANGED <<tags, hash_sels, outside, backing_map, victim>> /\ added' = added \union {item}
        /\ adding' = [item |-> item, index |-> Index1(item), count |-> 0]
    BY DEF AddStart, Index1
  <1>2. \A i \in Buckets, j \in Slots : At(i, j) # item
    <2>1. item \notin added /\ item # NoItem
      BY ACFAssumption DEF AddStart
    <2>. QED
      BY <2>1 DEF ACFInv, SlotsTied
  <1>3. Typed'
    BY <1>1 DEF ACFInv, Typed
  <1>4. SlotsTied' /\ InOneSlot' /\ VictimHome'
    BY <1>1 DEF ACFInv, SlotsTied, InOneSlot, VictimHome, At, InFamily, GenerateTagHash
  <1>5. NoneLost'
    <2>1. \A it \in added : it # adding.item
      BY ACFAssumption DEF AddStart, Idle, ACFInv, Typed
    <2>2. ASSUME NEW it \in added'
          PROVE  \/ \E i \in Buckets, j \in Slots : At(i, j) = it
                 \/ it = adding'.item
                 \/ victim.used /\ it = victim.item
      BY <1>1, <2>1, <2>2 DEF ACFInv, NoneLost
    <2>. QED
      BY <1>1, <2>2 DEF NoneLost, At
  <1>6. OnTheMove'
    BY <1>1, <1>2 DEF OnTheMove, At, AddStart
  <1>. QED
    BY <1>3, <1>4, <1>5, <1>6 DEF ACFInv

\* An item that finds an empty slot has arrived.
LEMMA ACFInvAddPlace ==
    ASSUME ACFInv, NEW j \in Slots, AddPlace(j)
    PROVE  ACFInv'
  <1>1. ~Idle /\ PutInto(j) /\ UNCHANGED <<hash_sels, outside, added, victim>>
        /\ adding' = [adding EXCEPT !.item = NoItem] /\ tags[adding.index][j] = 0
    BY DEF AddPlace, PutInto, IsFirstTag
  <1>2. adding' = [item |-> NoItem, index |-> adding.index, count |-> adding.count]
    BY <1>1 DEF ACFInv, Typed
  <1>3. Typed'
    BY <1>1, <1>2, PutFacts DEF ACFInv, Typed
  <1>4. NoneLost'
    <2>1. At(adding.index, j) = NoItem /\ adding.index \in Buckets
      BY <1>1, MovingFacts DEF ACFInv, SlotsTied
    <2>2. \A item \in added : item # NoItem
      BY ACFAssumption DEF ACFInv, Typed
    <2>3. ASSUME NEW item \in added, NEW i \in Buckets, NEW l \in Slots, At(i, l) = item
          PROVE  backing_map'[i][l] = item
      BY <1>1, <2>1, <2>2, <2>3, PutFacts DEF At
    <2>4. backing_map'[adding.index][j] = adding.item
      BY <1>1, <2>1, PutFacts
    <2>. QED
      BY <1>1, <2>1, <2>3, <2>4 DEF ACFInv, NoneLost, At
  <1>5. OnTheMove' /\ VictimHome'
    BY <1>1, <1>2 DEF ACFInv, OnTheMove, Idle, VictimHome
  <1>. QED
    BY <1>1, <1>3, <1>4, <1>5, PutKeepsTies DEF ACFInv

\* An item that is kicked out moves to its other bucket, or is the victim.
LEMMA ACFInvAddKick ==
    ASSUME ACFInv, NEW j \in Slots, AddKick(j)
    PROVE  ACFInv'
  <1>. DEFINE b == adding.index
              nextkey == backing_map[b][j]
              index == AltIndexFromKey(b, nextkey)
              last == adding.count + 1 = MaxCuckooCount
  <1>1. /\ ~Idle /\ PutInto(j) /\ UNCHANGED <<hash_sels, added>> /\ outside' \in Memories
        /\ adding' = [item |-> IF last THEN NoItem ELSE nextkey, index |-> index, count |-> adding.count + 1]
        /\ victim' = IF last THEN [used |-> TRUE, index |-> index, item |-> nextkey,
                                   tag |-> GenerateTagHash(nextkey, index, outside')] ELSE victim
        /\ tags[b][j] # 0
    BY DEF AddKick, PutInto, FindTagInBucket
  <1>2. b \in Buckets
    BY <1>1, MovingFacts
  <1>3. nextkey \in added /\ nextkey \in ItemType /\ nextkey # NoItem /\ b \in {Index1(nextkey), Index2(nextkey)}
    <2>1. nextkey \in added /\ b \in {Index1(nextkey), Index2(nextkey)}
      BY <1>1, <1>2 DEF ACFInv, SlotsTied, At
    <2>. QED
      BY <2>1, ACFAssumption DEF ACFInv, Typed
  <1>4. index \in {Index1(nextkey), Index2(nextkey)}
    BY <1>3, MovesBack
  <1>. HIDE DEF index, last
  <1>5. Typed'
    <2>1. adding'.item \in ItemType \union {NoItem}
          /\ adding' = [item |-> adding'.item, index |-> adding'.index, count |-> adding'.count]
      BY <1>1, <1>3
    <2>. QED
      BY <1>1, <2>1, PutFacts DEF ACFInv, Typed
  <1>6. nextkey # adding.item
    BY <1>1, <1>2 DEF ACFInv, OnTheMove, At
  <1>7. \A i \in Buckets, l \in Slots : backing_map'[i][l] # nextkey
    <2>1. \A i \in Buckets, l \in Slots : ~(i = b /\ l = j) => backing_map[i][l] # nextkey
      BY <1>2, <1>3 DEF ACFInv, InOneSlot, At
    <2>. QED
      BY <1>1, <1>6, <2>1, PutFacts
  <1>8. OnTheMove' /\ VictimHome'
    <2>1. OnTheMove'
      <3>1. ~Idle' => ~last
        BY <1>1 DEF Idle
      <3>2. ~Idle' => ~victim'.used
        BY <1>1, <3>1 DEF ACFInv, OnTheMove
      <3>3. ~Idle' => adding'.item = nextkey /\ adding'.index = index
        BY <1>1, <3>1
      <3>. QED
        BY <1>1, <1>3, <1>4, <1>7, <3>2, <3>3 DEF OnTheMove, At, Index1, Index2
    <2>2. VictimHome'
      BY <1>1, <1>3, <1>4 DEF ACFInv, VictimHome
    <2>. QED
      BY <2>1, <2>2
  <1>9. NoneLost'
    <2>1. ASSUME NEW item \in added
          PROVE  \/ \E i \in Buckets, l \in Slots : backing_map'[i][l] = item
                 \/ item = adding'.item
                 \/ victim'.used /\ item = victim'.item
      <3>1. CASE item = nextkey
        BY <1>1, <3>1
      <3>2. CASE item = adding.item
        BY <1>1, <1>2, <3>2, PutFacts
      <3>3. CASE item # nextkey /\ \E i \in Buckets, l \in Slots : At(i, l) = item
        BY <1>1, <3>3, PutFacts DEF At
      <3>4. CASE victim.used /\ item = victim.item /\ item # nextkey
        <4>1. ~victim.used
          BY <1>1 DEF ACFInv, OnTheMove
        <4>. QED
          BY <3>4, <4>1
      <3>. QED
        BY <3>1, <3>2, <3>3, <3>4 DEF ACFInv, NoneLost
    <2>. QED
      BY <1>1, <2>1 DEF NoneLost, At
  <1>. QED
    BY <1>1, <1>5, <1>8, <1>9, PutKeepsTies DEF ACFInv

\* Adapting makes the tags of a whole bucket anew.
LEMMA ACFInvAdapt ==
    ASSUME ACFInv, NEW item \in ItemType, NEW before \in Memories, NEW memory \in [Slots -> Memories],
           AdaptItem(item, before, memory)
    PROVE  ACFInv'
  <1>. DEFINE index == IF FindTagInBucket(Index1(item), GenerateTagHash(item, Index1(item), before))
                       THEN Index1(item) ELSE Index2(item)
              s == (hash_sels[index] + 1) % NumSels
  <1>1. index \in Buckets
    BY IndexRange
  <1>2. s \in Sels
    BY <1>1, NextSel DEF ACFInv, Typed
  <1>3. /\ hash_sels' = [hash_sels EXCEPT ![index] = s]
        /\ tags' = [tags EXCEPT ![index] = Retagged(index, s, memory)]
        /\ outside' = memory[NumSlots - 1]
        /\ UNCHANGED <<backing_map, victim, adding, added>>
    BY DEF AdaptItem
  <1>. HIDE DEF index, s
  <1>4. \A j \in Slots : At(index, j) # NoItem => At(index, j) \in ItemType
    BY <1>1 DEF ACFInv, Typed, At
  <1>5. Retagged(index, s, memory) \in [Slots -> Nat]
    BY <1>1, <1>2, <1>4, TagFacts DEF Retagged, ACFInv, Typed, At
  <1>6. Typed'
    <2>1. outside' \in Memories
      BY <1>3, ACFAssumption DEF Slots
    <2>. QED
      BY <1>1, <1>2, <1>3, <1>5, <2>1 DEF ACFInv, Typed
  <1>7. \A i \in Buckets, j \in Slots :
            tags'[i][j] = IF i = index /\ At(i, j) # NoItem THEN TagFor(At(i, j), index, s, memory[j])
                          ELSE tags[i][j]
    BY <1>1, <1>3 DEF Retagged, ACFInv, Typed, At
  <1>8. \A i \in Buckets : hash_sels'[i] = IF i = index THEN s ELSE hash_sels[i]
    BY <1>3 DEF ACFInv, Typed
  <1>9. SlotsTied'
    <2>1. ASSUME NEW i \in Buckets, NEW j \in Slots
          PROVE  IF tags'[i][j] = 0 THEN At(i, j) = NoItem
                 ELSE /\ At(i, j) \in added
                      /\ i \in {Index1(At(i, j)), Index2(At(i, j))}
                      /\ InFamily(i)' => tags'[i][j] = TagFor(At(i, j), i, hash_sels'[i], outside')
      <3>1. CASE i = index /\ At(i, j) # NoItem
        <4>1. tags[i][j] # 0
          BY <3>1 DEF ACFInv, SlotsTied, Typed, At
        <4>2. tags'[i][j] = TagFor(At(i, j), i, s, memory[j]) /\ tags'[i][j] # 0
          BY <1>1, <1>2, <1>4, <1>7, <3>1, TagFacts
        <4>3. InFamily(i)' => TagFor(At(i, j), i, s, memory[j]) = TagFor(At(i, j), i, s, outside')
          BY <1>8, <3>1, FamilyTags DEF InFamily
        <4>. QED
          BY <1>8, <3>1, <4>1, <4>2, <4>3 DEF ACFInv, SlotsTied
      <3>2. CASE At(i, j) = NoItem
        <4>1. tags'[i][j] = tags[i][j] /\ NoItem \notin added
          BY <1>7, <3>2, ACFAssumption DEF ACFInv, Typed
        <4>. QED
          BY <3>2, <4>1 DEF ACFInv, SlotsTied
      <3>3. CASE i # index
        <4>1. InFamily(i)' <=> InFamily(i)
          BY <1>8, <3>3 DEF InFamily
        <4>2. InFamily(i) => TagFor(At(i, j), i, hash_sels[i], outside') = GenerateTagHash(At(i, j), i, outside)
          BY FamilyTags DEF InFamily, GenerateTagHash
        <4>. QED
          BY <1>7, <1>8, <3>3, <4>1, <4>2 DEF ACFInv, SlotsTied
      <3>. QED
        BY <3>1, <3>2, <3>3
    <2>. QED
      BY <1>3, <2>1 DEF SlotsTied, At, GenerateTagHash
  <1>10. NoneLost' /\ InOneSlot' /\ OnTheMove' /\ VictimHome'
    BY <1>3 DEF ACFInv, NoneLost, InOneSlot, OnTheMove, VictimHome, Idle, At
  <1>. QED
    BY <1>6, <1>9, <1>10 DEF ACFInv

\* Only tags made in front of the family depend on the memory there.
LEMMA ACFInvOutside ==
    ASSUME ACFInv, OutsideWritten
    PROVE  ACFInv'
  <1>1. outside' \in Memories /\ UNCHANGED <<tags, hash_sels, backing_map, victim, adding, added>>
    BY DEF OutsideWritten
  <1>2. SlotsTied'
    <2>1. ASSUME NEW i \in Buckets, NEW j \in Slots, InFamily(i)
          PROVE  GenerateTagHash(At(i, j), i, outside)' = GenerateTagHash(At(i, j), i, outside)
      BY <1>1, <2>1, FamilyTags DEF InFamily, GenerateTagHash, At
    <2>. QED
      BY <1>1, <2>1 DEF ACFInv, SlotsTied, At, InFamily
  <1>. QED
    BY <1>1, <1>2 DEF ACFInv, Typed, NoneLost, InOneSlot, OnTheMove, VictimHome, Idle, At

\* A query adapts by the item asked for or by the one whose tag it met.
LEMMA ACFInvQuery ==
    ASSUME ACFInv, NEW item \in ItemType, QueryAndAdapt(item)
    PROVE  ACFInv'
  <1>1. PICK index \in {Index1(item), Index2(item)}, j \in Slots :
            /\ ContainReturn(item, index, j)
            /\ \E by \in {backing_map[index][j], item}, before \in Memories, memory \in [Slots -> Memories] :
                  AdaptItem(by, before, memory)
    BY DEF QueryAndAdapt
  <1>2. index \in Buckets
    BY IndexRange
  <1>3. tags[index][j] # 0
    <2>1. tags[index][j] = GenerateTagHash(item, index, outside)
      BY <1>1 DEF ContainReturn, IsFirstTag
    <2>2. hash_sels[index] \in Sels /\ outside \in Memories
      BY <1>2 DEF ACFInv, Typed
    <2>. QED
      BY <1>2, <2>1, <2>2, TagFacts DEF GenerateTagHash
  <1>4. backing_map[index][j] \in ItemType
    BY <1>2, <1>3 DEF ACFInv, SlotsTied, Typed, At
  <1>. QED
    BY <1>1, <1>4, ACFInvAdapt

\* Every step keeps the inductive invariant.
LEMMA ACFInvNext == ACFInv /\ [ACFNext]_acfVars => ACFInv'
  <1>. SUFFICES ASSUME ACFInv, [ACFNext]_acfVars PROVE ACFInv'
    OBVIOUS
  <1>1. CASE UNCHANGED acfVars
    BY <1>1 DEF acfVars, ACFInv, Typed, SlotsTied, NoneLost, InOneSlot, OnTheMove, VictimHome, Idle, At,
       InFamily, GenerateTagHash
  <1>2. CASE ACFNext
    BY <1>2, ACFInvAddStart, ACFInvAddPlace, ACFInvAddKick, ACFInvQuery, ACFInvOutside DEF ACFNext
  <1>. QED
    BY <1>1, <1>2

\* The inductive invariant holds throughout.
LEMMA ACFInvHolds == ACFSpec => []ACFInv
  BY ACFInvInit, ACFInvNext, PTL DEF ACFSpec

-----------------------------------------------------------------------------
\* Every tag made by one of the hash functions is its item's under the
\* selector its bucket has now, whatever is in front of the functions and
\* whoever writes it, and no item but the victim has left the table.
THEOREM TagsAreTied == ACFSpec => []MapTied
  <1>1. ACFInv => MapTied
    BY DEF ACFInv, SlotsTied, NoneLost, InOneSlot, MapTied
  <1>. QED
    BY <1>1, ACFInvHolds, PTL

\* So every item is found, but a victim whose bucket has adapted and the items
\* of buckets that hash with the memory in front of the functions.
THEOREM NoneForgotten == ACFSpec => []AddedAreFound
  <1>1. ACFInv => AddedAreFound
    <2>. SUFFICES ASSUME ACFInv, Idle, NEW item \in added
                  PROVE  \/ Contain(item)
                         \/ victim.item = item /\ victim.tag # GenerateTagHash(item, victim.index, outside)
                         \/ \E i \in {Index1(item), Index2(item)}, j \in Slots : At(i, j) = item /\ ~InFamily(i)
      BY DEF AddedAreFound
    <2>1. item \in ItemType /\ item # NoItem
      BY ACFAssumption DEF ACFInv, Typed
    <2>2. CASE \E i \in Buckets, j \in Slots : At(i, j) = item
      <3>1. PICK i \in Buckets, j \in Slots : At(i, j) = item
        BY <2>2
      <3>2. /\ i \in {Index1(item), Index2(item)}
            /\ InFamily(i) => tags[i][j] = GenerateTagHash(item, i, outside)
        BY <2>1, <3>1 DEF ACFInv, SlotsTied
      <3>. QED
        BY <3>1, <3>2 DEF Contain, FindTagInBucket
    <2>3. CASE victim.used /\ item = victim.item
      BY <2>3 DEF ACFInv, VictimHome, Contain, IsVictim
    <2>. QED
      BY <2>1, <2>2, <2>3 DEF ACFInv, NoneLost, Idle
  <1>. QED
    BY <1>1, ACFInvHolds, PTL

-----------------------------------------------------------------------------
(***************************************************************************)
(* HybridSkiQF                                                             *)
(***************************************************************************)
WindowType ==
    /\ window \in [progress : Nat, repeats : Nat, corrected : Nat,
                   avgRepeats : Nat, avgCorrected : Nat, threshold : Nat]
    /\ numAdapts \in Nat
    /\ peak \in Nat

AverageIsEarned == window.avgRepeats <= Scale * peak

Unextended == \A f \in Fps : \A i \in DOMAIN miniruns[f] : miniruns[f][i].ext_len = 0

NothingCorrected ==
    numAdapts = 0 =>
        /\ Unextended
        /\ window.corrected = 0 /\ window.avgCorrected = 0 /\ window.threshold = 0

HInv == WindowType /\ CountedOnce /\ AverageIsEarned /\ NothingCorrected /\ RepeatsComeFirst

\* Every step of HybridSkiQF is a step of AdaptiveFilter, or leaves the
\* filter alone.
LEMMA StepsImplement == [HNext]_hvars => [Next]_vars
  <1>. SUFFICES ASSUME [HNext]_hvars PROVE [Next]_vars
    OBVIOUS
  <1>1. CASE UNCHANGED hvars
    BY <1>1 DEF hvars
  <1>2. CASE HybridLoads
    BY <1>2 DEF HybridLoads, Next
  <1>3. CASE HybridQueries
    <2>1. PICK k \in Keys :
              \/ QueryNegative(k)
              \/ QueryStored(k)
              \/ \E i \in DOMAIN miniruns[FpOf[k]] : HybridAdapts(k, i) \/ HybridDeclines(k, i)
      BY <1>3 DEF HybridQueries
    <2>2. CASE QueryNegative(k) \/ QueryStored(k)
      BY <2>2 DEF QueryNegative, QueryStored
    <2>3. ASSUME NEW i \in DOMAIN miniruns[FpOf[k]], HybridAdapts(k, i)
          PROVE  Next
      BY <2>3 DEF HybridAdapts, Next
    <2>4. ASSUME NEW i \in DOMAIN miniruns[FpOf[k]], HybridDeclines(k, i)
          PROVE  UNCHANGED vars
      BY <2>4 DEF HybridDeclines
    <2>. QED
      BY <2>1, <2>2, <2>3, <2>4
  <1>. QED
    BY <1>1, <1>2, <1>3 DEF HNext

\* HybridSkiQF with its windows is an AdaptiveFilter whose choice between
\* adapting and declining is left open.
THEOREM HybridImplements == HSpec => Spec
  <1>1. HInit => Init
    BY DEF HInit
  <1>. QED
    BY <1>1, StepsImplement, PTL DEF HSpec, Spec

\* So it loses no key, whatever the windows decide.
THEOREM HybridLosesNoKey == HSpec => []NoFalseNegative
  BY HybridImplements, NoFalseNegatives, PTL

-----------------------------------------------------------------------------
\* Products of naturals grow with their factors.
LEMMA ProductFacts ==
    ASSUME NEW s \in Nat, NEW a \in Nat, NEW b \in Nat, a <= b
    PROVE  s * a \in Nat /\ s * b \in Nat /\ s * a <= s * b
  <1>1. s * (b - a) >= 0
    OBVIOUS
  <1>2. s * (b - a) = s * b - s * a
    OBVIOUS
  <1>. QED
    BY <1>1, <1>2

\* A new average lies between the old one and the count it is brought up by.
LEMMA AverageBound ==
    ASSUME NEW avg \in Nat, NEW count \in Nat, NEW most \in Nat, count <= most, avg <= Scale * most
    PROVE  Average(avg, count) \in Nat /\ Average(avg, count) <= Scale * most
  <1>. DEFINE x == Scale * most
              y == Scale * count
  <1>1. Scale \in Nat
    BY HybridAssumption
  <1>2. x \in Nat /\ y \in Nat /\ y <= x
    BY <1>1, ProductFacts
  <1>3. 7 * Scale * count = 7 * y
    BY <1>1
  <1>4. avg <= x
    OBVIOUS
  <1>. HIDE DEF x, y
  <1>5. (3 * avg + 7 * y) \div 10 \in Nat /\ (3 * avg + 7 * y) \div 10 <= x
    BY <1>2, <1>4
  <1>. QED
    BY <1>3, <1>5 DEF Average, x

\* An average of nothing stays at nothing.
LEMMA AverageOfNothing == Average(0, 0) = 0
  <1>1. Scale \in Nat
    BY HybridAssumption
  <1>2. 7 * Scale * 0 = 0
    BY <1>1
  <1>. QED
    BY <1>2 DEF Average

\* What a query leaves of the window w, its own counts included.
LEMMA ProgressFacts ==
    ASSUME NEW w \in [progress : Nat, repeats : Nat, corrected : Nat,
                      avgRepeats : Nat, avgCorrected : Nat, threshold : Nat],
           numAdapts \in Nat, peak \in Nat,
           w.progress < WindowSize, w.repeats + w.corrected <= w.progress + 1,
           w.avgRepeats <= Scale * peak,
           Progress(w)
    PROVE  /\ window' \in [progress : Nat, repeats : Nat, corrected : Nat,
                           avgRepeats : Nat, avgCorrected : Nat, threshold : Nat]
           /\ CountedOnce'
           /\ peak' \in Nat /\ peak <= peak' /\ AverageIsEarned'
           /\ numAdapts = 0 /\ w.corrected = 0 /\ w.avgCorrected = 0 /\ w.threshold = 0
                => window'.corrected = 0 /\ window'.avgCorrected = 0 /\ window'.threshold = 0
  <1>1. WindowSize \in Nat \ {0} /\ FingerprintSpace \in Nat \ {0} /\ Scale \in Nat \ {0}
    BY HybridAssumption
  <1>2. CASE w.progress + 1 = WindowSize
    <2>1. window' = Rolled(w) /\ peak' = IF w.repeats > peak THEN w.repeats ELSE peak
      BY <1>2 DEF Progress
    <2>2. peak' \in Nat /\ peak <= peak' /\ w.repeats <= peak'
      BY <2>1
    <2>3. w.avgRepeats <= Scale * peak'
      <3>1. Scale * peak \in Nat /\ Scale * peak' \in Nat /\ Scale * peak <= Scale * peak'
        BY <1>1, <2>2, ProductFacts
      <3>2. w.avgRepeats \in Nat
        OBVIOUS
      <3>. QED
        BY <3>1, <3>2
    <2>4. Average(w.avgRepeats, w.repeats) \in Nat /\ Average(w.avgRepeats, w.repeats) <= Scale * peak'
      BY <2>2, <2>3, AverageBound
    <2>5. Average(w.avgCorrected, w.corrected) \in Nat
      <3>. DEFINE most == w.avgCorrected + w.corrected
      <3>1. most \in Nat /\ w.corrected <= most
        OBVIOUS
      <3>2. w.avgCorrected <= Scale * most
        <4>1. (Scale - 1) * most >= 0
          BY <1>1, <3>1
        <4>2. (Scale - 1) * most = Scale * most - most
          BY <1>1, <3>1
        <4>3. Scale * most \in Nat /\ w.avgCorrected <= most
          BY <1>1, <3>1
        <4>. QED
          BY <3>1, <4>1, <4>2, <4>3
      <3>. QED
        BY <3>1, <3>2, AverageBound
    <2>6. (2 * WindowSize * numAdapts) \div FingerprintSpace \in Nat
      <3>1. 2 * WindowSize * numAdapts \in Nat
        BY <1>1
      <3>. QED
        BY <1>1, <3>1
    <2>7. numAdapts = 0 => (2 * WindowSize * numAdapts) \div FingerprintSpace = 0
      <3>1. 2 * WindowSize * 0 = 0 /\ 0 \div FingerprintSpace = 0
        BY <1>1
      <3>. QED
        BY <3>1
    <2>. QED
      BY <1>1, <2>1, <2>2, <2>4, <2>5, <2>6, <2>7, AverageOfNothing DEF Rolled, CountedOnce, AverageIsEarned
  <1>3. CASE w.progress + 1 # WindowSize
    <2>1. window' = [w EXCEPT !.progress = @ + 1] /\ peak' = peak
      BY <1>3 DEF Progress
    <2>. QED
      BY <1>1, <1>3, <2>1 DEF CountedOnce, AverageIsEarned
  <1>. QED
    BY <1>2, <1>3

-----------------------------------------------------------------------------
\* The window begins empty, and no item is there to have an extension.
LEMMA HInvInit == HInit => HInv
  <1>1. WindowSize \in Nat \ {0} /\ Scale \in Nat \ {0} /\ RepeatedFpThreshold \in Nat
    BY HybridAssumption
  <1>2. Scale * 0 = 0
    BY <1>1
  <1>. QED
    BY <1>1, <1>2 DEF HInit, Init, HInv, WindowType, CountedOnce, AverageIsEarned, NothingCorrected,
       RepeatsComeFirst, Unextended

\* Loading puts new items in front, and these have no extension.
LEMMA HInvLoads ==
    ASSUME TypeOK, HInv, HybridLoads
    PROVE  HInv'
  <1>1. UNCHANGED <<window, numAdapts, peak>>
    BY DEF HybridLoads
  <1>2. Unextended => Unextended'
    <2>1. CASE EndLoad
      BY <2>1 DEF EndLoad, Unextended
    <2>2. ASSUME NEW k \in Keys, Insert(k), Unextended PROVE Unextended'
      <3>. DEFINE f == FpOf[k]
                  old == miniruns[f]
                  new == <<NewItem>> \o old
      <3>1. f \in Fps /\ miniruns' = [miniruns EXCEPT ![f] = new] /\ miniruns \in [Fps -> Seq(Items)]
        BY <2>2, AFAssumption DEF Insert, TypeOK
      <3>2. new \in Seq(Items) /\ Len(new) = Len(old) + 1 /\ new[1] = NewItem
            /\ \A i \in 1 .. Len(old) : new[i + 1] = old[i]
        BY <2>2, InsertFacts
      <3>3. ASSUME NEW i \in DOMAIN new PROVE new[i].ext_len = 0
        <4>1. i \in 1 .. Len(old) + 1 /\ Len(old) \in Nat /\ DOMAIN old = 1 .. Len(old)
          BY <3>1, <3>2, <3>3
        <4>2. CASE i = 1
          BY <3>2, <4>2, NewItemFacts
        <4>3. CASE i # 1
          <5>1. i - 1 \in 1 .. Len(old) /\ (i - 1) + 1 = i
            BY <4>1, <4>3
          <5>2. new[i] = old[i - 1]
            BY <3>2, <5>1
          <5>. QED
            BY <2>2, <3>1, <4>1, <5>1, <5>2 DEF Unextended
        <4>. QED
          BY <4>2, <4>3
      <3>4. miniruns'[f] = new /\ \A g \in Fps : g # f => miniruns'[g] = miniruns[g]
        BY <3>1
      <3>. HIDE DEF new, f
      <3>. QED
        BY <2>2, <3>3, <3>4 DEF Unextended
    <2>. QED
      BY <2>1, <2>2 DEF HybridLoads
  <1>. QED
    BY <1>1, <1>2 DEF HInv, WindowType, CountedOnce, AverageIsEarned, NothingCorrected, RepeatsComeFirst

\* A query answered "absent" is a correction only if an item is extended.
LEMMA HInvNegative ==
    ASSUME TypeOK, HInv, NEW k \in Keys, QueryNegative(k)
    PROVE  HInv'
  <1>. DEFINE w == [window EXCEPT !.corrected = IF IsCorrected(k) THEN @ + 1 ELSE @]
  <1>1. Progress(w) /\ UNCHANGED <<miniruns, numAdapts>>
    BY DEF QueryNegative, vars
  <1>2. numAdapts = 0 => ~IsCorrected(k)
    <2>1. FpOf[k] \in Fps /\ miniruns[FpOf[k]] \in Seq(Items)
      BY AFAssumption DEF TypeOK
    <2>2. miniruns[FpOf[k]] # <<>> => Len(miniruns[FpOf[k]]) \in DOMAIN miniruns[FpOf[k]]
      BY <2>1, EmptySeq, LenProperties
    <2>. QED
      BY <2>1, <2>2 DEF HInv, NothingCorrected, Unextended, IsCorrected
  <1>3. /\ w \in [progress : Nat, repeats : Nat, corrected : Nat,
                  avgRepeats : Nat, avgCorrected : Nat, threshold : Nat]
        /\ w.progress < WindowSize /\ w.repeats + w.corrected <= w.progress + 1
        /\ w.avgRepeats <= Scale * peak
        /\ numAdapts = 0 => w.corrected = 0 /\ w.avgCorrected = 0 /\ w.threshold = 0
    BY <1>2 DEF HInv, WindowType, CountedOnce, AverageIsEarned, NothingCorrected
  <1>. HIDE DEF w
  <1>4. /\ window' \in [progress : Nat, repeats : Nat, corrected : Nat,
                        avgRepeats : Nat, avgCorrected : Nat, threshold : Nat]
        /\ CountedOnce' /\ peak' \in Nat /\ peak <= peak' /\ AverageIsEarned'
        /\ numAdapts = 0 => window'.corrected = 0 /\ window'.avgCorrected = 0 /\ window'.threshold = 0
    BY <1>1, <1>3, ProgressFacts DEF HInv, WindowType
  <1>5. RepeatedFpThreshold \in Nat
    BY HybridAssumption
  <1>. QED
    BY <1>1, <1>4, <1>5 DEF HInv, WindowType, NothingCorrected, Unextended, RepeatsComeFirst

\* A false positive counts as a repeat at most.
LEMMA CountFacts ==
    ASSUME HInv, NEW k \in Keys, CountFalsePositive(k)
    PROVE  /\ window' \in [progress : Nat, repeats : Nat, corrected : Nat,
                           avgRepeats : Nat, avgCorrected : Nat, threshold : Nat]
           /\ CountedOnce' /\ peak' \in Nat /\ peak <= peak' /\ AverageIsEarned'
           /\ numAdapts = 0 => window'.corrected = 0 /\ window'.avgCorrected = 0 /\ window'.threshold = 0
  <1>. DEFINE w == [window EXCEPT !.repeats = IF PiecesOf[k] \subseteq detector THEN @ + 1 ELSE @]
  <1>1. Progress(w)
    BY DEF CountFalsePositive
  <1>2. /\ w \in [progress : Nat, repeats : Nat, corrected : Nat,
                  avgRepeats : Nat, avgCorrected : Nat, threshold : Nat]
        /\ w.progress < WindowSize /\ w.repeats + w.corrected <= w.progress + 1
        /\ w.avgRepeats <= Scale * peak
        /\ numAdapts = 0 => w.corrected = 0 /\ w.avgCorrected = 0 /\ w.threshold = 0
    BY DEF HInv, WindowType, CountedOnce, AverageIsEarned, NothingCorrected
  <1>. HIDE DEF w
  <1>. QED
    BY <1>1, <1>2, ProgressFacts DEF HInv, WindowType

\* Without an adaptation the averages of a worthwhile window are repeats.
LEMMA HInvAdapts ==
    ASSUME HInv, NEW k \in Keys, NEW i \in DOMAIN miniruns[FpOf[k]], HybridAdapts(k, i)
    PROVE  HInv'
  <1>1. CountFalsePositive(k) /\ Worthwhile(window') /\ numAdapts' = numAdapts + 1
    BY DEF HybridAdapts
  <1>2. Scale \in Nat \ {0} /\ RepeatedFpThreshold \in Nat
    BY HybridAssumption
  <1>3. numAdapts \in Nat /\ numAdapts' \in Nat /\ numAdapts' # 0 /\ peak \in Nat
    BY <1>1 DEF HInv, WindowType
  <1>4. peak' \in Nat /\ peak <= peak' /\ window'.avgRepeats \in Nat /\ window'.avgRepeats <= Scale * peak'
    BY <1>1, CountFacts DEF AverageIsEarned
  <1>5. peak' > RepeatedFpThreshold
    <2>1. CASE numAdapts > 0
      BY <1>2, <1>3, <1>4, <2>1 DEF HInv, RepeatsComeFirst
    <2>2. CASE numAdapts = 0
      <3>1. window'.avgCorrected = 0 /\ window'.threshold = 0
        BY <1>1, <2>2, CountFacts
      <3>2. Scale * 0 = 0
        BY <1>2
      <3>3. window'.avgRepeats > Scale * RepeatedFpThreshold
        BY <1>1, <3>1, <3>2 DEF Worthwhile
      <3>4. ASSUME peak' <= RepeatedFpThreshold PROVE FALSE
        <4>1. /\ Scale * peak' \in Nat /\ Scale * RepeatedFpThreshold \in Nat
              /\ Scale * peak' <= Scale * RepeatedFpThreshold
          BY <1>2, <1>4, <3>4, ProductFacts
        <4>. QED
          BY <1>4, <3>3, <4>1
      <3>. QED
        BY <1>2, <1>4, <3>4
    <2>. QED
      BY <1>3, <2>1, <2>2
  <1>6. WindowType' /\ CountedOnce' /\ AverageIsEarned'
    BY <1>1, <1>3, CountFacts DEF WindowType
  <1>. QED
    BY <1>3, <1>5, <1>6 DEF HInv, NothingCorrected, RepeatsComeFirst

\* Declining leaves the filter as it is.
LEMMA HInvDeclines ==
    ASSUME HInv, NEW k \in Keys, NEW i \in DOMAIN miniruns[FpOf[k]], HybridDeclines(k, i)
    PROVE  HInv'
  <1>1. CountFalsePositive(k) /\ UNCHANGED <<miniruns, numAdapts>>
    BY DEF HybridDeclines, vars
  <1>2. RepeatedFpThreshold \in Nat
    BY HybridAssumption
  <1>. QED
    BY <1>1, <1>2, CountFacts DEF HInv, WindowType, NothingCorrected, Unextended, RepeatsComeFirst

\* Every step keeps the inductive invariant.
LEMMA HInvNext == TypeOK /\ HInv /\ [HNext]_hvars => HInv'
  <1>. SUFFICES ASSUME TypeOK, HInv, [HNext]_hvars PROVE HInv'
    OBVIOUS
  <1>. USE DEF HInv, WindowType, CountedOnce, AverageIsEarned, NothingCorrected, Unextended, RepeatsComeFirst
  <1>1. CASE UNCHANGED hvars
    BY <1>1 DEF hvars, vars
  <1>2. ASSUME NEW k \in Keys, QueryStored(k) PROVE HInv'
    BY <1>2 DEF QueryStored, vars
  <1>3. CASE HybridLoads
    BY <1>3, HInvLoads
  <1>4. CASE HybridQueries
    BY <1>2, <1>4, HInvNegative, HInvAdapts, HInvDeclines DEF HybridQueries
  <1>. QED
    BY <1>1, <1>3, <1>4 DEF HNext

\* The inductive invariant holds throughout.
LEMMA HInvHolds == HSpec => []HInv
  <1>1. HSpec => []TypeOK
    BY HybridImplements, TypeCorrect, PTL
  <1>. QED
    BY <1>1, HInvInit, HInvNext, PTL DEF HSpec

\* No query is counted twice, and no window grows past its size.
THEOREM WindowsAddUp == HSpec => []CountedOnce
  BY HInvHolds, PTL DEF HInv

\* The first adaptation needs a window with more repeats than the threshold,
\* whatever the sizes of window, filter and threshold.
THEOREM RepeatsStartIt == HSpec => []RepeatsComeFirst
  BY HInvHolds, PTL DEF HInv
=============================================================================
