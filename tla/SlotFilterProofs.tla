-------------------------- MODULE SlotFilterProofs --------------------------
(***************************************************************************)
(* The adaptive filters on the slot array, for every size of filter and    *)
(* set of keys, as long as two slots from every key's bucket on are free   *)
(* (RoomLeft).  Without that the bits are set for an item that             *)
(* insert_one_slot did not store.                                          *)
(*                                                                         *)
(* The first part (LInv) is about the shape of the filter, for counters of *)
(* any height, WiredTiger as the reverse map and the variants that look at *)
(* its return code.  The key an item is extended for then has the          *)
(* fingerprint it is filed under (RowsTied): with another bucket,          *)
(* make_space nudges other blocks' offsets than the ones it shifts slots   *)
(* into.                                                                   *)
(*                                                                         *)
(* The second part (TInv) follows every key through its minirun, for all   *)
(* variants and both reverse maps, while counters are charged once only    *)
(* (CountersFit): the items of a fingerprint stand in the order of its     *)
(* row, so that a rank names a key the item matched before, and what was   *)
(* loaded stays found.                                                     *)
(*                                                                         *)
(* The third part (SInv) balances the accounts: the charges counted on     *)
(* behalf of false positives are the counter slots left in the filter and  *)
(* those that extensions took back.  Here a row must not outgrow the byte  *)
(* of a rank (RanksFit), or an extension would be made behind another      *)
(* item than the one the query charged.                                    *)
(*                                                                         *)
(* The fourth part (RInv) is the refinement: the items read out of the     *)
(* slots, and the rows as sequences, go through the steps of               *)
(* AdaptiveFilter, one by one.  Answers are read off the same items        *)
(* (PresentIs), which match fewer and fewer keys (RejectedForGood).        *)
(*                                                                         *)
(* Last come the filters in which room is always left: their overflow area *)
(* is as large as their load limits (RoomBeyond).                          *)
(***************************************************************************)
EXTENDS SlotRefinement, MinirunProofs, SequenceTheorems

\* What a row of the reverse map holds has the row's fingerprint.
RowsTied ==
    /\ DOMAIN reverseMap = Fps
    /\ \A f \in Fps : \A r \in DOMAIN reverseMap[f] :
          reverseMap[f][r] \in Keys /\ minirun_id(reverseMap[f][r]) = f

\* The inductive invariant.
LInv ==
    /\ Kept(qf)
    /\ RowsTied
    /\ db \subseteq Keys
    /\ phase \in {"load", "query", "aborted"}
    /\ {fpCount, adaptCount} \subseteq 0 .. CountCap
    /\ RefusedOnlyWhenFull

\* Keys are hashes.
LEMMA KeyFacts ==
    ASSUME NEW k \in Keys
    PROVE  k \in Nat /\ k # NoKey /\ minirun_id(k) \in Fps
  <1>1. HashBits \in Nat
    BY GQFAssumption
  <1>. DEFINE P == 2 ^ HashBits
  <1>2. P \in Nat \ {0}
    BY <1>1, PowerOfTwo
  <1>3. k \in 0 .. P - 1
    BY SlotFilterAssumption
  <1>. HIDE DEF P
  <1>4. k \in Nat
    BY <1>2, <1>3
  <1>. QED
    BY <1>4 DEF Fps, NoKey

\* An empty filter is in shape.
LEMMA InitKept == Kept(qf_init)
  <1>. DEFINE h == [i \in {} |-> 0]
              q == qf_init
  <1>1. /\ SlotsPerBlock \in Nat \ {0} /\ OffsetMax \in Nat \ {0} /\ PastEnd \in Nat
        /\ Slots = 0 .. PastEnd - 1 /\ Blocks = 0 .. nblocks - 1
    BY Sizes
  <1>2. q \in Filters
    <2>1. 0 \in SlotValues
      <3>1. 2 ^ BitsPerSlot \in Nat \ {0}
        BY GQFAssumption, PowerOfTwo
      <3>. DEFINE P == 2 ^ BitsPerSlot
      <3>2. SlotValues = 0 .. P - 1
        BY DEF SlotValues
      <3>. HIDE DEF P
      <3>. QED
        BY <3>1, <3>2 DEF P
    <2>2. 0 \in 0 .. OffsetMax
      BY <1>1
    <2>. QED
      BY <2>1, <2>2 DEF qf_init, Filters
  <1>3. Homed(q, {}, h)
    <2>1. Laid({}, h, PastEnd)
      BY <1>1 DEF Laid, Ordered
    <2>2. q.occupieds = {} /\ q.extensions = {} /\ q.runends = {}
      BY DEF qf_init
    <2>3. Homes({}, h) = {} /\ LastItems({}, h, {}) = {} /\ RunEnds(q) = {}
      BY <2>2 DEF Homes, LastItems, RunEnds
    <2>. HIDE DEF q, h
    <2>. QED
      BY <2>1, <2>2, <2>3 DEF Homed
  <1>4. Stored(q, {}, h)
    <2>1. ASSUME NEW k \in Blocks PROVE q.offset[k] = Min({OffsetMax, Reach({}, h, SlotsPerBlock * k)})
      <3>1. q.offset[k] = 0
        BY DEF qf_init
      <3>2. Reach({}, h, SlotsPerBlock * k) = 0
        BY DEF Reach
      <3>3. OffsetMax \in Int /\ 0 \in Int /\ ~(OffsetMax <= 0)
        BY <1>1
      <3>4. Min({OffsetMax, 0}) = 0
        BY <3>3, MinMaxOfTwo
      <3>. QED
        BY <3>1, <3>2, <3>4
    <2>. QED
      BY <2>1 DEF Stored
  <1>5. ChunksFirst(q)
    BY DEF ChunksFirst, is_counter, qf_init
  <1>6. q.noccupied_slots = Cardinality({})
    BY FS_EmptySet DEF qf_init
  <1>7. Fits({})
    BY DEF Fits
  <1>. HIDE DEF q, h
  <1>8. Shaped(q, {}, h)
    BY <1>2, <1>3, <1>4, <1>5, <1>6 DEF Shaped
  <1>. QED
    BY <1>7, <1>8 DEF Kept, q

\* The invariant holds at the start.
LEMMA LInvInit == Init => LInv
  <1>1. SUFFICES ASSUME Init PROVE LInv
    OBVIOUS
  <1>2. Kept(qf)
    BY <1>1, InitKept DEF Init
  <1>3. RowsTied
    BY <1>1 DEF Init, RowsTied
  <1>4. CountCap \in Nat
    BY SlotFilterAssumption
  <1>. QED
    BY <1>1, <1>2, <1>3, <1>4 DEF Init, LInv, RefusedOnlyWhenFull

\* The room a key's item finds.
LEMMA RoomIs ==
    ASSUME RoomLeft, NEW U, NEW h, Shaped(qf, U, h), NEW k \in Keys
    PROVE  /\ Room(U, bucket(k), 2)
           /\ \E i \in bucket(k) .. XnSlots - 1 : i \notin UsedSlots(qf)
  <1>. DEFINE F == {i \in bucket(k) .. XnSlots - 1 : i \notin UsedSlots(qf)}
  <1>1. bucket(k) \in Nat /\ XnSlots \in Nat
    BY KeyFacts, BucketType, Sizes
  <1>2. UsedSlots(qf) = U
    BY LayoutIsRead DEF Shaped
  <1>3. Cardinality(F) >= 2
    BY DEF RoomLeft
  <1>4. IsFiniteSet(F)
    <2>1. IsFiniteSet(bucket(k) .. XnSlots - 1)
      BY <1>1, FS_Interval
    <2>. QED
      BY <2>1, FS_Subset
  <1>5. ASSUME NEW f \in F PROVE f \in Nat /\ bucket(k) <= f /\ f < XnSlots /\ f \notin U
    BY <1>1, <1>2
  <1>6. F # {}
    <2>. HIDE DEF F
    <2>. QED
      BY <1>3, FS_EmptySet
  <1>7. \E i \in bucket(k) .. XnSlots - 1 : i \notin UsedSlots(qf)
    BY <1>6
  <1>. HIDE DEF F
  <1>8. Room(U, bucket(k), 2)
    BY <1>3, <1>4, <1>5 DEF Room
  <1>. QED
    BY <1>7, <1>8

\* An insertion below the load limit succeeds.
LEMMA InsertionIs ==
    ASSUME Kept(qf), RoomLeft, NEW k \in Keys,
           NEW result, result = qf_insert_using_ll_table(qf, k, 1)
    PROVE  /\ result.ret >= 0 => Kept(result.qf)
           /\ result.ret < 0 => AtLoadLimit(qf)
  <1>1. CASE AtLoadLimit(qf)
    <2>1. result.qf = qf
      BY <1>1 DEF qf_insert_using_ll_table, NotInserted
    <2>. QED
      BY <1>1, <2>1
  <1>2. CASE ~AtLoadLimit(qf)
    <2>1. result = insert_using_ll_table(qf, k, 1)
      BY <1>2 DEF qf_insert_using_ll_table
    <2>2. PICK U, h : Shaped(qf, U, h)
      BY DEF Kept
    <2>3. PICK free \in bucket(k) .. XnSlots - 1 : free \notin UsedSlots(qf)
      BY <2>2, RoomIs
    <2>4. k \in Nat
      BY KeyFacts
    <2>5. Kept(result.qf) /\ result.ret = 0
      BY <2>1, <2>3, <2>4, InsertionKeeps
    <2>6. ~(result.ret < 0)
      BY <2>5
    <2>. QED
      BY <2>5, <2>6
  <1>. QED
    BY <1>1, <1>2

\* Loading a key files it under its own fingerprint.
LEMMA LInvLoad ==
    ASSUME MapKind = "WiredTiger", LInv, RoomLeft, NEW k \in Keys, Load(k)
    PROVE  LInv'
  <1>. DEFINE result == qf_insert_using_ll_table(qf, k, 1)
              f == minirun_id(k)
              rank == result.minirun_rank
  <1>1. /\ result.ret >= 0 /\ qf' = result.qf
        /\ reverseMap' = [reverseMap EXCEPT ![f] = insertFingerprint(reverseMap[f], rank, k)]
        /\ phase = "load" /\ phase' = phase /\ db' = db \cup {k}
        /\ fpCount' = fpCount /\ adaptCount' = adaptCount
    BY DEF Load
  <1>2. Kept(qf)'
    <2>1. Kept(result.qf)
      <3>1. Kept(qf)
        BY DEF LInv
      <3>2. result = qf_insert_using_ll_table(qf, k, 1)
        OBVIOUS
      <3>. HIDE DEF result
      <3>. QED
        BY <1>1, <3>1, <3>2, InsertionIs
    <2>. QED
      BY <1>1, <2>1
  <1>. HIDE DEF rank, result
  <1>3. RowsTied'
    <2>1. RowsTied
      BY DEF LInv
    <2>2. DOMAIN reverseMap' = Fps
      BY <1>1, <2>1 DEF RowsTied
    <2>3. ASSUME NEW g \in Fps, NEW r \in DOMAIN reverseMap'[g]
          PROVE  reverseMap'[g][r] \in Keys /\ minirun_id(reverseMap'[g][r]) = g
      <3>1. CASE g # f
        <4>1. reverseMap'[g] = reverseMap[g]
          BY <1>1, <2>1, <3>1 DEF RowsTied
        <4>. QED
          BY <2>1, <2>3, <4>1 DEF RowsTied
      <3>2. CASE g = f
        <4>. DEFINE map == reverseMap[f]
        <4>1. reverseMap'[g] = [s \in DOMAIN map \cup {rank} |-> IF s = rank THEN k ELSE map[s]]
          <5>1. reverseMap'[g] = insertFingerprint(map, rank, k)
            BY <1>1, <2>1, <3>2 DEF RowsTied
          <5>. QED
            BY <5>1 DEF insertFingerprint
        <4>2. \A s \in DOMAIN map : map[s] \in Keys /\ minirun_id(map[s]) = g
          BY <2>1, <3>2 DEF RowsTied
        <4>. HIDE DEF map
        <4>3. r \in DOMAIN map \cup {rank}
          BY <2>3, <4>1
        <4>4. reverseMap'[g][r] = IF r = rank THEN k ELSE map[r]
          BY <4>1, <4>3
        <4>. QED
          BY <3>2, <4>2, <4>3, <4>4
      <3>. QED
        BY <3>1, <3>2
    <2>. QED
      BY <2>2, <2>3 DEF RowsTied
  <1>. QED
    BY <1>1, <1>2, <1>3 DEF LInv, RefusedOnlyWhenFull

\* An insertion is refused at the load limit.
LEMMA LInvRefused ==
    ASSUME LInv, RoomLeft, NEW k \in Keys, LoadRefused(k)
    PROVE  LInv'
  <1>. DEFINE result == qf_insert_using_ll_table(qf, k, 1)
  <1>1. /\ result.ret < 0 /\ phase' = "aborted"
        /\ qf' = qf /\ reverseMap' = reverseMap /\ db' = db
        /\ fpCount' = fpCount /\ adaptCount' = adaptCount
    BY DEF LoadRefused
  <1>2. AtLoadLimit(qf)
    <2>1. Kept(qf) /\ result = qf_insert_using_ll_table(qf, k, 1)
      BY DEF LInv
    <2>. HIDE DEF result
    <2>. QED
      BY <1>1, <2>1, InsertionIs
  <1>. QED
    BY <1>1, <1>2 DEF LInv, RowsTied, RefusedOnlyWhenFull

\* Where a query finds an item of its key's bucket.
LEMMA FoundIs ==
    ASSUME NEW U, NEW h, Shaped(qf, U, h), Fits(U), NEW k \in Keys, Positive(k)
    PROVE  /\ Lookup(qf, k).found
           /\ queryFilter(k).hash_index \in Items(qf, U, h, bucket(k))
           /\ queryFilter(k).minirun_rank \in Nat
           /\ queryFilter(k).minirun_rank <= Lookup(qf, k).rank
  <1>. DEFINE r == Lookup(qf, k)
  <1>1. /\ Positive(k) => r.found
        /\ queryFilter(k).hash_index = r.index
        /\ queryFilter(k).minirun_rank \in {r.rank, r.rank % 2 ^ 8}
    BY DEF Positive, queryFilter, queryIn, qf_get_count_using_ll_table_with_index, qf_query_using_ll_table_with_ext_len
  <1>2. r.index \in Matching(qf, U, h, k) /\ r.rank = CountIn(Minirun(qf, U, h, k), 0, r.index - 1)
    <2>1. Homed(qf, U, h) /\ Stored(qf, U, h) /\ ChunksFirst(qf) /\ \A j \in U : j < XnSlots
      BY DEF Shaped, Fits
    <2>. HIDE DEF r
    <2>2. r = Lookup(qf, k)
      BY DEF r
    <2>. QED
      BY <1>1, <2>1, <2>2, LookupExact
  <1>. HIDE DEF r
  <1>3. r.index \in Items(qf, U, h, bucket(k))
    BY <1>2 DEF Matching, Minirun
  <1>4. r.rank \in Nat
    <2>1. Minirun(qf, U, h, k) \in SUBSET Nat
      <3>1. U \in SUBSET Nat
        BY HomedTypes DEF Shaped
      <3>. QED
        BY <3>1 DEF Minirun, Items
    <2>2. r.index - 1 \in Int /\ 0 <= (r.index - 1) + 1
      BY <1>2, <2>1 DEF Matching
    <2>3. CountIn(Minirun(qf, U, h, k), 0, r.index - 1) \in 0 .. (r.index - 1) - 0 + 1
      BY <2>1, <2>2, CountType
    <2>. QED
      BY <1>2, <2>3
  <1>5. r.rank % 2 ^ 8 \in Nat /\ r.rank % 2 ^ 8 <= r.rank
    <2>. DEFINE P == 2 ^ 8
                x == r.rank
    <2>1. P \in Nat \ {0} /\ x \in Nat
      BY <1>4, PowerOfTwo
    <2>2. x % P \in Nat /\ x % P <= x
      <3>. HIDE DEF P, x
      <3>1. x % P \in 0 .. P - 1 /\ x = P * (x \div P) + (x % P) /\ x \div P \in Nat
        BY <2>1, DivFacts
      <3>2. P * (x \div P) \in Nat
        <4>1. \A a, b \in Nat : a * b \in Nat
          OBVIOUS
        <4>. QED
          BY <2>1, <3>1, <4>1
      <3>. DEFINE y == P * (x \div P)
                  z == x % P
      <3>3. x = y + z /\ y \in Nat /\ z \in Nat
        BY <2>1, <3>1, <3>2
      <3>. HIDE DEF y, z
      <3>4. z <= x
        BY <3>3
      <3>. QED
        BY <3>3, <3>4 DEF z
    <2>. QED
      BY <2>2
  <1>. QED
    BY <1>1, <1>3, <1>4, <1>5 DEF r

\* The benchmark's counts stay within their bound.
LEMMA BumpType ==
    ASSUME NEW n \in 0 .. CountCap
    PROVE  Bump(n, 1) \in 0 .. CountCap
  <1>1. CountCap \in Nat
    BY SlotFilterAssumption
  <1>2. n + 1 \in Int /\ CountCap \in Int
    BY <1>1
  <1>3. Bump(n, 1) = IF n + 1 <= CountCap THEN n + 1 ELSE CountCap
    BY <1>2, MinMaxOfTwo DEF Bump
  <1>. QED
    BY <1>1, <1>3

\* A charge keeps the filter in shape.
LEMMA LInvCharge ==
    ASSUME Policy # "HybridSkiQF", LInv, RoomLeft, NEW k \in Keys, AdaptCharge(k)
    PROVE  LInv'
  <1>. DEFINE i == queryFilter(k).hash_index
  <1>1. /\ qf' = insert_and_extend(qf, i, k, 1, k) /\ fpCount' = Bump(fpCount, 1)
        /\ phase = "query" /\ Positive(k)
        /\ reverseMap' = reverseMap /\ db' = db /\ phase' = phase /\ adaptCount' = adaptCount
    BY DEF AdaptCharge, FalsePositive
  <1>. HIDE DEF i
  <1>2. qf' = increment_counter(qf, i, k, 1)
    BY <1>1 DEF insert_and_extend
  <1>3. PICK U, h : Shaped(qf, U, h) /\ Fits(U)
    BY DEF LInv, Kept
  <1>4. i \in Items(qf, U, h, bucket(k)) /\ k \in Nat /\ Room(U, bucket(k), 2)
    BY <1>1, <1>3, FoundIs, RoomIs, KeyFacts DEF i
  <1>5. Kept(qf)'
    <2>1. Kept(increment_counter(qf, i, k, 1))
      BY <1>3, <1>4, IncrementKeeps
    <2>. QED
      BY <1>2, <2>1
  <1>6. fpCount' \in 0 .. CountCap
    BY <1>1, BumpType DEF LInv
  <1>. QED
    BY <1>1, <1>5, <1>6 DEF LInv, RowsTied, RefusedOnlyWhenFull

\* An extension keeps the filter in shape, by the key of the same fingerprint
\* that the reverse map answers.
LEMMA LInvExtend ==
    ASSUME MapKind = "WiredTiger", Policy # "HybridSkiQF", LInv, NEW k \in Keys, AdaptExtend(k)
    PROVE  LInv'
  <1>. DEFINE m == queryFilter(k).minirun_rank
              f == minirun_id(k)
  <1>1. PICK orig \in FetchedKeys(k, m) :
           /\ qf' = IF orig = NoKey THEN qf ELSE qf_adapt_using_ll_table(qf, orig, k, m)
           /\ adaptCount' = IF orig = NoKey THEN adaptCount ELSE Bump(adaptCount, 1)
    BY DEF AdaptExtend
  <1>2. /\ fpCount' = Bump(fpCount, 1) /\ phase = "query" /\ Positive(k)
        /\ reverseMap' = reverseMap /\ db' = db /\ phase' = phase
    BY DEF AdaptExtend, FalsePositive
  <1>. HIDE DEF m
  <1>3. PICK U, h : Shaped(qf, U, h) /\ Fits(U)
    BY DEF LInv, Kept
  <1>4. Lookup(qf, k).found /\ m \in Nat /\ m <= Lookup(qf, k).rank /\ k \in Nat
    BY <1>2, <1>3, FoundIs, KeyFacts DEF m
  <1>5. orig # NoKey => orig \in Keys /\ minirun_id(orig) = f
    <2>. DEFINE map == reverseMap[f]
    <2>1. orig \in getFingerprint(map, m)
      BY <1>1 DEF FetchedKeys
    <2>2. \A r \in DOMAIN map : map[r] \in Keys /\ minirun_id(map[r]) = f
      BY KeyFacts DEF LInv, RowsTied
    <2>. HIDE DEF map
    <2>. QED
      BY <2>1, <2>2 DEF getFingerprint
  <1>6. Kept(qf)'
    <2>1. CASE orig = NoKey
      BY <1>1, <2>1 DEF LInv
    <2>2. CASE orig # NoKey
      <3>1. orig \in Nat
        BY <1>5, <2>2, KeyFacts
      <3>2. Kept(qf)
        BY DEF LInv
      <3>3. Kept(qf_adapt_using_ll_table(qf, orig, k, m))
        BY <1>4, <1>5, <2>2, <3>1, <3>2, TableAdaptKeeps
      <3>. QED
        BY <1>1, <2>2, <3>3
    <2>. QED
      BY <2>1, <2>2
  <1>7. fpCount' \in 0 .. CountCap /\ adaptCount' \in 0 .. CountCap
    BY <1>1, <1>2, BumpType DEF LInv
  <1>. QED
    BY <1>2, <1>6, <1>7 DEF LInv, RowsTied, RefusedOnlyWhenFull

\* Every step keeps the invariant as long as there is room.
LEMMA LInvNext ==
    ASSUME MapKind = "WiredTiger", Policy # "HybridSkiQF"
    PROVE  LInv /\ RoomLeft /\ [Next]_vars => LInv'
  <1>1. SUFFICES ASSUME LInv, RoomLeft, [Next]_vars PROVE LInv'
    OBVIOUS
  <1>2. ASSUME NEW k \in Keys, Load(k) PROVE LInv'
    BY <1>1, <1>2, LInvLoad
  <1>3. ASSUME NEW k \in Keys, LoadRefused(k) PROVE LInv'
    BY <1>1, <1>3, LInvRefused
  <1>4. CASE EndLoad
    BY <1>1, <1>4 DEF EndLoad, LInv, RowsTied, RefusedOnlyWhenFull
  <1>5. ASSUME NEW k \in Keys, AdaptDeclined(k) PROVE LInv'
    <2>1. fpCount' \in 0 .. CountCap
      BY <1>1, <1>5, BumpType DEF AdaptDeclined, LInv
    <2>. QED
      BY <1>1, <1>5, <2>1 DEF AdaptDeclined, LInv, RowsTied, RefusedOnlyWhenFull
  <1>6. ASSUME NEW k \in Keys, AdaptCharge(k) PROVE LInv'
    BY <1>1, <1>6, LInvCharge
  <1>7. ASSUME NEW k \in Keys, AdaptExtend(k) PROVE LInv'
    BY <1>1, <1>7, LInvExtend
  <1>8. ASSUME UNCHANGED vars PROVE LInv'
    BY <1>1, <1>8 DEF vars, LInv, RowsTied, RefusedOnlyWhenFull
  <1>9. ASSUME NEW k \in Keys, QueryAnswered(k) PROVE LInv'
    BY <1>8, <1>9 DEF QueryAnswered
  <1>. QED
    BY <1>1, <1>2, <1>3, <1>4, <1>5, <1>6, <1>7, <1>8, <1>9 DEF Next, Query

\* It holds throughout.
LEMMA LInvHolds ==
    ASSUME MapKind = "WiredTiger", Policy # "HybridSkiQF"
    PROVE  Spec /\ []RoomLeft => []LInv
  <1>1. LInv /\ RoomLeft /\ [Next]_vars => LInv'
    BY LInvNext
  <1>. QED
    BY <1>1, LInvInit, PTL DEF Spec

(***************************************************************************)
(* The filter's fields stay in range, whatever is loaded, charged and      *)
(* extended, while two slots from every key's bucket on are free.          *)
(***************************************************************************)
THEOREM FieldsInRange ==
    ASSUME MapKind = "WiredTiger", Policy # "HybridSkiQF"
    PROVE  Spec /\ []RoomLeft => []TypeOK
  <1>1. LInv => TypeOK
    BY DEF LInv, Kept, Shaped, Filters, RowsTied, TypeOK
  <1>. QED
    BY <1>1, LInvHolds, PTL

(***************************************************************************)
(* Under the same condition the bits describe one run per occupied bucket, *)
(* none is set outside the runs, and noccupied_slots counts what is used.  *)
(***************************************************************************)
THEOREM RunsDescribed ==
    ASSUME MapKind = "WiredTiger", Policy # "HybridSkiQF"
    PROVE  Spec /\ []RoomLeft => [](RunsMatchBuckets(qf) /\ NothingOutside(qf) /\ SlotsCounted(qf))
  <1>1. LInv => RunsMatchBuckets(qf) /\ NothingOutside(qf) /\ SlotsCounted(qf)
    BY LayoutIsRead DEF LInv, Kept, Shaped, SlotsCounted
  <1>. QED
    BY <1>1, LInvHolds, PTL

(***************************************************************************)
(* Under the same condition the block offsets, nudged one by one and       *)
(* saturating, lead run_end to where the bits say.                         *)
(***************************************************************************)
THEOREM OffsetsStayExact ==
    ASSUME MapKind = "WiredTiger", Policy # "HybridSkiQF"
    PROVE  Spec /\ []RoomLeft => []BlockOffsetsOK
  <1>1. LInv => BlockOffsetsOK
    BY OffsetsAreRead DEF LInv, Kept, Shaped, BlockOffsetsOK
  <1>. QED
    BY <1>1, LInvHolds, PTL

(***************************************************************************)
(* Under the same condition the scan for an insertion's place never runs   *)
(* out of the filter: bulkLoad fails at the load limit only.               *)
(***************************************************************************)
THEOREM RefusedAtLimit ==
    ASSUME MapKind = "WiredTiger", Policy # "HybridSkiQF"
    PROVE  Spec /\ []RoomLeft => []RefusedOnlyWhenFull
  <1>1. LInv => RefusedOnlyWhenFull
    BY DEF LInv
  <1>. QED
    BY <1>1, LInvHolds, PTL

-----------------------------------------------------------------------------
(***************************************************************************)
(* What is filed stays found                                               *)
(***************************************************************************)
\* The row of each key's fingerprint.
Rows == [k \in Keys |-> reverseMap[minirun_id(k)]]

\* Counters are charged once only: the next charge is an adaptation.
CountersFit == Policy = "SkiQF" => BreakEven <= 2 /\ BitsPerSlot > 1

\* Every key loaded is in the row of its fingerprint.
LoadedFiled == \A k \in db : k \in Keys /\ \E r \in DOMAIN Rows[k] : Rows[k][r] = k

\* The inductive invariant.
TInv ==
    /\ Tidy(qf, Keys, Rows)
    /\ RowsTied
    /\ LoadedFiled
    /\ phase = "load" => qf.extensions = {}
    /\ phase \in {"load", "query", "aborted"}
    /\ {fpCount, adaptCount} \subseteq 0 .. CountCap
    /\ RefusedOnlyWhenFull

\* Keys are numbers.
LEMMA KeysType == Keys \in SUBSET Nat /\ Keys \subseteq Nat
  BY KeyFacts

\* The rows of keys of one fingerprint are one row.
LEMMA RowsAre ==
    ASSUME NEW k \in Keys
    PROVE  /\ Rows[k] = reverseMap[minirun_id(k)]
           /\ \A j \in Keys : minirun_id(j) = minirun_id(k) => Rows[j] = Rows[k]
  BY DEF Rows

\* An empty filter with empty rows.
LEMMA TInvInit == Init => TInv
  <1>1. SUFFICES ASSUME Init PROVE TInv
    OBVIOUS
  <1>2. PICK U, h : Shaped(qf_init, U, h) /\ Fits(U)
    BY InitKept DEF Kept
  <1>3. U = {}
    <2>1. Cardinality(U) = 0
      BY <1>2 DEF Shaped, qf_init
    <2>2. IsFiniteSet(U)
      BY <1>2, HomedTypes DEF Shaped
    <2>. QED
      BY <2>1, <2>2, FS_EmptySet
  <1>4. qf_init.extensions = {}
    BY DEF qf_init
  <1>5. Sorted(qf_init, U, h) /\ Counted(qf_init)
    BY <1>3, <1>4 DEF Sorted, Counted
  <1>6. ASSUME NEW k \in Keys PROVE Filed(qf_init, U, h, k, Rows[k])
    <2>1. Rows[k] = <<>>
      BY <1>1, KeyFacts DEF Rows, Init
    <2>2. Minirun(qf_init, U, h, k) = {}
      BY <1>3 DEF Minirun, Items
    <2>3. Lists(<<>>, 0, Minirun(qf_init, U, h, k))
      BY <2>2 DEF Lists
    <2>4. DOMAIN Rows[k] = 0 .. 0 - 1
      BY <2>1
    <2>5. \A r \in 0 .. 0 - 1 : Carries(qf_init, <<>>[r], Rows[k][r])
      OBVIOUS
    <2>. QED
      BY <2>3, <2>4, <2>5 DEF Filed
  <1>7. Tidy(qf, Keys, Rows)
    <2>1. Tidied(qf_init, U, h, Keys, Rows)
      BY <1>2, <1>5, <1>6 DEF Tidied
    <2>2. qf = qf_init
      BY <1>1 DEF Init
    <2>. QED
      BY <2>1, <2>2 DEF Tidy
  <1>8. RowsTied
    BY <1>1 DEF Init, RowsTied
  <1>9. CountCap \in Nat
    BY SlotFilterAssumption
  <1>. QED
    BY <1>1, <1>4, <1>7, <1>8, <1>9 DEF Init, TInv, LoadedFiled, RefusedOnlyWhenFull

\* new has the n keys of map, key and no other.
GrownRow(map, n, key, new) ==
    /\ DOMAIN new = 0 .. n
    /\ \E r \in 0 .. n : new[r] = key
    /\ \A s \in 0 .. n - 1 : \E r \in 0 .. n : new[r] = map[s]
    /\ \A r \in 0 .. n : new[r] = key \/ \E s \in 0 .. n - 1 : new[r] = map[s]

\* That is what insertFingerprint makes of a row of n keys, given the rank n.
LEMMA RowGrows ==
    ASSUME NEW map, NEW n \in Nat, DOMAIN map = 0 .. n - 1, NEW key,
           NEW new, new = insertFingerprint(map, n, key)
    PROVE  GrownRow(map, n, key, new)
  <1>1. CASE MapKind = "WiredTiger"
    <2>1. new = [r \in DOMAIN map \union {n} |-> IF r = n THEN key ELSE map[r]]
      BY <1>1 DEF insertFingerprint
    <2>2. DOMAIN map \union {n} = 0 .. n
      OBVIOUS
    <2>3. new = [r \in 0 .. n |-> IF r = n THEN key ELSE map[r]]
      BY <2>1, <2>2
    <2>4. n \in 0 .. n /\ \A s \in 0 .. n - 1 : s \in 0 .. n /\ s # n
      OBVIOUS
    <2>5. \A r \in 0 .. n : r # n => r \in 0 .. n - 1
      OBVIOUS
    <2>. QED
      BY <2>3, <2>4, <2>5 DEF GrownRow
  <1>2. CASE MapKind # "WiredTiger"
    <2>1. new = [r \in (IF n > 0 THEN 0 .. Cardinality(DOMAIN map) ELSE {0}) |->
                    IF r = 0 THEN key ELSE map[r - 1]]
      BY <1>2 DEF insertFingerprint
    <2>2. (IF n > 0 THEN 0 .. Cardinality(DOMAIN map) ELSE {0}) = 0 .. n
      <3>1. CASE n > 0
        <4>1. Cardinality(0 .. n - 1) = (n - 1) - 0 + 1
          BY <3>1, FS_Interval
        <4>2. Cardinality(DOMAIN map) = n
          BY <4>1
        <4>. QED
          BY <3>1, <4>2
      <3>2. CASE ~(n > 0)
        <4>1. n = 0 /\ {0} = 0 .. 0
          BY <3>2
        <4>. QED
          BY <4>1
      <3>. QED
        BY <3>1, <3>2
    <2>3. new = [r \in 0 .. n |-> IF r = 0 THEN key ELSE map[r - 1]]
      BY <2>1, <2>2
    <2>4. 0 \in 0 .. n /\ \A s \in 0 .. n - 1 : s + 1 \in 0 .. n /\ s + 1 # 0 /\ (s + 1) - 1 = s
      OBVIOUS
    <2>5. \A r \in 0 .. n : r # 0 => r - 1 \in 0 .. n - 1
      OBVIOUS
    <2>6. \A s \in 0 .. n - 1 : \E r \in 0 .. n : new[r] = map[s]
      BY <2>3, <2>4
    <2>. QED
      BY <2>3, <2>4, <2>5, <2>6 DEF GrownRow
  <1>. QED
    BY <1>1, <1>2

\* The item a load puts in, and the rank it answers, which is the length of the
\* row filed.
LEMMA LoadEnters ==
    ASSUME RoomLeft, NEW U, NEW h, Tidied(qf, U, h, Keys, Rows), qf.extensions = {}, NEW k \in Keys,
           NEW result, result = qf_insert_using_ll_table(qf, k, 1), result.ret >= 0,
           NEW n, NEW e, Lists(e, n, Minirun(qf, U, h, k))
    PROVE  Entered(qf, U, h, k, result.qf) /\ result.minirun_rank = n
  <1>1. Shaped(qf, U, h) /\ Fits(U) /\ Sorted(qf, U, h)
    BY DEF Tidied
  <1>2. ~AtLoadLimit(qf)
    <2>1. SUFFICES ASSUME AtLoadLimit(qf) PROVE FALSE
      OBVIOUS
    <2>2. result = NotInserted(qf, -1)
      BY <2>1 DEF qf_insert_using_ll_table
    <2>3. result.ret = -1
      BY <2>2 DEF NotInserted
    <2>. QED
      BY <2>3
  <1>3. result = insert_using_ll_table(qf, k, 1)
    BY <1>2 DEF qf_insert_using_ll_table
  <1>4. PICK free \in bucket(k) .. XnSlots - 1 : free \notin U
    <2>1. UsedSlots(qf) = U
      BY <1>1, LayoutIsRead DEF Shaped
    <2>2. \E i \in bucket(k) .. XnSlots - 1 : i \notin UsedSlots(qf)
      BY <1>1, RoomIs
    <2>. QED
      BY <2>1, <2>2
  <1>5. k \in Nat
    BY KeyFacts
  <1>. QED
    BY <1>1, <1>3, <1>4, <1>5, InsertionEnters

\* The row of a key's fingerprint before and after a load.
LEMMA LoadFiles ==
    ASSUME RoomLeft, NEW U, NEW h, Tidied(qf, U, h, Keys, Rows), RowsTied, qf.extensions = {}, NEW k \in Keys, Load(k)
    PROVE  \E n : /\ n \in Nat
                  /\ \A m, e : Lists(e, m, Minirun(qf, U, h, k)) => m = n
                  /\ DOMAIN Rows[k] = 0 .. n - 1
                  /\ Entered(qf, U, h, k, qf')
                  /\ reverseMap'[minirun_id(k)] = insertFingerprint(Rows[k], n, k)
  <1>. DEFINE result == qf_insert_using_ll_table(qf, k, 1)
              f == minirun_id(k)
  <1>1. /\ result.ret >= 0 /\ qf' = result.qf
        /\ reverseMap' = [reverseMap EXCEPT ![f] = insertFingerprint(reverseMap[f], result.minirun_rank, k)]
    BY DEF Load
  <1>2. PICK n, e : Lists(e, n, Minirun(qf, U, h, k)) /\ DOMAIN Rows[k] = 0 .. n - 1
    BY DEF Tidied, Filed
  <1>3. result = qf_insert_using_ll_table(qf, k, 1)
    OBVIOUS
  <1>. HIDE DEF result
  <1>4. ASSUME NEW m, NEW d, Lists(d, m, Minirun(qf, U, h, k)) PROVE m = result.minirun_rank
    BY <1>1, <1>3, <1>4, LoadEnters
  <1>5. Entered(qf, U, h, k, qf') /\ result.minirun_rank = n
    <2>1. Entered(qf, U, h, k, result.qf)
      BY <1>1, <1>2, <1>3, LoadEnters
    <2>. QED
      BY <1>1, <1>2, <1>4, <2>1
  <1>6. reverseMap'[f] = insertFingerprint(Rows[k], n, k)
    <2>1. f \in DOMAIN reverseMap
      BY KeyFacts DEF RowsTied
    <2>2. Rows[k] = reverseMap[f]
      BY DEF Rows
    <2>. QED
      BY <1>1, <1>5, <2>1, <2>2
  <1>7. n \in Nat
    BY <1>2 DEF Lists
  <1>. QED
    BY <1>2, <1>4, <1>5, <1>6, <1>7

\* Loading a key files it in front of, or behind, the other keys of its
\* fingerprint, and its item in front of theirs.
LEMMA TInvLoad ==
    ASSUME TInv, RoomLeft, NEW k \in Keys, Load(k)
    PROVE  TInv'
  <1>. DEFINE f == minirun_id(k)
              rows2 == [j \in Keys |-> reverseMap'[minirun_id(j)]]
  <1>1. /\ phase = "load" /\ phase' = phase /\ db' = db \cup {k}
        /\ fpCount' = fpCount /\ adaptCount' = adaptCount
        /\ \A g \in Fps : g # f => reverseMap'[g] = reverseMap[g]
        /\ DOMAIN reverseMap' = Fps
    BY DEF Load, TInv, RowsTied
  <1>2. RowsTied /\ LoadedFiled /\ qf.extensions = {}
    BY <1>1 DEF TInv
  <1>3. PICK U, h : Tidied(qf, U, h, Keys, Rows)
    BY DEF TInv, Tidy
  <1>4. PICK n : /\ n \in Nat
                 /\ \A m, e : Lists(e, m, Minirun(qf, U, h, k)) => m = n
                 /\ DOMAIN Rows[k] = 0 .. n - 1
                 /\ Entered(qf, U, h, k, qf')
                 /\ reverseMap'[f] = insertFingerprint(Rows[k], n, k)
    BY <1>2, <1>3, LoadFiles
  <1>. DEFINE row == reverseMap'[f]
              map == Rows[k]
  <1>5. /\ DOMAIN row = 0 .. n
        /\ \E r \in 0 .. n : row[r] = k
        /\ \A s \in 0 .. n - 1 : \E r \in 0 .. n : row[r] = map[s]
        /\ \A r \in 0 .. n : row[r] = k \/ \E s \in 0 .. n - 1 : row[r] = map[s]
    <2>1. n \in Nat /\ DOMAIN map = 0 .. n - 1 /\ row = insertFingerprint(map, n, k)
      BY <1>4
    <2>. HIDE DEF map, row
    <2>2. GrownRow(map, n, k, row)
      BY <2>1, RowGrows
    <2>. QED
      BY <2>2 DEF GrownRow
  <1>6. \A j \in Keys : minirun_id(j) # f => rows2[j] = Rows[j]
    BY <1>1, KeyFacts DEF Rows
  <1>7. \A j \in Keys : minirun_id(j) = f => rows2[j] = row /\ Rows[j] = map
    BY RowsAre
  <1>8. Rows' = rows2
    BY DEF Rows
  <1>9. Tidy(qf', Keys, rows2)
    <2>1. ASSUME NEW j \in Keys, minirun_id(j) = f, NEW m, NEW e, Lists(e, m, Minirun(qf, U, h, j))
          PROVE  DOMAIN rows2[j] = 0 .. m
      <3>1. Minirun(qf, U, h, j) = Minirun(qf, U, h, k)
        BY <2>1, KeyFacts, MinirunOwner
      <3>2. m = n
        BY <1>4, <2>1, <3>1
      <3>. QED
        BY <1>5, <1>7, <2>1, <3>2
    <2>2. k \in Nat /\ Keys \in SUBSET Nat
      BY KeyFacts, KeysType
    <2>. HIDE DEF rows2, row, map
    <2>3. \A j \in Keys : minirun_id(j) = f =>
             \A m, e : Lists(e, m, Minirun(qf, U, h, j)) => DOMAIN rows2[j] = 0 .. m
      BY <2>1
    <2>4. Entered(qf, U, h, k, qf')
      BY <1>4
    <2>. QED
      BY <1>3, <1>6, <2>2, <2>3, <2>4, EnteredTidies
  <1>10. qf'.extensions = {}
    BY <1>4 DEF Entered
  <1>11. RowsTied'
    <2>1. ASSUME NEW g \in Fps, NEW r \in DOMAIN reverseMap'[g]
          PROVE  reverseMap'[g][r] \in Keys /\ minirun_id(reverseMap'[g][r]) = g
      <3>1. CASE g # f
        BY <1>1, <1>2, <3>1 DEF RowsTied
      <3>2. CASE g = f
        <4>1. \A s \in 0 .. n - 1 : map[s] \in Keys /\ minirun_id(map[s]) = f
          <5>1. map = reverseMap[f] /\ f \in Fps
            BY KeyFacts, RowsAre
          <5>2. DOMAIN map = 0 .. n - 1
            BY <1>4
          <5>. HIDE DEF map
          <5>. QED
            BY <1>2, <5>1, <5>2 DEF RowsTied
        <4>2. r \in 0 .. n /\ reverseMap'[g] = row
          BY <1>5, <2>1, <3>2
        <4>. HIDE DEF map, row
        <4>3. row[r] = k \/ \E s \in 0 .. n - 1 : row[r] = map[s]
          BY <1>5, <4>2
        <4>. QED
          BY <3>2, <4>1, <4>2, <4>3
      <3>. QED
        BY <3>1, <3>2
    <2>. QED
      BY <1>1, <2>1 DEF RowsTied
  <1>12. LoadedFiled'
    <2>1. ASSUME NEW j \in db' PROVE j \in Keys /\ \E r \in DOMAIN rows2[j] : rows2[j][r] = j
      <3>1. CASE j = k
        <4>1. rows2[j] = row
          BY <1>7, <3>1
        <4>. QED
          BY <1>5, <3>1, <4>1
      <3>2. CASE j # k
        <4>1. j \in Keys /\ \E r \in DOMAIN Rows[j] : Rows[j][r] = j
          BY <1>1, <1>2, <2>1, <3>2 DEF LoadedFiled
        <4>2. CASE minirun_id(j) # f
          <5>1. rows2[j] = Rows[j]
            BY <1>6, <4>1, <4>2
          <5>. QED
            BY <4>1, <5>1
        <4>3. CASE minirun_id(j) = f
          <5>1. rows2[j] = row /\ Rows[j] = map
            BY <1>7, <4>1, <4>3
          <5>2. PICK s \in 0 .. n - 1 : map[s] = j
            BY <1>4, <4>1, <5>1
          <5>3. \E r \in 0 .. n : row[r] = map[s]
            BY <1>5
          <5>. QED
            BY <1>5, <4>1, <5>1, <5>2, <5>3
        <4>. QED
          BY <4>2, <4>3
      <3>. QED
        BY <3>1, <3>2
    <2>. HIDE DEF rows2
    <2>. QED
      BY <1>8, <2>1 DEF LoadedFiled
  <1>13. Tidy(qf, Keys, Rows)'
    BY <1>8, <1>9
  <1>. QED
    BY <1>1, <1>10, <1>11, <1>12, <1>13 DEF TInv, RefusedOnlyWhenFull

\* A byte holds the counts of one-slot counters.
LEMMA ByteCount ==
    ASSUME NEW c \in {1, 2}
    PROVE  c % 2 ^ 8 = c
  <1>. DEFINE P == 2 ^ 8
  <1>1. P \in Nat \ {0} /\ 8 < P
    BY PowerOfTwo, PowerExceeds
  <1>. HIDE DEF P
  <1>2. c \in Nat /\ c < P /\ P * 0 = 0
    BY <1>1
  <1>3. c = P * 0 + c
    BY <1>2
  <1>4. c % P = c
    BY <1>1, <1>2, <1>3, ModUnique
  <1>. QED
    BY <1>4 DEF P

\* Where a query finds an item in a tidy filter, it counts once or twice.
LEMMA CountAnswered ==
    ASSUME NEW U, NEW h, Tidied(qf, U, h, Keys, Rows), NEW k \in Keys, Positive(k),
           NEW i, i = queryFilter(k).hash_index, NEW info, info = get_slot_info(qf, i)
    PROVE  /\ queryFilter(k).minirun_count = info.count
           /\ info.count = IF info.count_len = 0 THEN 1 ELSE 2
  <1>. DEFINE r == Lookup(qf, k)
  <1>1. Shaped(qf, U, h) /\ Fits(U) /\ Counted(qf)
    BY DEF Tidied
  <1>2. i = r.index /\ queryFilter(k).minirun_count = r.count % 2 ^ 8
    BY DEF queryFilter, queryIn, qf_get_count_using_ll_table_with_index, qf_query_using_ll_table_with_ext_len
  <1>3. r.found /\ i \in Items(qf, U, h, bucket(k))
    BY <1>1, FoundIs
  <1>4. r.count = get_slot_info(qf, r.index).count
    <2>1. Homed(qf, U, h) /\ Stored(qf, U, h) /\ ChunksFirst(qf) /\ \A j \in U : j < XnSlots
      BY <1>1 DEF Shaped, Fits
    <2>. HIDE DEF r
    <2>2. r = Lookup(qf, k)
      BY DEF r
    <2>. QED
      BY <1>3, <2>1, <2>2, LookupExact
  <1>5. i \in U
    BY <1>3 DEF Items
  <1>6. info.count = IF info.count_len = 0 THEN 1 ELSE 2
    BY <1>1, <1>5, CountOf
  <1>7. info.count % 2 ^ 8 = info.count
    BY <1>6, ByteCount
  <1>8. r.count = info.count
    BY <1>2, <1>4
  <1>. QED
    BY <1>2, <1>6, <1>7, <1>8

\* A charge below break-even is an item's first, and leaves the rows filed.
LEMMA TInvCharge ==
    ASSUME CountersFit, TInv, RoomLeft, NEW k \in Keys, AdaptCharge(k)
    PROVE  TInv'
  <1>. DEFINE i == queryFilter(k).hash_index
  <1>1. /\ qf' = insert_and_extend(qf, i, k, 1, k) /\ fpCount' = Bump(fpCount, 1)
        /\ phase = "query" /\ Positive(k) /\ Policy = "SkiQF"
        /\ queryFilter(k).minirun_count < BreakEven
        /\ reverseMap' = reverseMap /\ db' = db /\ phase' = phase /\ adaptCount' = adaptCount
    BY DEF AdaptCharge, FalsePositive
  <1>2. qf' = increment_counter(qf, i, k, 1)
    BY <1>1 DEF insert_and_extend
  <1>3. PICK U, h : Tidied(qf, U, h, Keys, Rows)
    BY DEF TInv, Tidy
  <1>4. Shaped(qf, U, h) /\ Fits(U)
    BY <1>3 DEF Tidied
  <1>5. i \in Items(qf, U, h, bucket(k)) /\ k \in Nat /\ Room(U, bucket(k), 2)
    BY <1>1, <1>4, FoundIs, RoomIs, KeyFacts
  <1>6. get_slot_info(qf, i).count_len = 0
    <2>1. /\ queryFilter(k).minirun_count = get_slot_info(qf, i).count
          /\ get_slot_info(qf, i).count = IF get_slot_info(qf, i).count_len = 0 THEN 1 ELSE 2
      BY <1>1, <1>3, CountAnswered
    <2>2. BreakEven \in Nat /\ BreakEven <= 2
      BY <1>1, SlotFilterAssumption DEF CountersFit
    <2>. DEFINE c == get_slot_info(qf, i).count
                n == queryFilter(k).minirun_count
    <2>3. n = c /\ n < BreakEven
      BY <1>1, <2>1
    <2>. HIDE DEF c, n
    <2>4. c # 2
      BY <2>2, <2>3
    <2>. QED
      BY <2>1, <2>4 DEF c
  <1>. HIDE DEF i
  <1>7. Tidy(qf', Keys, Rows)
    <2>1. BitsPerSlot > 1
      BY <1>1 DEF CountersFit
    <2>. QED
      BY <1>2, <1>3, <1>5, <1>6, <2>1, ChargeTidies
  <1>8. fpCount' \in 0 .. CountCap
    BY <1>1, BumpType DEF TInv
  <1>9. Rows' = Rows
    BY <1>1 DEF Rows
  <1>10. Tidy(qf, Keys, Rows)'
    BY <1>7, <1>9
  <1>. QED
    BY <1>1, <1>8, <1>9, <1>10 DEF TInv, RowsTied, LoadedFiled, RefusedOnlyWhenFull

\* What adapt() fetches in a tidy filter is the key filed with the rank.
LEMMA FetchedIs ==
    ASSUME NEW U, NEW h, Tidied(qf, U, h, Keys, Rows), RowsTied, NEW k \in Keys, Positive(k),
           NEW m, m = queryFilter(k).minirun_rank, NEW orig \in FetchedKeys(k, m)
    PROVE  /\ Lookup(qf, k).found /\ m \in Nat /\ m <= Lookup(qf, k).rank
           /\ orig = Rows[k][m] /\ orig \in Keys /\ orig # NoKey /\ minirun_id(orig) = minirun_id(k)
  <1>. DEFINE map == reverseMap[minirun_id(k)]
  <1>1. Shaped(qf, U, h) /\ Fits(U)
    BY DEF Tidied
  <1>2. Lookup(qf, k).found /\ m \in Nat /\ m <= Lookup(qf, k).rank
    BY <1>1, FoundIs
  <1>3. m \in DOMAIN Rows[k]
    BY <1>2, RankFiled
  <1>4. Rows[k] = map
    BY RowsAre
  <1>5. map[m] \in Keys /\ minirun_id(map[m]) = minirun_id(k)
    BY <1>3, <1>4, KeyFacts DEF RowsTied
  <1>6. map[m] # NoKey
    BY <1>5, KeyFacts
  <1>7. getFingerprint(map, m) = {map[m]}
    BY <1>3, <1>4 DEF getFingerprint
  <1>8. FetchedKeys(k, m) = {map[m]}
    BY <1>6, <1>7 DEF FetchedKeys
  <1>. QED
    BY <1>2, <1>4, <1>5, <1>6, <1>8

\* An extension gives the item its own key's chunks.
LEMMA TInvExtend ==
    ASSUME TInv, NEW k \in Keys, AdaptExtend(k)
    PROVE  TInv'
  <1>. DEFINE m == queryFilter(k).minirun_rank
  <1>1. PICK orig \in FetchedKeys(k, m) :
           /\ qf' = IF orig = NoKey THEN qf ELSE qf_adapt_using_ll_table(qf, orig, k, m)
           /\ adaptCount' = IF orig = NoKey THEN adaptCount ELSE Bump(adaptCount, 1)
    BY DEF AdaptExtend
  <1>2. /\ fpCount' = Bump(fpCount, 1) /\ phase = "query" /\ Positive(k)
        /\ reverseMap' = reverseMap /\ db' = db /\ phase' = phase
    BY DEF AdaptExtend, FalsePositive
  <1>3. PICK U, h : Tidied(qf, U, h, Keys, Rows)
    BY DEF TInv, Tidy
  <1>4. /\ Lookup(qf, k).found /\ m \in Nat /\ m <= Lookup(qf, k).rank
        /\ orig = Rows[k][m] /\ orig \in Keys /\ orig # NoKey /\ minirun_id(orig) = minirun_id(k)
    BY <1>1, <1>2, <1>3, FetchedIs DEF TInv
  <1>. HIDE DEF m
  <1>5. Tidy(qf', Keys, Rows)
    <2>1. orig \in Nat /\ Keys \in SUBSET Nat
      BY <1>4, KeyFacts, KeysType
    <2>2. \A j \in Keys : minirun_id(j) = minirun_id(k) => Rows[j] = Rows[k]
      BY RowsAre
    <2>3. Tidy(qf_adapt_using_ll_table(qf, orig, k, m), Keys, Rows)
      BY <1>3, <1>4, <2>1, <2>2, TableAdaptTidies
    <2>. QED
      BY <1>1, <1>4, <2>3
  <1>6. fpCount' \in 0 .. CountCap /\ adaptCount' \in 0 .. CountCap
    BY <1>1, <1>2, BumpType DEF TInv
  <1>7. Rows' = Rows
    BY <1>2 DEF Rows
  <1>8. Tidy(qf, Keys, Rows)'
    BY <1>5, <1>7
  <1>. QED
    BY <1>2, <1>6, <1>7, <1>8 DEF TInv, RowsTied, LoadedFiled, RefusedOnlyWhenFull

\* An insertion is refused at the load limit.
LEMMA TInvRefused ==
    ASSUME TInv, RoomLeft, NEW k \in Keys, LoadRefused(k)
    PROVE  TInv'
  <1>. DEFINE result == qf_insert_using_ll_table(qf, k, 1)
  <1>1. /\ result.ret < 0 /\ phase' = "aborted"
        /\ qf' = qf /\ reverseMap' = reverseMap /\ db' = db
        /\ fpCount' = fpCount /\ adaptCount' = adaptCount
    BY DEF LoadRefused
  <1>2. AtLoadLimit(qf)
    <2>1. Kept(qf)
      BY TidyLaidOut DEF TInv
    <2>2. result = qf_insert_using_ll_table(qf, k, 1)
      OBVIOUS
    <2>. HIDE DEF result
    <2>. QED
      BY <1>1, <2>1, <2>2, InsertionIs
  <1>3. Rows' = Rows
    BY <1>1 DEF Rows
  <1>. QED
    BY <1>1, <1>2, <1>3 DEF TInv, RowsTied, LoadedFiled, RefusedOnlyWhenFull

\* Every step keeps the invariant as long as there is room.
LEMMA TInvNext ==
    ASSUME CountersFit
    PROVE  TInv /\ RoomLeft /\ [Next]_vars => TInv'
  <1>1. SUFFICES ASSUME TInv, RoomLeft, [Next]_vars PROVE TInv'
    OBVIOUS
  <1>2. ASSUME NEW k \in Keys, Load(k) PROVE TInv'
    BY <1>1, <1>2, TInvLoad
  <1>3. ASSUME NEW k \in Keys, LoadRefused(k) PROVE TInv'
    BY <1>1, <1>3, TInvRefused
  <1>4. ASSUME qf' = qf, reverseMap' = reverseMap, db' = db, adaptCount' = adaptCount,
               fpCount' \in 0 .. CountCap, phase' \in {phase, "query"}
        PROVE  TInv'
    <2>1. Rows' = Rows
      BY <1>4 DEF Rows
    <2>. QED
      BY <1>1, <1>4, <2>1 DEF TInv, RowsTied, LoadedFiled, RefusedOnlyWhenFull
  <1>5. fpCount \in 0 .. CountCap
    BY <1>1 DEF TInv
  <1>6. CASE EndLoad
    BY <1>4, <1>5, <1>6 DEF EndLoad
  <1>7. ASSUME NEW k \in Keys, AdaptDeclined(k) PROVE TInv'
    <2>1. fpCount' \in 0 .. CountCap
      BY <1>5, <1>7, BumpType DEF AdaptDeclined
    <2>. QED
      BY <1>4, <1>7, <2>1 DEF AdaptDeclined
  <1>8. ASSUME NEW k \in Keys, AdaptCharge(k) PROVE TInv'
    BY <1>1, <1>8, TInvCharge
  <1>9. ASSUME NEW k \in Keys, AdaptExtend(k) PROVE TInv'
    BY <1>1, <1>9, TInvExtend
  <1>10. CASE UNCHANGED vars
    BY <1>4, <1>5, <1>10 DEF vars
  <1>11. ASSUME NEW k \in Keys, QueryAnswered(k) PROVE TInv'
    BY <1>10, <1>11 DEF QueryAnswered
  <1>. QED
    BY <1>1, <1>2, <1>3, <1>6, <1>7, <1>8, <1>9, <1>10, <1>11 DEF Next, Query

\* It holds throughout.
LEMMA TInvHolds ==
    ASSUME CountersFit
    PROVE  Spec /\ []RoomLeft => []TInv
  <1>1. TInv /\ RoomLeft /\ [Next]_vars => TInv'
    BY TInvNext
  <1>. QED
    BY <1>1, TInvInit, PTL DEF Spec

(***************************************************************************)
(* While two slots from every key's bucket on are free and counters are    *)
(* charged once only, the slots of every variant, on either reverse map,   *)
(* stay laid out as their bits say: one run per occupied bucket, its       *)
(* remainders ascending and chunks before counters, nothing outside, and   *)
(* noccupied_slots the number of slots in use.                             *)
(***************************************************************************)
THEOREM LayoutStaysRight ==
    ASSUME CountersFit
    PROVE  Spec /\ []RoomLeft => []LayoutOK
  <1>1. TInv => LayoutOK
    BY TidyLaidOut DEF TInv, LayoutOK
  <1>. QED
    BY <1>1, TInvHolds, PTL

(***************************************************************************)
(* Under the same conditions every key loaded is found, by the scan over   *)
(* the slots and the count in its byte, whatever was charged to and        *)
(* appended to the items around it, also by extensions that ran out of     *)
(* slots on the way.                                                       *)
(***************************************************************************)
THEOREM LoadedStaysFound ==
    ASSUME CountersFit
    PROVE  Spec /\ []RoomLeft => []NoFalseNegative
  <1>1. ASSUME TInv, NEW k \in db PROVE Positive(k)
    <2>. DEFINE r == Lookup(qf, k)
    <2>1. PICK U, h : Tidied(qf, U, h, Keys, Rows)
      BY <1>1 DEF TInv, Tidy
    <2>2. PICK x \in DOMAIN Rows[k] : k \in Keys /\ Rows[k][x] = k
      BY <1>1 DEF TInv, LoadedFiled
    <2>3. r.found /\ r.count \in {1, 2}
      <3>1. r = Lookup(qf, k) /\ Keys \in SUBSET Nat
        BY KeysType
      <3>. HIDE DEF r
      <3>. QED
        BY <2>1, <2>2, <3>1, FiledFound
    <2>4. r.count % 2 ^ 8 = r.count
      BY <2>3, ByteCount
    <2>5. r.count % 2 ^ 8 > 0
      BY <2>3, <2>4
    <2>. QED
      BY <2>3, <2>5 DEF Positive, queryFilter, queryIn, qf_get_count_using_ll_table_with_index,
                        qf_query_using_ll_table_with_ext_len
  <1>2. TInv => NoFalseNegative
    BY <1>1 DEF NoFalseNegative
  <1>. QED
    BY <1>2, TInvHolds, PTL

(***************************************************************************)
(* Under the same conditions the ranks that queries answer are ranks of    *)
(* the reverse map's row, and what that has for them is a key of the       *)
(* query's fingerprint: neither SplinterDB's copy from beyond the value    *)
(* nor Hybrid's key that was never set is ever used.                       *)
(***************************************************************************)
THEOREM RanksAreFiled ==
    ASSUME CountersFit
    PROVE  Spec /\ []RoomLeft =>
             [](\A k \in Keys : Positive(k) =>
                   \A orig \in FetchedKeys(k, queryFilter(k).minirun_rank) :
                      orig \in Keys /\ orig # NoKey /\ minirun_id(orig) = minirun_id(k))
  <1>. DEFINE Answers == \A k \in Keys : Positive(k) =>
                   \A orig \in FetchedKeys(k, queryFilter(k).minirun_rank) :
                      orig \in Keys /\ orig # NoKey /\ minirun_id(orig) = minirun_id(k)
  <1>1. TInv => Answers
    <2>1. SUFFICES ASSUME TInv, NEW k \in Keys, Positive(k), NEW orig \in FetchedKeys(k, queryFilter(k).minirun_rank)
                   PROVE  orig \in Keys /\ orig # NoKey /\ minirun_id(orig) = minirun_id(k)
      OBVIOUS
    <2>2. PICK U, h : Tidied(qf, U, h, Keys, Rows)
      BY <2>1 DEF TInv, Tidy
    <2>. QED
      BY <2>1, <2>2, FetchedIs DEF TInv
  <1>. QED
    BY <1>1, TInvHolds, PTL

(***************************************************************************)
(* Under the same conditions the fields of every variant's filter stay in  *)
(* range, its offsets lead where the bits say, and an insertion is refused *)
(* at the load limit only.                                                 *)
(***************************************************************************)
THEOREM VariantsInShape ==
    ASSUME CountersFit
    PROVE  Spec /\ []RoomLeft => [](TypeOK /\ BlockOffsetsOK /\ RefusedOnlyWhenFull)
  <1>1. TInv => TypeOK /\ BlockOffsetsOK /\ RefusedOnlyWhenFull
    <2>1. SUFFICES ASSUME TInv PROVE TypeOK /\ BlockOffsetsOK /\ RefusedOnlyWhenFull
      OBVIOUS
    <2>2. Kept(qf)
      BY <2>1, TidyLaidOut DEF TInv
    <2>3. db \subseteq Keys
      BY <2>1 DEF TInv, LoadedFiled
    <2>4. BlockOffsetsOK
      BY <2>2, OffsetsAreRead DEF Kept, Shaped, BlockOffsetsOK
    <2>. QED
      BY <2>1, <2>2, <2>3, <2>4 DEF TInv, Kept, Shaped, Filters, RowsTied, TypeOK
  <1>. QED
    BY <1>1, TInvHolds, PTL

-----------------------------------------------------------------------------
(***************************************************************************)
(* The rent paid                                                           *)
(***************************************************************************)
\* No fingerprint has more keys than the byte of a rank can tell apart.
RanksFit == \A f \in Fps : DOMAIN reverseMap[f] \subseteq 0 .. 2 ^ 8 - 1

\* Only keys loaded are in the rows.
RowsLoaded == \A f \in Fps : \A r \in DOMAIN reverseMap[f] : reverseMap[f][r] \in db

\* The false positives while there was room and the counters were exact: those
\* of the adaptations and those that the counter slots stand for.
RentPaid ==
    qf.noccupied_slots < FullPoint /\ fpCount < CountCap
        => fpCount = BreakEven * adaptCount + Cardinality(Counters(qf))

\* The inductive invariant.
SInv ==
    /\ TInv
    /\ RowsLoaded
    /\ adaptCount <= fpCount
    /\ phase # "query" => fpCount = 0
    /\ BreakEven = 1 => Cardinality(Counters(qf)) = 0
    /\ RentPaid

\* The benchmark's counts stop at their bound.
LEMMA BumpIs ==
    ASSUME NEW n \in 0 .. CountCap
    PROVE  Bump(n, 1) = IF n < CountCap THEN n + 1 ELSE n
  <1>1. CountCap \in Nat
    BY SlotFilterAssumption
  <1>2. Bump(n, 1) \in {n + 1, CountCap} /\ \A y \in {n + 1, CountCap} : Bump(n, 1) <= y
    <2>. DEFINE S == {n + 1, CountCap}
    <2>1. S \in SUBSET Nat /\ S # {}
      BY <1>1
    <2>. HIDE DEF S
    <2>2. Min(S) \in S /\ \A y \in S : Min(S) <= y
      BY <2>1, MinOfNats
    <2>. QED
      BY <2>2 DEF S, Bump
  <1>. QED
    BY <1>1, <1>2

\* The counter slots are finitely many.
LEMMA CountersType ==
    ASSUME TInv
    PROVE  IsFiniteSet(Counters(qf)) /\ Cardinality(Counters(qf)) \in Nat /\ qf.noccupied_slots \in Nat
  <1>1. qf \in Filters
    BY TidyLaidOut DEF TInv, Kept, Shaped
  <1>2. Counters(qf) \in SUBSET Slots /\ IsFiniteSet(Slots)
    BY <1>1, FS_Interval, Sizes DEF Filters, Counters
  <1>3. IsFiniteSet(Counters(qf))
    BY <1>2, FS_Subset
  <1>. QED
    BY <1>1, <1>3, FS_CardinalityType DEF Filters

\* Without counters nothing is charged.
LEMMA NoCounters ==
    ASSUME NEW q, q.extensions = {}
    PROVE  Cardinality(Counters(q)) = 0
  <1>1. Counters(q) = {}
    BY DEF Counters
  <1>. QED
    BY <1>1, FS_EmptySet

\* An empty filter has no counters.
LEMMA SInvInit == Init => SInv
  <1>1. SUFFICES ASSUME Init PROVE SInv
    OBVIOUS
  <1>2. TInv
    BY <1>1, TInvInit
  <1>3. qf.extensions = {}
    BY <1>1 DEF Init, qf_init
  <1>4. Cardinality(Counters(qf)) = 0
    BY <1>3, NoCounters
  <1>5. RowsLoaded
    BY <1>1 DEF Init, RowsLoaded
  <1>6. fpCount = 0 /\ adaptCount = 0 /\ BreakEven \in Nat
    BY <1>1, SlotFilterAssumption DEF Init
  <1>7. BreakEven * 0 = 0
    BY <1>6
  <1>8. fpCount = BreakEven * adaptCount + Cardinality(Counters(qf))
    BY <1>4, <1>6, <1>7
  <1>. QED
    BY <1>2, <1>4, <1>5, <1>6, <1>8 DEF SInv, RentPaid

\* Loading charges nothing, and the key filed is a key loaded.
LEMMA SInvLoad ==
    ASSUME CountersFit, SInv, RoomLeft, NEW k \in Keys, Load(k)
    PROVE  SInv'
  <1>. DEFINE f == minirun_id(k)
  <1>1. /\ phase = "load" /\ phase' = phase /\ db' = db \cup {k}
        /\ fpCount' = fpCount /\ adaptCount' = adaptCount
        /\ \A g \in Fps : g # f => reverseMap'[g] = reverseMap[g]
    BY DEF Load, SInv, TInv, RowsTied
  <1>2. TInv /\ TInv'
    BY TInvLoad DEF SInv
  <1>3. RowsTied /\ qf.extensions = {} /\ qf'.extensions = {}
    BY <1>1, <1>2 DEF TInv
  <1>4. PICK U, h : Tidied(qf, U, h, Keys, Rows)
    BY <1>2 DEF TInv, Tidy
  <1>5. PICK n : /\ n \in Nat /\ DOMAIN Rows[k] = 0 .. n - 1
                 /\ reverseMap'[f] = insertFingerprint(Rows[k], n, k)
    BY <1>3, <1>4, LoadFiles
  <1>6. Rows[k] = reverseMap[f] /\ f \in Fps
    BY KeyFacts, RowsAre
  <1>. DEFINE row == reverseMap'[f]
              map == Rows[k]
  <1>7. \A r \in DOMAIN row : row[r] = k \/ \E s \in DOMAIN map : row[r] = map[s]
    <2>. HIDE DEF row, map
    <2>1. GrownRow(map, n, k, row)
      BY <1>5, RowGrows DEF row, map
    <2>2. DOMAIN map = 0 .. n - 1
      BY <1>5 DEF map
    <2>. QED
      BY <2>1, <2>2 DEF GrownRow
  <1>8. RowsLoaded'
    <2>1. ASSUME NEW g \in Fps, NEW r \in DOMAIN reverseMap'[g] PROVE reverseMap'[g][r] \in db'
      <3>1. CASE g # f
        <4>1. reverseMap[g][r] \in db
          BY <1>1, <2>1, <3>1 DEF SInv, RowsLoaded
        <4>. QED
          BY <1>1, <3>1, <4>1
      <3>2. CASE g = f
        <4>1. \A s \in DOMAIN map : map[s] \in db
          BY <1>6 DEF SInv, RowsLoaded
        <4>. QED
          BY <1>1, <1>7, <2>1, <3>2, <4>1
      <3>. QED
        BY <3>1, <3>2
    <2>. QED
      BY <2>1 DEF RowsLoaded
  <1>9. Cardinality(Counters(qf')) = 0
    BY <1>3, NoCounters
  <1>10. fpCount' = 0 /\ adaptCount' = 0 /\ BreakEven * 0 = 0
    <2>1. fpCount = 0 /\ adaptCount \in Nat /\ adaptCount <= 0 /\ BreakEven \in Nat
      BY <1>1, SlotFilterAssumption DEF SInv, TInv
    <2>. QED
      BY <1>1, <2>1
  <1>11. fpCount' = BreakEven * adaptCount' + Cardinality(Counters(qf'))
    BY <1>9, <1>10
  <1>. QED
    BY <1>1, <1>2, <1>8, <1>9, <1>10, <1>11 DEF SInv, RentPaid

\* A false positive below the bound: one more of them, and one adaptation more
\* than there were is counted in full.
LEMMA OneMore ==
    ASSUME SInv, fpCount' = Bump(fpCount, 1)
    PROVE  /\ adaptCount \in Nat /\ fpCount \in Nat /\ adaptCount <= fpCount'
           /\ Bump(adaptCount, 1) <= fpCount'
           /\ fpCount' < CountCap => /\ fpCount < CountCap /\ fpCount' = fpCount + 1
                                     /\ Bump(adaptCount, 1) = adaptCount + 1
  <1>1. fpCount \in 0 .. CountCap /\ adaptCount \in 0 .. CountCap /\ adaptCount <= fpCount /\ CountCap \in Nat
    BY SlotFilterAssumption DEF SInv, TInv
  <1>2. /\ Bump(fpCount, 1) = IF fpCount < CountCap THEN fpCount + 1 ELSE fpCount
        /\ Bump(adaptCount, 1) = IF adaptCount < CountCap THEN adaptCount + 1 ELSE adaptCount
    BY <1>1, BumpIs
  <1>. QED
    BY <1>1, <1>2

\* A charge is one false positive and one counter slot more.
LEMMA SInvCharge ==
    ASSUME CountersFit, SInv, RoomLeft, NEW k \in Keys, AdaptCharge(k)
    PROVE  SInv'
  <1>. DEFINE i == queryFilter(k).hash_index
              C == Cardinality(Counters(qf))
  <1>1. /\ qf' = insert_and_extend(qf, i, k, 1, k) /\ fpCount' = Bump(fpCount, 1)
        /\ phase = "query" /\ Positive(k) /\ Policy = "SkiQF"
        /\ queryFilter(k).minirun_count < BreakEven
        /\ reverseMap' = reverseMap /\ db' = db /\ phase' = phase /\ adaptCount' = adaptCount
    BY DEF AdaptCharge, FalsePositive
  <1>2. qf' = increment_counter(qf, i, k, 1)
    BY <1>1 DEF insert_and_extend
  <1>3. TInv /\ TInv'
    BY TInvCharge DEF SInv
  <1>4. PICK U, h : Tidied(qf, U, h, Keys, Rows)
    BY <1>3 DEF TInv, Tidy
  <1>5. Shaped(qf, U, h) /\ Fits(U) /\ Counted(qf)
    BY <1>4 DEF Tidied
  <1>6. i \in Items(qf, U, h, bucket(k)) /\ k \in Nat /\ Room(U, bucket(k), 2)
    BY <1>1, <1>5, FoundIs, RoomIs, KeyFacts
  <1>7. get_slot_info(qf, i).count_len = 0 /\ BreakEven = 2 /\ BitsPerSlot > 1
    <2>. DEFINE c == get_slot_info(qf, i).count
                n == queryFilter(k).minirun_count
    <2>1. n = c /\ c = IF get_slot_info(qf, i).count_len = 0 THEN 1 ELSE 2
      BY <1>1, <1>4, CountAnswered
    <2>2. BreakEven \in Nat /\ BreakEven <= 2 /\ BitsPerSlot > 1
      BY <1>1, SlotFilterAssumption DEF CountersFit
    <2>3. n < BreakEven
      BY <1>1
    <2>. HIDE DEF c, n
    <2>. QED
      BY <2>1, <2>2, <2>3
  <1>. HIDE DEF i
  <1>8. Cardinality(Counters(qf')) = C + 1 /\ qf'.noccupied_slots = qf.noccupied_slots + 1
    <2>1. PICK at, u, one, g : ChargedBy(qf, U, h, k, i, at, u, one, g)
      BY <1>5, <1>6, <1>7, ChargePuts
    <2>. QED
      BY <1>2, <2>1, ChargeCounts
  <1>9. C \in Nat /\ qf.noccupied_slots \in Nat /\ FullPoint \in Nat
    BY <1>3, CountersType, SlotFilterAssumption
  <1>10. RentPaid'
    <2>1. SUFFICES ASSUME qf'.noccupied_slots < FullPoint, fpCount' < CountCap
                   PROVE  fpCount' = BreakEven * adaptCount' + Cardinality(Counters(qf'))
      BY DEF RentPaid
    <2>2. fpCount < CountCap /\ fpCount' = fpCount + 1 /\ adaptCount \in Nat
      BY <1>1, <2>1, OneMore
    <2>3. fpCount = BreakEven * adaptCount + C
      BY <1>8, <1>9, <2>1, <2>2 DEF SInv, RentPaid
    <2>. HIDE DEF C
    <2>. QED
      BY <1>1, <1>7, <1>8, <1>9, <2>2, <2>3
  <1>11. adaptCount' <= fpCount'
    BY <1>1, OneMore
  <1>12. RowsLoaded'
    BY <1>1 DEF SInv, RowsLoaded
  <1>. QED
    BY <1>1, <1>3, <1>7, <1>10, <1>11, <1>12 DEF SInv

\* A false positive that nothing is done about comes when there is no room.
LEMMA SInvDeclined ==
    ASSUME CountersFit, Policy = "SkiQF", SInv, RoomLeft, NEW k \in Keys, AdaptDeclined(k)
    PROVE  SInv'
  <1>1. /\ fpCount' = Bump(fpCount, 1) /\ phase = "query" /\ ~(qf.noccupied_slots < FullPoint)
        /\ UNCHANGED <<qf, reverseMap, db, phase, adaptCount>>
    BY DEF AdaptDeclined, FalsePositive, HasRoom
  <1>2. TInv'
    <2>1. Next
      BY DEF Next, Query
    <2>. QED
      BY <2>1, TInvNext DEF SInv
  <1>3. adaptCount' <= fpCount'
    BY <1>1, OneMore
  <1>. QED
    BY <1>1, <1>2, <1>3 DEF SInv, RowsLoaded, RentPaid

\* While ranks fit in their byte, a query answers with the first item of its key's
\* fingerprint and chunks, and with its rank.
LEMMA QueryRank ==
    ASSUME RanksFit, NEW U, NEW h, Tidied(qf, U, h, Keys, Rows), NEW k \in Keys, Positive(k),
           NEW x, x = queryFilter(k).hash_index, NEW m, m = queryFilter(k).minirun_rank
    PROVE  /\ x \in Minirun(qf, U, h, k) /\ Extends(qf, k, x)
           /\ \A j \in Matching(qf, U, h, k) : x <= j
           /\ m = CountIn(Minirun(qf, U, h, k), 0, x - 1)
           /\ m \in Nat /\ m \in DOMAIN Rows[k] /\ m <= Lookup(qf, k).rank /\ Lookup(qf, k).found
  <1>. DEFINE r == Lookup(qf, k)
              T == Minirun(qf, U, h, k)
  <1>1. Shaped(qf, U, h) /\ Fits(U)
    BY DEF Tidied
  <1>2. r.found /\ m \in Nat /\ m <= r.rank
    BY <1>1, FoundIs
  <1>3. x = r.index /\ m \in {r.rank, r.rank % 2 ^ 8}
    BY DEF queryFilter, queryIn, qf_get_count_using_ll_table_with_index, qf_query_using_ll_table_with_ext_len
  <1>4. /\ r.index \in Matching(qf, U, h, k) /\ r.rank = CountIn(T, 0, r.index - 1)
        /\ \A j \in Matching(qf, U, h, k) : r.index <= j
    <2>1. Homed(qf, U, h) /\ Stored(qf, U, h) /\ ChunksFirst(qf) /\ \A j \in U : j < XnSlots
      BY <1>1 DEF Shaped, Fits
    <2>. HIDE DEF r
    <2>2. r = Lookup(qf, k)
      BY DEF r
    <2>. QED
      BY <1>2, <2>1, <2>2, LookupExact
  <1>5. r.index \in T /\ Extends(qf, k, r.index)
    BY <1>4 DEF Matching
  <1>6. r.rank \in Nat
    <2>1. T \in SUBSET Nat
      BY <1>1, MinirunType
    <2>2. r.index - 1 \in Int /\ 0 <= (r.index - 1) + 1 /\ 0 \in Nat
      BY <1>5, <2>1
    <2>. HIDE DEF r, T
    <2>3. CountIn(T, 0, r.index - 1) \in 0 .. (r.index - 1) - 0 + 1
      BY <2>1, <2>2, CountType
    <2>. QED
      BY <1>4, <2>3
  <1>7. r.rank \in DOMAIN Rows[k]
    <2>1. r.rank \in Nat /\ r.rank <= Lookup(qf, k).rank /\ Lookup(qf, k).found
      BY <1>2, <1>6
    <2>. HIDE DEF r
    <2>. QED
      BY <2>1, RankFiled
  <1>8. m = r.rank
    <2>. DEFINE P == 2 ^ 8
                y == r.rank
    <2>1. P \in Nat \ {0}
      BY PowerOfTwo
    <2>2. y \in 0 .. P - 1
      BY <1>7, RowsAre, KeyFacts DEF RanksFit
    <2>. HIDE DEF P, y
    <2>3. P * 0 = 0 /\ y \in Nat /\ y < P
      BY <2>1, <2>2
    <2>4. y = P * 0 + y
      BY <2>3
    <2>5. y % P = y
      BY <2>1, <2>3, <2>4, ModUnique
    <2>. QED
      BY <1>3, <2>5 DEF P, y
  <1>. QED
    BY <1>2, <1>3, <1>4, <1>5, <1>7, <1>8

\* So an adaptation is of the item that the query found, by the key that is filed
\* with its rank, which is another than the query's.
LEMMA ExtendsFound ==
    ASSUME TInv, RowsLoaded, RanksFit, NEW k \in Keys, AdaptExtend(k),
           NEW U, NEW h, Tidied(qf, U, h, Keys, Rows), NEW x, x = queryFilter(k).hash_index,
           NEW m, m = queryFilter(k).minirun_rank
    PROVE  \E orig \in Nat :
              /\ orig = Rows[k][m] /\ orig \in Keys /\ orig # k /\ minirun_id(orig) = minirun_id(k)
              /\ qf' = adapt(qf, x, bucket(k), orig, k)
              /\ adaptCount' = Bump(adaptCount, 1)
  <1>1. PICK orig \in FetchedKeys(k, m) :
           /\ qf' = IF orig = NoKey THEN qf ELSE qf_adapt_using_ll_table(qf, orig, k, m)
           /\ adaptCount' = IF orig = NoKey THEN adaptCount ELSE Bump(adaptCount, 1)
    BY DEF AdaptExtend
  <1>2. Positive(k) /\ k \notin db /\ RowsTied
    BY DEF AdaptExtend, FalsePositive, TInv
  <1>3. orig = Rows[k][m] /\ orig \in Keys /\ orig # NoKey /\ minirun_id(orig) = minirun_id(k)
    BY <1>1, <1>2, FetchedIs
  <1>4. Shaped(qf, U, h) /\ Fits(U) /\ Sorted(qf, U, h) /\ k \in Nat /\ orig \in Nat
    BY <1>3, KeyFacts DEF Tidied
  <1>5. /\ x \in Minirun(qf, U, h, k) /\ m = CountIn(Minirun(qf, U, h, k), 0, x - 1)
        /\ m \in DOMAIN Rows[k]
    BY <1>2, QueryRank
  <1>6. qf_adapt_using_ll_table(qf, orig, k, m) = qf_adapt(qf, x, orig, k)
    BY <1>4, <1>5, WalkArrives
  <1>7. orig # k
    <2>1. Rows[k][m] \in db
      BY <1>5, RowsAre, KeyFacts DEF RowsLoaded
    <2>. QED
      BY <1>2, <1>3, <2>1
  <1>8. bucket(orig) = bucket(k)
    BY <1>3, <1>4, SameBucket
  <1>9. qf' = adapt(qf, x, bucket(k), orig, k)
    BY <1>1, <1>3, <1>6, <1>7, <1>8 DEF qf_adapt
  <1>. QED
    BY <1>1, <1>3, <1>4, <1>7, <1>9

\* An item's counter has space behind it, so that its slot is used.
LEMMA CounterHasSpace ==
    ASSUME RoomLeft, NEW U, NEW h, Shaped(qf, U, h), Fits(U), NEW k \in Keys,
           NEW x \in Items(qf, U, h, bucket(k)), NEW info, info = get_slot_info(qf, x)
    PROVE  HasSpace(qf, x + info.ext_len + 1)
  <1>. DEFINE n == skip_extensions(qf, x + 1)
              at == x + info.ext_len + 1
  <1>1. Homed(qf, U, h) /\ Stored(qf, U, h) /\ ChunksFirst(qf) /\ x \in U /\ x \in Nat
    <2>1. Homed(qf, U, h) /\ Stored(qf, U, h) /\ ChunksFirst(qf) /\ x \in U
      BY DEF Shaped, Items
    <2>2. U \in SUBSET Nat
      BY <2>1, HomedTypes
    <2>. QED
      BY <2>1, <2>2
  <1>2. info.ext_len \in Nat /\ info.count_len \in Nat /\ x + 1 + info.ext_len + info.count_len = n
    BY <1>1, InfoIs
  <1>3. at \in Nat /\ at <= n /\ n \in Nat
    BY <1>1, <1>2
  <1>4. Counting(qf, bucket(k), n, 2)
    <2>1. Room(U, bucket(k), 2) /\ bucket(k) \in Nat
      BY RoomIs, KeyFacts, BucketType
    <2>2. n = skip_extensions(qf, x + 1)
      OBVIOUS
    <2>. HIDE DEF n
    <2>. QED
      BY <2>1, <2>2, CountingStarts
  <1>5. PICK V, g : Shaped(qf, V, g) /\ Fits(V) /\ Behind(qf, V, g, bucket(k), n) /\ Room(V, n, 2)
    BY <1>4 DEF Counting
  <1>. HIDE DEF n, at
  <1>6. PICK F : /\ IsFiniteSet(F) /\ Cardinality(F) >= 2
                 /\ \A f \in F : f \in Nat /\ n <= f /\ f < XnSlots /\ f \notin V
    BY <1>5 DEF Room
  <1>7. PICK f \in F : TRUE
    BY <1>6, FS_EmptySet
  <1>8. f \in Nat /\ at <= f /\ f < XnSlots /\ f \notin V
    BY <1>3, <1>6, <1>7
  <1>9. HasSpace(qf, at)
    BY <1>3, <1>5, <1>8, RoomFound DEF Shaped
  <1>. QED
    BY <1>9 DEF at

\* An adaptation uses up the charges that the item had, BreakEven - 1 of them.
LEMMA SInvExtend ==
    ASSUME CountersFit, Policy = "SkiQF", SInv, RoomLeft, RanksFit, NEW k \in Keys, AdaptExtend(k)
    PROVE  SInv'
  <1>. DEFINE x == queryFilter(k).hash_index
              info == get_slot_info(qf, x)
              C == Cardinality(Counters(qf))
  <1>1. /\ fpCount' = Bump(fpCount, 1) /\ phase = "query" /\ Positive(k)
        /\ queryFilter(k).minirun_count >= BreakEven
        /\ reverseMap' = reverseMap /\ db' = db /\ phase' = phase
    BY DEF AdaptExtend, FalsePositive
  <1>2. TInv /\ TInv'
    BY TInvExtend DEF SInv
  <1>3. PICK U, h : Tidied(qf, U, h, Keys, Rows)
    BY <1>2 DEF TInv, Tidy
  <1>4. Shaped(qf, U, h) /\ Fits(U) /\ Counted(qf) /\ x \in Items(qf, U, h, bucket(k)) /\ x \in U
        /\ k \in Nat /\ bucket(k) \in Nat
    <2>1. Shaped(qf, U, h) /\ Fits(U) /\ Counted(qf)
      BY <1>3 DEF Tidied
    <2>2. x \in Items(qf, U, h, bucket(k))
      BY <1>1, <2>1, FoundIs
    <2>. QED
      BY <2>1, <2>2, KeyFacts, BucketType DEF Items
  <1>5. PICK orig \in Nat : qf' = adapt(qf, x, bucket(k), orig, k) /\ adaptCount' = Bump(adaptCount, 1)
    <2>. DEFINE m == queryFilter(k).minirun_rank
    <2>1. x = queryFilter(k).hash_index /\ m = queryFilter(k).minirun_rank /\ TInv /\ RowsLoaded
      BY DEF SInv
    <2>. HIDE DEF x, m
    <2>. QED
      BY <1>3, <2>1, ExtendsFound
  <1>6. /\ info.count_len \in {0, 1} /\ BreakEven \in {1, 2}
        /\ BreakEven = 2 => info.count_len = 1
    <2>. DEFINE c == info.count
                n == queryFilter(k).minirun_count
    <2>1. n = c /\ c = IF info.count_len = 0 THEN 1 ELSE 2
      BY <1>1, <1>3, CountAnswered
    <2>2. BreakEven \in Nat /\ BreakEven <= 2 /\ BreakEven # 0
      BY SlotFilterAssumption DEF CountersFit
    <2>3. n >= BreakEven
      BY <1>1
    <2>4. info.count_len \in {0, 1}
      BY <1>4, CountOf
    <2>. HIDE DEF c, n, info
    <2>. QED
      BY <2>1, <2>2, <2>3, <2>4
  <1>7. HasSpace(qf, x + info.ext_len + 1)
    BY <1>4, CounterHasSpace
  <1>. HIDE DEF x
  <1>8. Counts(qf', C - info.count_len, qf.noccupied_slots)
    <2>1. info = get_slot_info(qf, x) /\ info.count_len = 1 => HasSpace(qf, x + info.ext_len + 1)
      BY <1>7
    <2>. HIDE DEF info
    <2>. QED
      BY <1>4, <1>5, <1>6, <1>7, <2>1, AdaptCounts DEF info
  <1>9. C \in Nat /\ qf.noccupied_slots \in Nat /\ FullPoint \in Nat /\ Cardinality(Counters(qf')) \in Nat
    <2>1. TInv => IsFiniteSet(Counters(qf)) /\ Cardinality(Counters(qf)) \in Nat /\ qf.noccupied_slots \in Nat
      BY CountersType
    <2>2. qf' \in Filters
      BY <1>2, TidyLaidOut DEF TInv, Kept, Shaped
    <2>3. Counters(qf') \in SUBSET Slots /\ IsFiniteSet(Slots)
      BY <2>2, FS_Interval, Sizes DEF Filters, Counters
    <2>4. Cardinality(Counters(qf')) \in Nat
      BY <2>3, FS_Subset, FS_CardinalityType
    <2>. QED
      BY <1>2, <2>1, <2>4, SlotFilterAssumption
  <1>. HIDE DEF info
  <1>10. /\ Cardinality(Counters(qf')) = C - info.count_len /\ qf.noccupied_slots <= qf'.noccupied_slots
         /\ qf'.noccupied_slots \in Nat
    BY <1>8 DEF Counts
  <1>11. info.count_len = BreakEven - 1
    <2>1. BreakEven = 1 => C = 0
      BY DEF SInv
    <2>. HIDE DEF C
    <2>. QED
      BY <1>6, <1>9, <1>10, <2>1
  <1>12. RentPaid'
    <2>1. SUFFICES ASSUME qf'.noccupied_slots < FullPoint, fpCount' < CountCap
                   PROVE  fpCount' = BreakEven * adaptCount' + Cardinality(Counters(qf'))
      BY DEF RentPaid
    <2>2. fpCount < CountCap /\ fpCount' = fpCount + 1 /\ adaptCount' = adaptCount + 1 /\ adaptCount \in Nat
      BY <1>1, <1>5, <2>1, OneMore
    <2>3. fpCount = BreakEven * adaptCount + C
      BY <1>9, <1>10, <2>1, <2>2 DEF SInv, RentPaid
    <2>4. Cardinality(Counters(qf')) = C - (BreakEven - 1)
      BY <1>10, <1>11
    <2>. HIDE DEF C
    <2>5. CASE BreakEven = 1
      BY <1>9, <2>2, <2>3, <2>4, <2>5
    <2>6. CASE BreakEven = 2
      BY <1>9, <2>2, <2>3, <2>4, <2>6
    <2>. QED
      BY <1>6, <2>5, <2>6
  <1>13. BreakEven = 1 => Cardinality(Counters(qf')) = 0
    <2>1. BreakEven = 1 => C = 0
      BY DEF SInv
    <2>. HIDE DEF C
    <2>. QED
      BY <1>9, <1>10, <1>11, <2>1
  <1>14. adaptCount' <= fpCount'
    BY <1>1, <1>5, OneMore
  <1>15. RowsLoaded'
    BY <1>1 DEF SInv, RowsLoaded
  <1>. QED
    BY <1>1, <1>2, <1>12, <1>13, <1>14, <1>15 DEF SInv

\* Every step keeps the invariant as long as there is room and ranks fit.
LEMMA SInvNext ==
    ASSUME CountersFit, Policy = "SkiQF"
    PROVE  SInv /\ RoomLeft /\ RanksFit /\ [Next]_vars => SInv'
  <1>1. SUFFICES ASSUME SInv, RoomLeft, RanksFit, [Next]_vars PROVE SInv'
    OBVIOUS
  <1>2. TInv'
    BY <1>1, TInvNext DEF SInv
  <1>3. ASSUME NEW k \in Keys, Load(k) PROVE SInv'
    BY <1>1, <1>3, SInvLoad
  <1>4. ASSUME UNCHANGED <<qf, reverseMap, db, fpCount, adaptCount>>, phase # "query" \/ phase' = phase
        PROVE  SInv'
    BY <1>1, <1>2, <1>4 DEF SInv, RowsLoaded, RentPaid
  <1>5. ASSUME NEW k \in Keys, LoadRefused(k) PROVE SInv'
    BY <1>4, <1>5 DEF LoadRefused
  <1>6. CASE EndLoad
    BY <1>4, <1>6 DEF EndLoad
  <1>7. CASE UNCHANGED vars
    BY <1>4, <1>7 DEF vars
  <1>8. ASSUME NEW k \in Keys, QueryAnswered(k) PROVE SInv'
    BY <1>7, <1>8 DEF QueryAnswered
  <1>9. ASSUME NEW k \in Keys, AdaptDeclined(k) PROVE SInv'
    BY <1>1, <1>9, SInvDeclined
  <1>10. ASSUME NEW k \in Keys, AdaptCharge(k) PROVE SInv'
    BY <1>1, <1>10, SInvCharge
  <1>11. ASSUME NEW k \in Keys, AdaptExtend(k) PROVE SInv'
    BY <1>1, <1>11, SInvExtend
  <1>. QED
    BY <1>1, <1>3, <1>5, <1>6, <1>7, <1>8, <1>9, <1>10, <1>11 DEF Next, Query

\* The charges that the counters hold.
LEMMA ChargesHeldIs ==
    ASSUME TInv
    PROVE  ChargesHeld = Cardinality(Counters(qf))
  <1>1. PICK U, h : Tidied(qf, U, h, Keys, Rows)
    BY DEF TInv, Tidy
  <1>2. Shaped(qf, U, h) /\ Fits(U) /\ Counted(qf)
    BY <1>1 DEF Tidied
  <1>3. UsedSlots(qf) = U
    BY <1>2, LayoutIsRead DEF Shaped
  <1>4. MapThenSumSet(LAMBDA i : get_slot_info(qf, i).count - 1, U \ qf.extensions) = Cardinality(Counters(qf))
    BY <1>2, ChargesAreCounters
  <1>. QED
    BY <1>3, <1>4 DEF ChargesHeld

(***************************************************************************)
(* Ski rental.  While two slots from every key's bucket on are free,       *)
(* counters are charged once only and no fingerprint has more keys than    *)
(* the byte of a rank can tell apart, every false positive is accounted    *)
(* for as long as there is room: it was charged to an item and is still in *)
(* its counter, or the item was adapted, which used its charges up.        *)
(***************************************************************************)
THEOREM RentIsPaid ==
    ASSUME CountersFit
    PROVE  Spec /\ []RoomLeft /\ []RanksFit => []SkiRental
  <1>1. CASE Policy = "SkiQF"
    <2>1. SInv /\ RoomLeft /\ RanksFit /\ [Next]_vars => SInv'
      BY <1>1, SInvNext
    <2>2. Init => SInv
      BY SInvInit
    <2>3. SInv => SkiRental
      BY ChargesHeldIs DEF SInv, RentPaid, SkiRental
    <2>. QED
      BY <2>1, <2>2, <2>3, PTL DEF Spec
  <1>2. CASE Policy # "SkiQF"
    <2>1. SkiRental
      BY <1>2 DEF SkiRental
    <2>. QED
      BY <2>1, PTL
  <1>. QED
    BY <1>1, <1>2


-----------------------------------------------------------------------------
(***************************************************************************)
(* The slot array implements the miniruns                                  *)
(***************************************************************************)
\* The miniruns of q by their keys.
CellsOf(q) == [k \in Keys |-> Miniruns(q)[minirun_id(k)]]

\* No item has more chunks than a hash.
Short(c) == \A k \in Keys : \A i \in DOMAIN c[k] : c[k][i].ext_len \in 0 .. MaxExt

\* MaxExt counts the chunks of a hash.
LEMMA MaxExtIs == MaxExt = HashChunks /\ MaxExt \in Nat \ {0}
  BY ChunksOfHash DEF MaxExt, HashChunks

\* What the lists of a filter in shape show are its miniruns.
LEMMA MinirunsShown ==
    ASSUME NEW q, NEW U, NEW h, Shaped(q, U, h), NEW c, Viewed(q, U, h, Keys, c, MaxExt), NEW k \in Keys
    PROVE  Miniruns(q)[minirun_id(k)] = [i \in DOMAIN c[k] |-> c[k][i]]
  <1>. DEFINE f == minirun_id(k)
              at == MinirunSlots(q, f)
  <1>1. PICK n, e : /\ Lists(e, n, Minirun(q, U, h, k))
                    /\ DOMAIN c[k] = 1 .. n
                    /\ \A r \in 0 .. n - 1 : c[k][r + 1] = ItemAt(q, e[r], MaxExt)
    BY DEF Viewed
  <1>2. k \in Nat /\ f \in Fps /\ n \in Nat
    BY <1>1, KeyFacts DEF Lists
  <1>3. at = [i \in 1 .. n |-> e[i - 1]]
    BY <1>1, <1>2, SlotsListed
  <1>4. Miniruns(q)[f] = [i \in DOMAIN at |-> Item(q, at[i])]
    BY <1>2 DEF Miniruns
  <1>. HIDE DEF at
  <1>5. ASSUME NEW i \in 1 .. n PROVE Item(q, at[i]) = c[k][i]
    <2>1. i - 1 \in 0 .. n - 1 /\ (i - 1) + 1 = i /\ at[i] = e[i - 1]
      BY <1>2, <1>3
    <2>2. c[k][i] = ItemAt(q, e[i - 1], MaxExt)
      BY <1>1, <2>1
    <2>3. Item(q, at[i]) = ItemAt(q, at[i], MaxExt)
      BY DEF Item, ItemAt
    <2>. QED
      BY <2>1, <2>2, <2>3
  <1>6. DOMAIN at = 1 .. n
    BY <1>3
  <1>. QED
    BY <1>1, <1>4, <1>5, <1>6

\* The miniruns of a tidy filter are what its lists show.
LEMMA CellsViewed ==
    ASSUME NEW q, NEW U, NEW h, NEW rows, Tidied(q, U, h, Keys, rows)
    PROVE  Viewed(q, U, h, Keys, CellsOf(q), MaxExt)
  <1>1. ASSUME NEW k \in Keys
        PROVE  \E n, e : /\ Lists(e, n, Minirun(q, U, h, k))
                         /\ DOMAIN CellsOf(q)[k] = 1 .. n
                         /\ \A r \in 0 .. n - 1 : CellsOf(q)[k][r + 1] = ItemAt(q, e[r], MaxExt)
    <2>. DEFINE f == minirun_id(k)
                at == MinirunSlots(q, f)
    <2>1. PICK n, e : Lists(e, n, Minirun(q, U, h, k))
      BY DEF Tidied, Filed
    <2>2. k \in Nat /\ f \in Fps /\ n \in Nat /\ Shaped(q, U, h)
      BY <2>1, KeyFacts DEF Lists, Tidied
    <2>3. at = [i \in 1 .. n |-> e[i - 1]]
      BY <2>1, <2>2, SlotsListed
    <2>4. CellsOf(q)[k] = [i \in DOMAIN at |-> Item(q, at[i])]
      BY <2>2 DEF Miniruns, CellsOf
    <2>. HIDE DEF at
    <2>5. ASSUME NEW r \in 0 .. n - 1 PROVE CellsOf(q)[k][r + 1] = ItemAt(q, e[r], MaxExt)
      <3>1. r + 1 \in 1 .. n /\ (r + 1) - 1 = r
        BY <2>2
      <3>2. CellsOf(q)[k][r + 1] = Item(q, at[r + 1]) /\ at[r + 1] = e[r]
        BY <2>3, <2>4, <3>1
      <3>. QED
        BY <3>2 DEF Item, ItemAt
    <2>6. DOMAIN CellsOf(q)[k] = 1 .. n
      BY <2>3, <2>4
    <2>. QED
      BY <2>1, <2>5, <2>6
  <1>. QED
    BY <1>1 DEF Viewed

\* new has the miniruns of q, but for the item i of fingerprint f, which is y.
Changed(q, new, f, i, y, used) ==
    /\ Miniruns(new) = [Miniruns(q) EXCEPT ![f][i] = y]
    /\ Short(CellsOf(new))
    /\ new.noccupied_slots = used

\* Showing one item differently changes it in its minirun.
LEMMA MinirunsChange ==
    ASSUME NEW q, NEW new, NEW x, NEW k \in Keys, NEW m \in Nat, NEW y, NEW used,
           m + 1 \in DOMAIN Miniruns(q)[minirun_id(k)],
           Showing(new, x, Keys, CellsOf(q), MaxExt, minirun_id(k), m, y, used),
           Short(CellsOf(q)), y.ext_len \in 0 .. MaxExt
    PROVE  Changed(q, new, minirun_id(k), m + 1, y, used)
  <1>. DEFINE f == minirun_id(k)
              c == CellsOf(q)
              d == With(Keys, c, f, m, y)
  <1>1. PICK U, h : /\ Shaped(new, U, h)
                    /\ Around(new, U, h, Keys, c, MaxExt, x, f, m)
                    /\ ItemAt(new, x, MaxExt) = y /\ new.noccupied_slots = used
    BY DEF Showing
  <1>2. Viewed(new, U, h, Keys, d, MaxExt)
    <2>. HIDE DEF c
    <2>. QED
      BY <1>1, AroundViewed
  <1>3. f \in Fps /\ \A g \in Fps : \E j \in Keys : minirun_id(j) = g
    BY KeyFacts DEF Fps
  <1>4. /\ Miniruns(q) = [g \in Fps |-> Miniruns(q)[g]]
        /\ Miniruns(new) = [g \in Fps |-> Miniruns(new)[g]]
        /\ \A g \in Fps : Miniruns(q)[g] = [i \in DOMAIN Miniruns(q)[g] |-> Miniruns(q)[g][i]]
    BY DEF Miniruns
  <1>5. ASSUME NEW j \in Keys
        PROVE  Miniruns(new)[minirun_id(j)] =
                 [i \in DOMAIN Miniruns(q)[minirun_id(j)] |->
                    IF minirun_id(j) = f /\ i = m + 1 THEN y ELSE Miniruns(q)[minirun_id(j)][i]]
    <2>1. Miniruns(new)[minirun_id(j)] = [i \in DOMAIN d[j] |-> d[j][i]]
      <3>. HIDE DEF d
      <3>. QED
        BY <1>1, <1>2, MinirunsShown
    <2>2. c[j] = Miniruns(q)[minirun_id(j)]
      BY DEF CellsOf
    <2>3. d[j] = [i \in DOMAIN c[j] |-> IF minirun_id(j) = f /\ i = m + 1 THEN y ELSE c[j][i]]
      BY DEF With
    <2>. HIDE DEF c, d
    <2>. QED
      BY <2>1, <2>2, <2>3
  <1>6. Miniruns(new) = [Miniruns(q) EXCEPT ![f][m + 1] = y]
    <2>. DEFINE A == Miniruns(q)
                B == Miniruns(new)
    <2>1. ASSUME NEW g \in Fps
          PROVE  B[g] = IF g = f THEN [A[f] EXCEPT ![m + 1] = y] ELSE A[g]
      <3>1. PICK j \in Keys : minirun_id(j) = g
        BY <1>3
      <3>2. B[g] = [i \in DOMAIN A[g] |-> IF g = f /\ i = m + 1 THEN y ELSE A[g][i]]
        BY <1>5, <3>1
      <3>3. A[g] = [i \in DOMAIN A[g] |-> A[g][i]]
        BY <1>4
      <3>. HIDE DEF A, B, f
      <3>. QED
        BY <3>2, <3>3
    <2>2. A = [g \in Fps |-> A[g]] /\ B = [g \in Fps |-> B[g]]
      BY <1>4
    <2>. HIDE DEF A, B, f
    <2>3. B = [A EXCEPT ![f] = [A[f] EXCEPT ![m + 1] = y]]
      BY <2>1, <2>2
    <2>4. B = [A EXCEPT ![f][m + 1] = y]
      BY <2>3
    <2>. QED
      BY <2>4 DEF A, B, f
  <1>7. Short(CellsOf(new))
    <2>1. ASSUME NEW j \in Keys, NEW i \in DOMAIN CellsOf(new)[j]
          PROVE  CellsOf(new)[j][i].ext_len \in 0 .. MaxExt
      <3>1. CellsOf(new)[j] = Miniruns(new)[minirun_id(j)] /\ c[j] = Miniruns(q)[minirun_id(j)]
        BY DEF CellsOf
      <3>2. i \in DOMAIN c[j] /\ (CellsOf(new)[j][i] = y \/ CellsOf(new)[j][i] = c[j][i])
        <4>. DEFINE A == Miniruns(q)[minirun_id(j)]
                    B == CellsOf(new)[j]
        <4>1. B = [n \in DOMAIN A |-> IF minirun_id(j) = f /\ n = m + 1 THEN y ELSE A[n]]
          BY <1>5, <3>1
        <4>2. i \in DOMAIN B /\ c[j] = A
          BY <2>1, <3>1
        <4>. HIDE DEF c, f, A, B
        <4>3. i \in DOMAIN c[j] /\ (B[i] = y \/ B[i] = c[j][i])
          BY <4>1, <4>2
        <4>. QED
          BY <4>3 DEF B
      <3>. QED
        BY <3>2 DEF Short
    <2>. QED
      BY <2>1 DEF Short
  <1>. QED
    BY <1>1, <1>6, <1>7 DEF Changed

\* What the refinement needs to know of the state.
GInv == TInv /\ RowsLoaded /\ Short(CellsOf(qf))

\* The inductive invariant.
RInv ==
    /\ GInv
    /\ miniruns = Miniruns(qf)
    /\ keysByRank = KeysByRank(reverseMap)

\* A minirun as a sequence.
LEMMA MinirunRead ==
    ASSUME NEW q, NEW U, NEW h, Shaped(q, U, h), NEW k \in Keys,
           NEW n, NEW e, Lists(e, n, Minirun(q, U, h, k))
    PROVE  /\ n \in Nat
           /\ DOMAIN Miniruns(q)[minirun_id(k)] = 1 .. n
           /\ \A r \in 0 .. n - 1 : Miniruns(q)[minirun_id(k)][r + 1] = ItemAt(q, e[r], MaxExt)
  <1>. DEFINE f == minirun_id(k)
              at == MinirunSlots(q, f)
  <1>1. k \in Nat /\ f \in Fps /\ n \in Nat
    BY KeyFacts DEF Lists
  <1>2. at = [i \in 1 .. n |-> e[i - 1]]
    BY <1>1, SlotsListed
  <1>3. Miniruns(q)[f] = [i \in DOMAIN at |-> Item(q, at[i])]
    BY <1>1 DEF Miniruns
  <1>. HIDE DEF at
  <1>4. DOMAIN Miniruns(q)[f] = 1 .. n
    BY <1>2, <1>3
  <1>5. ASSUME NEW r \in 0 .. n - 1 PROVE Miniruns(q)[f][r + 1] = ItemAt(q, e[r], MaxExt)
    <2>1. r + 1 \in 1 .. n /\ (r + 1) - 1 = r
      BY <1>1
    <2>2. Miniruns(q)[f][r + 1] = Item(q, at[r + 1]) /\ at[r + 1] = e[r]
      BY <1>2, <1>3, <2>1
    <2>. QED
      BY <2>2 DEF Item, ItemAt
  <1>. QED
    BY <1>1, <1>4, <1>5

\* The row of a fingerprint as a sequence, as long as the minirun.
LEMMA RowRead ==
    ASSUME NEW U, NEW h, Tidied(qf, U, h, Keys, Rows), NEW k \in Keys,
           NEW n, NEW e, Lists(e, n, Minirun(qf, U, h, k)), DOMAIN Rows[k] = 0 .. n - 1
    PROVE  KeysByRank(reverseMap)[minirun_id(k)] = [i \in 1 .. n |-> Rows[k][i - 1]]
  <1>. DEFINE f == minirun_id(k)
              row == reverseMap[f]
  <1>1. f \in Fps /\ n \in Nat /\ Rows[k] = row
    BY KeyFacts, RowsAre DEF Lists
  <1>2. KeysByRank(reverseMap)[f] = [i \in 1 .. Cardinality(DOMAIN row) |->
                                       IF i - 1 \in DOMAIN row THEN row[i - 1] ELSE NoKey]
    BY <1>1 DEF KeysByRank
  <1>3. Cardinality(DOMAIN row) = n
    <2>1. Cardinality(0 .. n - 1) = IF 0 > n - 1 THEN 0 ELSE (n - 1) - 0 + 1
      BY <1>1, FS_Interval
    <2>2. Cardinality(0 .. n - 1) = n
      BY <1>1, <2>1
    <2>. QED
      BY <1>1, <2>2
  <1>4. \A i \in 1 .. n : i - 1 \in DOMAIN row
    BY <1>1
  <1>. HIDE DEF row
  <1>. QED
    BY <1>1, <1>2, <1>3, <1>4

\* Whether a key has the chunks of an item is read off the minirun.
LEMMA MatchesRead ==
    ASSUME NEW q, NEW U, NEW h, NEW rows, Tidied(q, U, h, Keys, rows), Short(CellsOf(q)), NEW k \in Keys,
           NEW n, NEW e, Lists(e, n, Minirun(q, U, h, k)),
           NEW r \in 0 .. n - 1, Carries(q, e[r], rows[k][r]), rows[k][r] \in Nat
    PROVE  /\ Abstract!Matches(Miniruns(q)[minirun_id(k)][r + 1], k) <=> Extends(q, k, e[r])
           /\ ItemAt(q, e[r], MaxExt).ext_len \in 0 .. MaxExt
  <1>. DEFINE f == minirun_id(k)
              T == Minirun(q, U, h, k)
              y == ItemAt(q, e[r], MaxExt)
              key == rows[k][r]
  <1>1. Shaped(q, U, h) /\ Fits(U) /\ Counted(q) /\ k \in Nat /\ f \in Fps
    BY KeyFacts DEF Tidied
  <1>2. /\ n \in Nat /\ DOMAIN Miniruns(q)[f] = 1 .. n
        /\ Miniruns(q)[f][r + 1] = y
    BY <1>1, MinirunRead
  <1>3. r + 1 \in 1 .. n /\ e[r] \in U
    <2>1. T \in SUBSET U
      BY <1>1, MinirunType
    <2>. QED
      BY <1>2, <2>1 DEF Lists
  <1>4. y.ext_len \in 0 .. MaxExt
    <2>1. CellsOf(q)[k] = Miniruns(q)[f]
      BY DEF CellsOf
    <2>2. Miniruns(q)[f][r + 1].ext_len \in 0 .. MaxExt
      BY <1>2, <1>3, <2>1 DEF Short
    <2>. QED
      BY <1>2, <2>2
  <1>5. MaxExt \in Nat
    BY MaxExtIs
  <1>6. y = ItemAt(q, e[r], MaxExt) /\ Carries(q, e[r], key) /\ y.ext_len <= MaxExt /\ key \in Nat
    BY <1>4, <1>5
  <1>. HIDE DEF y, key
  <1>7. /\ y.ext_len \in Nat
        /\ Extends(q, k, e[r]) <=> \A d \in 0 .. y.ext_len - 1 : chunk(k, d) = chunk(key, d)
        /\ \A d \in 1 .. y.ext_len : d \in 1 .. MaxExt /\ y.ext[d] = chunk(key, d - 1)
    BY <1>1, <1>3, <1>5, <1>6, MatchesExtends
  <1>8. Abstract!Matches(y, k) <=> \A d \in 1 .. y.ext_len : y.ext[d] = ChunkOf[k][d]
    BY DEF Abstract!Matches
  <1>9. \A d \in 1 .. MaxExt : ChunkOf[k][d] = chunk(k, d - 1)
    BY DEF ChunkOf
  <1>10. (\A d \in 0 .. y.ext_len - 1 : chunk(k, d) = chunk(key, d))
           <=> \A d \in 1 .. y.ext_len : chunk(k, d - 1) = chunk(key, d - 1)
    <2>1. ASSUME NEW d \in 0 .. y.ext_len - 1 PROVE d + 1 \in 1 .. y.ext_len /\ (d + 1) - 1 = d
      BY <1>7
    <2>2. ASSUME NEW d \in 1 .. y.ext_len PROVE d - 1 \in 0 .. y.ext_len - 1
      BY <1>7
    <2>. QED
      BY <2>1, <2>2
  <1>11. ASSUME NEW d \in 1 .. y.ext_len
         PROVE  y.ext[d] = ChunkOf[k][d] <=> chunk(k, d - 1) = chunk(key, d - 1)
    <2>1. d \in 1 .. MaxExt /\ y.ext[d] = chunk(key, d - 1)
      BY <1>7
    <2>2. ChunkOf[k][d] = chunk(k, d - 1)
      BY <1>9, <2>1
    <2>. QED
      BY <2>1, <2>2
  <1>12. Abstract!Matches(y, k) <=> Extends(q, k, e[r])
    BY <1>7, <1>8, <1>10, <1>11
  <1>. QED
    BY <1>2, <1>4, <1>12 DEF y

(***************************************************************************)
(* A query is positive exactly if an item of the minirun has no chunks     *)
(* that the key has not: the scan over the run's slots, the count narrowed *)
(* to a byte and the mask over the extension come to the same.             *)
(***************************************************************************)
THEOREM PresentIs ==
    ASSUME NEW q, NEW U, NEW h, NEW rows, Tidied(q, U, h, Keys, rows), Short(CellsOf(q)), NEW k \in Keys,
           \A r \in DOMAIN rows[k] : rows[k][r] \in Nat
    PROVE  queryIn(q, k).key_present
             <=> \E i \in DOMAIN Miniruns(q)[minirun_id(k)] :
                    Abstract!Matches(Miniruns(q)[minirun_id(k)][i], k)
  <1>. DEFINE f == minirun_id(k)
              T == Minirun(q, U, h, k)
              r == Lookup(q, k)
              cells == Miniruns(q)[f]
  <1>1. Shaped(q, U, h) /\ Fits(U) /\ Counted(q)
    BY DEF Tidied
  <1>2. PICK n, e : /\ Lists(e, n, T)
                    /\ DOMAIN rows[k] = 0 .. n - 1
                    /\ \A m \in 0 .. n - 1 : Carries(q, e[m], rows[k][m])
    BY DEF Tidied, Filed
  <1>3. n \in Nat /\ DOMAIN cells = 1 .. n
    BY <1>1, <1>2, MinirunRead
  <1>4. \A m \in 0 .. n - 1 : Abstract!Matches(cells[m + 1], k) <=> Extends(q, k, e[m])
    BY <1>2, MatchesRead
  <1>. HIDE DEF cells, r
  <1>5. /\ r.found <=> Matching(q, U, h, k) # {}
        /\ r.found => r.index \in Matching(q, U, h, k) /\ r.count = get_slot_info(q, r.index).count
    <2>1. Homed(q, U, h) /\ Stored(q, U, h) /\ ChunksFirst(q) /\ \A j \in U : j < XnSlots
      BY <1>1 DEF Shaped, Fits
    <2>2. r = Lookup(q, k)
      BY DEF r
    <2>. QED
      BY <2>1, <2>2, LookupExact
  <1>6. queryIn(q, k).key_present <=> r.found
    <2>1. queryIn(q, k).key_present <=> r.found /\ (Policy = "HybridSkiQF" \/ r.count % 2 ^ 8 > 0)
      BY DEF r, queryIn, qf_get_count_using_ll_table_with_index, qf_query_using_ll_table_with_ext_len
    <2>2. ASSUME r.found PROVE r.count % 2 ^ 8 > 0
      <3>1. r.index \in U
        <4>1. r.index \in T
          BY <1>5, <2>2 DEF Matching
        <4>. QED
          BY <1>1, <4>1, MinirunType
      <3>. DEFINE info == get_slot_info(q, r.index)
                  c == r.count
      <3>2. info.count = IF info.count_len = 0 THEN 1 ELSE 2
        BY <1>1, <3>1, CountOf
      <3>3. c \in {1, 2}
        BY <1>5, <2>2, <3>2
      <3>. HIDE DEF c
      <3>4. c % 2 ^ 8 = c
        BY <3>3, ByteCount
      <3>. QED
        BY <3>3, <3>4 DEF c
    <2>. QED
      BY <2>1, <2>2
  <1>7. Matching(q, U, h, k) # {} <=> \E m \in 0 .. n - 1 : Extends(q, k, e[m])
    <2>. HIDE DEF T
    <2>1. \A i : i \in Matching(q, U, h, k) <=> i \in T /\ Extends(q, k, i)
      BY DEF Matching, T
    <2>. QED
      BY <1>2, <2>1 DEF Lists
  <1>8. (\E m \in 0 .. n - 1 : Extends(q, k, e[m])) <=> \E i \in 1 .. n : Abstract!Matches(cells[i], k)
    <2>1. ASSUME NEW m \in 0 .. n - 1, Extends(q, k, e[m])
          PROVE  \E i \in 1 .. n : Abstract!Matches(cells[i], k)
      <3>1. m + 1 \in 1 .. n
        BY <1>3
      <3>2. Abstract!Matches(cells[m + 1], k)
        BY <1>4, <2>1
      <3>. QED
        BY <3>1, <3>2
    <2>2. ASSUME NEW i \in 1 .. n, Abstract!Matches(cells[i], k)
          PROVE  \E m \in 0 .. n - 1 : Extends(q, k, e[m])
      <3>. DEFINE m == i - 1
      <3>1. m \in 0 .. n - 1 /\ m + 1 = i
        BY <1>3
      <3>. HIDE DEF m
      <3>. QED
        BY <1>4, <2>2, <3>1
    <2>. QED
      BY <2>1, <2>2
  <1>. QED
    BY <1>3, <1>5, <1>6, <1>7, <1>8 DEF cells

\* A positive query is answered with the first item of the minirun that the key
\* matches, by its slot and its rank.
LEMMA QueryAnswers ==
    ASSUME GInv, RanksFit, NEW U, NEW h, Tidied(qf, U, h, Keys, Rows), NEW k \in Keys, Positive(k),
           NEW x, x = queryFilter(k).hash_index, NEW m, m = queryFilter(k).minirun_rank
    PROVE  /\ m + 1 \in DOMAIN Miniruns(qf)[minirun_id(k)]
           /\ m + 1 \in DOMAIN KeysByRank(reverseMap)[minirun_id(k)]
           /\ Miniruns(qf)[minirun_id(k)][m + 1] = ItemAt(qf, x, MaxExt)
           /\ KeysByRank(reverseMap)[minirun_id(k)][m + 1] = Rows[k][m]
           /\ ItemAt(qf, x, MaxExt).ext_len \in 0 .. MaxExt
           /\ Around(qf, U, h, Keys, CellsOf(qf), MaxExt, x, minirun_id(k), m)
           /\ Carries(qf, x, Rows[k][m])
           /\ Abstract!Matches(Miniruns(qf)[minirun_id(k)][m + 1], k)
           /\ \A j \in 1 .. (m + 1) - 1 : ~Abstract!Matches(Miniruns(qf)[minirun_id(k)][j], k)
  <1>. DEFINE f == minirun_id(k)
              T == Minirun(qf, U, h, k)
              row == Rows[k]
              cells == Miniruns(qf)[f]
  <1>1. RowsTied /\ Short(CellsOf(qf))
    BY DEF GInv, TInv
  <1>2. /\ x \in T /\ Extends(qf, k, x)
        /\ \A j \in Matching(qf, U, h, k) : x <= j
        /\ m = CountIn(T, 0, x - 1) /\ m \in Nat
    BY QueryRank
  <1>3. PICK n, e : /\ Lists(e, n, T)
                    /\ DOMAIN row = 0 .. n - 1
                    /\ \A r \in 0 .. n - 1 : Carries(qf, e[r], row[r])
    BY DEF Tidied, Filed
  <1>4. Shaped(qf, U, h) /\ Fits(U) /\ Counted(qf) /\ k \in Nat /\ f \in Fps
    BY KeyFacts DEF Tidied
  <1>5. T \in SUBSET Nat /\ T \in SUBSET U
    BY <1>4, MinirunType
  <1>6. m \in 0 .. n - 1 /\ n \in Nat /\ e[m] = x
    <2>1. T \in SUBSET Nat /\ x \in T /\ Lists(e, n, T)
      BY <1>2, <1>3, <1>5
    <2>. HIDE DEF T
    <2>2. /\ CountIn(T, 0, x - 1) \in 0 .. n - 1 /\ n \in Nat
          /\ e[CountIn(T, 0, x - 1)] = x
      BY <2>1, RankListed
    <2>. QED
      BY <1>2, <2>2
  <1>7. /\ DOMAIN cells = 1 .. n
        /\ \A r \in 0 .. n - 1 : cells[r + 1] = ItemAt(qf, e[r], MaxExt)
        /\ KeysByRank(reverseMap)[f] = [i \in 1 .. n |-> row[i - 1]]
    BY <1>3, <1>4, MinirunRead, RowRead
  <1>8. m + 1 \in 1 .. n /\ (m + 1) - 1 = m
    BY <1>6
  <1>9. ASSUME NEW r \in 0 .. n - 1
        PROVE  /\ Abstract!Matches(cells[r + 1], k) <=> Extends(qf, k, e[r])
               /\ ItemAt(qf, e[r], MaxExt).ext_len \in 0 .. MaxExt
    <2>1. row[r] \in Nat
      <3>1. row = reverseMap[f]
        BY RowsAre
      <3>2. row[r] \in Keys
        BY <1>1, <1>3, <1>4, <3>1 DEF RowsTied
      <3>. QED
        BY <3>2, KeyFacts
    <2>. QED
      BY <1>1, <1>3, <2>1, MatchesRead
  <1>. HIDE DEF cells
  <1>10. Abstract!Matches(cells[m + 1], k)
    BY <1>2, <1>6, <1>9
  <1>11. ASSUME NEW j \in 1 .. (m + 1) - 1, Abstract!Matches(cells[j], k) PROVE FALSE
    <2>. DEFINE r == j - 1
    <2>1. r \in 0 .. n - 1 /\ r + 1 = j /\ r < m
      BY <1>6
    <2>. HIDE DEF r
    <2>2. Extends(qf, k, e[r]) /\ e[r] \in T /\ e[r] < e[m]
      BY <1>3, <1>6, <1>9, <1>11, <2>1 DEF Lists
    <2>3. x <= e[r]
      BY <1>2, <2>2 DEF Matching
    <2>. QED
      BY <1>5, <1>6, <1>2, <2>2, <2>3
  <1>12. Around(qf, U, h, Keys, CellsOf(qf), MaxExt, x, f, m)
    <2>1. Viewed(qf, U, h, Keys, CellsOf(qf), MaxExt) /\ Keys \in SUBSET Nat
      BY CellsViewed, KeysType
    <2>. HIDE DEF T
    <2>2. x \in Minirun(qf, U, h, k) /\ m = CountIn(Minirun(qf, U, h, k), 0, x - 1)
      BY <1>2 DEF T
    <2>. QED
      BY <1>4, <2>1, <2>2, ViewedAround
  <1>13. /\ ItemAt(qf, e[m], MaxExt).ext_len \in 0 .. MaxExt
         /\ cells[m + 1] = ItemAt(qf, e[m], MaxExt)
         /\ KeysByRank(reverseMap)[f][m + 1] = row[m]
         /\ m + 1 \in DOMAIN KeysByRank(reverseMap)[f]
    BY <1>6, <1>7, <1>8, <1>9
  <1>. QED
    BY <1>3, <1>6, <1>7, <1>8, <1>10, <1>11, <1>12, <1>13 DEF cells

\* A false positive is one of the miniruns, at the rank that the query answers.
LEMMA QueryRefines ==
    ASSUME RInv, RanksFit, NEW U, NEW h, Tidied(qf, U, h, Keys, Rows), NEW k \in Keys, FalsePositive(k),
           NEW m, m = queryFilter(k).minirun_rank
    PROVE  /\ Abstract!FalsePositive(k, m + 1)
           /\ m + 1 \in DOMAIN miniruns[minirun_id(k)] /\ m + 1 \in DOMAIN keysByRank[minirun_id(k)]
  <1>. DEFINE f == minirun_id(k)
              x == queryFilter(k).hash_index
  <1>1. /\ Positive(k) /\ phase = "query" /\ k \notin db /\ GInv
        /\ miniruns = Miniruns(qf) /\ keysByRank = KeysByRank(reverseMap)
    BY DEF FalsePositive, RInv
  <1>2. /\ m + 1 \in DOMAIN miniruns[f] /\ m + 1 \in DOMAIN keysByRank[f]
        /\ Abstract!Matches(miniruns[f][m + 1], k)
        /\ \A j \in 1 .. (m + 1) - 1 : ~Abstract!Matches(miniruns[f][j], k)
    BY <1>1, QueryAnswers
  <1>3. Abstract!IsFirstMatch(k, m + 1)
    BY <1>2 DEF Abstract!IsFirstMatch, FpOf
  <1>. QED
    BY <1>1, <1>2, <1>3 DEF Abstract!FalsePositive

\* The auxiliary variables follow the state.
Mirrored == miniruns' = Miniruns(qf)' /\ keysByRank' = KeysByRank(reverseMap)'

\* Steps on a false positive leave the rows alone.
LEMMA RowsStay ==
    ASSUME reverseMap' = reverseMap, db' = db
    PROVE  KeysByRank(reverseMap)' = KeysByRank(reverseMap) /\ (RowsLoaded => RowsLoaded')
  BY DEF KeysByRank, RowsLoaded

\* The item y of rank m in k's minirun is charged.
ChargedTo(k, m, y) ==
    /\ m + 1 \in DOMAIN Miniruns(qf)[minirun_id(k)] /\ Miniruns(qf)[minirun_id(k)][m + 1] = y
    /\ y.count = 1 /\ Twice(y) = [y EXCEPT !.count = @ + 1] /\ Twice(y).ext_len = y.ext_len
    /\ Changed(qf, qf', minirun_id(k), m + 1, Twice(y), qf.noccupied_slots + 1)

\* A charge below break-even is the first to the item of the rank answered.
LEMMA ChargeChanges ==
    ASSUME CountersFit, GInv, RoomLeft, RanksFit, NEW k \in Keys, AdaptCharge(k)
    PROVE  /\ \E y : ChargedTo(k, queryFilter(k).minirun_rank, y)
           /\ 1 < BreakEven
           /\ GInv'
  <1>. DEFINE f == minirun_id(k)
              x == queryFilter(k).hash_index
              m == queryFilter(k).minirun_rank
              info == get_slot_info(qf, x)
              y == ItemAt(qf, x, MaxExt)
  <1>1. /\ qf' = insert_and_extend(qf, x, k, 1, k)
        /\ phase = "query" /\ Positive(k) /\ Policy = "SkiQF" /\ HasRoom /\ FalsePositive(k)
        /\ queryFilter(k).minirun_count < BreakEven
        /\ reverseMap' = reverseMap /\ db' = db /\ phase' = phase
    BY DEF AdaptCharge, FalsePositive
  <1>2. qf' = increment_counter(qf, x, k, 1)
    BY <1>1 DEF insert_and_extend
  <1>3. PICK U, h : Tidied(qf, U, h, Keys, Rows)
    BY DEF GInv, TInv, Tidy
  <1>4. Shaped(qf, U, h) /\ Fits(U) /\ Counted(qf)
    BY <1>3 DEF Tidied
  <1>5. x \in Items(qf, U, h, bucket(k)) /\ x \in U /\ k \in Nat /\ Room(U, bucket(k), 2)
    BY <1>1, <1>4, FoundIs, RoomIs, KeyFacts DEF Items
  <1>6. info.count_len = 0 /\ info.count = 1 /\ BitsPerSlot > 1 /\ 1 < BreakEven
    <2>1. queryFilter(k).minirun_count = info.count /\ info.count = IF info.count_len = 0 THEN 1 ELSE 2
      BY <1>1, <1>3, CountAnswered
    <2>2. info.count_len \in {0, 1}
      BY <1>4, <1>5, CountOf
    <2>3. BreakEven \in Nat /\ BreakEven <= 2 /\ BitsPerSlot > 1
      BY <1>1, SlotFilterAssumption DEF CountersFit
    <2>. DEFINE c == info.count
                n == queryFilter(k).minirun_count
                l == info.count_len
    <2>4. n = c /\ c = (IF l = 0 THEN 1 ELSE 2) /\ n < BreakEven
      BY <1>1, <2>1
    <2>. HIDE DEF c, n, l
    <2>5. l = 0 /\ c = 1 /\ 1 < BreakEven
      BY <2>3, <2>4
    <2>. QED
      BY <2>3, <2>5 DEF c, l
  <1>7. /\ m + 1 \in DOMAIN Miniruns(qf)[f]
        /\ Miniruns(qf)[f][m + 1] = y
        /\ y.ext_len \in 0 .. MaxExt
        /\ Around(qf, U, h, Keys, CellsOf(qf), MaxExt, x, f, m)
    BY <1>1, <1>3, QueryAnswers
  <1>8. m \in Nat /\ MaxExt \in Nat
    <2>1. m \in Nat
      BY <1>1, <1>4, FoundIs
    <2>. QED
      BY <2>1, MaxExtIs
  <1>9. y.count = 1 /\ Twice(y) = [y EXCEPT !.count = @ + 1] /\ Twice(y).ext_len = y.ext_len
    <2>1. y = [ext_len |-> y.ext_len, count |-> y.count, ext |-> y.ext] /\ y.count = info.count
      BY DEF ItemAt
    <2>. HIDE DEF y, info
    <2>. QED
      BY <1>6, <2>1 DEF Twice
  <1>. HIDE DEF x, m, info, y
  <1>10. Showing(qf', x, Keys, CellsOf(qf), MaxExt, f, m, Twice(y), qf.noccupied_slots + 1)
    <2>1. /\ get_slot_info(qf, x).count_len = 0 /\ BitsPerSlot > 1
          /\ Around(qf, U, h, Keys, CellsOf(qf), MaxExt, x, f, m)
      BY <1>6, <1>7 DEF info
    <2>2. Showing(increment_counter(qf, x, k, 1), x, Keys, CellsOf(qf), MaxExt, f, m,
                  Twice(ItemAt(qf, x, MaxExt)), qf.noccupied_slots + 1)
      BY <1>4, <1>5, <1>8, <2>1, ChargeShows
    <2>. QED
      BY <1>2, <2>2 DEF y
  <1>11. Changed(qf, qf', minirun_id(k), m + 1, Twice(y), qf.noccupied_slots + 1)
    <2>1. /\ m + 1 \in DOMAIN Miniruns(qf)[f] /\ Short(CellsOf(qf))
          /\ Twice(y).ext_len \in 0 .. MaxExt
      BY <1>7, <1>9 DEF GInv
    <2>. QED
      BY <1>8, <1>10, <2>1, MinirunsChange
  <1>12. GInv'
    <2>1. TInv' /\ RowsLoaded'
      BY <1>1, TInvCharge, RowsStay DEF GInv
    <2>2. Short(CellsOf(qf))'
      BY <1>11 DEF Changed
    <2>. QED
      BY <2>1, <2>2 DEF GInv
  <1>13. ChargedTo(k, m, y)
    BY <1>7, <1>9, <1>11 DEF ChargedTo
  <1>14. \E z : ChargedTo(k, queryFilter(k).minirun_rank, z)
    BY <1>13 DEF m
  <1>. QED
    BY <1>6, <1>12, <1>14

\* So it is a charge to that item.
LEMMA ChargeRefines ==
    ASSUME CountersFit, RInv, RoomLeft, RanksFit, Mirrored, NEW k \in Keys, AdaptCharge(k)
    PROVE  /\ Abstract!Charge(k, queryFilter(k).minirun_rank + 1)
           /\ queryFilter(k).minirun_rank + 1 \in DOMAIN miniruns[FpOf[k]]
           /\ RInv'
  <1>. DEFINE f == minirun_id(k)
              m == queryFilter(k).minirun_rank
  <1>1. /\ FalsePositive(k) /\ HasRoom /\ Policy = "SkiQF" /\ phase = "query"
        /\ reverseMap' = reverseMap /\ db' = db /\ phase' = phase
        /\ GInv /\ miniruns = Miniruns(qf) /\ keysByRank = KeysByRank(reverseMap)
    BY DEF AdaptCharge, FalsePositive, RInv
  <1>2. PICK y : ChargedTo(k, m, y)
    BY <1>1, ChargeChanges
  <1>3. 1 < BreakEven /\ GInv'
    BY <1>1, ChargeChanges
  <1>4. keysByRank' = keysByRank
    BY <1>1, RowsStay DEF Mirrored
  <1>5. RInv'
    BY <1>3 DEF RInv, Mirrored
  <1>6. Abstract!FalsePositive(k, m + 1)
    <2>1. PICK U, h : Tidied(qf, U, h, Keys, Rows)
      BY <1>1 DEF GInv, TInv, Tidy
    <2>. QED
      BY <1>1, <2>1, QueryRefines
  <1>. HIDE DEF m
  <1>7. FpOf[k] = f
    BY DEF FpOf
  <1>8. /\ miniruns' = [miniruns EXCEPT ![f][m + 1] = Abstract!Charged(@)]
        /\ qf'.noccupied_slots = qf.noccupied_slots + 1
        /\ m + 1 \in DOMAIN miniruns[f] /\ miniruns[f][m + 1].count < BreakEven
    <2>1. /\ Miniruns(qf') = [Miniruns(qf) EXCEPT ![f][m + 1] = Twice(y)]
          /\ qf'.noccupied_slots = qf.noccupied_slots + 1
          /\ m + 1 \in DOMAIN Miniruns(qf)[f] /\ Miniruns(qf)[f][m + 1] = y
          /\ y.count = 1 /\ Twice(y) = [y EXCEPT !.count = @ + 1]
      BY <1>2 DEF ChargedTo, Changed
    <2>2. miniruns' = [miniruns EXCEPT ![f][m + 1] = Twice(y)]
      BY <1>1, <2>1 DEF Mirrored
    <2>3. Twice(y) = Abstract!Charged(miniruns[f][m + 1]) /\ miniruns[f][m + 1].count < BreakEven
      BY <1>1, <1>3, <2>1 DEF Abstract!Charged
    <2>. QED
      BY <1>1, <2>1, <2>2, <2>3
  <1>9. Abstract!MayCharge
    BY <1>1 DEF HasRoom, Abstract!MayCharge
  <1>10. Abstract!Charge(k, m + 1)
    BY <1>1, <1>4, <1>6, <1>7, <1>8, <1>9 DEF Abstract!Charge
  <1>. QED
    BY <1>5, <1>7, <1>8, <1>10 DEF m

\* Keys are hashes of HashBits bits.
LEMMA KeyBelow ==
    ASSUME NEW k \in Keys
    PROVE  k \in Nat /\ k < 2 ^ HashBits
  <1>. DEFINE P == 2 ^ HashBits
  <1>1. HashBits \in Nat
    BY GQFAssumption
  <1>2. P \in Nat \ {0}
    BY <1>1, PowerOfTwo
  <1>3. k \in 0 .. P - 1
    BY SlotFilterAssumption
  <1>. HIDE DEF P
  <1>4. k \in Nat /\ k < P
    BY <1>2, <1>3
  <1>. QED
    BY <1>4 DEF P

\* The item made longer by a key's chunks is the item extended.
LEMMA LongExtended ==
    ASSUME NEW y, NEW orig \in Keys, NEW j \in Nat
    PROVE  Long(y, orig, j, MaxExt) = Abstract!Extended(y, orig, y.ext_len + j)
  <1>1. \A i \in 1 .. MaxExt : ChunkOf[orig][i] = chunk(orig, i - 1)
    BY DEF ChunkOf
  <1>. QED
    BY <1>1 DEF Long, Abstract!Extended

\* The item that is shown, as the record that AdaptiveFilter has of it.
LEMMA ItemShown ==
    ASSUME NEW U, NEW h, Tidied(qf, U, h, Keys, Rows), NEW x \in U,
           NEW info, info = get_slot_info(qf, x), NEW y, y = ItemAt(qf, x, MaxExt)
    PROVE  /\ y.ext_len = info.ext_len /\ info.ext_len \in Nat /\ y.count = info.count
           /\ info.count_len = Abstract!CounterSlots(y) /\ info.count_len \in {0, 1}
  <1>1. /\ info.ext_len \in Nat /\ info.count_len \in {0, 1}
        /\ info.count = IF info.count_len = 0 THEN 1 ELSE 2
    BY CountOf DEF Tidied
  <1>2. y.ext_len = info.ext_len /\ y.count = info.count
    BY DEF ItemAt
  <1>3. Abstract!CounterSlots(y) = IF info.count > 1 THEN 1 ELSE 0
    BY <1>2 DEF Abstract!CounterSlots
  <1>. QED
    BY <1>1, <1>2, <1>3

\* Where an extension stops is where AdaptiveFilter's would.
LEMMA RoundsRefine ==
    ASSUME NEW U, NEW h, Tidied(qf, U, h, Keys, Rows), NEW x \in U, NEW k \in Keys, NEW orig \in Keys,
           orig # k, minirun_id(orig) = minirun_id(k), Carries(qf, x, orig), Extends(qf, k, x),
           NEW info, info = get_slot_info(qf, x), NEW y, y = ItemAt(qf, x, MaxExt), y.ext_len \in 0 .. MaxExt,
           NEW n, n = y.ext_len + Rounds(info, orig, k)
    PROVE  Abstract!Separates(y, orig, k, n)
  <1>1. Shaped(qf, U, h) /\ Fits(U) /\ Counted(qf)
    BY DEF Tidied
  <1>2. /\ orig \in Nat /\ orig < 2 ^ HashBits /\ k \in Nat /\ k < 2 ^ HashBits
        /\ MaxExt = HashChunks /\ MaxExt \in Nat
    BY KeyBelow, MaxExtIs
  <1>3. y.ext_len = info.ext_len /\ info.ext_len \in Nat
    BY ItemShown
  <1>4. \A d \in 0 .. y.ext_len - 1 : chunk(k, d) = chunk(orig, d)
    <2>1. y.ext_len <= MaxExt
      BY <1>2
    <2>. QED
      BY <1>1, <1>2, <2>1, MatchesExtends
  <1>5. FirstApart(orig, k, info.ext_len, info.ext_len + Rounds(info, orig, k))
    <2>1. \A d \in 0 .. info.ext_len - 1 : chunk(orig, d) = chunk(k, d)
      BY <1>3, <1>4
    <2>. QED
      BY <1>2, <1>3, <2>1, RoundsIs
  <1>6. FirstApart(orig, k, y.ext_len, n)
    BY <1>3, <1>5
  <1>. DEFINE l == y.ext_len
  <1>7. /\ n \in l + 1 .. MaxExt /\ l \in Nat
        /\ chunk(orig, n - 1) # chunk(k, n - 1)
        /\ \A j \in l + 1 .. n - 1 : chunk(orig, j - 1) = chunk(k, j - 1)
    BY <1>2, <1>3, <1>6 DEF FirstApart
  <1>8. \A i \in 1 .. MaxExt : ChunkOf[orig][i] = chunk(orig, i - 1) /\ ChunkOf[k][i] = chunk(k, i - 1)
    BY DEF ChunkOf
  <1>9. n \in 1 .. MaxExt /\ \A j \in l + 1 .. n - 1 : j \in 1 .. MaxExt
    <2>. HIDE DEF l
    <2>. QED
      BY <1>2, <1>7
  <1>. QED
    BY <1>7, <1>8, <1>9 DEF Abstract!Separates

\* The item y of rank m in k's minirun, which is filed with orig, now has l of
\* the n chunks that tell orig and k apart.
ExtendedTo(k, m, y, orig, l, n) ==
    /\ m + 1 \in DOMAIN Miniruns(qf)[minirun_id(k)] /\ Miniruns(qf)[minirun_id(k)][m + 1] = y
    /\ m + 1 \in DOMAIN KeysByRank(reverseMap)[minirun_id(k)]
    /\ KeysByRank(reverseMap)[minirun_id(k)][m + 1] = orig
    /\ y.ext_len \in Nat /\ y.count = queryFilter(k).minirun_count
    /\ Abstract!Separates(y, orig, k, n) /\ n \in 1 .. MaxExt /\ l \in y.ext_len + 1 .. n
    /\ Changed(qf, qf', minirun_id(k), m + 1, Abstract!Extended(y, orig, l),
               qf.noccupied_slots + (l - y.ext_len) - Abstract!CounterSlots(y))

\* An extension is of the item of the rank answered, by chunks of the key that is
\* filed with it, up to the first one that differs, or fewer.
LEMMA ExtendChanges ==
    ASSUME CountersFit, GInv, RoomLeft, RanksFit, NEW k \in Keys, AdaptExtend(k)
    PROVE  /\ \E y, orig, l, n : ExtendedTo(k, queryFilter(k).minirun_rank, y, orig, l, n)
           /\ GInv'
  <1>. DEFINE f == minirun_id(k)
              x == queryFilter(k).hash_index
              m == queryFilter(k).minirun_rank
              info == get_slot_info(qf, x)
              y == ItemAt(qf, x, MaxExt)
  <1>1. /\ FalsePositive(k) /\ HasRoom /\ Policy # "NonAdaptive" /\ phase = "query" /\ Positive(k)
        /\ Policy = "SkiQF" => queryFilter(k).minirun_count >= BreakEven
        /\ reverseMap' = reverseMap /\ db' = db /\ phase' = phase
    BY DEF AdaptExtend, FalsePositive
  <1>2. PICK U, h : Tidied(qf, U, h, Keys, Rows)
    BY DEF GInv, TInv, Tidy
  <1>3. Shaped(qf, U, h) /\ Fits(U) /\ Counted(qf)
    BY <1>2 DEF Tidied
  <1>4. /\ x \in Items(qf, U, h, bucket(k)) /\ x \in U /\ k \in Nat /\ bucket(k) \in Nat
        /\ m \in Nat /\ MaxExt \in Nat
    BY <1>1, <1>3, FoundIs, KeyFacts, BucketType, MaxExtIs DEF Items
  <1>5. HasSpace(qf, x + info.ext_len + 1)
    BY <1>3, <1>4, CounterHasSpace
  <1>6. queryFilter(k).minirun_count = info.count
    BY <1>1, <1>2, CountAnswered
  <1>7. Extends(qf, k, x) /\ x = queryFilter(k).hash_index /\ m = queryFilter(k).minirun_rank
    BY <1>1, <1>2, QueryRank
  <1>. HIDE DEF x, m
  <1>8. PICK orig \in Nat : /\ orig = Rows[k][m] /\ orig \in Keys /\ orig # k /\ minirun_id(orig) = f
                            /\ qf' = adapt(qf, x, bucket(k), orig, k)
    BY <1>2, <1>7, ExtendsFound DEF GInv
  <1>9. /\ m + 1 \in DOMAIN Miniruns(qf)[f] /\ m + 1 \in DOMAIN KeysByRank(reverseMap)[f]
        /\ Miniruns(qf)[f][m + 1] = y /\ KeysByRank(reverseMap)[f][m + 1] = orig
        /\ y.ext_len \in 0 .. MaxExt
        /\ Around(qf, U, h, Keys, CellsOf(qf), MaxExt, x, f, m)
        /\ Carries(qf, x, orig)
    BY <1>1, <1>2, <1>7, <1>8, QueryAnswers
  <1>10. /\ y.ext_len = info.ext_len /\ info.ext_len \in Nat /\ y.count = info.count
         /\ info.count_len = Abstract!CounterSlots(y) /\ info.count_len \in {0, 1}
    BY <1>2, <1>4, ItemShown
  <1>11. Abstract!Separates(y, orig, k, y.ext_len + Rounds(info, orig, k))
    BY <1>2, <1>4, <1>7, <1>8, <1>9, RoundsRefine
  <1>12. PICK j \in 1 .. Rounds(info, orig, k) :
            Showing(qf', x, Keys, CellsOf(qf), MaxExt, f, m, Long(y, orig, j, MaxExt),
                    qf.noccupied_slots + j - info.count_len)
    <2>. DEFINE new == qf'
                C == CellsOf(qf)
                b == bucket(k)
    <2>1. /\ Shaped(qf, U, h) /\ Fits(U) /\ Counted(qf)
          /\ b \in Nat /\ x \in Items(qf, U, h, b) /\ MaxExt \in Nat
          /\ info = get_slot_info(qf, x) /\ HasSpace(qf, x + info.ext_len + 1)
          /\ Around(qf, U, h, Keys, C, MaxExt, x, f, m)
          /\ orig \in Nat /\ k \in Nat /\ new = adapt(qf, x, b, orig, k)
      BY <1>3, <1>4, <1>5, <1>8, <1>9
    <2>. HIDE DEF info, new, C, b, f
    <2>2. ShowingLong(new, x, Keys, C, MaxExt, f, m, y, orig, Rounds(info, orig, k),
                      qf.noccupied_slots, info.count_len)
      BY <2>1, AdaptShows
    <2>. QED
      BY <2>2 DEF new, C, ShowingLong
  <1>. DEFINE l == y.ext_len
              R == Rounds(info, orig, k)
              n == l + R
              z == Long(y, orig, j, MaxExt)
              used == qf.noccupied_slots
              c == info.count_len
  <1>13. /\ l \in Nat /\ j \in Nat /\ 1 <= j /\ n \in l + 1 .. MaxExt
         /\ R \in Nat /\ l + j <= n /\ (j < R => l + j \in l + 1 .. n - 1)
         /\ (l + j) - l = j /\ (j = R => l + j = n) /\ j <= R
    <2>1. n \in l + 1 .. MaxExt
      BY <1>11 DEF Abstract!Separates
    <2>2. l \in Nat /\ j \in 1 .. R
      BY <1>9, <1>10, <1>12
    <2>3. R \in Nat
      BY <1>10, RoundsType
    <2>. HIDE DEF l, R
    <2>. QED
      BY <1>4, <2>1, <2>2, <2>3
  <1>14. z.ext_len \in 0 .. MaxExt /\ z = Abstract!Extended(y, orig, l + j)
    <2>1. z = Abstract!Extended(y, orig, l + j) /\ z.ext_len = l + j
      BY <1>8, <1>13, LongExtended DEF Long
    <2>. HIDE DEF l, z, R
    <2>. QED
      BY <1>4, <1>13, <2>1
  <1>15. Changed(qf, qf', minirun_id(k), m + 1, z, used + j - c)
    <2>1. m + 1 \in DOMAIN Miniruns(qf)[minirun_id(k)] /\ Short(CellsOf(qf))
      BY <1>9 DEF GInv
    <2>2. Showing(qf', x, Keys, CellsOf(qf), MaxExt, minirun_id(k), m, z, used + j - c)
      BY <1>12
    <2>. HIDE DEF z
    <2>. QED
      BY <1>4, <1>14, <2>1, <2>2, MinirunsChange
  <1>16. GInv'
    <2>1. TInv' /\ RowsLoaded'
      BY <1>1, TInvExtend, RowsStay DEF GInv
    <2>2. Short(CellsOf(qf))'
      BY <1>15 DEF Changed
    <2>. QED
      BY <2>1, <2>2 DEF GInv
  <1>17. y.count = queryFilter(k).minirun_count
    BY <1>6, <1>10
  <1>18. n \in 1 .. MaxExt /\ l + j \in l + 1 .. n
    <2>. HIDE DEF l, R, n
    <2>. QED
      BY <1>4, <1>13
  <1>19. Changed(qf, qf', minirun_id(k), m + 1, Abstract!Extended(y, orig, l + j),
                 used + ((l + j) - l) - Abstract!CounterSlots(y))
    <2>1. c = Abstract!CounterSlots(y) /\ (l + j) - l = j
      BY <1>10, <1>13
    <2>. HIDE DEF z, c, l, used, y
    <2>. QED
      BY <1>14, <1>15, <2>1
  <1>20. /\ m + 1 \in DOMAIN Miniruns(qf)[f] /\ m + 1 \in DOMAIN KeysByRank(reverseMap)[f]
         /\ Miniruns(qf)[f][m + 1] = y /\ KeysByRank(reverseMap)[f][m + 1] = orig
         /\ Abstract!Separates(y, orig, k, n)
    BY <1>9, <1>11
  <1>21. l \in Nat
    BY <1>13
  <1>. HIDE DEF y, n, info, c
  <1>22. ExtendedTo(k, m, y, orig, l + j, n)
    BY <1>17, <1>18, <1>19, <1>20, <1>21 DEF ExtendedTo, l, used
  <1>23. ExtendedTo(k, queryFilter(k).minirun_rank, y, orig, l + j, n)
    BY <1>22 DEF m
  <1>. QED
    BY <1>16, <1>23

\* So it is an adaptation of that item, or one that runs out of slots.
LEMMA ExtendRefines ==
    ASSUME CountersFit, RInv, RoomLeft, RanksFit, Mirrored, NEW k \in Keys, AdaptExtend(k),
           NEW i, i = queryFilter(k).minirun_rank + 1
    PROVE  /\ i \in DOMAIN miniruns[FpOf[k]]
           /\ \E n \in 1 .. MaxExt : \/ Abstract!Adapt(k, i, n)
                                     \/ \E s \in 1 .. n - 1 : Abstract!AdaptNoSpace(k, i, n, s)
           /\ RInv'
  <1>. DEFINE f == minirun_id(k)
              m == queryFilter(k).minirun_rank
  <1>1. /\ FalsePositive(k) /\ HasRoom /\ Policy # "NonAdaptive" /\ phase = "query"
        /\ Policy = "SkiQF" => queryFilter(k).minirun_count >= BreakEven
        /\ reverseMap' = reverseMap /\ db' = db /\ phase' = phase
        /\ GInv /\ miniruns = Miniruns(qf) /\ keysByRank = KeysByRank(reverseMap)
    BY DEF AdaptExtend, FalsePositive, RInv
  <1>2. PICK y, orig, l, n : ExtendedTo(k, m, y, orig, l, n)
    BY <1>1, ExtendChanges
  <1>3. GInv'
    BY <1>1, ExtendChanges
  <1>4. keysByRank' = keysByRank
    BY <1>1, RowsStay DEF Mirrored
  <1>5. RInv'
    BY <1>3 DEF RInv, Mirrored
  <1>6. Abstract!FalsePositive(k, m + 1)
    <2>1. PICK U, h : Tidied(qf, U, h, Keys, Rows)
      BY <1>1 DEF GInv, TInv, Tidy
    <2>. QED
      BY <1>1, <2>1, QueryRefines
  <1>7. Abstract!MayAdapt(y)
    <2>1. y.count = queryFilter(k).minirun_count
      BY <1>2 DEF ExtendedTo
    <2>. QED
      BY <1>1, <2>1 DEF HasRoom, Abstract!MayAdapt, Abstract!MayCharge
  <1>. HIDE DEF m
  <1>8. FpOf[k] = f /\ i = m + 1
    BY DEF FpOf, m
  <1>9. /\ i \in DOMAIN miniruns[f] /\ miniruns[f][i] = y
        /\ i \in DOMAIN keysByRank[f] /\ keysByRank[f][i] = orig
        /\ y.ext_len \in Nat /\ Abstract!Separates(y, orig, k, n) /\ n \in 1 .. MaxExt
        /\ l \in y.ext_len + 1 .. n
        /\ miniruns' = [miniruns EXCEPT ![f][i] = Abstract!Extended(y, orig, l)]
        /\ qf'.noccupied_slots = qf.noccupied_slots + (l - y.ext_len) - Abstract!CounterSlots(y)
    BY <1>1, <1>2, <1>8 DEF ExtendedTo, Changed, Mirrored
  <1>10. UNCHANGED <<keysByRank, db, IF phase = "aborted" THEN "load" ELSE phase>>
    BY <1>1, <1>4
  <1>11. CASE l = n
    <2>1. Abstract!Adapt(k, i, n)
      BY <1>6, <1>7, <1>8, <1>9, <1>10, <1>11 DEF Abstract!Adapt
    <2>. QED
      BY <1>5, <1>8, <1>9, <2>1
  <1>12. CASE l # n
    <2>1. l \in y.ext_len + 1 .. n - 1 /\ l \in 1 .. n - 1
      BY <1>9, <1>12
    <2>2. Abstract!AdaptNoSpace(k, i, n, l)
      BY <1>6, <1>7, <1>8, <1>9, <1>10, <2>1 DEF Abstract!AdaptNoSpace
    <2>. QED
      BY <1>5, <1>8, <1>9, <2>1, <2>2
  <1>. QED
    BY <1>11, <1>12

\* A sequence with one more element in front.
LEMMA FrontIs ==
    ASSUME NEW n \in Nat, NEW s, s = [i \in 1 .. n |-> s[i]], NEW y
    PROVE  <<y>> \o s = [i \in 1 .. n + 1 |-> IF i = 1 THEN y ELSE s[i - 1]]
  <1>. DEFINE S == {y} \cup {s[i] : i \in 1 .. n}
              t == <<y>>
  <1>1. s \in Seq(S) /\ Len(s) = n /\ t \in Seq(S) /\ Len(t) = 1 /\ t[1] = y
    <2>1. s \in [1 .. n -> S]
      OBVIOUS
    <2>2. y \in S
      OBVIOUS
    <2>. HIDE DEF S
    <2>3. s \in Seq(S) /\ Len(s) = n
      BY <2>1
    <2>. QED
      BY <2>2, <2>3
  <1>. DEFINE v == t \o s
  <1>. HIDE DEF S, t
  <1>2. /\ v \in Seq(S) /\ Len(v) = Len(t) + Len(s)
        /\ \A i \in 1 .. Len(t) + Len(s) : v[i] = IF i <= Len(t) THEN t[i] ELSE s[i - Len(t)]
    BY <1>1, ConcatProperties
  <1>. HIDE DEF v
  <1>3. v = [i \in 1 .. Len(v) |-> v[i]] /\ Len(v) = n + 1
    BY <1>1, <1>2
  <1>4. ASSUME NEW i \in 1 .. n + 1 PROVE v[i] = IF i = 1 THEN y ELSE s[i - 1]
    <2>1. i \in 1 .. Len(t) + Len(s) /\ i - Len(t) = i - 1 /\ (i <= Len(t) <=> i = 1)
      BY <1>1
    <2>2. v[i] = IF i <= Len(t) THEN t[i] ELSE s[i - Len(t)]
      BY <1>2, <2>1
    <2>. QED
      BY <1>1, <2>1, <2>2
  <1>5. v = [i \in 1 .. n + 1 |-> IF i = 1 THEN y ELSE s[i - 1]]
    BY <1>3, <1>4
  <1>. QED
    BY <1>5 DEF t, v

\* And behind.
LEMMA BackIs ==
    ASSUME NEW n \in Nat, NEW s, s = [i \in 1 .. n |-> s[i]], NEW y
    PROVE  Append(s, y) = [i \in 1 .. n + 1 |-> IF i = n + 1 THEN y ELSE s[i]]
  <1>. DEFINE S == {y} \cup {s[i] : i \in 1 .. n}
  <1>1. s \in Seq(S) /\ Len(s) = n /\ y \in S
    <2>1. s \in [1 .. n -> S] /\ y \in S
      OBVIOUS
    <2>. HIDE DEF S
    <2>. QED
      BY <2>1
  <1>. HIDE DEF S
  <1>2. Append(s, y) = [i \in 1 .. n + 1 |-> IF i = n + 1 THEN y ELSE s[i]]
    BY <1>1
  <1>. QED
    BY <1>2

\* The minirun of a filter in which nothing is extended.
LEMMA PlainMinirun ==
    ASSUME NEW q, NEW U, NEW h, Shaped(q, U, h), Fits(U), q.extensions = {}, NEW k \in Keys,
           NEW n, NEW e, Lists(e, n, Minirun(q, U, h, k))
    PROVE  Miniruns(q)[minirun_id(k)] = [i \in 1 .. n |-> Plain(MaxExt)] /\ n \in Nat
  <1>. DEFINE f == minirun_id(k)
              at == MinirunSlots(q, f)
  <1>1. k \in Nat /\ f \in Fps /\ n \in Nat /\ MaxExt \in Nat
    BY KeyFacts, MaxExtIs DEF Lists
  <1>2. at = [i \in 1 .. n |-> e[i - 1]]
    BY <1>1, SlotsListed
  <1>3. Miniruns(q)[f] = [i \in DOMAIN at |-> Item(q, at[i])]
    BY <1>1 DEF Miniruns
  <1>. HIDE DEF at
  <1>4. ASSUME NEW i \in 1 .. n PROVE Item(q, at[i]) = Plain(MaxExt)
    <2>1. i - 1 \in 0 .. n - 1 /\ at[i] = e[i - 1]
      BY <1>1, <1>2
    <2>2. e[i - 1] \in U
      BY <2>1, MinirunType DEF Lists
    <2>3. ItemAt(q, e[i - 1], MaxExt) = Plain(MaxExt)
      BY <1>1, <2>2, ItemPlain
    <2>4. Item(q, at[i]) = ItemAt(q, at[i], MaxExt)
      BY DEF Item, ItemAt
    <2>. QED
      BY <2>1, <2>3, <2>4
  <1>5. DOMAIN at = 1 .. n
    BY <1>2
  <1>. QED
    BY <1>1, <1>3, <1>4, <1>5

\* A row as a sequence.
LEMMA KeysRow ==
    ASSUME NEW map, NEW f \in Fps, NEW n \in Nat, DOMAIN map[f] = 0 .. n - 1
    PROVE  KeysByRank(map)[f] = [i \in 1 .. n |-> map[f][i - 1]]
  <1>. DEFINE row == map[f]
  <1>1. KeysByRank(map)[f] = [i \in 1 .. Cardinality(DOMAIN row) |->
                                IF i - 1 \in DOMAIN row THEN row[i - 1] ELSE NoKey]
    BY DEF KeysByRank
  <1>2. Cardinality(DOMAIN row) = n
    <2>1. Cardinality(0 .. n - 1) = IF 0 > n - 1 THEN 0 ELSE (n - 1) - 0 + 1
      BY FS_Interval
    <2>2. Cardinality(0 .. n - 1) = n
      BY <2>1
    <2>. QED
      BY <2>2
  <1>3. \A i \in 1 .. n : i - 1 \in DOMAIN row
    OBVIOUS
  <1>. HIDE DEF row
  <1>4. KeysByRank(map)[f] = [i \in 1 .. n |-> row[i - 1]]
    BY <1>1, <1>2, <1>3
  <1>. QED
    BY <1>4 DEF row

\* What is filed for a key is one more element of the sequence, in front or
\* behind.
LEMMA KeysGrow ==
    ASSUME NEW map, NEW new, NEW f \in Fps, NEW n \in Nat, DOMAIN map[f] = 0 .. n - 1, NEW key,
           new[f] = insertFingerprint(map[f], n, key)
    PROVE  KeysByRank(new)[f] = IF MapKind = "SplinterDB" THEN <<key>> \o KeysByRank(map)[f]
                                ELSE Append(KeysByRank(map)[f], key)
  <1>. DEFINE s == KeysByRank(map)[f]
              row == map[f]
              row2 == new[f]
  <1>1. s = [i \in 1 .. n |-> row[i - 1]]
    BY KeysRow
  <1>2. Cardinality(DOMAIN row) = n
    <2>1. Cardinality(0 .. n - 1) = IF 0 > n - 1 THEN 0 ELSE (n - 1) - 0 + 1
      BY FS_Interval
    <2>2. Cardinality(0 .. n - 1) = n
      BY <2>1
    <2>. QED
      BY <2>2
  <1>3. DOMAIN row = 0 .. n - 1 /\ row2 = insertFingerprint(row, n, key)
    OBVIOUS
  <1>. HIDE DEF row
  <1>4. row2 = [r \in 0 .. n |-> IF MapKind = "WiredTiger" THEN (IF r = n THEN key ELSE row[r])
                                 ELSE IF r = 0 THEN key ELSE row[r - 1]]
    <2>1. CASE MapKind = "WiredTiger"
      <3>1. 0 .. n = (0 .. n - 1) \cup {n}
        OBVIOUS
      <3>2. row2 = [r \in 0 .. n |-> IF r = n THEN key ELSE row[r]]
        BY <1>3, <2>1, <3>1 DEF insertFingerprint
      <3>. HIDE DEF row2
      <3>. QED
        BY <2>1, <3>2
    <2>2. CASE MapKind # "WiredTiger"
      <3>1. (IF n > 0 THEN 0 .. Cardinality(DOMAIN row) ELSE {0}) = 0 .. n
        <4>1. n > 0 \/ n = 0
          OBVIOUS
        <4>2. 0 .. 0 = {0}
          OBVIOUS
        <4>. QED
          BY <1>2, <4>1, <4>2
      <3>2. row2 = [r \in 0 .. n |-> IF r = 0 THEN key ELSE row[r - 1]]
        BY <1>3, <2>2, <3>1 DEF insertFingerprint
      <3>. HIDE DEF row2
      <3>. QED
        BY <2>2, <3>2
    <2>. QED
      BY <2>1, <2>2
  <1>5. KeysByRank(new)[f] = [i \in 1 .. n + 1 |-> row2[i - 1]]
    <2>1. n + 1 \in Nat /\ DOMAIN new[f] = 0 .. (n + 1) - 1
      BY <1>4
    <2>. QED
      BY <2>1, KeysRow
  <1>. HIDE DEF s, row2
  <1>6. s = [i \in 1 .. n |-> s[i]]
    BY <1>1
  <1>7. CASE MapKind = "SplinterDB"
    <2>1. <<key>> \o s = [i \in 1 .. n + 1 |-> IF i = 1 THEN key ELSE s[i - 1]]
      BY <1>6, FrontIs
    <2>2. ASSUME NEW i \in 1 .. n + 1 PROVE row2[i - 1] = IF i = 1 THEN key ELSE s[i - 1]
      <3>1. i - 1 \in 0 .. n /\ (i - 1 = 0 <=> i = 1) /\ (i # 1 => i - 1 \in 1 .. n)
        OBVIOUS
      <3>2. row2[i - 1] = IF i - 1 = 0 THEN key ELSE row[(i - 1) - 1]
        BY <1>4, <1>7, <3>1
      <3>3. i # 1 => s[i - 1] = row[(i - 1) - 1]
        BY <1>1, <3>1
      <3>. QED
        BY <3>1, <3>2, <3>3
    <2>. QED
      BY <1>5, <1>7, <2>1, <2>2 DEF s
  <1>8. CASE MapKind # "SplinterDB"
    <2>1. Append(s, key) = [i \in 1 .. n + 1 |-> IF i = n + 1 THEN key ELSE s[i]]
      BY <1>6, BackIs
    <2>2. MapKind = "WiredTiger"
      BY <1>8, SlotFilterAssumption
    <2>3. ASSUME NEW i \in 1 .. n + 1 PROVE row2[i - 1] = IF i = n + 1 THEN key ELSE s[i]
      <3>1. i - 1 \in 0 .. n /\ (i - 1 = n <=> i = n + 1) /\ (i # n + 1 => i \in 1 .. n)
        OBVIOUS
      <3>2. row2[i - 1] = IF i - 1 = n THEN key ELSE row[i - 1]
        BY <1>4, <2>2, <3>1
      <3>3. i # n + 1 => s[i] = row[i - 1]
        BY <1>1, <3>1
      <3>. QED
        BY <3>1, <3>2, <3>3
    <2>. QED
      BY <1>5, <1>8, <2>1, <2>3 DEF s
  <1>. QED
    BY <1>7, <1>8 DEF s

\* Below the load limit of the code is below that of AdaptiveFilter.
LEMMA BelowLimit ==
    ASSUME NEW q, q.noccupied_slots \in Nat, q.noccupied_slots < NumKeys, ~AtLoadLimit(q)
    PROVE  q.noccupied_slots < LoadLimit
  <1>. DEFINE u == q.noccupied_slots
              B == 95 * nslots + 99
              b == B \div 100
  <1>1. nslots \in Nat /\ NumKeys \in Nat /\ u \in Nat
    <2>1. nslots \in Nat
      BY GQFAssumption, PowerOfTwo DEF nslots
    <2>. QED
      BY <2>1, SlotFilterAssumption
  <1>2. 100 * u < 95 * nslots
    BY <1>1 DEF AtLoadLimit
  <1>3. u < b /\ b \in Nat
    BY <1>1, <1>2
  <1>. HIDE DEF u, b
  <1>4. Min({NumKeys, b}) = IF NumKeys <= b THEN NumKeys ELSE b
    BY <1>1, <1>3, MinMaxOfTwo
  <1>5. u < NumKeys
    BY DEF u
  <1>. QED
    BY <1>1, <1>3, <1>4, <1>5 DEF LoadLimit, u, b

\* new has the miniruns of q, and a plain item in front of those of fingerprint f.
Enlarged(q, new, f) ==
    /\ Miniruns(new) = [Miniruns(q) EXCEPT ![f] = <<Plain(MaxExt)>> \o @]
    /\ Short(CellsOf(new))
    /\ new.noccupied_slots = q.noccupied_slots + 1
    /\ q.noccupied_slots \in Nat

\* A load puts a plain item in front of those of its key's minirun.
LEMMA LoadGrows ==
    ASSUME NEW q, NEW new, NEW U, NEW h, Shaped(q, U, h), Fits(U), q.extensions = {},
           NEW k \in Keys, Entered(q, U, h, k, new),
           NEW rows, \A j \in Keys : Filed(q, U, h, j, rows[j])
    PROVE  Enlarged(q, new, minirun_id(k))
  <1>. DEFINE f == minirun_id(k)
              p == Plain(MaxExt)
              A == Miniruns(q)
              B == Miniruns(new)
  <1>1. PICK at, u, g : /\ PutIn(q, U, h, at, u, bucket(k), remainder(k), new, g)
                        /\ Fits(U \cup {u}) /\ new.extensions = {}
                        /\ Splits(q, U, h, bucket(k), at, remainder(k))
    BY DEF Entered
  <1>2. Shaped(new, U \cup {u}, g)
    BY <1>1 DEF PutIn
  <1>3. k \in Nat /\ f \in Fps
    BY KeyFacts
  <1>4. new.noccupied_slots = q.noccupied_slots + 1
    BY <1>1, CountersPut
  <1>5. q.noccupied_slots \in Nat
    BY DEF Shaped, Filters
  <1>6. ASSUME NEW j \in Keys
        PROVE  \E n \in Nat : /\ A[minirun_id(j)] = [i \in 1 .. n |-> p]
                              /\ B[minirun_id(j)] = [i \in 1 .. (IF minirun_id(j) = f THEN n + 1 ELSE n) |-> p]
    <2>1. PICK n, e : Lists(e, n, Minirun(q, U, h, j))
      BY DEF Filed
    <2>2. j \in Nat
      BY KeyFacts
    <2>3. PICK d : Lists(d, IF minirun_id(j) = minirun_id(k) THEN n + 1 ELSE n, Minirun(new, U \cup {u}, g, j))
      BY <1>1, <1>3, <2>1, <2>2, EnteredLists
    <2>. DEFINE m == IF minirun_id(j) = f THEN n + 1 ELSE n
    <2>4. A[minirun_id(j)] = [i \in 1 .. n |-> p] /\ n \in Nat
      BY <2>1, PlainMinirun
    <2>5. Lists(d, m, Minirun(new, U \cup {u}, g, j))
      BY <2>3
    <2>. HIDE DEF m
    <2>6. B[minirun_id(j)] = [i \in 1 .. m |-> p]
      BY <1>1, <1>2, <2>5, PlainMinirun
    <2>. QED
      BY <2>4, <2>6 DEF m
  <1>7. /\ A = [c \in Fps |-> A[c]] /\ B = [c \in Fps |-> B[c]]
        /\ \A c \in Fps : \E j \in Keys : minirun_id(j) = c
    BY DEF Miniruns, Fps
  <1>8. p.ext_len = 0 /\ 0 \in 0 .. MaxExt
    BY MaxExtIs DEF Plain
  <1>9. Short(CellsOf(new))
    <2>. HIDE DEF p, B
    <2>1. ASSUME NEW j \in Keys, NEW i \in DOMAIN CellsOf(new)[j]
          PROVE  CellsOf(new)[j][i].ext_len \in 0 .. MaxExt
      <3>1. CellsOf(new)[j] = B[minirun_id(j)]
        BY DEF CellsOf, B
      <3>2. PICK m : B[minirun_id(j)] = [c \in 1 .. m |-> p]
        BY <1>6
      <3>3. CellsOf(new)[j][i] = p
        BY <3>1, <3>2
      <3>. QED
        BY <1>8, <3>3
    <2>. QED
      BY <2>1 DEF Short
  <1>. HIDE DEF A, B, p, f
  <1>10. ASSUME NEW c \in Fps, c # f PROVE B[c] = A[c]
    <2>1. PICK j \in Keys : minirun_id(j) = c
      BY <1>7
    <2>2. PICK n \in Nat : /\ A[minirun_id(j)] = [i \in 1 .. n |-> p]
                           /\ B[minirun_id(j)] = [i \in 1 .. (IF minirun_id(j) = f THEN n + 1 ELSE n) |-> p]
      BY <1>6
    <2>. QED
      BY <1>10, <2>1, <2>2
  <1>11. B[f] = <<p>> \o A[f]
    <2>1. PICK j \in Keys : minirun_id(j) = f
      BY DEF f
    <2>2. PICK n \in Nat : A[f] = [i \in 1 .. n |-> p] /\ B[f] = [i \in 1 .. n + 1 |-> p]
      BY <1>6, <2>1
    <2>. DEFINE s == A[f]
    <2>3. s = [i \in 1 .. n |-> s[i]]
      BY <2>2
    <2>. HIDE DEF s
    <2>4. <<p>> \o s = [i \in 1 .. n + 1 |-> IF i = 1 THEN p ELSE s[i - 1]]
      BY <2>3, FrontIs
    <2>5. ASSUME NEW i \in 1 .. n + 1 PROVE p = IF i = 1 THEN p ELSE s[i - 1]
      <3>1. i # 1 => i - 1 \in 1 .. n
        OBVIOUS
      <3>. QED
        BY <2>2, <3>1 DEF s
    <2>6. <<p>> \o s = [i \in 1 .. n + 1 |-> p]
      BY <2>4, <2>5
    <2>. QED
      BY <2>2, <2>6 DEF s
  <1>12. B = [A EXCEPT ![f] = <<p>> \o @]
    BY <1>7, <1>10, <1>11
  <1>. QED
    BY <1>4, <1>5, <1>9, <1>12 DEF Enlarged, A, B, p, f

\* Only what is filed is loaded, and it is filed in its place.
LEMMA LoadRows ==
    ASSUME GInv, RoomLeft, NEW k \in Keys, Load(k)
    PROVE  /\ RowsLoaded'
           /\ KeysByRank(reverseMap)' = [KeysByRank(reverseMap) EXCEPT ![minirun_id(k)] =
                                            IF MapKind = "SplinterDB" THEN <<k>> \o @ ELSE Append(@, k)]
  <1>. DEFINE f == minirun_id(k)
  <1>1. /\ phase = "load" /\ db' = db \cup {k}
        /\ \A g \in Fps : g # f => reverseMap'[g] = reverseMap[g]
        /\ TInv /\ RowsTied /\ qf.extensions = {} /\ RowsLoaded
    BY DEF Load, GInv, TInv, RowsTied
  <1>2. PICK U, h : Tidied(qf, U, h, Keys, Rows)
    BY <1>1 DEF TInv, Tidy
  <1>3. PICK n : /\ n \in Nat /\ DOMAIN Rows[k] = 0 .. n - 1
                 /\ reverseMap'[f] = insertFingerprint(Rows[k], n, k)
    BY <1>1, <1>2, LoadFiles
  <1>4. Rows[k] = reverseMap[f] /\ f \in Fps
    BY KeyFacts, RowsAre
  <1>. DEFINE row == reverseMap'[f]
              map == Rows[k]
  <1>5. \A r \in DOMAIN row : row[r] = k \/ \E s \in DOMAIN map : row[r] = map[s]
    <2>. HIDE DEF row, map
    <2>1. GrownRow(map, n, k, row)
      BY <1>3, RowGrows DEF row, map
    <2>2. DOMAIN map = 0 .. n - 1
      BY <1>3 DEF map
    <2>. QED
      BY <2>1, <2>2 DEF GrownRow
  <1>6. RowsLoaded'
    <2>1. ASSUME NEW g \in Fps, NEW r \in DOMAIN reverseMap'[g] PROVE reverseMap'[g][r] \in db'
      <3>1. CASE g # f
        <4>1. reverseMap[g][r] \in db
          BY <1>1, <2>1, <3>1 DEF RowsLoaded
        <4>. QED
          BY <1>1, <3>1, <4>1
      <3>2. CASE g = f
        <4>1. \A s \in DOMAIN map : map[s] \in db
          BY <1>1, <1>4 DEF RowsLoaded
        <4>. QED
          BY <1>1, <1>5, <2>1, <3>2, <4>1
      <3>. QED
        BY <3>1, <3>2
    <2>. QED
      BY <2>1 DEF RowsLoaded
  <1>. DEFINE A == KeysByRank(reverseMap)
              map2 == reverseMap'
              B == KeysByRank(map2)
  <1>7. KeysByRank(reverseMap)' = B
    BY DEF KeysByRank
  <1>8. A = [g \in Fps |-> A[g]] /\ B = [g \in Fps |-> B[g]]
    BY DEF KeysByRank
  <1>9. \A g \in Fps : g # f => B[g] = A[g]
    BY <1>1 DEF KeysByRank
  <1>10. B[f] = IF MapKind = "SplinterDB" THEN <<k>> \o A[f] ELSE Append(A[f], k)
    <2>1. /\ f \in Fps /\ n \in Nat /\ DOMAIN reverseMap[f] = 0 .. n - 1
          /\ map2[f] = insertFingerprint(reverseMap[f], n, k)
      BY <1>3, <1>4
    <2>. HIDE DEF map2, f
    <2>. QED
      BY <2>1, KeysGrow
  <1>. HIDE DEF A, B
  <1>11. B = [A EXCEPT ![f] = IF MapKind = "SplinterDB" THEN <<k>> \o @ ELSE Append(@, k)]
    BY <1>8, <1>9, <1>10
  <1>. QED
    BY <1>6, <1>7, <1>11 DEF A

\* A load is made below the limits, and puts a plain item in front of those of
\* its key's minirun.
LEMMA LoadChanges ==
    ASSUME GInv, RoomLeft, NEW k \in Keys, Load(k)
    PROVE  /\ Enlarged(qf, qf', minirun_id(k))
           /\ qf.noccupied_slots < LoadLimit
           /\ GInv'
  <1>. DEFINE f == minirun_id(k)
              result == qf_insert_using_ll_table(qf, k, 1)
  <1>1. /\ phase = "load" /\ qf.noccupied_slots < NumKeys
        /\ TInv /\ RowsTied /\ qf.extensions = {} /\ result.ret >= 0
    BY DEF Load, GInv, TInv
  <1>2. PICK U, h : Tidied(qf, U, h, Keys, Rows)
    BY <1>1 DEF TInv, Tidy
  <1>3. Entered(qf, U, h, k, qf')
    BY <1>1, <1>2, LoadFiles
  <1>4. Enlarged(qf, qf', f)
    <2>1. Shaped(qf, U, h) /\ Fits(U) /\ \A j \in Keys : Filed(qf, U, h, j, Rows[j])
      BY <1>2 DEF Tidied
    <2>. QED
      BY <1>1, <1>3, <2>1, LoadGrows
  <1>5. ~AtLoadLimit(qf)
    <2>1. SUFFICES ASSUME AtLoadLimit(qf) PROVE FALSE
      OBVIOUS
    <2>2. result = NotInserted(qf, -1)
      BY <2>1 DEF qf_insert_using_ll_table
    <2>3. result.ret = -1
      BY <2>2 DEF NotInserted
    <2>. QED
      BY <1>1, <2>3
  <1>6. qf.noccupied_slots < LoadLimit
    BY <1>1, <1>4, <1>5, BelowLimit DEF Enlarged
  <1>7. TInv' /\ RowsLoaded'
    BY <1>1, TInvLoad, LoadRows
  <1>8. GInv'
    <2>1. Short(CellsOf(qf))'
      BY <1>4 DEF Enlarged
    <2>. QED
      BY <1>7, <2>1 DEF GInv
  <1>. QED
    BY <1>4, <1>6, <1>8

\* A load is an insertion.
LEMMA LoadRefines ==
    ASSUME RInv, RoomLeft, Mirrored, NEW k \in Keys, Load(k)
    PROVE  Abstract!Insert(k) /\ RInv'
  <1>. DEFINE f == minirun_id(k)
  <1>1. /\ phase = "load" /\ phase' = phase /\ db' = db \cup {k}
        /\ GInv /\ miniruns = Miniruns(qf) /\ keysByRank = KeysByRank(reverseMap)
    BY DEF Load, RInv
  <1>2. Enlarged(qf, qf', f) /\ qf.noccupied_slots < LoadLimit /\ GInv'
    BY <1>1, LoadChanges
  <1>3. keysByRank' = [keysByRank EXCEPT ![f] = IF MapKind = "SplinterDB" THEN <<k>> \o @ ELSE Append(@, k)]
    BY <1>1, LoadRows DEF Mirrored
  <1>4. RInv'
    BY <1>2 DEF RInv, Mirrored
  <1>5. FpOf[k] = f /\ Abstract!NewItem = Plain(MaxExt)
    BY DEF FpOf, Abstract!NewItem, Plain
  <1>6. miniruns' = [miniruns EXCEPT ![f] = <<Abstract!NewItem>> \o @]
    BY <1>1, <1>2, <1>5 DEF Enlarged, Mirrored
  <1>7. qf'.noccupied_slots = qf.noccupied_slots + 1
    BY <1>2 DEF Enlarged
  <1>. HIDE DEF f
  <1>8. Abstract!Insert(k)
    BY <1>1, <1>2, <1>3, <1>5, <1>6, <1>7 DEF Abstract!Insert
  <1>. QED
    BY <1>4, <1>8

\* The variables of AdaptiveFilter.
AbstractVars == <<miniruns, qf.noccupied_slots, keysByRank, db, IF phase = "aborted" THEN "load" ELSE phase>>

\* At the start nothing is read.
LEMMA GInvInit == Init => GInv /\ Miniruns(qf) = [f \in Fps |-> <<>>]
  <1> SUFFICES ASSUME Init PROVE GInv /\ Miniruns(qf) = [f \in Fps |-> <<>>]
    OBVIOUS
  <1>1. qf = qf_init /\ reverseMap = [f \in Fps |-> <<>>]
    BY DEF Init
  <1>2. TInv
    BY TInvInit
  <1>3. qf.occupieds = {}
    BY <1>1 DEF qf_init
  <1>4. Miniruns(qf) = [f \in Fps |-> <<>>]
    <2>1. ASSUME NEW f \in Fps PROVE Miniruns(qf)[f] = <<>>
      <3>1. MinirunSlots(qf, f) = <<>>
        BY <1>3 DEF MinirunSlots
      <3>. DEFINE at == MinirunSlots(qf, f)
      <3>2. Miniruns(qf)[f] = [i \in DOMAIN at |-> Item(qf, at[i])]
        BY DEF Miniruns
      <3>. HIDE DEF at
      <3>3. at = <<>>
        BY <3>1 DEF at
      <3>4. DOMAIN at = {}
        BY <3>3
      <3>5. Miniruns(qf)[f] = [i \in {} |-> Item(qf, at[i])]
        BY <3>2, <3>4
      <3>. QED
        BY <3>5
    <2>2. Miniruns(qf) = [f \in Fps |-> Miniruns(qf)[f]]
      BY DEF Miniruns
    <2>. QED
      BY <2>1, <2>2
  <1>5. Short(CellsOf(qf))
    <2>1. ASSUME NEW k \in Keys, NEW i \in DOMAIN CellsOf(qf)[k] PROVE FALSE
      <3>1. CellsOf(qf)[k] = <<>>
        BY <1>4, KeyFacts DEF CellsOf
      <3>. QED
        BY <2>1, <3>1
    <2>. QED
      BY <2>1 DEF Short
  <1>6. RowsLoaded
    BY <1>1 DEF RowsLoaded
  <1>. QED
    BY <1>2, <1>4, <1>5, <1>6 DEF GInv

\* The state read through the mapping is AdaptiveFilter's at the start.
LEMMA RInitRefines == RInit => RInv /\ Abstract!Init
  <1> SUFFICES ASSUME RInit PROVE RInv /\ Abstract!Init
    OBVIOUS
  <1>1. /\ Init /\ miniruns = Miniruns(qf) /\ keysByRank = KeysByRank(reverseMap)
        /\ qf = qf_init /\ reverseMap = [f \in Fps |-> <<>>] /\ db = {} /\ phase = "load"
    BY DEF RInit, ReplayInit, Init
  <1>2. GInv /\ miniruns = [f \in Fps |-> <<>>]
    BY <1>1, GInvInit
  <1>3. qf.noccupied_slots = 0
    BY <1>1 DEF qf_init
  <1>4. keysByRank = [f \in Fps |-> <<>>]
    <2>. DEFINE A == KeysByRank(reverseMap)
    <2>1. ASSUME NEW f \in Fps PROVE A[f] = <<>>
      <3>. DEFINE n == 0
      <3>1. DOMAIN reverseMap[f] = 0 .. n - 1 /\ n \in Nat
        BY <1>1
      <3>. HIDE DEF n
      <3>2. A[f] = [i \in 1 .. n |-> reverseMap[f][i - 1]]
        BY <3>1, KeysRow
      <3>. HIDE DEF A
      <3>. QED
        BY <3>2 DEF n
    <2>2. A = [f \in Fps |-> A[f]]
      BY DEF KeysByRank
    <2>. HIDE DEF A
    <2>3. keysByRank = A
      BY <1>1 DEF A
    <2>. QED
      BY <2>1, <2>2, <2>3
  <1>. QED
    BY <1>1, <1>2, <1>3, <1>4 DEF RInv, Abstract!Init

\* Steps that leave the filter and the rows alone ...
LEMMA GInvStays ==
    ASSUME GInv, TInv', qf' = qf, reverseMap' = reverseMap, db' = db
    PROVE  GInv'
  <1>1. RowsLoaded'
    BY RowsStay DEF GInv
  <1>2. Short(CellsOf(qf))'
    BY DEF GInv
  <1>. QED
    BY <1>1, <1>2 DEF GInv

\* ... leave what is read off them alone.
LEMMA RInvStays ==
    ASSUME RInv, Mirrored, TInv', qf' = qf, reverseMap' = reverseMap, db' = db
    PROVE  RInv' /\ miniruns' = miniruns /\ keysByRank' = keysByRank
  <1>1. GInv'
    BY GInvStays DEF RInv
  <1>2. Miniruns(qf)' = Miniruns(qf) /\ KeysByRank(reverseMap)' = KeysByRank(reverseMap)
    BY DEF KeysByRank
  <1>. QED
    BY <1>1, <1>2 DEF RInv, Mirrored

\* Every step is one of AdaptiveFilter, or leaves what it sees alone.
LEMMA RNextRefines ==
    ASSUME CountersFit
    PROVE  RInv /\ RoomLeft /\ RanksFit /\ [RNext]_rvars => RInv' /\ [Abstract!Next]_AbstractVars
  <1> SUFFICES ASSUME RInv, RoomLeft, RanksFit, [RNext]_rvars PROVE RInv' /\ [Abstract!Next]_AbstractVars
    OBVIOUS
  <1>1. TInv
    BY DEF RInv, GInv
  <1>2. CASE UNCHANGED rvars
    <2>1. UNCHANGED <<miniruns, keysByRank>> /\ UNCHANGED vars
      BY <1>2 DEF rvars, vars
    <2>2. Mirrored
      BY <2>1 DEF RInv, Mirrored, vars
    <2>3. TInv'
      BY <1>1, <2>1, TInvNext
    <2>4. RInv'
      BY <2>1, <2>2, <2>3, RInvStays DEF vars
    <2>. QED
      BY <2>1, <2>4 DEF vars, AbstractVars
  <1>3. ASSUME RNext PROVE RInv' /\ [Abstract!Next]_AbstractVars
    <2>1. Mirrored
      BY <1>3 DEF RNext, Mirrored
    <2>2. \/ EndLoad
          \/ \E k \in Keys : Load(k) \/ LoadRefused(k) \/ Query(k)
      BY <1>3 DEF RNext, ReplayNext, Loading
    <2>3. TInv'
      <3>1. Next
        BY <2>2 DEF Next
      <3>. QED
        BY <1>1, <3>1, TInvNext
    <2>4. CASE EndLoad
      <3>1. /\ phase = "load" /\ phase' = "query" /\ qf' = qf /\ reverseMap' = reverseMap /\ db' = db
        BY <2>4 DEF EndLoad
      <3>2. RInv' /\ miniruns' = miniruns /\ keysByRank' = keysByRank
        BY <2>1, <2>3, <3>1, RInvStays
      <3>3. Abstract!EndLoad
        BY <3>1, <3>2 DEF Abstract!EndLoad
      <3>. QED
        BY <3>2, <3>3 DEF Abstract!Next
    <2>5. ASSUME NEW k \in Keys, Load(k) PROVE RInv' /\ Abstract!Next
      BY <2>1, <2>5, LoadRefines DEF Abstract!Next
    <2>6. ASSUME NEW k \in Keys, LoadRefused(k) PROVE RInv' /\ UNCHANGED AbstractVars
      <3>1. phase = "load" /\ phase' = "aborted" /\ qf' = qf /\ reverseMap' = reverseMap /\ db' = db
        BY <2>6 DEF LoadRefused
      <3>2. RInv' /\ miniruns' = miniruns /\ keysByRank' = keysByRank
        BY <2>1, <2>3, <3>1, RInvStays
      <3>. QED
        BY <3>1, <3>2 DEF AbstractVars
    <2>7. ASSUME NEW k \in Keys, QueryAnswered(k) \/ AdaptDeclined(k)
          PROVE  RInv' /\ UNCHANGED AbstractVars
      <3>1. phase' = phase /\ qf' = qf /\ reverseMap' = reverseMap /\ db' = db
        BY <2>7 DEF QueryAnswered, AdaptDeclined, vars
      <3>2. RInv' /\ miniruns' = miniruns /\ keysByRank' = keysByRank
        BY <2>1, <2>3, <3>1, RInvStays
      <3>. QED
        BY <3>1, <3>2 DEF AbstractVars
    <2>8. ASSUME NEW k \in Keys, AdaptCharge(k) PROVE RInv' /\ Abstract!Next
      <3>1. /\ Abstract!Charge(k, queryFilter(k).minirun_rank + 1)
            /\ queryFilter(k).minirun_rank + 1 \in DOMAIN miniruns[FpOf[k]]
            /\ RInv'
        BY <2>1, <2>8, ChargeRefines
      <3>. DEFINE i == queryFilter(k).minirun_rank + 1
      <3>2. Abstract!Charge(k, i) /\ i \in DOMAIN miniruns[FpOf[k]]
        BY <3>1
      <3>. HIDE DEF i
      <3>. QED
        BY <3>1, <3>2 DEF Abstract!Next
    <2>9. ASSUME NEW k \in Keys, AdaptExtend(k) PROVE RInv' /\ Abstract!Next
      <3>. DEFINE i == queryFilter(k).minirun_rank + 1
      <3>1. /\ i \in DOMAIN miniruns[FpOf[k]]
            /\ \E n \in 1 .. MaxExt : \/ Abstract!Adapt(k, i, n)
                                      \/ \E s \in 1 .. n - 1 : Abstract!AdaptNoSpace(k, i, n, s)
            /\ RInv'
        BY <2>1, <2>9, ExtendRefines
      <3>. HIDE DEF i
      <3>. QED
        BY <3>1 DEF Abstract!Next
    <2>. QED
      BY <2>2, <2>4, <2>5, <2>6, <2>7, <2>8, <2>9 DEF Query
  <1>. QED
    BY <1>2, <1>3 DEF rvars

(***************************************************************************)
(* The slot array implements the miniruns.  While two slots from every     *)
(* key's bucket on are free, counters are charged once only and no         *)
(* fingerprint has more keys than the byte of a rank can tell apart, every *)
(* step of every variant on either reverse map is a step of AdaptiveFilter *)
(* on the items read out of the slots: an insertion in front of the        *)
(* minirun, a charge to the item of the rank answered, an adaptation of it *)
(* by the first chunk that tells its key from the query's, or one cut off  *)
(* by the end of the slots.                                                *)
(***************************************************************************)
THEOREM SlotsImplementMiniruns ==
    ASSUME CountersFit
    PROVE  RSpec /\ []RoomLeft /\ []RanksFit => RefinesAdaptiveFilter
  <1>1. RInit => RInv /\ Abstract!Init
    BY RInitRefines
  <1>2. RInv /\ RoomLeft /\ RanksFit /\ [RNext]_rvars => RInv' /\ [Abstract!Next]_AbstractVars
    BY RNextRefines
  <1>3. [Abstract!Next]_AbstractVars => [Abstract!Next]_(Abstract!vars)
    BY DEF AbstractVars, Abstract!vars
  <1>. QED
    BY <1>1, <1>2, <1>3, PTL DEF RSpec, RefinesAdaptiveFilter, Abstract!Spec

\* Every step keeps the state in the shape that the refinement reads it in.
LEMMA GInvNext ==
    ASSUME CountersFit
    PROVE  GInv /\ RoomLeft /\ RanksFit /\ [Next]_vars => GInv'
  <1> SUFFICES ASSUME GInv, RoomLeft, RanksFit, [Next]_vars PROVE GInv'
    OBVIOUS
  <1>1. TInv'
    BY TInvNext DEF GInv
  <1>2. ASSUME qf' = qf, reverseMap' = reverseMap, db' = db PROVE GInv'
    BY <1>1, <1>2, GInvStays
  <1>3. CASE UNCHANGED vars
    BY <1>2, <1>3 DEF vars
  <1>4. ASSUME NEW k \in Keys, Load(k) PROVE GInv'
    BY <1>4, LoadChanges
  <1>5. ASSUME NEW k \in Keys, LoadRefused(k) PROVE GInv'
    BY <1>2, <1>5 DEF LoadRefused
  <1>6. ASSUME NEW k \in Keys, QueryAnswered(k) \/ AdaptDeclined(k) PROVE GInv'
    BY <1>2, <1>6 DEF QueryAnswered, AdaptDeclined, vars
  <1>7. ASSUME NEW k \in Keys, AdaptCharge(k) PROVE GInv'
    BY <1>7, ChargeChanges
  <1>8. ASSUME NEW k \in Keys, AdaptExtend(k) PROVE GInv'
    BY <1>8, ExtendChanges
  <1>9. CASE EndLoad
    BY <1>2, <1>9 DEF EndLoad
  <1>. QED
    BY <1>3, <1>4, <1>5, <1>6, <1>7, <1>8, <1>9 DEF Next, Query

-----------------------------------------------------------------------------
(***************************************************************************)
(* Once rejected, rejected                                                 *)
(***************************************************************************)
\* An item that was charged or made longer matches no key that it did not match.
LEMMA MatchesFewer ==
    ASSUME NEW y, y.ext_len \in Nat, NEW k \in Keys
    PROVE  /\ Abstract!Matches(Twice(y), k) => Abstract!Matches(y, k)
           /\ \A orig : \A l \in y.ext_len + 1 .. MaxExt :
                 Abstract!Matches(Abstract!Extended(y, orig, l), k) => Abstract!Matches(y, k)
  <1>1. Abstract!Matches(Twice(y), k) => Abstract!Matches(y, k)
    BY DEF Abstract!Matches, Twice
  <1>2. ASSUME NEW orig, NEW l \in y.ext_len + 1 .. MaxExt, Abstract!Matches(Abstract!Extended(y, orig, l), k)
        PROVE  Abstract!Matches(y, k)
    <2>. DEFINE z == Abstract!Extended(y, orig, l)
                n == y.ext_len
    <2>1. z.ext_len = l /\ \A j \in 1 .. MaxExt : ~(n < j) => z.ext[j] = y.ext[j]
      BY DEF Abstract!Extended
    <2>2. \A j \in 1 .. l : z.ext[j] = ChunkOf[k][j]
      BY <1>2, <2>1 DEF Abstract!Matches
    <2>3. ASSUME NEW j \in 1 .. n PROVE y.ext[j] = ChunkOf[k][j]
      <3>1. MaxExt \in Nat /\ n \in Nat
        BY MaxExtIs
      <3>. HIDE DEF n, z
      <3>2. j \in 1 .. l /\ j \in 1 .. MaxExt /\ ~(n < j)
        BY <1>2, <3>1 DEF n
      <3>. QED
        BY <2>1, <2>2, <3>2
    <2>. QED
      BY <2>3 DEF Abstract!Matches
  <1>. QED
    BY <1>1, <1>2

\* new has no item for f that k matches, if q has none.
NotMore(q, new, f, k) ==
    (\E i \in DOMAIN Miniruns(new)[f] : Abstract!Matches(Miniruns(new)[f][i], k))
        => \E i \in DOMAIN Miniruns(q)[f] : Abstract!Matches(Miniruns(q)[f][i], k)

\* That is so if one item is changed and matches no key that it did not match.
LEMMA ChangedNotMore ==
    ASSUME NEW q, NEW new, NEW f, NEW i, NEW y, NEW z, NEW used, Changed(q, new, f, i, z, used),
           f \in Fps, i \in DOMAIN Miniruns(q)[f], Miniruns(q)[f][i] = y,
           NEW k \in Keys, Abstract!Matches(z, k) => Abstract!Matches(y, k)
    PROVE  NotMore(q, new, minirun_id(k), k)
  <1>. DEFINE A == Miniruns(q)
              B == Miniruns(new)
              g == minirun_id(k)
  <1>1. B = [A EXCEPT ![f][i] = z]
    BY DEF Changed
  <1>2. A[f][i] = y /\ i \in DOMAIN A[f]
    OBVIOUS
  <1>3. f \in DOMAIN A
    BY DEF Miniruns
  <1>. HIDE DEF A, B, g
  <1>4. ASSUME NEW m \in DOMAIN B[g], Abstract!Matches(B[g][m], k)
        PROVE  m \in DOMAIN A[g] /\ Abstract!Matches(A[g][m], k)
    <2>1. CASE g = f /\ m = i
      <3>1. B[g][m] = z
        BY <1>1, <1>2, <1>3, <2>1
      <3>. QED
        BY <1>2, <1>4, <2>1, <3>1
    <2>2. CASE g = f /\ m # i
      <3>1. B[g] = [A[f] EXCEPT ![i] = z]
        BY <1>1, <1>3, <2>2
      <3>2. m \in DOMAIN A[f] /\ B[g][m] = A[f][m]
        BY <1>4, <2>2, <3>1
      <3>. QED
        BY <1>4, <2>2, <3>2
    <2>3. CASE g # f
      <3>1. B[g] = A[g]
        BY <1>1, <2>3
      <3>. QED
        BY <1>4, <3>1
    <2>. QED
      BY <2>1, <2>2, <2>3
  <1>. QED
    BY <1>4 DEF NotMore, A, B, g

\* What a tidy state answers is read off its miniruns.
LEMMA AnswersRead ==
    GInv => \A k \in Keys :
        queryIn(qf, k).key_present
            <=> \E i \in DOMAIN Miniruns(qf)[minirun_id(k)] :
                   Abstract!Matches(Miniruns(qf)[minirun_id(k)][i], k)
  <1> SUFFICES ASSUME GInv, NEW k \in Keys
               PROVE  queryIn(qf, k).key_present
                        <=> \E i \in DOMAIN Miniruns(qf)[minirun_id(k)] :
                               Abstract!Matches(Miniruns(qf)[minirun_id(k)][i], k)
    OBVIOUS
  <1>1. PICK U, h : Tidied(qf, U, h, Keys, Rows)
    BY DEF GInv, TInv, Tidy
  <1>2. \A r \in DOMAIN Rows[k] : Rows[k][r] \in Nat
    BY RowsAre, KeyFacts DEF GInv, TInv, RowsTied
  <1>3. Short(CellsOf(qf))
    BY DEF GInv
  <1>. QED
    BY <1>1, <1>2, <1>3, PresentIs

\* What one step makes of a key's minirun.
LEMMA NoMoreMatch ==
    ASSUME CountersFit, GInv, RoomLeft, RanksFit, phase = "query", Next, NEW k \in Keys
    PROVE  NotMore(qf, qf', minirun_id(k), k)
  <1>1. PICK j \in Keys : Query(j)
    BY DEF Next, Load, LoadRefused, EndLoad
  <1>2. CASE QueryAnswered(j) \/ AdaptDeclined(j)
    <2>1. qf' = qf
      BY <1>2 DEF QueryAnswered, AdaptDeclined, vars
    <2>. QED
      BY <2>1 DEF NotMore
  <1>. DEFINE new == qf'
              f == minirun_id(j)
              m == queryFilter(j).minirun_rank
  <1>3. CASE AdaptCharge(j)
    <2>1. PICK y : ChargedTo(j, m, y)
      BY <1>3, ChargeChanges
    <2>2. PICK U, h : Tidied(qf, U, h, Keys, Rows)
      BY DEF GInv, TInv, Tidy
    <2>3. y.ext_len \in Nat
      <3>1. Positive(j)
        BY <1>3 DEF AdaptCharge, FalsePositive
      <3>2. y.ext_len \in 0 .. MaxExt
        BY <2>1, <2>2, <3>1, QueryAnswers DEF ChargedTo
      <3>. QED
        BY <3>2, MaxExtIs
    <2>. HIDE DEF m
    <2>4. /\ Changed(qf, new, f, m + 1, Twice(y), qf.noccupied_slots + 1)
          /\ f \in Fps /\ m + 1 \in DOMAIN Miniruns(qf)[f] /\ Miniruns(qf)[f][m + 1] = y
          /\ Abstract!Matches(Twice(y), k) => Abstract!Matches(y, k)
      BY <2>1, <2>3, KeyFacts, MatchesFewer DEF ChargedTo
    <2>. HIDE DEF new, f
    <2>5. NotMore(qf, new, minirun_id(k), k)
      BY <2>4, ChangedNotMore
    <2>. QED
      BY <2>5 DEF new
  <1>4. CASE AdaptExtend(j)
    <2>1. PICK y, orig, l, n : ExtendedTo(j, m, y, orig, l, n)
      BY <1>4, ExtendChanges
    <2>2. y.ext_len \in Nat /\ l \in y.ext_len + 1 .. MaxExt
      <3>1. y.ext_len \in Nat /\ n \in 1 .. MaxExt /\ l \in y.ext_len + 1 .. n /\ MaxExt \in Nat
        BY <2>1, MaxExtIs DEF ExtendedTo
      <3>. QED
        BY <3>1
    <2>. DEFINE z == Abstract!Extended(y, orig, l)
                used == qf.noccupied_slots + (l - y.ext_len) - Abstract!CounterSlots(y)
    <2>. HIDE DEF m
    <2>3. /\ Changed(qf, new, f, m + 1, z, used)
          /\ f \in Fps /\ m + 1 \in DOMAIN Miniruns(qf)[f] /\ Miniruns(qf)[f][m + 1] = y
          /\ Abstract!Matches(z, k) => Abstract!Matches(y, k)
      BY <2>1, <2>2, KeyFacts, MatchesFewer DEF ExtendedTo
    <2>. HIDE DEF new, f, z, used
    <2>4. NotMore(qf, new, minirun_id(k), k)
      BY <2>3, ChangedNotMore
    <2>. QED
      BY <2>4 DEF new
  <1>. QED
    BY <1>1, <1>2, <1>3, <1>4 DEF Query

(***************************************************************************)
(* While two slots from every key's bucket on are free, counters are       *)
(* charged once only and no fingerprint has more keys than the byte of a   *)
(* rank can tell apart, a key that the filter answers with "absent" stays  *)
(* absent: no charge, extension or extension cut short makes the slots     *)
(* read as an item that the key matches.                                   *)
(***************************************************************************)
THEOREM RejectedForGood ==
    ASSUME CountersFit
    PROVE  Spec /\ []RoomLeft /\ []RanksFit => RejectedStays
  <1>1. Init => GInv
    BY GInvInit
  <1>2. GInv /\ RoomLeft /\ RanksFit /\ [Next]_vars => GInv'
    BY GInvNext
  <1>3. GInv => \A k \in Keys :
            queryIn(qf, k).key_present
                <=> \E i \in DOMAIN Miniruns(qf)[minirun_id(k)] :
                       Abstract!Matches(Miniruns(qf)[minirun_id(k)][i], k)
    BY AnswersRead
  <1>4. (GInv => \A k \in Keys :
            queryIn(qf, k).key_present
                <=> \E i \in DOMAIN Miniruns(qf)[minirun_id(k)] :
                       Abstract!Matches(Miniruns(qf)[minirun_id(k)][i], k))'
    BY <1>3, PTL
  <1>5. GInv /\ GInv' /\ RoomLeft /\ RanksFit /\ [Next]_vars =>
            [phase = "query" /\ qf' # qf =>
                \A k \in Keys : ~Positive(k) => ~queryIn(qf', k).key_present]_vars
    <2>1. ASSUME GInv, GInv', RoomLeft, RanksFit, Next, phase = "query", NEW k \in Keys,
                 queryIn(qf', k).key_present
          PROVE  Positive(k)
      <3>1. NotMore(qf, qf', minirun_id(k), k)
        BY <2>1, NoMoreMatch
      <3>2. \E i \in DOMAIN Miniruns(qf')[minirun_id(k)] :
               Abstract!Matches(Miniruns(qf')[minirun_id(k)][i], k)
        BY <1>4, <2>1
      <3>3. queryIn(qf, k).key_present
        BY <1>3, <2>1, <3>1, <3>2 DEF NotMore
      <3>. QED
        BY <3>3 DEF Positive, queryFilter
    <2>. QED
      BY <2>1
  <1>. QED
    BY <1>1, <1>2, <1>5, PTL DEF Spec, RejectedStays

-----------------------------------------------------------------------------
(***************************************************************************)
(* Filters in which room is left                                           *)
(***************************************************************************)
\* From every key's bucket on there are two slots more than the load limit
\* or the last extension below the full point can fill.
RoomBeyond ==
    \A k \in Keys : /\ LoadLimit + 2 <= XnSlots - bucket(k)
                    /\ FullPoint + MaxExt + 1 <= XnSlots - bucket(k)

\* What the limits leave of the slots and of the ranks.
WithinLimits ==
    /\ qf.noccupied_slots <= LoadLimit \/ qf.noccupied_slots < FullPoint + MaxExt
    /\ \A f \in Fps : DOMAIN reverseMap[f] \subseteq 0 .. LoadLimit - 1

\* The load limit is a number of slots.
LEMMA LoadLimitType == LoadLimit \in Nat
  <1>. DEFINE b == (95 * nslots + 99) \div 100
  <1>1. nslots \in Nat /\ NumKeys \in Nat
    <2>1. nslots \in Nat
      BY GQFAssumption, PowerOfTwo DEF nslots
    <2>. QED
      BY <2>1, SlotFilterAssumption
  <1>2. b \in Nat
    BY <1>1
  <1>. HIDE DEF b
  <1>3. Min({NumKeys, b}) = IF NumKeys <= b THEN NumKeys ELSE b
    BY <1>1, <1>2, MinMaxOfTwo
  <1>. QED
    BY <1>1, <1>2, <1>3 DEF LoadLimit, b

\* The numbers that limit a filter.
LEMMA LimitTypes == FullPoint \in Nat /\ MaxExt \in Nat /\ LoadLimit \in Nat
  BY SlotFilterAssumption, MaxExtIs, LoadLimitType

\* The slots in use of a tidy filter.
LEMMA UsedCounted ==
    ASSUME GInv
    PROVE  \E U, h : /\ Tidied(qf, U, h, Keys, Rows)
                     /\ UsedSlots(qf) = U /\ U \in SUBSET Nat /\ IsFiniteSet(U)
                     /\ qf.noccupied_slots = Cardinality(U) /\ Cardinality(U) \in Nat
  <1>1. PICK U, h : Tidied(qf, U, h, Keys, Rows)
    BY DEF GInv, TInv, Tidy
  <1>2. Homed(qf, U, h) /\ qf.noccupied_slots = Cardinality(U) /\ UsedSlots(qf) = U
    BY <1>1, LayoutIsRead DEF Tidied, Shaped
  <1>3. U \in SUBSET Nat /\ IsFiniteSet(U)
    BY <1>2, HomedTypes
  <1>. QED
    BY <1>1, <1>2, <1>3, FS_CardinalityType

\* Within the limits, two slots are free from every key's bucket on.
LEMMA LimitsLeaveRoom ==
    ASSUME GInv, WithinLimits, RoomBeyond
    PROVE  RoomLeft
  <1>1. PICK U : /\ UsedSlots(qf) = U /\ IsFiniteSet(U)
                 /\ qf.noccupied_slots = Cardinality(U) /\ Cardinality(U) \in Nat
    BY UsedCounted
  <1>2. ASSUME NEW k \in Keys
        PROVE  Cardinality({i \in bucket(k) .. XnSlots - 1 : i \notin UsedSlots(qf)}) >= 2
    <2>. DEFINE b == bucket(k)
                I == b .. XnSlots - 1
    <2>1. b \in Nat /\ b < XnSlots /\ XnSlots \in Nat
      BY KeyFacts, BucketType, Sizes
    <2>2. /\ LoadLimit + 2 <= XnSlots - b
          /\ FullPoint + MaxExt + 1 <= XnSlots - b
      BY DEF RoomBeyond
    <2>. HIDE DEF b
    <2>3. IsFiniteSet(I) /\ Cardinality(I) = XnSlots - b
      <3>1. XnSlots - 1 \in Int /\ b \in Int /\ ~(b > XnSlots - 1) /\ (XnSlots - 1) - b + 1 = XnSlots - b
        BY <2>1
      <3>. QED
        BY <3>1, FS_Interval
    <2>. HIDE DEF I
    <2>4. {i \in I : i \notin UsedSlots(qf)} = I \ U
      BY <1>1
    <2>5. Cardinality(I \ U) = Cardinality(I) - Cardinality(I \cap U)
      BY <2>3, FS_Difference
    <2>6. Cardinality(I \cap U) <= Cardinality(U) /\ Cardinality(I \cap U) \in Nat
      BY <1>1, FS_Intersection, FS_CardinalityType
    <2>7. Cardinality(U) <= LoadLimit \/ Cardinality(U) < FullPoint + MaxExt
      BY <1>1 DEF WithinLimits
    <2>8. Cardinality(I \ U) >= 2
      BY <1>1, <2>1, <2>2, <2>3, <2>5, <2>6, <2>7, LimitTypes
    <2>. QED
      BY <2>4, <2>8 DEF I, b
  <1>. QED
    BY <1>2 DEF RoomLeft

\* ... and ranks fit in a byte.
LEMMA LimitsKeepRanks ==
    ASSUME WithinLimits, LoadLimit <= 2 ^ 8
    PROVE  RanksFit
  <1>. DEFINE B == 2 ^ 8
  <1>1. B \in Nat
    BY PowerOfTwo
  <1>. HIDE DEF B
  <1>2. LoadLimit <= B
    BY DEF B
  <1>3. 0 .. LoadLimit - 1 \subseteq 0 .. B - 1
    BY <1>1, <1>2, LoadLimitType
  <1>4. \A f \in Fps : DOMAIN reverseMap[f] \subseteq 0 .. B - 1
    BY <1>3 DEF WithinLimits
  <1>. QED
    BY <1>4 DEF RanksFit, B

\* A load stays within the limits.
LEMMA LoadWithin ==
    ASSUME GInv, RoomLeft, WithinLimits, NEW k \in Keys, Load(k)
    PROVE  WithinLimits'
  <1>. DEFINE f == minirun_id(k)
              new == qf'.noccupied_slots
              row == reverseMap'[f]
  <1>1. PICK U, h : /\ Tidied(qf, U, h, Keys, Rows)
                    /\ U \in SUBSET Nat /\ IsFiniteSet(U)
                    /\ qf.noccupied_slots = Cardinality(U) /\ Cardinality(U) \in Nat
    BY UsedCounted
  <1>2. qf.noccupied_slots < LoadLimit /\ new = qf.noccupied_slots + 1
    BY LoadChanges DEF Enlarged
  <1>3. new <= LoadLimit
    <2>. HIDE DEF new
    <2>. QED
      BY <1>1, <1>2, LimitTypes
  <1>4. PICK n : /\ n \in Nat
                 /\ \A m, e : Lists(e, m, Minirun(qf, U, h, k)) => m = n
                 /\ DOMAIN Rows[k] = 0 .. n - 1
                 /\ row = insertFingerprint(Rows[k], n, k)
    <2>1. RowsTied /\ qf.extensions = {}
      BY DEF Load, GInv, TInv
    <2>. QED
      BY <1>1, <2>1, LoadFiles
  <1>5. n <= Cardinality(U)
    <2>. DEFINE T == Minirun(qf, U, h, k)
    <2>1. PICK m, e : Lists(e, m, T)
      BY <1>1 DEF Tidied, Filed
    <2>2. T \in SUBSET Nat /\ T \in SUBSET U
      BY <1>1, MinirunType DEF Tidied
    <2>3. m = n
      BY <1>4, <2>1
    <2>. HIDE DEF T
    <2>4. Cardinality(T) = n
      BY <2>1, <2>2, <2>3, ListedCount
    <2>. QED
      BY <1>1, <2>2, <2>4, FS_Subset
  <1>6. DOMAIN row \subseteq 0 .. LoadLimit - 1
    <2>. DEFINE map == Rows[k]
    <2>. HIDE DEF row, map
    <2>1. row = insertFingerprint(map, n, k) /\ DOMAIN map = 0 .. n - 1
      BY <1>4 DEF map
    <2>2. DOMAIN row = 0 .. n
      BY <1>4, <2>1, RowGrows DEF GrownRow
    <2>3. n < LoadLimit
      BY <1>1, <1>2, <1>4, <1>5, LimitTypes
    <2>. QED
      BY <1>4, <2>2, <2>3, LimitTypes
  <1>7. ASSUME NEW g \in Fps, g # f PROVE reverseMap'[g] = reverseMap[g]
    BY <1>7 DEF Load, GInv, TInv, RowsTied
  <1>8. ASSUME NEW g \in Fps PROVE DOMAIN reverseMap'[g] \subseteq 0 .. LoadLimit - 1
    <2>1. CASE g = f
      BY <1>6, <2>1
    <2>2. CASE g # f
      BY <1>7, <2>2 DEF WithinLimits
    <2>. QED
      BY <2>1, <2>2
  <1>. QED
    BY <1>3, <1>8 DEF WithinLimits

\* A charge or an extension below the full point ends within the limits.
LEMMA AdaptWithin ==
    ASSUME CountersFit, Policy # "HybridSkiQF", GInv, RoomLeft, RanksFit, WithinLimits,
           NEW k \in Keys, AdaptCharge(k) \/ AdaptExtend(k)
    PROVE  WithinLimits'
  <1>. DEFINE u == qf.noccupied_slots
              new == qf'.noccupied_slots
              m == queryFilter(k).minirun_rank
  <1>1. HasRoom /\ reverseMap' = reverseMap
    BY DEF AdaptCharge, AdaptExtend
  <1>2. u < FullPoint
    BY <1>1 DEF HasRoom
  <1>3. u \in Nat
    BY UsedCounted
  <1>4. MaxExt \in Nat \ {0} /\ FullPoint \in Nat
    BY MaxExtIs, LimitTypes
  <1>5. new < FullPoint + MaxExt
    <2>1. CASE AdaptCharge(k)
      <3>1. PICK y : ChargedTo(k, m, y)
        BY <2>1, ChargeChanges
      <3>2. new = u + 1
        BY <3>1 DEF ChargedTo, Changed
      <3>. HIDE DEF u, new
      <3>. QED
        BY <1>2, <1>3, <1>4, <3>2
    <2>2. CASE AdaptExtend(k)
      <3>1. PICK y, orig, l, n : ExtendedTo(k, m, y, orig, l, n)
        BY <2>2, ExtendChanges
      <3>. DEFINE e == y.ext_len
                  c == Abstract!CounterSlots(y)
      <3>2. e \in Nat /\ n \in 1 .. MaxExt /\ l \in e + 1 .. n /\ new = u + (l - e) - c
        BY <3>1 DEF ExtendedTo, Changed
      <3>3. c \in {0, 1}
        BY DEF Abstract!CounterSlots
      <3>. HIDE DEF u, new, e, c
      <3>. QED
        BY <1>2, <1>3, <1>4, <3>2, <3>3
    <2>. QED
      BY <2>1, <2>2
  <1>. QED
    BY <1>1, <1>5 DEF WithinLimits

\* Every step stays within the limits.
LEMMA WithinNext ==
    ASSUME CountersFit, Policy # "HybridSkiQF", RoomBeyond, LoadLimit <= 2 ^ 8
    PROVE  GInv /\ WithinLimits /\ [Next]_vars => GInv' /\ WithinLimits'
  <1> SUFFICES ASSUME GInv, WithinLimits, [Next]_vars PROVE GInv' /\ WithinLimits'
    OBVIOUS
  <1>1. RoomLeft /\ RanksFit
    BY LimitsLeaveRoom, LimitsKeepRanks
  <1>2. GInv'
    BY <1>1, GInvNext
  <1>3. ASSUME qf' = qf, reverseMap' = reverseMap PROVE WithinLimits'
    BY <1>3 DEF WithinLimits
  <1>4. ASSUME UNCHANGED vars PROVE WithinLimits'
    BY <1>3, <1>4 DEF vars
  <1>5. ASSUME NEW k \in Keys, Load(k) PROVE WithinLimits'
    BY <1>1, <1>5, LoadWithin
  <1>6. ASSUME NEW k \in Keys, LoadRefused(k) PROVE WithinLimits'
    BY <1>3, <1>6 DEF LoadRefused
  <1>7. ASSUME NEW k \in Keys, QueryAnswered(k) \/ AdaptDeclined(k) PROVE WithinLimits'
    BY <1>3, <1>7 DEF QueryAnswered, AdaptDeclined, vars
  <1>8. ASSUME NEW k \in Keys, AdaptCharge(k) \/ AdaptExtend(k) PROVE WithinLimits'
    BY <1>1, <1>8, AdaptWithin
  <1>9. ASSUME EndLoad PROVE WithinLimits'
    BY <1>3, <1>9 DEF EndLoad
  <1>10. WithinLimits'
    BY <1>4, <1>5, <1>6, <1>7, <1>8, <1>9 DEF Next, Query
  <1>. QED
    BY <1>2, <1>10

\* An empty filter is within the limits.
LEMMA WithinInit == Init => WithinLimits
  <1> SUFFICES ASSUME Init PROVE WithinLimits
    OBVIOUS
  <1>1. qf.noccupied_slots = 0 /\ \A f \in Fps : reverseMap[f] = <<>>
    BY DEF Init, qf_init
  <1>2. 0 <= LoadLimit
    BY LoadLimitType
  <1>3. DOMAIN <<>> = {}
    OBVIOUS
  <1>. QED
    BY <1>1, <1>2, <1>3 DEF WithinLimits

(***************************************************************************)
(* Room is left.  In a filter whose overflow area holds, behind every      *)
(* key's bucket, the slots of the load limit and two more, the load limit  *)
(* of qf_insert_using_ll_table and the full point of adapt() keep two      *)
(* slots free, and the rows shorter than a byte counts, whatever is        *)
(* loaded, charged and extended in whatever order: no caller of            *)
(* insert_one_slot needs to look at its result.  HybridSkiQF, which        *)
(* extends without looking at its load, is left out.                       *)
(***************************************************************************)
THEOREM RoomStaysLeft ==
    ASSUME CountersFit, Policy # "HybridSkiQF", RoomBeyond, LoadLimit <= 2 ^ 8
    PROVE  Spec => []RoomLeft /\ []RanksFit
  <1>1. Init => GInv /\ WithinLimits
    BY GInvInit, WithinInit
  <1>2. GInv /\ WithinLimits /\ [Next]_vars => GInv' /\ WithinLimits'
    BY WithinNext
  <1>3. GInv /\ WithinLimits => RoomLeft /\ RanksFit
    BY LimitsLeaveRoom, LimitsKeepRanks
  <1>. QED
    BY <1>1, <1>2, <1>3, PTL DEF Spec

(***************************************************************************)
(* So the filters that the load limits keep room in are correct without    *)
(* further conditions: fields in range, slots and offsets laid out, every  *)
(* key loaded found, every false positive accounted for, an insertion      *)
(* refused at the load limit only, and nothing rejected found again.       *)
(***************************************************************************)
THEOREM RoomyFiltersHold ==
    ASSUME CountersFit, Policy # "HybridSkiQF", RoomBeyond, LoadLimit <= 2 ^ 8
    PROVE  Spec => /\ [](TypeOK /\ LayoutOK /\ BlockOffsetsOK /\ NoFalseNegative /\ SkiRental /\ RefusedOnlyWhenFull)
                   /\ RejectedStays
  <1>1. Spec => []RoomLeft /\ []RanksFit
    BY RoomStaysLeft
  <1>2. Spec /\ []RoomLeft => []LayoutOK
    BY LayoutStaysRight
  <1>3. Spec /\ []RoomLeft => []NoFalseNegative
    BY LoadedStaysFound
  <1>4. Spec /\ []RoomLeft => [](TypeOK /\ BlockOffsetsOK /\ RefusedOnlyWhenFull)
    BY VariantsInShape
  <1>5. Spec /\ []RoomLeft /\ []RanksFit => []SkiRental
    BY RentIsPaid
  <1>6. Spec /\ []RoomLeft /\ []RanksFit => RejectedStays
    BY RejectedForGood
  <1>. QED
    BY <1>1, <1>2, <1>3, <1>4, <1>5, <1>6, PTL

\* The replayed filter takes the steps of the filter.
LEMMA ReplaySteps == (RInit => Init) /\ ([RNext]_rvars => [Next]_vars)
  <1>1. RInit => Init
    BY DEF RInit, ReplayInit
  <1>2. RNext => Next
    BY DEF RNext, ReplayNext, Loading, Next, Query
  <1>3. UNCHANGED rvars => UNCHANGED vars
    BY DEF rvars, vars
  <1>. QED
    BY <1>1, <1>2, <1>3

(***************************************************************************)
(* And their slots implement the miniruns without further conditions.      *)
(***************************************************************************)
THEOREM RoomyFiltersImplement ==
    ASSUME CountersFit, Policy # "HybridSkiQF", RoomBeyond, LoadLimit <= 2 ^ 8
    PROVE  RSpec => RefinesAdaptiveFilter
  <1>1. Spec => []RoomLeft /\ []RanksFit
    BY RoomStaysLeft
  <1>2. RSpec => Spec
    BY ReplaySteps, PTL DEF RSpec, Spec
  <1>3. RSpec /\ []RoomLeft /\ []RanksFit => RefinesAdaptiveFilter
    BY SlotsImplementMiniruns
  <1>. QED
    BY <1>1, <1>2, <1>3, PTL
=============================================================================
