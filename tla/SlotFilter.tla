----------------------------- MODULE SlotFilter -----------------------------
(***************************************************************************)
(* The adaptive filters of src/variants/*.hpp on the slot array of GQF,    *)
(* with the reverse map of src/db and the benchmark's loop                 *)
(* (src/bench/cpp/bench_variants.cc) as their only caller: bulkLoad, then  *)
(* queries, each followed by a database lookup and, for a false positive,  *)
(* by adapt().  The loop is one thread, so an iteration is one step.       *)
(*                                                                         *)
(* Hybrid's decision to adapt (moving averages over windows of a million   *)
(* queries) and CoinFlip's coin are left open.                             *)
(***************************************************************************)
EXTENDS GQFLayout

CONSTANTS Keys,        \* the hashes used (QF_KEY_IS_HASH)
          NumKeys,     \* numKeys of bulkLoad is at most this
          FullPoint,   \* max_load_factor * nslots
          BreakEven,   \* config.breakEvenCount
          Policy,      \* the variant
          MapKind,     \* the reverse map
          CountCap     \* bound: fpCount and adaptCount stop counting here

ASSUME SlotFilterAssumption ==
    /\ Keys \subseteq 0 .. 2 ^ HashBits - 1
    /\ {NumKeys, FullPoint, BreakEven, CountCap} \subseteq Nat \ {0}
    /\ Policy \in {"AdaptiveQF", "SkiQF", "CoinFlip", "NonAdaptive", "HybridSkiQF"}
    /\ MapKind \in {"SplinterDB", "WiredTiger"}

Fps == {minirun_id(k) : k \in Keys}

VARIABLES qf,           \* the filter
          reverseMap,   \* fingerprint -> (rank -> key)
          db,           \* the keys loaded
          phase,        \* "load", "query" or "aborted"
          fpCount,      \* false positives met by the loop
          adaptCount    \* the adaptations it was told of

vars == <<qf, reverseMap, db, phase, fpCount, adaptCount>>

Init ==
    /\ qf = qf_init
    /\ reverseMap = [f \in Fps |-> <<>>]
    /\ db = {}
    /\ phase = "load"
    /\ fpCount = 0
    /\ adaptCount = 0

-----------------------------------------------------------------------------
NoKey == -1

\* insertFingerprint.  SplinterDB replaces the whole value at rank 0 and else
\* merges the key in front; WiredTiger stores one row per rank.
insertFingerprint(map, rank, key) ==
    IF MapKind = "WiredTiger"
    THEN [r \in DOMAIN map \union {rank} |-> IF r = rank THEN key ELSE map[r]]
    ELSE [r \in (IF rank > 0 THEN 0 .. Cardinality(DOMAIN map) ELSE {0}) |->
             IF r = 0 THEN key ELSE map[r - 1]]

\* getFingerprint: what it may answer.  SplinterDB does not check the rank
\* against the length of the value it copies from.
getFingerprint(map, rank) ==
    IF rank \in DOMAIN map THEN {map[rank]}
    ELSE IF MapKind = "WiredTiger" \/ DOMAIN map = {} THEN {NoKey}
    ELSE Keys

-----------------------------------------------------------------------------
\* One iteration of bulkLoad.
Load(k) ==
    /\ phase = "load"
    /\ qf.noccupied_slots < NumKeys
    /\ \E result \in {qf_insert_using_ll_table(qf, k, 1)} :
          /\ result.ret >= 0
          /\ qf' = result.qf
          /\ reverseMap' = [reverseMap EXCEPT ![minirun_id(k)] =
                               insertFingerprint(@, result.minirun_rank, k)]
    /\ db' = db \union {k}
    /\ UNCHANGED <<phase, fpCount, adaptCount>>

\* An insertion refused: bulkLoad returns -1 and the benchmark aborts.
LoadRefused(k) ==
    /\ phase = "load"
    /\ qf.noccupied_slots < NumKeys
    /\ qf_insert_using_ll_table(qf, k, 1).ret < 0
    /\ phase' = "aborted"
    /\ UNCHANGED <<qf, reverseMap, db, fpCount, adaptCount>>

\* noccupied_slots has reached numKeys.
EndLoad ==
    /\ phase = "load"
    /\ phase' = "query"
    /\ UNCHANGED <<qf, reverseMap, db, fpCount, adaptCount>>

-----------------------------------------------------------------------------
\* queryFilter on the filter q: rank and count are narrowed to a byte, and a
\* count of 0 is "absent".  Hybrid asks for the rank only, and keeps an int.
queryIn(q, k) ==
    LET Result(r, count) ==
            [key_present |-> r.found /\ (Policy = "HybridSkiQF" \/ count > 0),
             minirun_rank |-> IF Policy = "HybridSkiQF" THEN r.rank ELSE r.rank % 2 ^ 8,
             minirun_count |-> count, hash_index |-> r.index]
        Narrow(r) == Result(r, r.count % 2 ^ 8)
    IN Narrow(IF Policy = "HybridSkiQF" THEN qf_query_using_ll_table_with_ext_len(q, k)
              ELSE qf_get_count_using_ll_table_with_index(q, k))

queryFilter(k) == queryIn(qf, k)

Positive(k) == queryFilter(k).key_present

FalsePositive(k) == phase = "query" /\ Positive(k) /\ k \notin db

\* Mutant: the variant's own load limit is not looked at.
HasRoom_Unlimited == TRUE

HasRoom == Policy = "HybridSkiQF" \/ qf.noccupied_slots < FullPoint

Bump(n, by) == Min({n + by, CountCap})

\* A query the filter or the database answers: nothing changes.
QueryAnswered(k) ==
    /\ phase = "query"
    /\ ~FalsePositive(k)
    /\ UNCHANGED vars

\* adapt() that leaves the filter alone: no room, a coin not in favour,
\* averages below the thresholds, or the CQF.
AdaptDeclined(k) ==
    /\ FalsePositive(k)
    /\ \/ ~HasRoom
       \/ Policy \in {"CoinFlip", "NonAdaptive", "HybridSkiQF"}
    /\ fpCount' = Bump(fpCount, 1)
    /\ UNCHANGED <<qf, reverseMap, db, phase, adaptCount>>

\* Mutant: one charge too many before adapting.
AdaptCharge_OffByOne(k) ==
    LET result == queryFilter(k) IN
    /\ FalsePositive(k)
    /\ HasRoom
    /\ Policy = "SkiQF"
    /\ result.minirun_count <= BreakEven
    /\ qf' = insert_and_extend(qf, result.hash_index, k, 1, k)
    /\ fpCount' = Bump(fpCount, 1)
    /\ UNCHANGED <<reverseMap, db, phase, adaptCount>>

\* SkiQF below break-even: charge the false positive to the item.
AdaptCharge(k) ==
    LET result == queryFilter(k) IN
    /\ FalsePositive(k)
    /\ HasRoom
    /\ Policy = "SkiQF"
    /\ result.minirun_count < BreakEven
    /\ qf' = insert_and_extend(qf, result.hash_index, k, 1, k)
    /\ fpCount' = Bump(fpCount, 1)
    /\ UNCHANGED <<reverseMap, db, phase, adaptCount>>

\* What adapt() gets for the item's rank.  Hybrid does not look at the return
\* code: without an answer its origKey is not initialised.
FetchedKeys(k, rank) ==
    LET answers == getFingerprint(reverseMap[minirun_id(k)], rank)
    IN IF Policy = "HybridSkiQF" /\ answers = {NoKey} THEN Keys ELSE answers

\* Fetch the original key and extend the item at the rank away from k.  An
\* adaptation that did nothing is reported like one that did.
AdaptExtend(k) ==
    LET result == queryFilter(k) IN
    /\ FalsePositive(k)
    /\ HasRoom
    /\ Policy # "NonAdaptive"
    /\ Policy = "SkiQF" => result.minirun_count >= BreakEven
    /\ \E orig \in FetchedKeys(k, result.minirun_rank) :
          /\ qf' = IF orig = NoKey THEN qf
                   ELSE qf_adapt_using_ll_table(qf, orig, k, result.minirun_rank)
          /\ adaptCount' = IF orig = NoKey THEN adaptCount ELSE Bump(adaptCount, 1)
    /\ fpCount' = Bump(fpCount, 1)
    /\ UNCHANGED <<reverseMap, db, phase>>

Query(k) == QueryAnswered(k) \/ AdaptDeclined(k) \/ AdaptCharge(k) \/ AdaptExtend(k)

Next ==
    \/ \E k \in Keys : Load(k) \/ LoadRefused(k) \/ Query(k)
    \/ EndLoad

Spec == Init /\ [][Next]_vars

-----------------------------------------------------------------------------
\* The filter's fields stay in range: offsets fit in their byte, bits and slot
\* values in the buffer.
TypeOK ==
    /\ qf \in [slots : [Slots -> SlotValues], occupieds : SUBSET Buckets,
              runends : SUBSET Slots, extensions : SUBSET Slots,
              offset : [Blocks -> 0 .. OffsetMax],
              noccupied_slots : Nat, nelts : Nat, ndistinct_elts : Nat]
    /\ DOMAIN reverseMap = Fps
    /\ db \subseteq Keys
    /\ phase \in {"load", "query", "aborted"}
    /\ {fpCount, adaptCount} \subseteq 0 .. CountCap

(***************************************************************************)
(* The layout invariants of the slot array hold after every insertion,     *)
(* charge and extension: insert_one_slot and adapt move slots, runends and *)
(* extension bits together and nudge exactly the offsets they must.        *)
(***************************************************************************)
LayoutOK == RunsMatchBuckets(qf) /\ NothingOutside(qf) /\ RunsSorted(qf) /\ SlotsCounted(qf)

(***************************************************************************)
(* The saturating block offsets, nudged one by one, lead run_end to the    *)
(* place the occupied and runend bits say, also through several blocks     *)
(* whose offsets are saturated.                                            *)
(***************************************************************************)
BlockOffsetsOK == OffsetsExact(qf)

(***************************************************************************)
(* Every key loaded is found by queryFilter, whatever was charged to and   *)
(* appended to the items of its minirun since.                             *)
(***************************************************************************)
NoFalseNegative == \A k \in db : Positive(k)

(***************************************************************************)
(* The load limits keep two slots free from every key's bucket on: an      *)
(* insertion or a charge finds room before the end of the overflow area,   *)
(* and no caller of insert_one_slot has to look at its result.  Nothing in *)
(* the code says so; it takes a filter whose runs do not pile up at its    *)
(* end.                                                                    *)
(***************************************************************************)
RoomLeft ==
    \A k \in Keys : Cardinality({i \in bucket(k) .. XnSlots - 1 : i \notin UsedSlots(qf)}) >= 2

(***************************************************************************)
(* The scan of insert_using_ll_table never meets the end of the filter     *)
(* ("program reached end of filter without finding runend"): an insertion  *)
(* is refused at the load limit only.                                      *)
(***************************************************************************)
RefusedOnlyWhenFull == phase = "aborted" => AtLoadLimit(qf)

(***************************************************************************)
(* Ski rental: as long as there is room and the counters are exact, every  *)
(* false positive is accounted for.  Each adaptation was preceded by       *)
(* BreakEven - 1 charges to the same item, and the other charges are still *)
(* in the counters of the filter.                                          *)
(***************************************************************************)
ChargesHeld ==
    MapThenSumSet(LAMBDA i : get_slot_info(qf, i).count - 1, UsedSlots(qf) \ qf.extensions)

SkiRental ==
    Policy = "SkiQF" /\ qf.noccupied_slots < FullPoint /\ fpCount < CountCap
        => fpCount = BreakEven * adaptCount + ChargesHeld

(***************************************************************************)
(* Once the filter answers a key with "absent" it does so for good: what   *)
(* adapt() makes of a filter, moving and overwriting chunks and counters,  *)
(* is never positive for a key that the filter was not positive for, so    *)
(* that no false positive once corrected comes back.                       *)
(***************************************************************************)
RejectedStays ==
    [][phase = "query" /\ qf' # qf =>
          \A k \in Keys : ~Positive(k) => ~queryIn(qf', k).key_present]_vars
=============================================================================
