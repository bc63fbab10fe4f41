------------------------------ MODULE GQFChurn ------------------------------
(***************************************************************************)
(* The filter without a reverse map by rank: qf_insert_ret, qf_query,      *)
(* qf_adapt, insert_and_extend and qf_remove on the slot array of GQF,     *)
(* called as src/src/test_deletions.c and test_near_full.c call them.  The *)
(* caller keeps a table from whole fingerprints (extension and its length  *)
(* included) to keys and extends two keys apart when an insertion meets a  *)
(* stored fingerprint.  It loads the filter, then queries it, removing     *)
(* and inserting keys as it goes.  It is one thread, so an iteration of    *)
(* its loops is one step.                                                  *)
(*                                                                         *)
(* The table is the one the tests mean to keep: an entry goes when its     *)
(* fingerprint goes (test_deletions.c hands sglib a null pointer for the   *)
(* entry it deletes, test_near_full.c forgets to delete it).  A key that   *)
(* is stored is not inserted again, as keys are drawn from 2^64.  The      *)
(* overflow area is taken large enough for every shift (adaptations that   *)
(* run out of slots are SlotFilter's).                                     *)
(***************************************************************************)
EXTENDS GQFLayout

CONSTANT Keys     \* the hashes used (QF_KEY_IS_HASH)

ASSUME GQFChurnAssumption == Keys \subseteq 0 .. 2 ^ HashBits - 1

VARIABLES qf,                \* the filter
          htab,              \* the table: [fp, len, ext, val] records
          phase,             \* "insert" or "query": the two loops
          still_have_space   \* adapting goes on until the load limit is met

vars == <<qf, htab, phase, still_have_space>>

\* Chunks of a key's hash behind its remainder and quotient: what ret_hash and
\* ret_hash_len describe.
Entry(key, len, val) ==
    [fp |-> minirun_id(key), len |-> len, ext |-> hash_ext(key, len), val |-> val]

\* Mutant: fingerprints of one length are taken for the same.
Members_AnyExt(key, len) == {e \in htab : e.fp = minirun_id(key) /\ e.len = len}

\* sglib_hashed_ilist_find_member for the fingerprint that answered for key.
Members(key, len) ==
    {e \in htab : e.fp = minirun_id(key) /\ e.len = len /\ e.ext = hash_ext(key, len)}

\* ret_hash_len for the item at index.
extension_len(q, index) == extension_end(q, index + 1) - (index + 1)

Stored(key) == \E e \in htab : e.val = key

Init ==
    /\ qf = qf_init
    /\ htab = {}
    /\ phase = "insert"
    /\ still_have_space = TRUE

-----------------------------------------------------------------------------
\* A new fingerprint.
InsertNew(j) ==
    /\ ~Stored(j)
    /\ \E result \in {qf_insert_ret(qf, j, 1)} : result.ret = 1 /\ qf' = result.qf
    /\ htab' = htab \union {Entry(j, 0, j)}
    /\ UNCHANGED <<phase, still_have_space>>

\* A stored fingerprint matches: extend both, file both under the length that
\* insert_and_extend returns, the stored item's.
InsertExtended(j) ==
    /\ ~Stored(j)
    /\ \E result \in {qf_insert_ret(qf, j, 1)} :
          /\ result.ret = 0
          /\ \E item \in Members(j, extension_len(qf, result.index)) :
                /\ qf' = insert_and_extend(qf, result.index, j, 1, item.val)
                /\ \E own_len \in {extension_len(qf', result.index)} :
                   \E ext_len \in {extension_len(qf', result.index + 1 + own_len)} :
                      htab' = (htab \ {item}) \union
                              {Entry(item.val, ext_len, item.val), [Entry(j, own_len, j) EXCEPT !.len = ext_len]}
    /\ UNCHANGED <<phase, still_have_space>>

\* num_inserts are done, or the filter is full.
EndInserts ==
    /\ phase = "insert"
    /\ phase' = "query"
    /\ still_have_space' = ~AtLoadLimit(qf)
    /\ UNCHANGED <<qf, htab>>

-----------------------------------------------------------------------------
\* A false positive while there is space: adapt its item and file it anew.
Adapt(j) ==
    /\ phase = "query"
    /\ still_have_space
    /\ ~AtLoadLimit(qf)
    /\ \E r \in {qf_query(qf, j)} :
          /\ r.found
          /\ \E item \in Members(j, r.ext_len) :
                /\ item.val # j
                /\ qf' = qf_adapt(qf, r.index, item.val, j)
                /\ htab' = (htab \ {item}) \union
                           {Entry(item.val, extension_len(qf', r.index), item.val)}
    /\ UNCHANGED <<phase, still_have_space>>

\* A false positive that finds the filter full.
OutOfSpace(j) ==
    /\ phase = "query"
    /\ still_have_space
    /\ AtLoadLimit(qf)
    /\ \E r \in {qf_query(qf, j)} :
          r.found /\ \E item \in Members(j, r.ext_len) : item.val # j
    /\ still_have_space' = FALSE
    /\ UNCHANGED <<qf, htab, phase>>

\* Churning: whatever the filter has for j goes, from the table and from it.
Churn(j) ==
    /\ phase = "query"
    /\ \E r \in {qf_query(qf, j)} : r.found /\ htab' = htab \ Members(j, r.ext_len)
    /\ qf' = qf_remove(qf, j)
    /\ UNCHANGED <<phase, still_have_space>>

Next ==
    \/ \E j \in Keys : \/ InsertNew(j) \/ InsertExtended(j)
                       \/ Adapt(j) \/ OutOfSpace(j) \/ Churn(j)
    \/ EndInserts

Spec == Init /\ [][Next]_vars

-----------------------------------------------------------------------------
\* The filter's fields stay in range; the table's entries are fingerprints of
\* keys.
TypeOK ==
    /\ qf \in [slots : [Slots -> SlotValues], occupieds : SUBSET Buckets,
              runends : SUBSET Slots, extensions : SUBSET Slots,
              offset : [Blocks -> 0 .. OffsetMax],
              noccupied_slots : Nat, nelts : Nat, ndistinct_elts : Nat]
    /\ \A e \in htab : e.fp = minirun_id(e.val) /\ e.val \in Keys
    /\ phase \in {"insert", "query"}
    /\ still_have_space \in BOOLEAN

(***************************************************************************)
(* The layout survives removals: freeing an item's slots one by one, each  *)
(* time closing the gap up to the end of the cluster, leaves every other   *)
(* run where its bucket's bits say, sorted, and the used slots counted.    *)
(***************************************************************************)
LayoutOK == RunsMatchBuckets(qf) /\ NothingOutside(qf) /\ RunsSorted(qf) /\ SlotsCounted(qf)

(***************************************************************************)
(* Insertions nudge the block offsets up, removals recompute them block by *)
(* block until one is right already: they stay exact in any mix of both.   *)
(***************************************************************************)
BlockOffsetsOK == OffsetsExact(qf)

(***************************************************************************)
(* The table knows exactly the fingerprints that are in the filter, each   *)
(* with its own length: what the caller was told by ret_hash and           *)
(* ret_hash_len is what the slots hold, through extensions on both sides   *)
(* of a collision, adaptations and removals.                               *)
(***************************************************************************)
StoredFingerprints ==
    UNION {LET at == MinirunSlots(qf, f) IN
           {LET info == get_slot_info(qf, at[i])
            IN [fp |-> f, len |-> info.ext_len, ext |-> info.ext] : i \in DOMAIN at}
           : f \in {minirun_id(k) : k \in Keys}}

TableMatchesFilter ==
    /\ {[fp |-> e.fp, len |-> e.len, ext |-> e.ext] : e \in htab} = StoredFingerprints
    /\ Cardinality(htab) = Cardinality(UNION {RunSlots(qf, b) : b \in qf.occupieds} \ qf.extensions)
    /\ Cardinality(htab) = qf.ndistinct_elts

(***************************************************************************)
(* A stored key is found, and by its own fingerprint: no fingerprint       *)
(* earlier in its minirun matches it.                                      *)
(***************************************************************************)
FoundByOwnFingerprint ==
    \A e \in htab : LET r == qf_query(qf, e.val)
                    IN r.found /\ r.ext_len = e.len /\ hash_ext(e.val, r.ext_len) = e.ext

(***************************************************************************)
(* "Remove up to count instances of this key": when qf_query has found a   *)
(* fingerprint for the key, qf_remove frees its slots.                     *)
(***************************************************************************)
RemovalFrees == [][Cardinality(htab') < Cardinality(htab)
                      => qf'.noccupied_slots < qf.noccupied_slots]_vars
=============================================================================
