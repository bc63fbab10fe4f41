------------------------------ MODULE GQFCopies ------------------------------
(***************************************************************************)
(* Whole-filter operations on the filters of GQFChurn: two filters filled  *)
(* one after the other and merged into a third (src/src/test_merge.c,      *)
(* test_unit.c), and a third one loaded in bulk from sorted keys           *)
(* (src/src/test_bulk.c).  The copy is then only queried.                  *)
(***************************************************************************)
EXTENDS GQFChurn, GQFMerge, BagsExt

CONSTANT MaxAside   \* bound: items of each of the filters to be merged

ASSUME GQFCopiesAssumption == MaxAside \in Nat \ {0}

VARIABLES stage,    \* "one", "two" (filling the second), "merged" or "bulk"
          other,    \* the filter filled first: qfa; the second one is qf
          copy,     \* qfc
          copied,   \* the keys it was made from
          coll      \* the fingerprints reported as collided

copyVars == <<stage, other, copy, copied, coll>>
allVars == <<qf, htab, phase, still_have_space, copyVars>>

InitCopies ==
    /\ Init
    /\ stage = "one"
    /\ other = qf_init
    /\ copy = qf_init
    /\ copied = EmptyBag
    /\ coll = {}

KeysStored == {e.val : e \in htab}

\* insert_key for a key that is stored: its item's counter goes up.
InsertAgain(j) ==
    \E result \in {qf_insert_ret(qf, j, 1)} :
        /\ result.ret = 0
        /\ \E item \in Members(j, extension_len(qf, result.index)) :
              /\ item.val = j
              /\ qf' = insert_and_extend(qf, result.index, j, 1, j)
        /\ UNCHANGED <<htab, phase, still_have_space>>

\* insert_set_a is in qfa; go on with qfb.
FillSecond ==
    /\ stage = "one"
    /\ phase = "insert"
    /\ Cardinality(htab) \in 1 .. MaxAside
    /\ stage' = "two"
    /\ other' = qf
    /\ copied' = SetToBag(KeysStored)
    /\ qf' = qf_init
    /\ htab' = {}
    /\ UNCHANGED <<phase, still_have_space, copy, coll>>

\* insert_set_b.  Only this filter gets keys twice.
InsertSecond(j) ==
    /\ stage = "two"
    /\ qf.nelts < MaxAside
    /\ InsertNew(j) \/ InsertExtended(j) \/ InsertAgain(j)
    /\ copied' = copied (+) SetToBag({j})
    /\ UNCHANGED <<stage, other, copy, coll>>

Merge ==
    /\ stage = "two"
    /\ htab # {}
    /\ stage' = "merged"
    /\ \E result \in {qf_merge_ret(other, qf, qf_init)} : copy' = result.qf /\ coll' = result.coll
    /\ UNCHANGED <<vars, other, copied>>

\* keys, sorted; some of them twice.
BulkInsert(once, twice) ==
    /\ stage = "one"
    /\ qf = qf_init
    /\ once \union twice # {}
    /\ stage' = "bulk"
    /\ copied' = SetToBag(once) (+) SetToBag(twice) (+) SetToBag(twice)
    /\ LET at(k) == Cardinality({j \in once : HashLess(j, k)}) + 2 * Cardinality({j \in twice : HashLess(j, k)})
           sorted == [i \in 1 .. BagCardinality(copied') |->
                         CHOOSE k \in once \union twice : at(k) < i /\ i <= at(k) + copied'[k]]
       IN copy' = qf_bulk_insert(qf_init, sorted)
    /\ UNCHANGED <<vars, other, coll>>

NextCopies ==
    \/ stage = "one" /\ Next /\ UNCHANGED copyVars
    \/ FillSecond
    \/ \E j \in Keys : InsertSecond(j)
    \/ Merge
    \/ \E once \in SUBSET Keys : \E twice \in {S \in SUBSET (Keys \ once) : Cardinality(S) <= 1} :
          BulkInsert(once, twice)

SpecCopies == InitCopies /\ [][NextCopies]_allVars

-----------------------------------------------------------------------------
\* The items of a filter by GQFLayout's reference layout, in slot order.
StoredItems(filter) ==
    LET at(b) == Ascending(RunSlots(filter, b) \ filter.extensions)
        items(b) == [i \in DOMAIN at(b) |->
                        Fingerprint(b, get_slot(filter, at(b)[i]), get_slot_info(filter, at(b)[i]))]
    IN FlattenSeq([n \in 1 .. Cardinality(filter.occupieds) |-> items(Ascending(filter.occupieds)[n])])

(***************************************************************************)
(* The iterator visits every stored item once, in order, with its own      *)
(* bucket, extension and count, also across gaps between clusters and      *)
(* from a run shifted past the buckets behind it.                          *)
(***************************************************************************)
IterationExact ==
    \A filter \in {f \in {qf, copy} : f.occupieds # {}} : Visited(filter) = StoredItems(filter)

(***************************************************************************)
(* A filter written from left to right has the layout that insertions one  *)
(* by one would give it.  Its offsets are exact as long as no run is       *)
(* displaced past a whole block: each counts the slots in its own block    *)
(* only.                                                                   *)
(***************************************************************************)
CopyLaidOut ==
    /\ RunsMatchBuckets(copy) /\ NothingOutside(copy) /\ RunsSorted(copy)
    /\ \A k \in Blocks : copy.offset[k] = Min({SlotsPerBlock, Spill(copy, SlotsPerBlock * k)})

(***************************************************************************)
(* Merging adds the contents up: each fingerprint's count in the merged    *)
(* filter is the sum of its counts in the two.  Where both filters hold    *)
(* their miniruns in the order of _finger_cmp it is also there only once,  *)
(* and reported as collided if both had it; insert_and_extend puts items   *)
(* in front whatever their chunks, and then a fingerprint of both filters  *)
(* can come out twice and unreported.                                      *)
(***************************************************************************)
Uncounted(item) == [item EXCEPT !.count = 0]

Contents(filter) == {Uncounted(item) : item \in ToSet(StoredItems(filter))}

TotalOf(filter, f) ==
    FoldSeq(LAMBDA item, sum : IF Uncounted(item) = f THEN sum + item.count ELSE sum,
            0, StoredItems(filter))

InOrder(filter) ==
    LET items == StoredItems(filter)
    IN \A i \in 1 .. Len(items) - 1 :
          items[i].run = items[i + 1].run => _finger_cmp(items[i], items[i + 1]) < 0

MergeAddsUp ==
    stage = "merged" =>
        /\ \A f \in Contents(copy) \union Contents(other) \union Contents(qf) :
              TotalOf(copy, f) = TotalOf(other, f) + TotalOf(qf, f)
        /\ coll \subseteq Contents(other) \intersect Contents(qf)
        /\ InOrder(other) /\ InOrder(qf) =>
              InOrder(copy) /\ coll = Contents(other) \intersect Contents(qf)

(***************************************************************************)
(* A copy answers for every key it was made from, and after a bulk         *)
(* insertion with the count of that key: each key's extension tells it     *)
(* from all others.  The exception are keys whose run is found through the *)
(* offset of a block that an earlier run covers and passes.                *)
(***************************************************************************)
ReachedExactly(k) ==
    bucket(k) = 0
    \/ Spill(copy, SlotsPerBlock * ((bucket(k) - 1) \div SlotsPerBlock)) <= SlotsPerBlock

CopyAnswers ==
    \A k \in {j \in DOMAIN copied : ReachedExactly(j)} :
        /\ stage \in {"merged", "bulk"} => qf_query(copy, k).found
        /\ stage = "bulk" => qf_query(copy, k).count = copied[k]
=============================================================================
