------------------------------ MODULE GQFLayout ------------------------------
(***************************************************************************)
(* What the bits of a GQF mean, read off without the block offsets: the    *)
(* i-th occupied bucket owns the i-th run, runs follow each other in slot  *)
(* order, and a run is its items, each a remainder followed by its         *)
(* extension chunks and then by its counter.  gqf.c finds its way with     *)
(* block offsets instead; the invariants here say both agree.              *)
(***************************************************************************)
EXTENDS GQF, Sequences, SequencesExt

Ascending(S) == [i \in 1 .. Cardinality(S) |-> Select(S, i)]

RunEnds(qf) == qf.runends \ qf.extensions

RunIndex(qf, b) == Cardinality({c \in qf.occupieds : c <= b})

\* The last slot of the i-th run (-1 for i = 0), its last item's chunks included.
RunLast(qf, i) == IF i = 0 THEN -1 ELSE skip_extensions(qf, Select(RunEnds(qf), i) + 1) - 1

RunSlots(qf, b) ==
    LET i == RunIndex(qf, b) IN Max({b, RunLast(qf, i - 1) + 1}) .. RunLast(qf, i)

UsedSlots(qf) == UNION {RunSlots(qf, b) : b \in qf.occupieds}

\* How far the runs of the buckets before slot s reach past it.
Spill(qf, s) ==
    LET before == {b \in qf.occupieds : b < s}
    IN IF before = {} THEN 0 ELSE Max({0, RunLast(qf, RunIndex(qf, Max(before))) + 1 - s})

\* The first slots of the items stored for a fingerprint, in slot order.
MinirunSlots(qf, f) ==
    IF bucket(f) \notin qf.occupieds THEN <<>>
    ELSE Ascending({i \in RunSlots(qf, bucket(f)) \ qf.extensions : get_slot(qf, i) = remainder(f)})

-----------------------------------------------------------------------------
\* The bits describe one run per occupied bucket, and none starts before its
\* bucket.
RunsMatchBuckets(qf) ==
    /\ Cardinality(RunEnds(qf)) = Cardinality(qf.occupieds)
    /\ \A b \in qf.occupieds : RunSlots(qf, b) # {} /\ Select(RunEnds(qf), RunIndex(qf, b)) >= b

\* No bit is set outside the runs, and what is outside reads as free.
NothingOutside(qf) == qf.runends \union qf.extensions \subseteq UsedSlots(qf)

\* Within a run the remainders ascend; within an item chunks come before the
\* counter.
RunsSorted(qf) ==
    /\ \A b \in qf.occupieds :
          \A i, j \in RunSlots(qf, b) \ qf.extensions : i < j => qf.slots[i] <= qf.slots[j]
    /\ \A i \in Slots : is_counter(qf, i) => ~is_extension(qf, i + 1)

\* A block's offset is its spill, or OffsetMax if that is smaller; the offset
\* recomputed through the saturated ones is the spill itself.
OffsetsExact(qf) ==
    \A k \in Blocks :
        /\ qf.offset[k] = Min({OffsetMax, Spill(qf, SlotsPerBlock * k)})
        /\ block_offset(qf, k) = Spill(qf, SlotsPerBlock * k)

\* The slots in use are the ones metadata counts.
SlotsCounted(qf) == qf.noccupied_slots = Cardinality(UsedSlots(qf))
=============================================================================
