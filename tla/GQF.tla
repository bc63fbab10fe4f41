--------------------------------- MODULE GQF ---------------------------------
(***************************************************************************)
(* The slot array of the adaptive quotient filter, src/src/gqf.c.          *)
(*                                                                         *)
(* A filter is the record qf: one value per slot, three bit vectors over   *)
(* the slots (occupieds, runends, extensions; a vector is the set of the   *)
(* slots whose bit is 1), one saturating offset per block and the three    *)
(* metadata counters.  Every C function that reads the filter is an        *)
(* operator of the same name; every C function that changes it is an       *)
(* operator from the filter before to the filter after.  Word-level bit    *)
(* tricks (bitrank, bitselectv, shift_into_b) are set expressions: a block *)
(* is SlotsPerBlock slots, as 64 slots are one word in the code.           *)
(*                                                                         *)
(* A hash is a number below 2^HashBits.  From its low end it holds the     *)
(* remainder (BitsPerSlot bits), the quotient (QuotientBits bits: the      *)
(* bucket) and then the chunks of BitsPerSlot bits that adaptations append *)
(* to the stored fingerprint.                                              *)
(***************************************************************************)
EXTENDS Integers, FiniteSets, FiniteSetsExt

CONSTANTS QuotientBits,   \* metadata->quotient_bits
          BitsPerSlot,    \* metadata->bits_per_slot
          HashBits,       \* the width of a hash: 64 in the code
          SlotsPerBlock,  \* QF_SLOTS_PER_BLOCK: 64 in the code
          XnSlots,        \* metadata->xnslots: the slots with the overflow area
          OffsetMax       \* BITMASK(8*sizeof(offset)): 255 in the code

ASSUME GQFAssumption ==
    /\ {QuotientBits, BitsPerSlot, HashBits, SlotsPerBlock, XnSlots, OffsetMax} \subseteq Nat \ {0}
    /\ HashBits > QuotientBits + BitsPerSlot
    /\ XnSlots > 2 ^ QuotientBits
    /\ OffsetMax >= SlotsPerBlock

nslots == 2 ^ QuotientBits
SlotValues == 0 .. 2 ^ BitsPerSlot - 1
nblocks == (XnSlots + SlotsPerBlock - 1) \div SlotsPerBlock
Blocks == 0 .. nblocks - 1
PastEnd == nblocks * SlotsPerBlock       \* the first index outside the buffer
Slots == 0 .. PastEnd - 1
Buckets == 0 .. nslots - 1

remainder(hash) == hash % 2 ^ BitsPerSlot
bucket(hash) == (hash \div 2 ^ BitsPerSlot) % 2 ^ QuotientBits
minirun_id(hash) == hash % 2 ^ (QuotientBits + BitsPerSlot)

\* The j-th chunk (from 0) above the quotient and the remainder.
chunk(hash, j) ==
    (hash \div 2 ^ (QuotientBits + BitsPerSlot * (j + 1))) % 2 ^ BitsPerSlot

\* The first len chunks as one number, the form get_slot_info reads them in.
hash_ext(hash, len) ==
    (hash \div 2 ^ (QuotientBits + BitsPerSlot)) % 2 ^ (BitsPerSlot * len)

-----------------------------------------------------------------------------
\* qf_init: an empty filter (qf_malloc clears the buffer).
qf_init ==
    [slots |-> [i \in Slots |-> 0],
     occupieds |-> {}, runends |-> {}, extensions |-> {},
     offset |-> [b \in Blocks |-> 0],
     noccupied_slots |-> 0, nelts |-> 0, ndistinct_elts |-> 0]

is_occupied(qf, i) == i \in qf.occupieds
is_runend(qf, i) == i \in qf.runends \ qf.extensions
is_extension(qf, i) == i \in qf.extensions \ qf.runends
is_counter(qf, i) == i \in qf.extensions \intersect qf.runends
is_extension_or_counter(qf, i) == i \in qf.extensions

\* Beyond xnslots get_slot answers QF_NO_SPACE, a number above every slot
\* value; set_slot beyond the buffer does not touch the filter.
get_slot(qf, i) == IF i > XnSlots \/ i \notin Slots THEN 2 ^ BitsPerSlot
                                                   ELSE qf.slots[i]
set_slot(qf, i, value) ==
    IF i \in Slots THEN [qf EXCEPT !.slots[i] = value] ELSE qf

\* The smallest element of S that is at least from, or PastEnd.
FirstFrom(S, from) ==
    LET T == {i \in S : i >= from} IN IF T = {} THEN PastEnd ELSE Min(T)

\* while (is_extension_or_counter(qf, i)) i++;
skip_extensions(qf, i) == FirstFrom((Slots \union {i}) \ qf.extensions, i)

\* The k-th smallest element (from 1) of S, or PastEnd.
Select(S, k) ==
    IF k > Cardinality(S) THEN PastEnd
    ELSE CHOOSE i \in S : Cardinality({j \in S : j < i}) = k - 1

-----------------------------------------------------------------------------
(***************************************************************************)
(* run_end, given the number of slots of the bucket's block that earlier   *)
(* runs spill into.  With rank occupied buckets up to this one in the      *)
(* block, its run ends at the rank-th runend after that spill, plus the    *)
(* extension and counter slots of the run's last item.                     *)
(***************************************************************************)
run_end_from(qf, b, spill) ==
    LET first == SlotsPerBlock * (b \div SlotsPerBlock)
        rank == Cardinality({i \in qf.occupieds : first <= i /\ i <= b})
        last == Select({i \in Slots : is_runend(qf, i) /\ i >= first + spill}, rank)
    IN IF rank = 0
       THEN IF spill <= b - first THEN b ELSE first + spill - 1
       ELSE Max({b, skip_extensions(qf, last + 1) - 1})

\* A saturated offset is recomputed from the runs of the block before.
block_offset(qf, blk) ==
    LET f[k \in Blocks] ==
            IF qf.offset[k] < OffsetMax \/ k = 0 THEN qf.offset[k]
            ELSE LET last == SlotsPerBlock * k - 1
                 IN run_end_from(qf, last, f[k - 1]) - last
    IN f[blk]

run_end(qf, b) == run_end_from(qf, b, block_offset(qf, b \div SlotsPerBlock))

run_start(qf, b) == IF b = 0 THEN 0 ELSE run_end(qf, b - 1) + 1

offset_lower_bound(qf, i) ==
    LET first == SlotsPerBlock * (i \div SlotsPerBlock)
        spill == qf.offset[i \div SlotsPerBlock]
        occ == Cardinality({j \in qf.occupieds : first <= j /\ j <= i})
        ends == {j \in qf.runends \ qf.extensions : first + spill <= j /\ j < i}
    IN IF spill <= i - first THEN occ - Cardinality(ends)
                             ELSE spill - (i - first) + occ

might_be_empty(qf, i) == i \notin qf.occupieds \union qf.runends \union qf.extensions

\* The scan only moves forward, so past xnslots its answer no longer matters;
\* a negative bound makes it return -1, the largest unsigned number.
find_first_empty_slot(qf, from) ==
    LET f[i \in 0 .. PastEnd + SlotsPerBlock + OffsetMax] ==
            LET Next(j, t) == IF j >= XnSlots \/ t = 0 THEN j
                              ELSE IF t < 0 THEN PastEnd ELSE f[j + t]
                Visit(j) == Next(j, offset_lower_bound(qf, j))
            IN Visit(skip_extensions(qf, i))
    IN IF from >= XnSlots THEN from ELSE f[from]

\* Mutant: the last slot's bit falls off.
ShiftBits_Short(bits, at, empty) ==
    {i \in bits : i < at \/ i > empty} \union {i + 1 : i \in bits \intersect (at .. empty - 2)}

\* shift_remainders and shift_runends: [at, empty) moves one slot up, the slot
\* at is filled with value and has its runend and extension bits cleared.
ShiftBits(bits, at, empty) ==
    {i \in bits : i < at \/ i > empty} \union {i + 1 : i \in bits \intersect (at .. empty - 1)}

shift_up(qf, at, empty, value) ==
    [qf EXCEPT
        !.slots = [i \in Slots |-> IF i = at THEN value
                                   ELSE IF at < i /\ i <= empty THEN @[i - 1] ELSE @[i]],
        !.runends = ShiftBits(@, at, empty),
        !.extensions = ShiftBits(@, at, empty)]

\* Mutant: the offset byte is not kept from overflowing.
nudge_offsets_NoSaturation(qf, b, empty) ==
    [qf EXCEPT !.offset = [k \in Blocks |->
        IF b \div SlotsPerBlock < k /\ k <= empty \div SlotsPerBlock THEN @[k] + 1 ELSE @[k]]]

\* Mutant: the block the shift ends in is left out.
nudge_offsets_LastBlockMissed(qf, b, empty) ==
    [qf EXCEPT !.offset = [k \in Blocks |->
        IF b \div SlotsPerBlock < k /\ k < empty \div SlotsPerBlock /\ @[k] < OffsetMax
        THEN @[k] + 1 ELSE @[k]]]

\* Every block after the bucket's that the shift pushes into is nudged.
nudge_offsets(qf, b, empty) ==
    [qf EXCEPT !.offset = [k \in Blocks |->
        IF b \div SlotsPerBlock < k /\ k <= empty \div SlotsPerBlock /\ @[k] < OffsetMax
        THEN @[k] + 1 ELSE @[k]]]

\* Mutant: off by one.
HasSpace_OffByOne(qf, at) == find_first_empty_slot(qf, at) <= XnSlots

HasSpace(qf, at) == find_first_empty_slot(qf, at) < XnSlots

make_space(qf, b, at, empty, value) ==
    nudge_offsets(shift_up(qf, at, empty, value), b, empty)

\* On QF_NO_SPACE the filter is left as it is; no caller looks at the result.
insert_one_slot(qf, target_index, insert_index, value) ==
    LET Insert(empty) == IF empty >= XnSlots THEN qf
                         ELSE make_space(qf, target_index, insert_index, empty, value)
    IN Insert(find_first_empty_slot(qf, insert_index))

-----------------------------------------------------------------------------
\* The slots from .. to - 1 as one number, the first slot lowest.
number(qf, from, to) ==
    LET n[i \in from .. to] == IF i = to THEN 0 ELSE get_slot(qf, i) + 2 ^ BitsPerSlot * n[i + 1]
    IN n[from]

\* One past the extension chunks, and one past the counter slots, from i on.
extension_end(qf, i) == FirstFrom({j \in Slots \union {i} : ~is_extension(qf, j)}, i)
counter_end(qf, i) == FirstFrom({j \in Slots \union {i} : ~is_counter(qf, j)}, i)

\* The extension chunks and the counter that follow the item at index.
get_slot_info(qf, index) ==
    LET Info(first_ctr, end) ==
            [ext |-> number(qf, index + 1, first_ctr), ext_len |-> first_ctr - (index + 1),
             count |-> IF end = first_ctr THEN 1 ELSE number(qf, first_ctr, end),
             count_len |-> end - first_ctr]
        From(first_ctr) == Info(first_ctr, counter_end(qf, first_ctr))
    IN From(extension_end(qf, index + 1))

(***************************************************************************)
(* The scan that every query makes: walk the run's items until one has the *)
(* hash's remainder and its chunks are the hash's.  The rank counts the    *)
(* items of that remainder in front of it.  On a miss the answer has only  *)
(* found to say.                                                           *)
(***************************************************************************)
Lookup(qf, hash) ==
    LET Miss == [found |-> FALSE, index |-> PastEnd, rank |-> 0, count |-> 0, ext_len |-> 0]
        Behind(r) == IF r.found THEN [r EXCEPT !.rank = @ + 1] ELSE r
        scan[i \in 0 .. PastEnd] ==
            LET Compare(info) ==
                    IF hash_ext(hash, info.ext_len) = info.ext
                    THEN [found |-> TRUE, index |-> i, rank |-> 0,
                          count |-> info.count, ext_len |-> info.ext_len]
                    ELSE IF is_runend(qf, i) THEN Miss
                    ELSE Behind(scan[i + 1 + info.ext_len + info.count_len])
            IN IF i >= XnSlots THEN Miss
               ELSE IF get_slot(qf, i) = remainder(hash) THEN Compare(get_slot_info(qf, i))
               ELSE IF is_runend(qf, i) THEN Miss
               ELSE scan[skip_extensions(qf, i + 1)]
    IN IF ~is_occupied(qf, bucket(hash)) THEN Miss ELSE scan[run_start(qf, bucket(hash))]

\* The queries differ in what they return: the count and the item's index, its
\* rank and the extension's length, or all of it but the length.
qf_query(qf, hash) == Lookup(qf, hash)
qf_query_using_ll_table_with_ext_len(qf, hash) == Lookup(qf, hash)
qf_get_count_using_ll_table_with_index(qf, hash) == Lookup(qf, hash)

-----------------------------------------------------------------------------
\* Mutant: a counter that needs a slot more is left as it is.
increment_counter_NoNewSlot(qf, index, hash, count) ==
    LET info == get_slot_info(qf, index)
    IN IF info.count_len = 0 THEN qf
       ELSE [set_slot(qf, index + info.ext_len + 1, (info.count + count) % 2 ^ BitsPerSlot)
                EXCEPT !.nelts = @ + count]

(***************************************************************************)
(* insert_and_extend for equal hashes: add count to the item's counter.    *)
(* Existing counter slots are rewritten at index + 1 + ext + i, where ext  *)
(* is the VALUE of the extension, not its length; new ones are inserted    *)
(* after the extension.                                                    *)
(***************************************************************************)
rewrite_counter(qf, index, info, hash, new_count) ==
    LET length == CHOOSE n \in 0 .. new_count :
                      /\ new_count < 2 ^ (BitsPerSlot * n)
                      /\ n > 0 => new_count >= 2 ^ (BitsPerSlot * (n - 1))
        iterations == Max({info.count_len, length})
        digit(i) == (new_count \div 2 ^ (BitsPerSlot * i)) % 2 ^ BitsPerSlot
        new_slot(q, at, value) ==
            [insert_one_slot(q, bucket(hash), at, value) EXCEPT
                !.extensions = @ \union {at}, !.runends = @ \union {at},
                !.noccupied_slots = @ + 1]
        after[i \in 0 .. iterations] ==    \* the filter after i iterations
            IF i = 0 THEN qf
            ELSE IF i <= info.count_len
                 THEN set_slot(after[i - 1], index + info.ext + i, digit(i - 1))
                 ELSE new_slot(after[i - 1], index + info.ext_len + i, digit(i - 1))
    IN after[iterations]

\* Mutant: the counter's slot goes in front of the item's chunks.
increment_counter_BeforeChunks(qf, index, hash, count) ==
    [insert_one_slot(qf, bucket(hash), index + 1, count + 1) EXCEPT
        !.extensions = @ \union {index + 1}, !.runends = @ \union {index + 1},
        !.noccupied_slots = @ + 1, !.nelts = @ + count]

increment_counter(qf, index, hash, count) ==
    LET Rewrite(info) == rewrite_counter(qf, index, info, hash, info.count + count)
    IN [Rewrite(get_slot_info(qf, index)) EXCEPT !.nelts = @ + count]

(***************************************************************************)
(* adapt: append chunks of hash to the item at index until one differs     *)
(* from other_hash's or the hash is used up.  A one-slot counter is turned *)
(* into the first chunk; an item with a longer counter is left alone.      *)
(* Running out of slots stops it between two chunks.                       *)
(***************************************************************************)
append_chunks(qf, index, info, b, hash, other_hash) ==
    LET at(i) == index + info.ext_len + i        \* the slot of the i-th new chunk
        value(h, i) == chunk(h, info.ext_len + i - 1)
        last(i) == \/ value(hash, i) # value(other_hash, i)
                   \/ QuotientBits + BitsPerSlot * (info.ext_len + i + 1) >= HashBits
        append(q, i) ==
            [make_space(q, b, at(i), find_first_empty_slot(q, at(i)), value(hash, i)) EXCEPT
                !.extensions = @ \union {at(i)}, !.noccupied_slots = @ + 1]
        overwrite(q, i) == [q EXCEPT !.slots[at(i)] = value(hash, i), !.runends = @ \ {at(i)}]
        iteration(q, i) ==
            IF ~HasSpace(q, at(i)) THEN q
            ELSE IF i = 1 /\ info.count_len = 1 THEN overwrite(q, i) ELSE append(q, i)
        iterations == Min({i \in 1 .. HashBits : last(i)})
        after[i \in 0 .. iterations] == IF i = 0 THEN qf ELSE iteration(after[i - 1], i)
    IN after[iterations]

adapt(qf, index, b, hash, other_hash) ==
    LET Adapt(info) == IF info.count_len > 1 THEN qf
                       ELSE append_chunks(qf, index, info, b, hash, other_hash)
    IN Adapt(get_slot_info(qf, index))

\* Mutant: the new item is not extended.
insert_extended_StoredOnly(qf, index, hash, other_hash) ==
    LET b == bucket(hash)
        stored == adapt(qf, index, b, other_hash, hash)
    IN [insert_one_slot(stored, b, index, remainder(hash)) EXCEPT
           !.ndistinct_elts = @ + 1, !.noccupied_slots = @ + 1, !.nelts = @ + 1]

\* insert_and_extend for different hashes: extend the stored item away from
\* hash, put hash in front of it and extend that one away from the stored one.
insert_extended(qf, index, hash, other_hash) ==
    LET b == bucket(hash)
        stored == adapt(qf, index, b, other_hash, hash)
        added == insert_one_slot(stored, b, index, remainder(hash))
    IN [adapt(added, index, b, hash, other_hash) EXCEPT
           !.ndistinct_elts = @ + 1, !.noccupied_slots = @ + 1, !.nelts = @ + 1]

add_counter(qf, index, hash, count) ==
    IF count > 1 THEN increment_counter(qf, index, hash, count - 1) ELSE qf

insert_and_extend(qf, index, hash, count, other_hash) ==
    IF hash = other_hash THEN increment_counter(qf, index, hash, count)
    ELSE add_counter(insert_extended(qf, index, hash, other_hash), index, hash, count)

qf_adapt(qf, index, hash, other_hash) ==
    IF hash = other_hash THEN qf ELSE adapt(qf, index, bucket(hash), hash, other_hash)

\* Walk to the item of the given rank in the minirun of fp_hash and adapt it.
\* The walk leaves the run unnoticed while the remainders are too small.
qf_adapt_using_ll_table(qf, orig_hash, fp_hash, minirun_rank) ==
    LET rem == remainder(fp_hash)
        at(i) == i < XnSlots /\ get_slot(qf, i) = rem
        reach(i) == FirstFrom({j \in (Slots \ qf.extensions) \union {i} : get_slot(qf, j) >= rem}, i)
        behind(i, info) == reach(i + 1 + info.ext_len + info.count_len)
        item[rank \in 0 .. PastEnd] ==  \* the index the walk reaches with this rank
            IF rank = 0 THEN reach(run_start(qf, bucket(fp_hash)))
            ELSE LET i == item[rank - 1]
                 IN IF at(i) /\ ~is_runend(qf, i) THEN behind(i, get_slot_info(qf, i)) ELSE PastEnd
    IN IF is_occupied(qf, bucket(fp_hash)) /\ at(item[minirun_rank])
       THEN qf_adapt(qf, item[minirun_rank], orig_hash, fp_hash) ELSE qf

-----------------------------------------------------------------------------
\* The load limit of qf_insert_using_ll_table, qf_insert_ret and qf_insert.
AtLoadLimit(qf) == 100 * qf.noccupied_slots >= 95 * nslots

\* Mutant: nelts is forgotten.
counted_NoElts(qf, added) ==
    [qf EXCEPT !.ndistinct_elts = @ + 1, !.noccupied_slots = @ + 1]

counted(qf, added) ==
    [qf EXCEPT !.ndistinct_elts = @ + 1, !.noccupied_slots = @ + 1, !.nelts = @ + added]

\* An empty home slot: the item becomes a run of its own there.
insert_at_home(qf, hash, count) ==
    LET b == bucket(hash)
        r == [qf EXCEPT !.slots[b] = remainder(hash), !.runends = @ \union {b},
                        !.occupieds = @ \union {b}]
    IN add_counter(counted(r, 1), b, hash, count)

\* Mutant: no runend for the new run.
insert_new_run_NoRunend(qf, hash, count) ==
    LET b == bucket(hash)
        r == insert_one_slot(qf, b, run_start(qf, b), remainder(hash))
    IN counted([r EXCEPT !.occupieds = @ \union {b}], 1)

\* A bucket without a run whose home slot is taken.  The bits are set whether
\* or not insert_one_slot found space, and the counter goes to the item that
\* occupies the home slot.
insert_new_run(qf, hash, count) ==
    LET b == bucket(hash)
        start == run_start(qf, b)
        r == insert_one_slot(qf, b, start, remainder(hash))
    IN add_counter(counted([r EXCEPT !.runends = @ \union {start}, !.occupieds = @ \union {b}], 1),
                   b, hash, count)

\* Into an existing run, before the item at index or (at_end) after it, the
\* run's last one.
insert_in_run(qf, hash, count, index, at_end, added) ==
    LET Flip(bits, i) == IF i \in bits THEN bits \ {i} ELSE bits \union {i}
        Insert(place) ==
            [insert_one_slot(qf, bucket(hash), place, remainder(hash)) EXCEPT
                !.runends = IF at_end THEN Flip(@ \union {place}, index) ELSE @]
        place == IF at_end THEN skip_extensions(qf, index + 1) ELSE index
    IN add_counter(counted(Insert(place), added), place, hash, count)

NotInserted(qf, code) == [ret |-> code, qf |-> qf, minirun_existed |-> FALSE, minirun_rank |-> 0]

home_slot_empty(qf, b) == might_be_empty(qf, b) /\ run_end(qf, b) = b

\* minirun_rank as insert_using_ll_table counts it, from the minirun's first
\* item on: the next slot is compared with the remainder whether it holds an
\* item, a chunk or a counter.
count_minirun(qf, rem, first) ==
    LET from[i \in 0 .. PastEnd] ==
            LET next == skip_extensions(qf, i) + 1
            IN 1 + (IF is_runend(qf, i) \/ get_slot(qf, next) # rem THEN 0 ELSE from[next])
    IN from[first]

(***************************************************************************)
(* insert_using_ll_table: the new item goes in front of its minirun,       *)
(* whatever that holds.                                                    *)
(***************************************************************************)
insert_using_ll_table(qf, hash, count) ==
    LET b == bucket(hash)
        rem == remainder(hash)
        stop(start) == FirstFrom({i \in (Slots \ qf.extensions) \union {start} :
                                     get_slot(qf, i) >= rem \/ is_runend(qf, i)}, start)
        Done(r, e, rank) == [ret |-> 0, qf |-> r, minirun_existed |-> e, minirun_rank |-> rank]
        InRun(i) ==
            IF i >= XnSlots THEN NotInserted(qf, -1)
            ELSE Done(insert_in_run(qf, hash, count, i, get_slot(qf, i) < rem, count),
                      get_slot(qf, i) = rem,
                      IF get_slot(qf, i) = rem THEN count_minirun(qf, rem, i) ELSE 0)
    IN IF home_slot_empty(qf, b) THEN Done(insert_at_home(qf, hash, count), FALSE, 0)
       ELSE IF ~is_occupied(qf, b) THEN Done(insert_new_run(qf, hash, count), FALSE, 0)
       ELSE InRun(stop(run_start(qf, b)))

qf_insert_using_ll_table(qf, hash, count) ==
    IF AtLoadLimit(qf) THEN NotInserted(qf, -1)
    ELSE IF count = 0 THEN NotInserted(qf, 0)
    ELSE insert_using_ll_table(qf, hash, count)

(***************************************************************************)
(* insert: returns 0 with the index of the colliding item when a stored    *)
(* fingerprint already matches the hash, and 1 after storing a new one     *)
(* behind the fingerprints of its minirun that do not match.               *)
(***************************************************************************)
insert(qf, hash, count) ==
    LET b == bucket(hash)
        rem == remainder(hash)
        extends(info) == hash_ext(hash, info.ext_len) = info.ext
        matches(i) == get_slot(qf, i) = rem /\ extends(get_slot_info(qf, i))
        stop(start) == FirstFrom({i \in (Slots \ qf.extensions) \union {start} :
                                     matches(i) \/ get_slot(qf, i) > rem \/ is_runend(qf, i)}, start)
        Done(ret, r, i) == [ret |-> ret, qf |-> r, index |-> i]
        InRun(i) ==
            IF i >= XnSlots THEN Done(-1, qf, PastEnd)
            ELSE IF matches(i) THEN Done(0, qf, i)
            ELSE Done(1, insert_in_run(qf, hash, count, i, get_slot(qf, i) <= rem, 1), PastEnd)
    IN IF home_slot_empty(qf, b) THEN Done(1, insert_at_home(qf, hash, count), PastEnd)
       ELSE IF ~is_occupied(qf, b) THEN Done(1, insert_new_run(qf, hash, count), PastEnd)
       ELSE InRun(stop(run_start(qf, b)))

qf_insert_ret(qf, hash, count) ==
    IF AtLoadLimit(qf) \/ count = 0
    THEN [ret |-> IF AtLoadLimit(qf) THEN -1 ELSE 0, qf |-> qf, index |-> PastEnd]
    ELSE insert(qf, hash, count)

-----------------------------------------------------------------------------
\* Mutant: the cluster's last slot keeps its bits.
shift_down_LastKept(qf, index, end) ==
    LET Bits(S) == {i \in S : i < index \/ i >= end} \union {i - 1 : i \in S \intersect (index + 1 .. end)}
    IN [qf EXCEPT !.slots = [i \in Slots |-> IF i = end THEN 0
                                             ELSE IF index <= i /\ i < end THEN @[i + 1] ELSE @[i]],
                  !.runends = Bits(@), !.extensions = Bits(@)]

\* Close the gap at index: everything up to the end of the cluster moves down.
shift_down(qf, index, end) ==
    LET Bits(S) == {i \in S : i < index \/ i > end} \union {i - 1 : i \in S \intersect (index + 1 .. end)}
    IN [qf EXCEPT !.slots = [i \in Slots |-> IF i = end THEN 0
                                             ELSE IF index <= i /\ i < end THEN @[i + 1] ELSE @[i]],
                  !.runends = Bits(@), !.extensions = Bits(@)]

\* The last slot of the cluster, from the last slot of a run of bucket b on:
\* step from run to run while the next occupied bucket is not past it.
cluster_end(qf, b, last) ==
    LET next_bucket(k, slot) == FirstFrom((qf.occupieds \intersect (0 .. slot)) \union {slot + 1}, k + 1)
        run_last(i) == skip_extensions(qf, FirstFrom({j \in Slots : is_runend(qf, j)}, i) + 1) - 1
        f[k \in 0 .. PastEnd + 1, slot \in 0 .. PastEnd] ==
            IF k > slot THEN slot
            ELSE LET end == run_last(slot + 1) IN f[next_bucket(k, end), end]
    IN f[next_bucket(b, last), last]

\* Mutant: only the block after b's.
update_offsets_NextOnly(qf, b) ==
    LET k == b \div SlotsPerBlock + 1
        last == SlotsPerBlock * k - 1
    IN IF k \notin Blocks THEN qf
       ELSE [qf EXCEPT !.offset[k] = (run_end(qf, last) - last) % (OffsetMax + 1)]

\* The blocks after b's get the spill of the last run before them, until one
\* already has it.  The stored byte keeps it modulo OffsetMax + 1.
update_offsets(qf, b) ==
    LET f[k \in Blocks] ==
            LET q == IF k = b \div SlotsPerBlock THEN qf ELSE f[k - 1].qf
                last == SlotsPerBlock * (k + 1) - 1
                spill == run_end(q, last) - last
                going == k = b \div SlotsPerBlock \/ f[k - 1].going
            IN IF ~going \/ k + 1 \notin Blocks \/ q.offset[k + 1] = spill
               THEN [qf |-> q, going |-> FALSE]
               ELSE [qf |-> [q EXCEPT !.offset[k + 1] = spill % (OffsetMax + 1)], going |-> TRUE]
    IN f[nblocks - 1].qf

\* remove_replace_slots_and_shift_remainders_and_runends_and_offsets.
remove_slots(qf, only_item_in_run, b, index, length) ==
    LET was_runend == is_runend(qf, index)
        prev == Max({i \in 0 .. index - 1 : ~is_extension_or_counter(qf, i)} \union {0})
        start == IF was_runend /\ ~only_item_in_run
                 THEN [qf EXCEPT !.runends = @ \union {prev}] ELSE qf
        run_last(q) == LET e == IF was_runend THEN index
                                ELSE FirstFrom({i \in Slots : is_runend(q, i)}, index)
                       IN skip_extensions(q, e + 1) - 1
        after[n \in 0 .. length] ==
            IF n = 0 THEN start
            ELSE LET q == after[n - 1] IN shift_down(q, index, cluster_end(q, b, run_last(q)))
        freed == after[length]
    IN update_offsets(IF only_item_in_run THEN [freed EXCEPT !.occupieds = @ \ {b}] ELSE freed, b)

\* while (is_extension_or_counter(qf, ++i)) i++;
skip_two_by_two(qf, i) ==
    FirstFrom({j \in i + 1 .. PastEnd + 1 : (j - i) % 2 = 1 /\ ~is_extension_or_counter(qf, j)}, i + 1)

\* Mutant: the slots freed stay counted.
uncounted_ItemsOnly(qf, length, count) ==
    [qf EXCEPT !.ndistinct_elts = @ - 1, !.nelts = @ - count]

uncounted(qf, length, count) ==
    [qf EXCEPT !.noccupied_slots = @ - length, !.ndistinct_elts = @ - 1, !.nelts = @ - count]

(***************************************************************************)
(* qf_remove (_remove): free all slots of the first fingerprint that       *)
(* matches the hash.  Items with another remainder are stepped over two    *)
(* slots at a time.                                                        *)
(***************************************************************************)
qf_remove(qf, hash) ==
    LET b == bucket(hash)
        start == run_start(qf, b)
        scan[i \in 0 .. PastEnd + 1] ==
            LET only == i = start /\ is_runend(qf, i)
                Compare(info) ==
                    LET length == 1 + info.ext_len + info.count_len
                    IN IF hash_ext(hash, info.ext_len) = info.ext
                       THEN uncounted(remove_slots(qf, only, b, i, length), length, info.count)
                       ELSE IF is_runend(qf, i) THEN qf ELSE scan[i + length]
            IN IF i >= XnSlots THEN qf
               ELSE IF get_slot(qf, i) = remainder(hash) THEN Compare(get_slot_info(qf, i))
               ELSE IF is_runend(qf, i) THEN qf
               ELSE scan[skip_two_by_two(qf, i)]
    IN IF ~is_occupied(qf, b) THEN qf ELSE scan[skip_extensions(qf, start)]
=============================================================================
