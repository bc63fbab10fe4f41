------------------------------- MODULE GQFMerge -------------------------------
(***************************************************************************)
(* The parts of src/src/gqf.c that read a whole filter in order and write  *)
(* another one from left to right: the iterator, qf_merge and              *)
(* qf_bulk_insert.  Both writers go through _merge_insert, which appends   *)
(* an item behind the last one and keeps its own account of the block      *)
(* offsets; the metadata counters are left at 0.                           *)
(***************************************************************************)
EXTENDS GQFLayout

MaxExtLen == (HashBits - QuotientBits - 1) \div BitsPerSlot

\* qfi_end
qfi_end(it) == it.current >= XnSlots

\* An unoccupied position makes the search for a bucket start in the block
\* whose NUMBER is the position; callers pass 0, and never an empty filter,
\* for which the search leaves the buffer.
qf_iterator_from_position(qf, position) ==
    LET run == IF is_occupied(qf, position) THEN position
               ELSE FirstFrom(qf.occupieds, SlotsPerBlock * position)
    IN [run |-> run, current |-> Max({run, run_start(qf, run)})]

\* Mutant: the iterator is not taken up to the bucket of the next run.
qfi_next_NoGap(qf, it) ==
    LET next == skip_extensions(qf, it.current + 1)
        later == {b \in qf.occupieds : b > it.run}
    IN IF next >= XnSlots \/ ~is_runend(qf, it.current) THEN [it EXCEPT !.current = next]
       ELSE IF later = {} THEN [run |-> XnSlots, current |-> XnSlots]
       ELSE [run |-> Min(later), current |-> next]

\* Past the item's chunks and counter, and from a runend to the next run.
qfi_next(qf, it) ==
    LET next == skip_extensions(qf, it.current + 1)
        later == {b \in qf.occupieds : b > it.run}
    IN IF next >= XnSlots \/ ~is_runend(qf, it.current) THEN [it EXCEPT !.current = next]
       ELSE IF later = {} THEN [run |-> XnSlots, current |-> XnSlots]
       ELSE [run |-> Min(later), current |-> Max({next, Min(later)})]

Fingerprint(run, rem, info) ==
    [run |-> run, rem |-> rem, ext |-> info.ext, ext_len |-> info.ext_len, count |-> info.count]

qfi_get_hash(qf, it) ==
    Fingerprint(it.run, get_slot(qf, it.current), get_slot_info(qf, it.current))

\* All that the loop while (!qfi_next(&qfi)) sees, from position 0 on.
Visited(qf) ==
    LET from[it \in [run : Slots \union {XnSlots}, current : Nat]] ==
            IF qfi_end(it) THEN <<>>
            ELSE <<qfi_get_hash(qf, it)>> \o from[qfi_next(qf, it)]
    IN from[qf_iterator_from_position(qf, 0)]

-----------------------------------------------------------------------------
ext_chunk(item, j) == (item.ext \div 2 ^ (BitsPerSlot * j)) % 2 ^ BitsPerSlot

\* Mutant: extensions of different lengths and the same value are equal.
_finger_cmp_NoLength(a, b) ==
    LET differ == {j \in 0 .. MaxExtLen : ext_chunk(a, j) # ext_chunk(b, j)}
        Cmp(x, y) == IF x < y THEN -1 ELSE IF x > y THEN 1 ELSE 0
    IN IF a.rem # b.rem THEN Cmp(a.rem, b.rem)
       ELSE IF differ # {} THEN Cmp(ext_chunk(a, Min(differ)), ext_chunk(b, Min(differ)))
       ELSE 0

\* Remainders, then chunk by chunk, then lengths.
_finger_cmp(a, b) ==
    LET differ == {j \in 0 .. MaxExtLen : ext_chunk(a, j) # ext_chunk(b, j)}
        Cmp(x, y) == IF x < y THEN -1 ELSE IF x > y THEN 1 ELSE 0
    IN IF a.rem # b.rem THEN Cmp(a.rem, b.rem)
       ELSE IF differ # {} THEN Cmp(ext_chunk(a, Min(differ)), ext_chunk(b, Min(differ)))
       ELSE Cmp(a.ext_len, b.ext_len)

digits(count) ==
    LET d[n \in Nat] == IF n = 0 THEN <<>> ELSE <<n % 2 ^ BitsPerSlot>> \o d[n \div 2 ^ BitsPerSlot]
    IN IF count > 1 THEN d[count] ELSE <<>>

\* The slots an item takes.
item_slots(item) ==
    <<item.rem>> \o [j \in 1 .. item.ext_len |-> ext_chunk(item, j - 1)] \o digits(item.count)

\* Mutant: offsets are only raised in the block behind the bucket's.
block_share_Next(index, end, run, k) ==
    IF k = run \div SlotsPerBlock + 1 THEN Cardinality({i \in index .. end - 1 : i \div SlotsPerBlock = k}) ELSE 0

\* How much _merge_insert adds to the offset of block k: the item's slots in
\* it, not those in blocks behind it.
block_share(index, end, run, k) ==
    IF k = run \div SlotsPerBlock THEN 0
    ELSE Cardinality({i \in index .. end - 1 : i \div SlotsPerBlock = k})

\* The filter with item appended at index; the next free index is
\* index + Len(item_slots(item)).
_merge_insert(qf, index, item) ==
    LET written == item_slots(item)
        end == index + Len(written)
    IN [qf EXCEPT
           !.slots = [i \in Slots |-> IF index <= i /\ i < end THEN written[i - index + 1] ELSE @[i]],
           !.extensions = @ \union (index + 1 .. end - 1),
           !.runends = @ \union (index + 1 + item.ext_len .. end - 1),
           !.offset = [k \in Blocks |->
               (@[k] + block_share(index, end, item.run, k)) % (OffsetMax + 1)]]

open_run(qf, run) == [qf EXCEPT !.occupieds = @ \union {run}]
close_run(qf, last) == IF last < 0 THEN qf ELSE [qf EXCEPT !.runends = @ \union {last}]

(***************************************************************************)
(* qf_merge_ret: two iterators, the run being written, the next free index *)
(* and the index of the last item.  An iterator at its end stands on a run *)
(* behind every other, so the loops for what one filter has left are the   *)
(* main loop's.  coll are the fingerprints found in both.                  *)
(***************************************************************************)
qf_merge_ret(qfa, qfb, qfc) ==
    LET Take(s, item, taken) ==
            [s EXCEPT !.qf = _merge_insert(@, s.index, item),
                      !.index = @ + Len(item_slots(item)), !.last = s.index,
                      !.a = IF "a" \in taken THEN qfi_next(qfa, @) ELSE @,
                      !.b = IF "b" \in taken THEN qfi_next(qfb, @) ELSE @]
        Both(s, x, y) ==
            CASE _finger_cmp(x, y) = 0 ->
                    [Take(s, [x EXCEPT !.count = @ + y.count], {"a", "b"}) EXCEPT
                        !.coll = @ \union {[x EXCEPT !.count = 0]}]
              [] _finger_cmp(x, y) = -1 -> Take(s, x, {"a"})
              [] OTHER -> Take(s, y, {"b"})
        NextRun(s, run) ==
            [s EXCEPT !.qf = close_run(open_run(@, run), s.last),
                      !.run = run, !.index = Max({@, run})]
        Step(s) ==
            IF s.a.run = s.run /\ s.b.run = s.run
            THEN Both(s, qfi_get_hash(qfa, s.a), qfi_get_hash(qfb, s.b))
            ELSE IF s.a.run = s.run THEN Take(s, qfi_get_hash(qfa, s.a), {"a"})
            ELSE IF s.b.run = s.run THEN Take(s, qfi_get_hash(qfb, s.b), {"b"})
            ELSE NextRun(s, Min({s.a.run, s.b.run}))
        a0 == qf_iterator_from_position(qfa, 0)
        b0 == qf_iterator_from_position(qfb, 0)
        after[n \in Nat] ==
            IF n = 0
            THEN [qf |-> IF 0 \in {a0.run, b0.run} THEN open_run(qfc, 0) ELSE qfc,
                  a |-> a0, b |-> b0, run |-> 0, index |-> 0, last |-> -1, coll |-> {}]
            ELSE LET s == after[n - 1]
                 IN IF qfi_end(s.a) /\ qfi_end(s.b) THEN s ELSE Step(s)
        done == after[2 * PastEnd]
    IN [qf |-> close_run(done.qf, done.last), coll |-> done.coll]

-----------------------------------------------------------------------------
\* The first chunk in which two hashes of one fingerprint differ.
first_difference(h1, h2) == Min({j \in 0 .. MaxExtLen : chunk(h1, j) # chunk(h2, j)})

\* qf_hash_cmp(h1, h2) < 0
HashLess(h1, h2) ==
    IF bucket(h1) # bucket(h2) THEN bucket(h1) < bucket(h2)
    ELSE IF remainder(h1) # remainder(h2) THEN remainder(h1) < remainder(h2)
    ELSE /\ h1 # h2
         /\ LET j == first_difference(h1, h2) IN chunk(h1, j) < chunk(h2, j)

\* The extension an item needs to be told from the next key.
min_extension(current, next) ==
    IF minirun_id(current) # minirun_id(next) THEN 0 ELSE first_difference(current, next) + 1

\* Mutant: the item is only told from the key before.
insert_current_PreviousOnly(s, key, next_ext_len) ==
    LET item == Fingerprint(bucket(key), remainder(key),
                            [ext |-> hash_ext(key, s.ext_len), ext_len |-> s.ext_len, count |-> s.count])
    IN [qf |-> _merge_insert(s.qf, s.index, item), index |-> s.index + Len(item_slots(item)),
        ext_len |-> next_ext_len, count |-> 1]

\* Write the current key, extended away from both its neighbours.
insert_current(s, key, next_ext_len) ==
    LET len == Max({s.ext_len, next_ext_len})
        item == Fingerprint(bucket(key), remainder(key),
                            [ext |-> hash_ext(key, len), ext_len |-> len, count |-> s.count])
    IN [qf |-> _merge_insert(s.qf, s.index, item), index |-> s.index + Len(item_slots(item)),
        ext_len |-> next_ext_len, count |-> 1]

(***************************************************************************)
(* qf_bulk_insert of keys sorted by qf_hash_cmp: each round looks one key  *)
(* ahead before it writes the current one.  ext_len is what the current    *)
(* key needs to differ from the key before, count how often it came.       *)
(***************************************************************************)
qf_bulk_insert(qf, keys) ==
    LET NewRun(s, run) ==
            [s EXCEPT !.qf = open_run(close_run(@, s.index), run)]
        Reach(s, run) == [s EXCEPT !.index = Max({@, run})]
        Round(s, current, next) ==
            IF next = current THEN [s EXCEPT !.count = @ + 1]
            ELSE IF bucket(next) = bucket(current)
                 THEN insert_current(s, current, min_extension(current, next))
            ELSE Reach(insert_current(NewRun(s, bucket(next)), current, 0), bucket(next))
        after[i \in DOMAIN keys] ==
            IF i = 1 THEN [qf |-> open_run(qf, bucket(keys[1])), index |-> bucket(keys[1]),
                           ext_len |-> 0, count |-> 1]
            ELSE Round(after[i - 1], keys[i - 1], keys[i])
        Finish(s) == insert_current([s EXCEPT !.qf = close_run(@, s.index)], Last(keys), 0).qf
    IN Finish(after[Len(keys)])
=============================================================================
