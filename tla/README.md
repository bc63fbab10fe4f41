# A TLA+ model of the SkiRental adaptive quotient filters

This directory is a verification project for the adaptive quotient filters of
this repository: TLA+ modules written from the code, TLC configurations that
check them on small instances, and theorems whose proofs TLAPS checks.

## The system

An adaptive filter answers "have you stored this key?" from a compact array of
fingerprints. When it is wrong (a false positive) and the caller finds out, the
filter can be told to *adapt*: it appends more bits of the stored key's hash to
the fingerprint, so that the same query is answered correctly from then on. To
do that it needs the stored key, which only a slow *reverse map* knows. SkiQF
and HybridSkiQF decide when that lookup is worth its price.

| Part | Source | State | Operations |
|---|---|---|---|
| slot array | `src/src/gqf.c` | slots; occupied, runend and extension bits; one saturating offset byte per block; three metadata counts | init, two insertions, queries, counts, adapt, `insert_and_extend`, remove; iterators, merge, resize, bulk load |
| region locks | `gqf.c:124-242` | one spin lock per 2^16 slots | `qf_lock`, `qf_unlock` |
| filter variants | `src/variants/*.hpp` | `qf`, the reverse map, `fullPoint`; Hybrid's window averages | `bulkLoad`, `queryFilter`, `adapt` |
| reverse maps, stores | `src/db/*.hpp` | fingerprint -> keys by rank; the key database | `insertFingerprint`, `getFingerprint`, `insertKV`, `lookupKey` |
| benchmark loop | `src/bench/cpp/bench_variants.cc` | positives to replay, counts | load, query, replay |
| fingerprint-table clients | `src/src/test_deletions.c`, `test_near_full.c` | a table from whole fingerprints to keys | insert, extend two apart, adapt, remove |
| partitioned counter | `src/src/partitioned_counter.c` | a global and several local counts | `pc_add`, `pc_sync` |
| telescoping filter | `src/src/taf.cc` | slots with runs, blocked offsets, a selector code per block; a remote table of elements | `taf_insert`, `taf_lookup` (which adapts) |
| adaptive cuckoo filter | `other_filters/acf/src/cuckoofilter.h`, `mirroredtable.h` | buckets of tags, a selector per bucket, a map from slots to keys, one victim | add, contain, adapt |
| linked-list reverse map | `src/src/ll_table.c`, `hash_table.c` | chained table | insert, query |
| file-backed filters | `src/src/gqf_file.c` | a mapped file | use, resize, serialise |

How they interact. `bench_variants.cc` calls one variant on one thread:
`bulkLoad` inserts every key into the slot array and, under the fingerprint and
the *rank* the insertion reports, into the reverse map. A query that the filter
answers "present" goes to the database; if the key is not there the variant's
`adapt` is called with what the query returned (rank, count, slot index). Below
the break-even count SkiQF charges the false positive to the item's counter;
at it, it fetches the key of that rank and extends the item. Other clients
(`test_deletions.c`) keep their own table from fingerprints to keys instead of
ranks. Clients with threads (`test_driver.c`) meet only in the region locks and
the metadata counts. `test_merge.c` and `test_bulk.c` make a whole filter out of
two others or out of a sorted list of keys. The telescoping and the cuckoo
filter are what the experiments compare with; they share no code with `gqf.c`.

What is hard here:

* **Ranks.** Nothing in the slot array names a key. A rank is the only tie
  between an item and the key it will be extended with, insertion puts new items
  *in front of* old ones while it reports the number of items already there, and
  both reverse maps have their own order. A rank off by one loses a key much
  later, at the first adaptation.
* **Layout.** Runs are found through block offsets that saturate at one byte and
  are nudged by insertions but recomputed by removals. Extension chunks and
  counters are told from items by two bits, and shifted with them.
* **Copies.** Merging and bulk loading write a filter from left to right without
  the functions that insert, and keep their own account of runends and offsets.
* **Selectors.** The other two filters adapt by changing the hash function of a
  slot or bucket. The remainder or tag must follow the selector wherever the item
  goes, and a code that no longer fits forgets selectors.
* **Space.** The full point is checked once per call, an adaptation may stop
  half way, and several callers ignore "no space".
* **Time.** Charges must add up to an adaptation, and adaptations must in the end
  separate a repeated query from every item that matches it. Hybrid waits for
  averages over windows that are reset as they close.
* **Threads.** Which neighbours' locks an operation takes depends on how near the
  border of its region it starts.

The hazards, each with its line and the properties that watch it, are in
`PROJECT.json`.

## Modules

| Module | Models | Uses |
|---|---|---|
| `AdaptiveFilter` | the *abstract specification*: miniruns as sequences of items, the reverse map as sequences of keys, and each variant's decision | |
| `AdaptiveFilterProofs` | five theorems about it | `AdaptiveFilter` |
| `GQF` | the functions of `gqf.c` as operators from filter to filter | |
| `GQFLayout` | what the bits mean without block offsets (reference definitions for the properties) | `GQF` |
| `GQFProofs` | the operators of `GQF` answer what they should and keep a filter in shape, for every size | `GQFLayout`, `RunLayout` |
| `SlotFilter` | the variants, the reverse map and the benchmark loop on the slot array | `GQFLayout` |
| `MinirunProofs` | what each operation does to the items of a minirun: what is filed behind an item is still found there, and what else it shows, for every size | `GQFProofs` |
| `SlotFilterProofs` | while there is room its layout and offsets stay exact, and no loaded key is lost, and it implements the miniruns, for every size, variant and reverse map | `SlotRefinement`, `MinirunProofs` |
| `SlotRefinement` | `SlotFilter` implements `AdaptiveFilter` | `SlotFilter`, `AdaptiveFilter` |
| `Replay` | `SlotFilter` under the adversarial replay, with fairness | `SlotFilter` |
| `GQFChurn` | clients with a fingerprint table: extending apart, adapting, removing | `GQFLayout` |
| `GQFMerge` | the iterator, `qf_merge_ret`, `qf_bulk_insert` as operators | `GQFLayout` |
| `GQFCopies` | clients that fill two filters and merge them, or load one in bulk | `GQFChurn`, `GQFMerge` |
| `HybridWindow` | HybridSkiQF's windows and averages over the abstract filter | `AdaptiveFilter` |
| `TAF` | the telescoping filter | |
| `RunLayout` | layouts of a quotient filter as sets, what rank and select count in them, what an insertion makes of them: lemmas only | |
| `TAFProofs` | its runs and offsets stay exact and its elements are found, for every size | `TAF`, `RunLayout` |
| `ACF` | the adaptive cuckoo filter | |
| `GQFLocks` | region locks, the operations between them, the metadata count | |
| `GQFLocksProofs` | mutual exclusion for every size | `GQFLocks` |
| `PartitionedCounter` | `pc_add` and `pc_sync` at the grain of their atomic operations | |
| `PartsProofs` | nothing is lost by the counter and its error at rest, for every number of threads; the cuckoo filter's tags stay tied to items, for every size and whatever is in front of its hash functions; Hybrid implements the abstract filter, and its windows | `PartitionedCounter`, `ACF`, `HybridWindow`, `AdaptiveFilterProofs` |
| `MC_*` | instances | |

### GQF

A filter is one record `qf`. A bit vector is the set of slots whose bit is 1;
the word-level tricks (`bitrank`, `bitselectv`, `shift_into_b`) become set
expressions over slots, since a block of `SlotsPerBlock` slots is a word of 64 in
the code. Each C function is one operator of the same name: readers
(`run_end`, `block_offset`, `find_first_empty_slot`, `get_slot_info`, `qf_query`)
and writers (`insert_one_slot`, `adapt`, `insert_and_extend`,
`qf_insert_using_ll_table`, `qf_insert_ret`, `qf_remove`). `Lookup` is the
scan that `qf_query` and the `ll_table` queries each repeat. Nothing is repaired in the translation:

* `offset_lower_bound` may be negative or 0 as in the code and
  `find_first_empty_slot` reacts to it in the same way;
* `block_offset` walks back through saturated offsets;
* `insert_one_slot` leaves the filter alone when there is no space, and its
  callers go on setting bits and counts;
* `increment_counter` writes existing counter slots at `index + 1 + ext + i`
  with `ext` the extension's value;
* `remove_slots` frees an item slot by slot, finding the end of the cluster anew
  each time; `update_offsets` keeps a byte modulo its width and stops at the
  first block that looks right; `skip_two_by_two` is `_remove`'s scan.

Recursion is by recursive functions, so that the module may be proved about. The
default build compiles assertions out (`-DNDEBUG`), so they are no guards here.

A hash is a number of `HashBits` bits: remainder, quotient, then the chunks that
adaptations append. All calls pass `QF_KEY_IS_HASH`, as the variants do.

### SlotFilter

`Load` is one iteration of `bulkLoad` (`LoadRefused` its error path, `EndLoad`
its end, for any `numKeys` up to `NumKeys`). `Query(k)` is one iteration of the
query loop, with the query, the database lookup and `adapt` in one step, because
the loop is one thread: `AdaptDeclined`, `AdaptCharge` and `AdaptExtend` are the
three things `adapt` may do. `queryFilter` narrows rank and count to a byte where
the code does; HybridSkiQF keeps its rank an `int`. The coin of CoinFlip and the window averages of Hybrid are left open
(any decision is allowed). `insertFingerprint` and `getFingerprint` are external
stores as `src/db` uses them: SplinterDB replaces the value at rank 0 and merges
in front otherwise; WiredTiger has a row per rank; SplinterDB does not check the
rank against the length of the value.

### AdaptiveFilter

The promise to a reader who does not want to know about slots. A minirun is a
sequence of items, an item is an extension and a count, the reverse map is a
sequence of keys. `Insert`, `Charge`, `Adapt`, `AdaptNoSpace` (an adaptation cut
short) are its steps. `BreakEven` is assumed to be 1 or 2, because from 3 on the
code does not keep the promise (run `ski_break_even_3`).

### GQFChurn

The other protocol, of `test_deletions.c` and `test_near_full.c`. The caller is
told the whole fingerprint (`ret_hash`, `ret_hash_len`) and files keys under it;
when an insertion meets a fingerprint that matches, both are extended apart. The
table is the one the tests mean to keep: `test_deletions.c:323` passes a null
pointer for the entry it deletes and `test_near_full.c` does not delete it. A
stored key is not inserted again (keys are random 64-bit numbers).

### GQFMerge and GQFCopies

An iterator is the pair of the run and the slot it stands on; `Visited` is all
that a loop over `qfi_next` sees. `_merge_insert` appends an item and raises the
offsets by the item's slots in each block but the bucket's own, as the C loop
does. `qf_merge_ret` is a recursive function over the rounds of its main loop:
two iterators, the run being written, the next free index, the index of the last
item. `qf_bulk_insert` looks one key ahead. The metadata counts of a copy stay 0,
as in the code.

`GQFCopies` adds to `GQFChurn` a second filter, filled after the first
(`insert_key` of `test_merge.c`, which also counts a stored key again), the copy
made of both, and bulk loading of any set of keys, one of them possibly twice.
All three filters have one size here; `test_merge.c` merges filters of half the
size, with the same bits per slot, and the buckets of the copy then are only half
used.

### HybridWindow

`QueryNegative`, `HybridAdapts` and `HybridDeclines` are the two functions of
`hybrid_skiqf.hpp`, both of which advance the window. The detector is the set of
the 16-bit pieces of keys it has seen. Averages are kept in steps of 1/`Scale`,
rounded down, where the code has doubles.

### TAF

One operator per function of `taf.cc`. Bit vectors are sets of slots, the
selectors of a block an arithmetic code: `encode_sel` and `decode_sel` compute
with the same shares of the same ranges as the code, of `CodeBits` bits. An
element is its hash (the hash is a bijection of the elements here). The arrays
that `taf_init` allocates with `new` are taken to be zero; the code never sets
them, and large allocations come zeroed. `select_runend`'s loop over blocks is the
first block at which it stops: `bitselect` there is asked for the rank that the
blocks before leave, or for the last bit of a word (`rank >= 64 ? 63 : rank`).

### ACF

`AddStart` begins `AddUsingBackingMap`; `AddPlace` and `AddKick` are rounds of
its loop, with any slot kicked out (`rand()`). `AdaptItem` finds the bucket anew
by the item's tag, as `Adapt` does, and makes all its tags again. `hash_sels` is
not initialised by the constructor and has any value at the start.

In the code a byte of `hash_sels` is a signed `char` with two selectors of four
bits. `GenerateTagHash` gets the one of an odd bucket by a shift with the sign
and without a mask (`cuckoofilter.h:212`), so that selectors 8 to 15 index
`hash_fcns` from -8 to -1 (2^60 functions of 32 bytes are 0 modulo 2^64):
`HashSel`. What the 256 bytes in front of the array hold depends on the
allocator; they may be `hash_sels` itself, which `IncrHashSel` writes. The
variable `outside` is that memory, read as hash functions out of `OutsideFcns`:
it has any value at the start, `OutsideWritten` may change it at any time, and
within a kick or an adaptation it may change between a call and the next tag the
code makes (before `Adapt` looks for the bucket, before each slot gets its tag,
before the victim gets its own). `IncrHashSel` itself keeps both selectors right.

### GQFLocks

Taking a lock, releasing one and the two halves of `noccupied_slots++` are steps
of their own. An operation is its kind and the slot it starts at; what it writes
is the set of slots it may touch. Kinds: a waiting insertion, an insertion that
gives up, the locked `qf_splinter_insert` of `thread_splinter_insert_keys` (tries
again and again), `insert_and_extend`, and `qf_remove`, which returns with its
locks when the bucket is empty.

### PartitionedCounter

`pc_add` is three atomic operations and `pc_sync` two per local counter; each is
an action, and the value taken by an exchange is in the thread's hands until it
is added. Any CPU may run any step (`sched_getcpu`).

## Runs

`PROJECT.json` lists twelve; each property is also run against a mutant of the
code (the `X_What` definitions), which it must reject.

| Run | What it shows |
|---|---|
| `adaptive_skiqf` | `NoFalseNegative`, `RankTie`, `SpaceBound` and `StaysNegative` on the abstract filter: five keys, four of one fingerprint, two chunks each, up to four items and eight slots |
| `slots_skiqf` | layout, block offsets, room for the next item, no false negatives, ski-rental accounting and no false positive brought back on the slot array: eight buckets in blocks of two with an offset limit of 3, loaded with any of five keys up to the load limit, so that offsets saturate across blocks, as a run of 255 slots does in the code |
| `slots_implement_miniruns` | every step of the slot array is a step of `AdaptiveFilter`; four buckets, the keys at the end of the array, three chunks: adaptations run out of slots half way and loading reaches the load limit. On the same instance, under fair replay every false positive is corrected or the filter reaches its full point |
| `churn` | layout, offsets and the caller's table stay exact when fingerprints are extended apart, adapted and removed; six keys in three buckets whose runs cross three blocks. At every state the iterator sees each item once; a merge of two such filters of up to three items adds their counts up, and a bulk load of any of the keys answers with each key's count |
| `independent_parts` | four parts that share nothing, one per behaviour (`part` says which): Hybrid's windows of three queries; two threads that add to and synchronise two local counters; the telescoping filter with blocks of two slots and a code of nine bits; the cuckoo filter with four buckets of two slots, two hash functions, two that the memory in front of them may amount to, and three rounds |
| `region_locks` | no two operations at work on a common slot; every waiting call returns unless a removal has left its locks behind; two threads, three operations of five kinds at the borders of two regions |
| `ski_break_even_3` | *violation*: a loaded key is lost |
| `remove_skips_item` | *violation*: `qf_remove` misses what `qf_query` finds |
| `remove_truncates_offset` | *violation*: keys are lost after a removal |
| `remove_keeps_locks` | *violation*: a waiting call never returns |
| `metadata_lost_update` | *violation*: an increment is lost |
| `taf_full_block` | *violation*: with a quotient more than a block has slots, an element displaced past a block full of runends is not found |

### Why the bounds are enough

Blocks of two slots and an offset limit of 3 make the cases that need hundreds
of slots in the code happen with five: spill over several blocks, saturated
offsets, offsets recomputed through them. Two-bit slots give two to three
chunks, the fewest for "agrees on the first chunk, differs in the second" and
"runs out between two chunks". With two hash functions the upper half of the
selectors is one selector, under which an odd bucket hashes with the memory in
front of them, as with 8 to 15 in the code. Four keys of one fingerprint are the
fewest for a minirun of several items that a stranger matches in more than one
place (three, when a key may be loaded more than once). `CountCap`
(`SlotFilter`) stops the two history counts, `MaxOps` the operations of
`GQFLocks`, `MaxAdds` the additions of `PartitionedCounter`, `MaxAside` the
items of each filter to be merged, `MaxBlocks` the blocks the telescoping filter
adds; no other counter is bounded. A code of nine bits for a block of two slots
fits most pairs of selectors and not all of them, so that both ways of running
out, while adapting and while shifting, happen. Six items whose pairs of buckets
are equal, overlap or are apart (one of them with two equal hashes) kick each
other out in chains and leave a victim after three rounds. In the lock model
three operations suffice for one that works, one that waits for it and one that
leaves a bucket empty or occupied for them.

`CHECK_DEADLOCK FALSE` is given where the system really stops: `MaxOps` or the
load is used up, loading aborts, or a filter of abstract items has no false
positive left.

### Fairness

`Replay` assumes that loading ends (`bulkLoad` is a loop over its keys) and that
no key is left out of the replay for good, which is what reading `adv_queries`
round and round does; a query is always possible. Nothing is assumed about which
way a query goes. `GQFLocks` assumes weak fairness of each thread's steps, which
is the scheduler's running every thread, and nothing of the spin locks: a waiting
thread may be overtaken. `HybridWindow` assumes that queries go on (weak fairness
of `HybridQueries`: the loop of the benchmark); which key is asked for is up to
`AttackCorrected`'s premise. `EveryCallReturns` holds because the number of
operations started is finite.

## What is proved

TLAPS proves, for every value of the constants:

* `AdaptiveFilterProofs`: `TypeCorrect`, `TieCorrect`, `NoFalseNegatives`,
  `AdaptingIsMonotone`, `SpaceIsBounded`. Assumed (`AFAssumption`): hashes are
  determined by fingerprint and chunks, and the break-even count is at most 2.
  The inductive invariant is `TypeOK /\ RankTie`. `NoFalseNegative` is not
  inductive: an adaptation appends the chunks of whatever key the reverse map
  holds at the item's rank, so the key must be one the item already matched.
  `RankTie` says that item and key agree at every rank, that each inserted key
  has a rank, and that loading is over before the first extension; the last part
  is why putting new items in front while appending keys at the end (WiredTiger)
  is sound: during loading all items of a minirun are alike. Both reverse maps
  and all policies, Hybrid's included, are covered. `SpaceIsBounded` excludes
  Hybrid, which has no full point.
* `GQFLocksProofs`: `OperationsExclude`, for all region and cluster sizes with
  a cluster no larger than a region. The invariant says which regions each
  thread holds as it goes through `LockSet` in ascending order, and that a held
  lock is set and held once; the arithmetic (`NearbyRegion`, `LocksCover`) shows
  that any two operations that may touch a common slot have a common lock.
  `LocksInRange` (type correctness) follows from the same invariant.
* `GQFProofs`, on `RunLayout`: the slot array, for every number of slots, size of
  blocks and offset limit. The invariant is `Kept`: the filter is in shape for
  *some* layout, a set `U` of used slots with the bucket `h[i]` that each slot's
  content belongs to (`Shaped`): occupieds, runends and extension bits are what
  the layout says, each block's offset is the smaller of `OffsetMax` and how far
  the runs before reach in, no chunk follows a counter slot, and
  `noccupied_slots` counts `U`. `Fits` adds that nothing lies in the unused rest
  of the last block.
  - The readers: `BlockOffsetExact` and `RunEndExact` (through saturated offsets),
    `FirstEmptyExact`, `LookupExact` (the scan all queries share finds the first
    item that matches, and its rank), `WalkExact` (adaptation finds the item of
    that rank again). `LayoutIsRead` and `OffsetsAreRead` tie `U` and `h` to the
    definitions of `GQFLayout` the runs check.
  - The writers: `MarkedShaped` is one `insert_one_slot` with its bits;
    `InsertionKeeps`, `IncrementKeeps`, `AdaptKeeps` and `TableAdaptKeeps` are
    whole operations, loops and early ends included.
* `MinirunProofs`, on `GQFProofs`: what the same operations do to a minirun, read
  as a list of items that start slots name (`Lists`). `Filed` ties a row of keys to
  such a list: at each rank stands an item of the row's fingerprint, and its chunks
  are the next ones of the row's key at that rank (`Carries`). `Tidy` says so of
  all rows of a filter in shape whose runs are in order and whose counters have
  one slot.
  - Every write of `gqf.c` is slots moved up and one put in (`Moved`, `PutIn`), and
    an item's slots move together. So `InsertionEnters`: an insertion puts its
    item in front, and answers the number of items that were there.
  - `ChargeTidies`: the first charge of an item, whose counter goes in behind its
    chunks, leaves all rows filed. `AdaptTidies` and `TableAdaptTidies`: so does an
    adaptation, chunk by chunk, for the item that the query found and the key
    filed behind it; if slots run out between two chunks, what was appended is
    still a beginning of the key's chunks.
  - `FiledFound`: a key that is filed is found by the scan, because the scan stops
    no later than at its item and the items before it that match are answers too.
* `SlotFilterProofs`, first part: `FieldsInRange` (`TypeOK`), `RunsDescribed`
  (`LayoutOK` without the order in runs), `OffsetsStayExact` (`BlockOffsetsOK`) and
  `RefusedAtLimit` (`RefusedOnlyWhenFull`), for counters of any height. The
  inductive invariant `LInv` is `Kept(qf)`, and that a row of the reverse map
  holds keys of its own fingerprint (`RowsTied`): `make_space` nudges the offsets
  between the bucket it is *told* and the free slot, so extending an item for a
  key of another bucket would spoil them. Hence two hypotheses about constants:
  `MapKind = "WiredTiger"`, since SplinterDB's `getFingerprint` may answer any key
  for a rank it does not know, and `Policy # "HybridSkiQF"`, which ignores the
  return code.
* `SlotFilterProofs`, second part, for every variant and both reverse maps:
  `LayoutStaysRight` (`LayoutOK`), `LoadedStaysFound` (`NoFalseNegative`),
  `VariantsInShape` (`TypeOK`, `BlockOffsetsOK`, `RefusedOnlyWhenFull`) and
  `RanksAreFiled`: the rank a query answers is one the reverse map has, so that
  neither SplinterDB's copy from beyond a value nor Hybrid's key that was never
  set is ever used. The inductive invariant `TInv` is `Tidy` for the rows of the
  reverse map, `RowsTied`, that each loaded key is in its row, and that nothing is
  extended while loading goes on. The last part is why two orders may meet:
  insertion puts items in front, WiredTiger puts keys at the end (SplinterDB in
  front), and without extensions all items of a minirun stand for all keys of
  its row. The one hypothesis about constants, `CountersFit`, is that SkiQF's
  break-even count is at most 2 (and then slots have the two bits a counter's
  first value needs), so that an item with a counter is adapted at its next false
  positive and not charged again. It is sharp: with 3 a loaded key is lost (run
  `ski_break_even_3`).
* `SlotFilterProofs`, third part: `RentIsPaid` (`SkiRental`), under `CountersFit` and
  `[]RoomLeft` as before. `SkiRental` adds up counts over all items, which no step of
  the filter does; the proof keeps the number of counter slots instead (`RentPaid`
  in `SInv`). A charge makes one counter slot, an adaptation makes none and
  overwrites the one its item has (`AdaptCounts` in `MinirunProofs`), the walk of the
  extension comes to the very item the query charged (`WalkArrives`), and the sum
  over the items is the number of counter slots (`ChargesAreCounters`).
  - What else `SInv` needs: the rows hold loaded keys only (`RowsLoaded`), so that
    the key an item is extended for differs from the false positive in some chunk
    and the extension is not empty; and with a break-even count of 1 there are no
    counters at all.
  - A third hypothesis, `[]RanksFit`, is that a row has at most `2 ^ 8` keys: the
    rank is narrowed to a byte (`base_adaptive_filter.hpp:61`), and from 256 on the
    extension goes to another item than the one charged. Found keys stay found all
    the same, so the second part does not need it.
* `SlotFilterProofs`, fourth part: `SlotsImplementMiniruns` (`RefinesAdaptiveFilter`),
  for every variant, both reverse maps and every size, under the hypotheses of
  `RentIsPaid`: each step of the slot array is a step of `AdaptiveFilter` on what
  `SlotRefinement` reads out of it, or a stutter. The inductive invariant `RInv` is
  `TInv`, `RowsLoaded`, that the mapping's variables are what they are read from,
  and that no item is longer than a hash (`Short`).
  - `MinirunProofs` says what the writers do to the miniruns *as records*
    (`ItemAt`): a filter shows the same record of every item but one, before and
    after, and of that one what `AdaptiveFilter` makes of it. `AdaptShows` covers
    the loop of an adaptation, which may stop for want of slots after any chunk
    but the first; `ChargeShows` the charge, which moves other items up;
    `EnteredLists` the insertion. `SlotsListed` ties the list of a minirun to
    the sequence `GQFLayout` reads off the bits.
  - A query answers the first item that matches as slots compare
    (`MatchesExtends`), at its rank (`QueryRank`): `AdaptiveFilter`'s `IsFirstMatch`.
    This is where `RanksFit` is needed.
  - `AdaptiveFilter` has an adaptation end at the first chunk that tells the two
    hashes apart, the code at the first extension whose comparison under a mask
    (`hash_ext`) does. These are the same (`RoundsIs`), and there is such a chunk
    within the hash because two keys of one fingerprint differ in some chunk
    (`HashesDiffer`).
  - `RejectedForGood` (`RejectedStays`), under the same hypotheses: no charge and no
    extension, cut short or not, makes the filter positive for a key it rejected.
    On the slots this is not obvious, because what one adaptation writes moves the
    chunks and counters of others; `PresentIs` says that the whole query (run scan,
    mask over the extension, count narrowed to a byte) depends on nothing but
    the items as records, and of these one changes, to match fewer keys
    (`MatchesFewer`).
* All four parts assume `[]RoomLeft`, two free slots from every key's bucket on:
  nothing in the code looks at what `insert_one_slot` answers (`gqf.c:1471`,
  `1875`), and without room the bits are set for an item that is not there.
  `RoomStaysLeft` says which filters guarantee it (and `RanksFit` with it): those
  with `RoomBeyond`, whose slots from each key's bucket on are at least two more
  than the load limit (of at most `2 ^ 8`) and one more than the full point and
  the chunks of one extension. The invariant, `WithinLimits`, is that at most
  `LoadLimit` slots are in use, or fewer than `FullPoint + MaxExt`: an adaptation
  starts below the full point and adds at most the chunks of a hash, and every
  key of a row has its slot. HybridSkiQF, which extends at any load, is left out.
  - In these filters `RoomyFiltersHold` and `RoomyFiltersImplement` have no temporal
    hypothesis left: `TypeOK`, `LayoutOK`, `BlockOffsetsOK`, `NoFalseNegative`,
    `SkiRental`, `RefusedOnlyWhenFull`, `RejectedStays` and `RefinesAdaptiveFilter`
    follow from the specification.
  - Which filters these are: the code allots `nslots + 10 * sqrt(nslots)` slots, so
    `RoomBeyond` holds for all keys in filters of up to 64 slots; in larger ones
    as long as what is loaded and the full point stay two slots and an extension
    below `10 * sqrt(nslots)`; and, for keys of the lower buckets only, as in the
    instance of `slots_skiqf`, with more. With more than 256 slots to load a rank
    may outgrow its byte, and the theorem does not speak of it. The benchmarks' filters of
    `2 ^ 20` slots and more are not: there all items could belong to the last
    buckets, and room is left because hashes do not pile up so.
* `PartsProofs`, Hybrid: `HybridImplements` shows that each step of Hybrid is a
  step of `AdaptiveFilter` or a stutter, and `HybridLosesNoKey` takes
  `NoFalseNegative` over from there. `WindowsAddUp` and `RepeatsStartIt` use an
  invariant of their own: while no adaptation has been made no item has an
  extension, so no answer counts as corrected, that average is 0 and only a full
  window with more repeats than the threshold can lift the other one over it.
* `PartsProofs`, the cuckoo filter: `MovesBack` (the assertion in `Contain`), `TagsAreTied`,
  `NoneForgotten`. `MapTied` is not inductive: a kick takes an item out of its
  slot, and the item on the move must be one that was added, before one of its
  own buckets and in no slot, while there is no victim. `ACFInv` adds that. Tags
  made by one of the hash functions do not depend on the memory in front of them
  (`FamilyTags`), so the theorems hold whatever writes it; they hold for the
  code's 16 functions, with the exception that both properties name.
* `PartsProofs`, the counter: `IndexInRange`, `SettlesInBand`, `NothingLost`
  (`Conservation`) and `ErrorIsBounded` (`QuiescentError`), for every finite set
  of threads and every number of counters. An exchange overwrites what its thread
  holds, so `Conservation` needs to know that a thread comes to it with empty
  hands (`HandsEmpty`); the error at rest is the sum of local counters each
  inside the band (`SomebodySpills` says who has to bring one back). Sums are
  folds over sets; the lemmas in front say what one changed summand does to a
  sum and how large a sum of bounded summands is.
* `TAFProofs`, on `RunLayout`: the telescoping filter, for every size of blocks,
  number of quotients and set of elements.
  - `RankSelectExact`: `rank_select`, which starts from a block's offset, answers
    the last slot of the run that reaches over a slot. From an offset's target on
    there are as many runends as there are occupieds behind the block's first
    slot, which `RunLayout` shows of any layout. `FirstUnusedExact`: stepping from
    run to run arrives at the first unused slot.
  - `RawInsertSound`: an insertion leaves a filter laid out for its elements and
    the new one. `RunLayout` describes what goes in where and what moves up; the
    functions of `taf.cc` are shown to arrive at just that: the offsets stepped by
    `inc_offsets` and `inc_offsets_for_new_run`, slots and runends shifted, the
    run linked, a block added where there is no unused slot.
  - `RunsStayExact` (`RunsExact`) and `FreshStaysFound` (`StoredFound`). The
    inductive invariant `IInv` is `Sound(taf, inserted)`: the same facts as
    `RunsExact`, but said of all slots and of `EndOf`, so that they carry over an
    insertion. Both theorems assume `[]SearchesPass`: no search starts in or
    passes a block full of runends before the element's slot. Without that the
    code is wrong (run `taf_full_block`), and it is about the state, not about
    the constants, because what breaks is a block of 64 runs of one element each,
    pushed on by a run before it.
  - `FewQuotientsExact` discharges the assumption: with no more distinct
    quotients than a block has slots, `SearchesPass` follows from the invariant
    and both properties hold in every behaviour. This is sharp: the violation
    takes one quotient more.

Arguments by induction over data are made here as arguments about a least number
or a smallest set for which something fails (`SmallestNat`, `MinimalSubset`),
which the provers can follow: the library's induction theorems take an operator
as a parameter and cannot be used.

Only model-checked:

* of the slot array: removal, merging and bulk loading (`GQFChurn`, `GQFCopies`).
  Their invariants are no theorems of every size: a removal may truncate a
  saturated offset or step over an item (findings 2 and 3), and the runs choose
  their keys and offset limit so that it does not;
* `RoomLeft` where neither the size of the filter nor the choice of keys gives
  `RoomBeyond`, and for HybridSkiQF;
* `ForgetsOnlyWhenShifting`, which rests on `decode_sel` undoing `encode_sel`, an
  identity of an arithmetic code with rounded shares;
* all liveness (`ReturnsUnlessOrphaned`, `EventuallyCorrected`,
  `AttackCorrected`): fairness and ENABLED are out of the provers' reach.

## Findings

Six disagreements between the code and what its comments, header or tests say,
each with a violating run (`PROJECT.json`, "findings"):

1. `gqf.c:1871` writes a counter at the value of the extension. `run_tests.sh`
   uses break-even counts of 3 and 5, which reach it.
2. `gqf.c:1960` skips items two slots at a time.
3. `gqf.c:962` stores a block offset without saturating it.
4. `gqf.c:1926` returns with the locks held.
5. `gqf.c:1388` increments metadata without a common lock.
6. `taf.cc:1541` answers every rank from 64 on with the last slot of a block full
   of runends. Two elements of quotient 63 and one each of 64 to 127 suffice:
   quotient 127 is then looked for where quotient 126 is.

Also modelled, with no run of its own: an insertion or a charge that finds no
slot up to `xnslots` still sets its bits and counts (`gqf.c:1471`, `1875`). With
`XnSlots` closer to the number of buckets, `NoFalseNegative` and
`RefinesAdaptiveFilter` fail for that reason; the runs keep the overflow area as
large as the items they load need, and `RoomStaysLeft` says how large it must be
to hold whatever is loaded.

Of the same kind, and stated by the properties where they bite:

* `_merge_insert` (`gqf.c:2897`) counts an item's slots in their own block only.
  `CopyLaidOut` says what the offsets of a copy are, and `CopyAnswers` for which
  keys they suffice: those not behind a block that an earlier run covers and
  passes.
* Miniruns are not in the order of `_finger_cmp` (`insert_and_extend` puts the new
  item in front), so `qf_merge` can leave a fingerprint of both filters twice and
  not report it (`MergeAddsUp` promises it for ordered miniruns). The counts of
  all fingerprints add up all the same.
* The telescoping filter answers with a slot number, so an element in slot 0
  reads as absent (`taf.cc:1998`); when the selectors of a shifted block no longer
  fit they are forgotten while the remainders stay, and those elements are lost
  (`taf.cc:1679`); two colliding selectors that do not fit one block's code
  together displace each other for ever. `StoredFound` and
  `ForgetsOnlyWhenShifting` state the first two as their exceptions.
* The cuckoo filter's victim is lost once its bucket adapts (`cuckoofilter.h:420`,
  an exception in `AddedAreFound`), and `Adapt` may adapt the bucket that did
  not collide (`cuckoofilter.h:476`).
* An odd bucket of the cuckoo filter whose selector is 8 or more hashes with the
  memory in front of `hash_fcns` (`cuckoofilter.h:212`): its tags no longer
  follow from its selector, and its items are lost when that memory is written.
  `MapTied` and `AddedAreFound` name it as their exception (`InFamily`); without
  it `independent_parts` finds both violated.

## Not modelled

* The linked-list reverse map (`ll_table.c`): no program calls `ll_table_query`,
  whose loop over a chain never advances (`ll_table.c:94`), and `ll_table_init`
  leaves the pointers of its chains unset.
* `qf_resize_malloc`: its loop never moves the iterator (`gqf.c:2928`) and appends
  to the old filter until it leaves the buffer. `qf_resize_file` inserts variables
  that nothing assigns (`gqf_file.c:190-195`), which also makes its crash window
  between deletion and renaming (`gqf_file.c:212`) one without contents. The rest
  of `gqf_file.c` is I/O of whole files; no program uses `qf_usefile`, which
  allocates its locks before `num_locks` is set.
* Queries and `qf_adapt` without locks beside insertions: no program of the
  repository does it, and the steps of a shift for a second thread are beyond the
  runs' reach. Insertions with counts above 1, which `GQF` has and no caller makes.
* In `gqf.c`: `qf_insert`, `qf_set_count`, the invertible hashing of keys, and the
  iterator functions marked DO NOT USE. In the stores: commit paths and their
  errors, `MockDB`, `splinter_util`'s cache.
* In the cuckoo filter: `Delete`, which deletes the map's entry of the next slot
  (`j` is the slot plus one), `Add`, which forgets the key it kicks out, and the
  set in place of the map, where locations 0 and 1 are one (`set_insert` makes key
  0 a 1). No current program calls the first two with a map.
* Hash functions, random numbers, workload generators, throughput drivers;
  `gqf_backup.c`, an older copy of `gqf.c`; the vendored filters under
  `other_filters/` but the cuckoo filter, among them further copies of the
  telescoping filter. Timing, statistics, printing and the performance build
  (`PERF`) have no effect on filter state. `SEVEN_BIT_OFFSET` and `LOG_WAIT_TIME`
  are not defined in the default build.
