-------------------------------- MODULE TAF --------------------------------
(***************************************************************************)
(* The telescoping adaptive filter of taf.cc, a baseline of the            *)
(* experiments: a quotient filter with blocked offsets in which every slot *)
(* has a hash selector.  The selectors of a block are kept together in an  *)
(* arithmetic code of CodeBits bits, and a remote table holds the element  *)
(* behind every slot.                                                      *)
(*                                                                         *)
(* A block has BlockSlots slots here, 64 in the code; CodeBits is 56 and   *)
(* MaxSelector 6 there.  An element stands for its hash, and 0 for the     *)
(* zeroes of a remote entry that was never written.                        *)
(***************************************************************************)
EXTENDS Integers, FiniteSets, SequencesExt

CONSTANTS BlockSlots, CodeBits, MaxSelector,
          TafQ,          \* filter->q
          TafR,          \* filter->r
          TafHashBits,
          Elts,          \* the elements inserted and queried
          MaxBlocks      \* bound on filter->nblocks

ASSUME TafAssumption ==
    /\ {BlockSlots, CodeBits, TafQ, TafR, TafHashBits} \subseteq Nat \ {0}
    /\ BlockSlots > 1 /\ 2 ^ TafQ % BlockSlots = 0
    /\ MaxSelector \in 1 .. 6
    /\ TafHashBits >= TafQ + TafR
    /\ Elts \subseteq 1 .. 2 ^ TafHashBits - 1

VARIABLES taf,       \* TAF
          inserted   \* the elements inserted so far

tafVars == <<taf, inserted>>

RANK_SELECT_EMPTY == -1
RANK_SELECT_OVERFLOW == -2
NO_UNUSED == -1
NoCode == -1
NoElt == 0

BlockOf(i) == i \div BlockSlots
InBlock == 0 .. BlockSlots - 1
SlotsOf(b) == b * BlockSlots .. b * BlockSlots + BlockSlots - 1
nslots(f) == f.nblocks * BlockSlots

calc_quot(hash) == hash % 2 ^ TafQ

calc_rem(hash, k) ==
    LET n_rems == (TafHashBits - TafQ) \div TafR
    IN (hash \div 2 ^ (TafQ + (k % n_rems) * TafR)) % 2 ^ TafR

(***************************************************************************)
(* The arithmetic code: a letter takes its Share of the interval, in the   *)
(* order of the letters, and a share below two does not fit.               *)
(***************************************************************************)
Shifts == << {1, 2, 5}, {3, 4, 7, 9}, {6, 8}, {10, 11}, {14, 16}, {19, 20, 23}, {24, 25, 26} >>

\* Where the share of a letter begins, and the end of the last letter's.
Begins ==
    [range \in 0 .. 2 ^ CodeBits - 1 |-> [letter \in 0 .. 7 |->
        LET before == UNION {{<<l, s>> : s \in Shifts[l]} : l \in 1 .. letter}
        IN FoldSet(LAMBDA p, sum : sum + range \div 2 ^ p[2], 0, before)]]

Below(range, letter) == Begins[range][letter]
Share(range, letter) == Below(range, letter + 1) - Below(range, letter)

encode_sel(sels) ==
    LET at[i \in 0 .. BlockSlots] ==
          IF i = 0 THEN [low |-> 0, range |-> 2 ^ CodeBits - 1]
          ELSE LET last == at[i - 1]
               IN IF last.range < 2 THEN last
                  ELSE [low |-> last.low + Below(last.range, sels[i - 1]),
                        range |-> Share(last.range, sels[i - 1])]
        final == at[BlockSlots]
    IN IF final.range < 2 THEN NoCode ELSE final.low

\* The letter whose share of the interval holds the code.  7 stands for none.
Letter(low, range, code) ==
    LET above == {l \in 0 .. 6 : low + Below(range, l + 1) > code}
    IN IF above = {} THEN 7 ELSE Min(above)

\* What decode_sel makes of every code.
Decoded ==
    [code \in 0 .. 2 ^ CodeBits - 1 |->
        LET at[i \in 0 .. BlockSlots] ==
              IF i = 0 THEN [low |-> 0, range |-> 2 ^ CodeBits - 1, out |-> <<>>]
              ELSE LET last == at[i - 1]
                       letter == Letter(last.low, last.range, code)
                       low == Below(last.range, Min({letter, 6}))
                   IN [low |-> last.low + low, out |-> Append(last.out, letter),
                       range |-> IF letter = 7 THEN last.range - low ELSE Share(last.range, letter)]
            out == at[BlockSlots].out
        IN [j \in InBlock |-> out[j + 1]]]

decode_sel(code) == Decoded[code]

CodeOrZero(sels) == LET code == encode_sel(sels) IN IF code = NoCode THEN 0 ELSE code

(***************************************************************************)
(* Finding runs                                                            *)
(***************************************************************************)
bitrank(bits, b, i) == Cardinality({x \in SlotsOf(b) \cap bits : x <= b * BlockSlots + i})

\* The place in block b of the bit with the given rank, BlockSlots if none.
bitselect(bits, b, rank) ==
    LET at == {i \in InBlock : b * BlockSlots + i \in bits /\ bitrank(bits, b, i) = rank + 1}
    IN IF at = {} THEN BlockSlots ELSE Min(at)

\* The walk over the blocks stops where the block has a runend of what is left
\* of the rank.  bitselect is asked for the last bit of a word at most, so that
\* a block full of runends stops every rank.
select_runend(f, block_index, rank) ==
    LET left(b) == rank - Cardinality({x \in f.runends : block_index * BlockSlots <= x /\ x < b * BlockSlots})
        step(b) == bitselect(f.runends, b, Min({left(b), BlockSlots - 1}))
        stops == {b \in block_index .. f.nblocks - 1 : step(b) # BlockSlots}
    IN IF stops = {} THEN -1 ELSE Min(stops) * BlockSlots + step(Min(stops))

HasOffset(f, b) ==
    b * BlockSlots \in f.occupieds \/ f.offset[b] # 0 \/ b * BlockSlots \in f.runends

\* rank_select where the last block counted from starts at block b's offset.
SelectFrom(f, x, b, counted) ==
    LET offset == f.offset[BlockOf(x)] % BlockSlots
        d == bitrank(f.occupieds, BlockOf(x), x % BlockSlots) - counted + bitrank(f.runends, b, offset)
        loc == select_runend(f, b, d - 1)
    IN IF d = 0 THEN RANK_SELECT_EMPTY
       ELSE IF loc = -1 THEN RANK_SELECT_OVERFLOW
       ELSE IF loc < x THEN RANK_SELECT_EMPTY
       ELSE loc

rank_select(f, x) ==
    LET b == BlockOf(x)
        first == x % BlockSlots = 0
        target == IF HasOffset(f, b) THEN b + f.offset[b] \div BlockSlots ELSE b
    IN IF x >= nslots(f) THEN RANK_SELECT_OVERFLOW
       ELSE IF first /\ ~HasOffset(f, b) THEN RANK_SELECT_EMPTY
       ELSE IF first THEN x + f.offset[b]
       ELSE IF target >= f.nblocks THEN RANK_SELECT_OVERFLOW
       ELSE SelectFrom(f, x, target, IF b * BlockSlots \in f.occupieds THEN 1 ELSE 0)

first_unused(f, from) ==
    LET unused[x \in 0 .. nslots(f)] ==
          LET loc == rank_select(f, x)
          IN CASE loc = RANK_SELECT_EMPTY -> x
               [] loc = RANK_SELECT_OVERFLOW -> NO_UNUSED
               [] OTHER -> unused[loc + 1]
    IN unused[from]

(***************************************************************************)
(* Making room                                                             *)
(***************************************************************************)
taf_init == [nblocks |-> 2 ^ TafQ \div BlockSlots,
             remainders |-> [i \in 0 .. 2 ^ TafQ - 1 |-> 0],
             remote |-> [i \in 0 .. 2 ^ TafQ - 1 |-> NoElt],
             occupieds |-> {}, runends |-> {},
             offset |-> [b \in 0 .. 2 ^ TafQ \div BlockSlots - 1 |-> 0],
             code |-> [b \in 0 .. 2 ^ TafQ \div BlockSlots - 1 |-> 0]]

\* values, and value for what is new.
Grown(values, new, value) ==
    [i \in DOMAIN values \cup new |-> IF i \in DOMAIN values THEN values[i] ELSE value]

add_block(f) ==
    [f EXCEPT !.nblocks = @ + 1,
              !.remainders = Grown(@, SlotsOf(f.nblocks), 0),
              !.remote = Grown(@, SlotsOf(f.nblocks), NoElt),
              !.offset = Grown(@, {f.nblocks}, 0),
              !.code = Grown(@, {f.nblocks}, 0)]

target(f, b) == b * BlockSlots + f.offset[b]

\* The blocks a backward walk from the one behind slot b meets, up to the
\* first whose offset points before slot a.
BlocksBefore(f, a, b) ==
    LET start == Min({BlockOf(b) + 1, f.nblocks - 1})
    IN {i \in 0 .. start : HasOffset(f, i) /\ \A j \in i .. start : HasOffset(f, j) => target(f, j) >= a}

Incremented(f, blocks) == [f EXCEPT !.offset = [i \in DOMAIN @ |-> IF i \in blocks THEN @[i] + 1 ELSE @[i]]]

inc_offsets(f, a, b) ==
    IF a > b THEN f ELSE Incremented(f, {i \in BlocksBefore(f, a, b) : target(f, i) <= b})

\* Mutant: the run starts a block later than the offsets say.
inc_offsets_for_new_run_Behind(f, quot, loc) ==
    Incremented(f, {i \in BlocksBefore(f, loc, loc) :
        target(f, i) = loc /\ i * BlockSlots \notin f.occupieds /\ quot < i * BlockSlots})

inc_offsets_for_new_run(f, quot, loc) ==
    Incremented(f, {i \in BlocksBefore(f, loc, loc) :
        target(f, i) = loc /\ i * BlockSlots \notin f.occupieds /\ quot <= i * BlockSlots})

Shifted(values, a, b, free) ==
    [i \in DOMAIN values |-> IF i = a THEN free ELSE IF i \in a + 1 .. b + 1 THEN values[i - 1] ELSE values[i]]

shift_rems_and_runends(f, a, b) ==
    [f EXCEPT !.remainders = [Shifted(@, a, b, 0) EXCEPT ![a] = f.remainders[a]],
              !.runends = {i \in @ : i \notin a .. b + 1} \cup {i + 1 : i \in @ \cap (a .. b)}]

shift_remote_elts(f, a, b) == [f EXCEPT !.remote = Shifted(@, a, b, NoElt)]

sel(f, i) == decode_sel(f.code[BlockOf(i)])[i % BlockSlots]

\* The selectors of [a, b] move up by one.  A block they no longer fit in
\* forgets all of its selectors.
shift_sels(f, a, b) ==
    LET moved == Shifted([i \in 0 .. nslots(f) - 1 |-> sel(f, i)], a, b, 0)
    IN [f EXCEPT !.code = [i \in DOMAIN @ |->
            IF i \in BlockOf(a) .. BlockOf(b + 1)
            THEN CodeOrZero([j \in InBlock |-> moved[i * BlockSlots + j]]) ELSE @[i]]]

\* Slots a to b become slots a + 1 to b + 1.
Shift(f, a, b) ==
    IF a > b THEN f ELSE shift_sels(shift_remote_elts(shift_rems_and_runends(f, a, b), a, b), a, b)

Store(f, i, elt) ==
    [f EXCEPT !.runends = @ \cup {i}, !.remainders[i] = calc_rem(elt, 0), !.remote[i] = elt]

insert_empty(f, elt) ==
    [Store(f, calc_quot(elt), elt) EXCEPT !.occupieds = @ \cup {calc_quot(elt)}]

\* Slot r + 1 becomes the last slot of quot's run, or its first.
Link(f, quot, r) ==
    IF quot \in f.occupieds
    THEN [inc_offsets(f, r, r) EXCEPT !.runends = @ \ {r}]
    ELSE [inc_offsets_for_new_run(f, quot, r) EXCEPT !.occupieds = @ \cup {quot}]

insert_at(f, elt, r, u) ==
    Store(Link(Shift(inc_offsets(f, r + 1, u - 1), r + 1, u - 1), calc_quot(elt), r), r + 1, elt)

\* Behind the run, or the end of the runs before, at slot r.
insert_behind(f, elt, r) ==
    LET Into(u) == IF u = NO_UNUSED THEN insert_at(add_block(f), elt, r, nslots(f)) ELSE insert_at(f, elt, r, u)
    IN Into(first_unused(f, r + 1))

raw_insert(f, elt) ==
    LET From(r) == IF r = RANK_SELECT_EMPTY THEN insert_empty(f, elt) ELSE insert_behind(f, elt, r)
    IN From(rank_select(f, calc_quot(elt)))

(***************************************************************************)
(* Queries adapt                                                           *)
(***************************************************************************)
\* Mutant: the walk stops before the home slot.
RunDownFrom_HomeMissed(f, loc, quot) ==
    {i \in quot + 1 .. loc : \A j \in i .. loc - 1 : j \notin f.runends}

RunDownFrom(f, loc, quot) == {i \in quot .. loc : \A j \in i .. loc - 1 : j \notin f.runends}

\* Mutant: the remainders of the block stay those of their old selectors.
Rebuilt_OnlyLoc(f, loc, new_sel, alone) ==
    LET kept == IF alone = NoCode THEN 0 ELSE new_sel
    IN [f EXCEPT !.code[BlockOf(loc)] = IF alone = NoCode THEN 0 ELSE alone,
                 !.remainders[loc] = calc_rem(f.remote[loc], kept)]

\* The block where only loc has a selector, encoded as alone.
Rebuilt(f, loc, new_sel, alone) ==
    LET kept == IF alone = NoCode THEN 0 ELSE new_sel
    IN [f EXCEPT !.code[BlockOf(loc)] = IF alone = NoCode THEN 0 ELSE alone,
                 !.remainders = [i \in DOMAIN @ |->
                     IF i = loc THEN calc_rem(f.remote[i], kept)
                     ELSE IF BlockOf(i) = BlockOf(loc) THEN calc_rem(f.remote[i], 0) ELSE @[i]]]

Recoded(f, loc, sels, new_sel) ==
    LET Coded(code) ==
          IF code = NoCode
          THEN Rebuilt(f, loc, new_sel,
                       encode_sel([j \in InBlock |-> IF j = loc % BlockSlots THEN new_sel ELSE 0]))
          ELSE [f EXCEPT !.code[BlockOf(loc)] = code, !.remainders[loc] = calc_rem(f.remote[loc], new_sel)]
    IN Coded(encode_sel([sels EXCEPT ![loc % BlockSlots] = new_sel]))

adapt_loc(f, loc) ==
    LET Bumped(sels) == Recoded(f, loc, sels, (sels[loc % BlockSlots] + 1) % MaxSelector)
    IN Bumped(decode_sel(f.code[BlockOf(loc)]))

SlotMatches(f, i, hash) == f.remainders[i] = calc_rem(hash, sel(f, i))

AdaptOn(f, i, query) == IF SlotMatches(f, i, query) THEN adapt_loc(f, i) ELSE f

\* Every collision in the run from loc downwards is adapted, unless one of
\* the slots holds the element itself.
taf_adapt(f, query, loc) ==
    LET run == RunDownFrom(f, loc, calc_quot(query))
        adapted[i \in calc_quot(query) .. loc + 1] ==   \* the run's slots from i upwards are
            IF i = loc + 1 THEN f ELSE AdaptOn(adapted[i + 1], i, query)
    IN IF \E i \in run : f.remote[i] = query THEN f ELSE adapted[Min(run)]

\* The last slot of the run that matches, -1 if none does.
FoundAt(f, elt) ==
    LET In(loc) == LET at == {i \in RunDownFrom(f, loc, calc_quot(elt)) : SlotMatches(f, i, elt)}
                   IN IF at = {} THEN -1 ELSE Max(at)
        Select(loc) == IF loc < 0 THEN -1 ELSE In(loc)
    IN IF calc_quot(elt) \in f.occupieds THEN Select(rank_select(f, calc_quot(elt))) ELSE -1

\* raw_lookup's answer is the slot, or 0.
raw_lookup(f, elt) == Max({0, FoundAt(f, elt)})

\* What raw_lookup makes of the filter: finding another element adapts.
LookedUp(f, elt) ==
    LET Found(i) == IF i = -1 \/ f.remote[i] = elt THEN f ELSE taf_adapt(f, elt, i)
    IN Found(FoundAt(f, elt))

-----------------------------------------------------------------------------
TafInit == taf = taf_init /\ inserted = {}

taf_insert(elt) ==
    /\ elt \notin inserted
    /\ taf.nblocks = MaxBlocks => first_unused(taf, calc_quot(elt)) # NO_UNUSED
    /\ taf' = raw_insert(taf, elt)
    /\ inserted' = inserted \cup {elt}

taf_lookup(elt) ==
    /\ taf' = LookedUp(taf, elt)
    /\ UNCHANGED inserted

TafNext == \E elt \in Elts : taf_insert(elt) \/ taf_lookup(elt)

TafSpec == TafInit /\ [][TafNext]_tafVars

-----------------------------------------------------------------------------
(***************************************************************************)
(* Properties                                                              *)
(***************************************************************************)
Used == {i \in DOMAIN taf.remote : taf.remote[i] # NoElt}
Quot(i) == calc_quot(taf.remote[i])

\* The runs, their ends and the offsets of the blocks are those of the
\* elements in the remote table: every element at or behind its quotient,
\* in the order of the quotients and without a gap, so that the offset of a
\* block is the distance to the end of the last run that starts no later.
RunsExact ==
    /\ {taf.remote[i] : i \in Used} = inserted /\ Cardinality(Used) = Cardinality(inserted)
    /\ taf.occupieds = {calc_quot(e) : e \in inserted}
    /\ taf.runends = {i \in Used : i + 1 \notin Used \/ Quot(i + 1) # Quot(i)}
    /\ \A i \in Used : Quot(i) <= i /\ \A j \in Quot(i) .. i : j \in Used /\ Quot(j) <= Quot(i)
    /\ \A b \in DOMAIN taf.offset :
         LET ends == {i \in Used : i >= b * BlockSlots /\ Quot(i) <= b * BlockSlots}
         IN taf.offset[b] = IF ends = {} THEN 0 ELSE Max(ends) - b * BlockSlots

\* What the walk of select_runend takes for granted: the blocks before an
\* element's slot that a search for it starts in or passes are not full of
\* runends.
SearchesPass ==
    \A i \in Used : \A b \in BlockOf(target(taf, BlockOf(Quot(i)))) .. BlockOf(i) - 1 :
        ~(SlotsOf(b) \subseteq taf.runends)

\* The remainder in slot i is the one its selector says.
Fresh(f, i) == f.remainders[i] = calc_rem(f.remote[i], sel(f, i))

\* A stored element is found, however often queries have adapted, unless its
\* selector was forgotten - or it is in slot 0, since raw_lookup returns the
\* slot and 0 means absent.
StoredFound ==
    \A i \in Used : i = 0 \/ ~Fresh(taf, i) \/ raw_lookup(taf, taf.remote[i]) # 0

\* Only an insertion forgets selectors, when those of a block it shifts
\* stuff into no longer fit: all of the block's then, and no others.
ForgetsOnlyWhenShifting ==
    [][\A i \in DOMAIN taf'.remote, j \in Used :
         /\ taf'.remote[i] = taf.remote[j]
         /\ Fresh(taf, j) /\ ~Fresh(taf', i)
         => inserted' # inserted /\ taf'.code[BlockOf(i)] = 0 /\ sel(taf, j) # 0]_tafVars
=============================================================================
