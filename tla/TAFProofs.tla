------------------------------ MODULE TAFProofs ------------------------------
(***************************************************************************)
(* Theorems about TAF, for every size of blocks, number of quotients and   *)
(* set of elements.                                                        *)
(*                                                                         *)
(* The invariant, Sound(taf, inserted), says of the filter what RunsExact  *)
(* says, by way of the layouts of RunLayout: the slots in use U are those  *)
(* of the remote table, h gives the quotient of each, and occupieds,       *)
(* runends and offsets are Homes(U, h), EndsOfRuns(U, h) and the           *)
(* distances to EndOf(U, h, .).  In such a filter, unless a walk meets a   *)
(* block full of runends,                                                  *)
(*   - rank_select answers EndOf (RankSelectExact), since from an offset's *)
(*     target on there are as many runends as there are occupieds behind   *)
(*     the block's first slot;                                             *)
(*   - first_unused answers the next unused slot (FirstUnusedExact).       *)
(* An insertion then is the Insertion of RunLayout: stepping offsets       *)
(* (Stepped), shifting slots (Moved), linking the run (Linked) and storing *)
(* the element (Inserted) arrive at InsertedHomes and at its ends.         *)
(* Queries change selectors and remainders only (SameSlots).               *)
(***************************************************************************)
EXTENDS TAF, RunLayout

-----------------------------------------------------------------------------
(***************************************************************************)
(* A filter value, its layout, and the blocks                              *)
(***************************************************************************)
\* The slots in use,
UsedOf(f) == {i \in DOMAIN f.remote : f.remote[i] # NoElt}

\* the quotient of what each holds,
QuotsOf(f) == [i \in UsedOf(f) |-> calc_quot(f.remote[i])]

\* and the last slot in use by what belongs to x or before.
LastOf(f, x) == EndOf(UsedOf(f), QuotsOf(f), x)

\* f has the fields of a TAF ...
IsTaf(f) ==
    f = [nblocks |-> f.nblocks, remainders |-> f.remainders, remote |-> f.remote,
         occupieds |-> f.occupieds, runends |-> f.runends, offset |-> f.offset, code |-> f.code]

\* ... with as many slots and offsets as its blocks have ...
Shape(f) ==
    /\ IsTaf(f)
    /\ f.nblocks \in Nat /\ 2 ^ TafQ <= nslots(f)
    /\ f.remote \in [0 .. nslots(f) - 1 -> Elts \cup {NoElt}]
    /\ f.offset \in [0 .. f.nblocks - 1 -> Int]

\* ... its bits and offsets are those of its elements ...
Placed(f) ==
    /\ Laid(UsedOf(f), QuotsOf(f), nslots(f))
    /\ f.occupieds = Homes(UsedOf(f), QuotsOf(f))
    /\ f.runends = EndsOfRuns(UsedOf(f), QuotsOf(f))
    /\ \A b \in 0 .. f.nblocks - 1 :
         f.offset[b] = IF b * BlockSlots \in UsedOf(f) THEN LastOf(f, b * BlockSlots) - b * BlockSlots ELSE 0

\* ... and the elements are elts, each in a slot of its own.
Holds(f, elts) ==
    /\ {f.remote[i] : i \in UsedOf(f)} = elts
    /\ IsFiniteSet(UsedOf(f)) /\ Cardinality(UsedOf(f)) = Cardinality(elts)

\* A quotient is one of the first 2^q slots.
LEMMA QuotType ==
    ASSUME NEW elt \in Elts
    PROVE  calc_quot(elt) \in Nat /\ calc_quot(elt) < 2 ^ TafQ /\ elt # NoElt
  <1>1. elt \in Nat /\ elt # 0 /\ TafQ \in Nat
    BY TafAssumption
  <1>2. 2 ^ TafQ \in Nat \ {0}
    BY <1>1, PowerOfTwo
  <1>. DEFINE n == 2 ^ TafQ
  <1>. HIDE DEF n
  <1>3. elt % n \in 0 .. n - 1
    BY <1>1, <1>2, DivFacts DEF n
  <1>. QED
    BY <1>1, <1>2, <1>3 DEF n, calc_quot, NoElt

\* There is more than one slot in a block.
LEMMA BlockSize == BlockSlots \in Nat /\ BlockSlots > 1
  BY TafAssumption

\* A block's slots begin at a multiple of the block size.
LEMMA BlockFacts ==
    ASSUME NEW x \in Nat
    PROVE  /\ BlockSlots \in Nat /\ BlockSlots > 1
           /\ BlockOf(x) \in Nat /\ BlockOf(x) * BlockSlots \in Nat
           /\ BlockOf(x) * BlockSlots <= x /\ x < BlockOf(x) * BlockSlots + BlockSlots
           /\ x % BlockSlots = x - BlockOf(x) * BlockSlots
           /\ x % BlockSlots \in InBlock
  <1>1. BlockSlots \in Nat /\ BlockSlots > 1
    BY TafAssumption
  <1>2. BlockSlots \in Nat \ {0}
    BY <1>1
  <1>. DEFINE B == BlockSlots
              b == x \div B
              r == x % B
  <1>3. b \in Nat /\ r \in 0 .. B - 1 /\ x = B * b + r
    BY <1>2, DivFacts
  <1>. HIDE DEF b, r, B
  <1>4. B * b = b * B /\ b * B \in Nat
    BY <1>1, <1>3 DEF B
  <1>. QED
    BY <1>1, <1>3, <1>4 DEF b, r, B, BlockOf, InBlock

\* Blocks follow one another.
LEMMA BlockOrder ==
    ASSUME NEW b \in Nat, NEW c \in Nat
    PROVE  /\ b * BlockSlots \in Nat
           /\ b < c => b * BlockSlots + BlockSlots <= c * BlockSlots
           /\ b * BlockSlots < c * BlockSlots => b < c
           /\ (b + 1) * BlockSlots = b * BlockSlots + BlockSlots
  <1>1. BlockSlots \in Nat /\ BlockSlots > 1
    BY TafAssumption
  <1>. DEFINE B == BlockSlots
  <1>. HIDE DEF B
  <1>2. B \in Nat /\ B > 1
    BY <1>1 DEF B
  <1>3. b * B \in Nat /\ c * B \in Nat /\ (b + 1) * B = b * B + B
    BY <1>2
  <1>4. b < c => (b + 1) * B <= c * B
    BY <1>2
  <1>5. c <= b => c * B <= b * B
    BY <1>2
  <1>. QED
    BY <1>2, <1>3, <1>4, <1>5 DEF B

\* The block of a slot is the one whose slots it is among.
LEMMA BlockUnique ==
    ASSUME NEW x \in Nat, NEW b \in Nat, b * BlockSlots <= x, x < b * BlockSlots + BlockSlots
    PROVE  BlockOf(x) = b
  <1>1. /\ BlockSlots \in Nat /\ BlockOf(x) \in Nat /\ BlockOf(x) * BlockSlots \in Nat
        /\ BlockOf(x) * BlockSlots <= x /\ x < BlockOf(x) * BlockSlots + BlockSlots
    BY BlockFacts
  <1>. DEFINE c == BlockOf(x)
  <1>. HIDE DEF c
  <1>2. /\ b * BlockSlots \in Nat
        /\ b < c => b * BlockSlots + BlockSlots <= c * BlockSlots
        /\ c < b => c * BlockSlots + BlockSlots <= b * BlockSlots
    BY <1>1, BlockOrder DEF c
  <1>. QED
    BY <1>1, <1>2 DEF c

\* The bits of a word up to one of them.
LEMMA BitRank ==
    ASSUME NEW bits \in SUBSET Nat, NEW b \in Nat, NEW i \in InBlock
    PROVE  bitrank(bits, b, i) = CountIn(bits, b * BlockSlots, b * BlockSlots + i)
  <1>1. BlockSlots \in Nat /\ i \in Nat /\ i < BlockSlots /\ b * BlockSlots \in Nat
    <2>1. BlockSlots \in Nat
      BY BlockSize
    <2>. QED
      BY <2>1, BlockOrder DEF InBlock
  <1>. DEFINE s == b * BlockSlots
  <1>. HIDE DEF s
  <1>2. \A x \in bits : x \in s .. s + BlockSlots - 1 /\ x <= s + i <=> s <= x /\ x <= s + i
    BY <1>1 DEF s
  <1>3. {x \in (s .. s + BlockSlots - 1) \cap bits : x <= s + i} = Between(bits, s, s + i)
    BY <1>2, Zenon DEF Between
  <1>. QED
    BY <1>3 DEF bitrank, SlotsOf, CountIn, s

-----------------------------------------------------------------------------
(***************************************************************************)
(* bitselect and select_runend                                             *)
(***************************************************************************)
\* bitselect finds the bit of a word that has so many before it.
LEMMA BitSelect ==
    ASSUME NEW bits \in SUBSET Nat, NEW b \in Nat, NEW e \in bits, BlockOf(e) = b, NEW rank \in Int,
           rank + 1 = CountIn(bits, b * BlockSlots, e)
    PROVE  bitselect(bits, b, rank) = e - b * BlockSlots /\ e - b * BlockSlots \in InBlock
  <1>. DEFINE s == b * BlockSlots
              at == {i \in InBlock : s + i \in bits /\ bitrank(bits, b, i) = rank + 1}
              j == e - s
  <1>1. e \in Nat /\ s \in Nat /\ BlockSlots \in Nat /\ s <= e /\ e < s + BlockSlots
    BY BlockFacts
  <1>2. j \in InBlock /\ s + j = e
    BY <1>1 DEF InBlock
  <1>. HIDE DEF s, j
  <1>3. \A i \in InBlock : i \in Int /\ bitrank(bits, b, i) = CountIn(bits, s, s + i)
    <2>1. \A i \in InBlock : i \in Int
      BY <1>1 DEF InBlock
    <2>. QED
      BY <2>1, BitRank DEF s
  <1>4. j \in at
    BY <1>2, <1>3 DEF s
  <1>5. ASSUME NEW i \in at PROVE j <= i
    <2>1. i \in InBlock /\ i \in Int /\ s + i \in bits /\ CountIn(bits, s, s + i) = CountIn(bits, s, e)
      BY <1>3 DEF s
    <2>2. 0 <= i
      BY <1>1, <2>1 DEF InBlock
    <2>3. ASSUME i < j PROVE FALSE
      <3>1. s + i < e /\ s <= s + i + 1 /\ s + i \in Int
        BY <1>1, <1>2, <2>1, <2>2, <2>3 DEF InBlock
      <3>2. CountIn(bits, s, s + i) < CountIn(bits, s, e)
        BY <1>1, <3>1, CountGrows
      <3>3. CountIn(bits, s, e) \in Nat
        BY <1>1, CountType
      <3>. QED
        BY <2>1, <3>2, <3>3
    <2>. QED
      BY <1>1, <1>2, <2>1, <2>3 DEF InBlock
  <1>6. at \in SUBSET Int
    BY <1>3
  <1>. HIDE DEF at
  <1>7. Min(at) = j
    BY <1>4, <1>5, <1>6, MinIs
  <1>. QED
    BY <1>2, <1>4, <1>7 DEF bitselect, at, j, s

\* ... and finds none where the word has fewer bits.
LEMMA BitSelectNone ==
    ASSUME NEW bits \in SUBSET Nat, NEW b \in Nat, NEW rank \in Int,
           CountIn(bits, b * BlockSlots, b * BlockSlots + BlockSlots - 1) < rank + 1
    PROVE  bitselect(bits, b, rank) = BlockSlots
  <1>. DEFINE s == b * BlockSlots
              at == {i \in InBlock : s + i \in bits /\ bitrank(bits, b, i) = rank + 1}
  <1>1. s \in Nat /\ BlockSlots \in Nat /\ BlockSlots > 1
    BY BlockOrder, BlockSize
  <1>. HIDE DEF s
  <1>2. ASSUME NEW i \in at PROVE FALSE
    <2>1. i \in InBlock /\ i \in Int /\ 0 <= i /\ i <= BlockSlots - 1
      BY <1>1 DEF InBlock
    <2>2. CountIn(bits, s, s + i) = rank + 1
      BY <2>1, BitRank DEF s
    <2>3. s + BlockSlots - 1 = s + (BlockSlots - 1) /\ s + i \in Int /\ s <= (s + i) + 1
          /\ s + i <= s + BlockSlots - 1 /\ s + BlockSlots - 1 \in Int
      BY <1>1, <2>1
    <2>4. CountIn(bits, s, s + BlockSlots - 1) = CountIn(bits, s, s + i) + CountIn(bits, (s + i) + 1, s + BlockSlots - 1)
      BY <1>1, <2>3, CountSplit
    <2>5. (s + i) + 1 \in Nat /\ (s + i) + 1 <= (s + BlockSlots - 1) + 1
      BY <1>1, <2>1
    <2>6. CountIn(bits, (s + i) + 1, s + BlockSlots - 1) \in Nat
      BY <2>3, <2>5, CountType
    <2>. QED
      BY <2>2, <2>4, <2>6 DEF s
  <1>3. at = {}
    BY <1>2
  <1>. QED
    BY <1>3 DEF bitselect, at, s

\* The walk of select_runend, given the number of runends in front of one,
\* arrives at it unless it meets a block full of runends on the way.
LEMMA SelectRunend ==
    ASSUME NEW f, f.nblocks \in Nat, f.runends \in SUBSET Nat,
           NEW t \in Nat, NEW e \in f.runends, t * BlockSlots <= e, e < nslots(f),
           \A c \in t .. BlockOf(e) - 1 : ~(SlotsOf(c) \subseteq f.runends)
    PROVE  select_runend(f, t, CountIn(f.runends, t * BlockSlots, e) - 1) = e
  <1>. DEFINE R == f.runends
              B == BlockSlots
              rank == CountIn(R, t * B, e) - 1
              left(b) == rank - Cardinality({x \in R : t * B <= x /\ x < b * B})
              step(b) == bitselect(R, b, Min({left(b), B - 1}))
              stops == {b \in t .. f.nblocks - 1 : step(b) # B}
              be == BlockOf(e)
  <1>1. B \in Nat /\ B > 1 /\ e \in Nat /\ be \in Nat /\ be * B \in Nat /\ be * B <= e /\ e < be * B + B
    BY BlockFacts
  <1>2. t <= be
    <2>1. /\ t * B \in Nat
          /\ be < t => be * B + B <= t * B
      BY <1>1, BlockOrder
    <2>. HIDE DEF be, B
    <2>. QED
      BY <1>1, <2>1 DEF B
  <1>3. be < f.nblocks
    <2>1. be * B < f.nblocks * B => be < f.nblocks
      BY <1>1, BlockOrder
    <2>2. f.nblocks * B \in Nat /\ e < f.nblocks * B
      BY <1>1, BlockOrder DEF nslots
    <2>. HIDE DEF be, B
    <2>. QED
      BY <1>1, <2>1, <2>2
  <1>. HIDE DEF rank, be
  <1>4. ASSUME NEW b \in t .. be
        PROVE  /\ b \in Nat /\ b * B \in Nat /\ t * B \in Nat /\ t * B <= b * B /\ b * B <= e
               /\ left(b) + 1 = CountIn(R, b * B, e)
               /\ left(b) \in Nat
    <2>1. b \in Nat
      OBVIOUS
    <2>2. /\ b * B \in Nat /\ t * B \in Nat
          /\ t < b => t * B + B <= b * B
          /\ b < be => b * B + B <= be * B
      BY <1>1, <2>1, BlockOrder
    <2>. DEFINE s == t * B
                x0 == b * B
                c0 == be * B
    <2>. HIDE DEF s, x0, c0
    <2>3. s <= x0 /\ x0 <= e /\ s \in Nat /\ x0 \in Nat
      <3>1. s = x0 \/ t < b
        BY <2>1 DEF s, x0
      <3>2. x0 = c0 \/ b < be
        BY <1>1, <2>1 DEF x0, c0
      <3>3. /\ x0 \in Nat /\ s \in Nat /\ (t < b => s + B <= x0) /\ (b < be => x0 + B <= c0)
            /\ c0 <= e /\ c0 \in Nat /\ B \in Nat /\ e \in Nat
        BY <1>1, <2>2 DEF s, x0, c0
      <3>. HIDE DEF B
      <3>. QED
        BY <3>1, <3>2, <3>3
    <2>4. \A x \in R : s <= x /\ x < x0 <=> s <= x /\ x <= x0 - 1
      BY <2>3
    <2>5. {x \in R : s <= x /\ x < x0} = Between(R, s, x0 - 1)
      BY <2>4, Zenon DEF Between
    <2>6. left(b) = rank - CountIn(R, s, x0 - 1)
      BY <2>5 DEF CountIn, s, x0
    <2>7. x0 - 1 \in Int /\ s <= (x0 - 1) + 1 /\ x0 - 1 <= e /\ (x0 - 1) + 1 = x0
      BY <1>1, <2>3
    <2>8. CountIn(R, s, e) = CountIn(R, s, x0 - 1) + CountIn(R, x0, e)
      <3>1. R \in SUBSET Nat /\ s \in Nat /\ x0 - 1 \in Int /\ e \in Int
        BY <1>1, <2>3
      <3>. HIDE DEF R
      <3>. QED
        BY <2>7, <3>1, CountSplit
    <2>9. CountIn(R, s, x0 - 1) \in Nat /\ CountIn(R, x0, e) \in Nat
      <3>1. x0 <= e + 1
        BY <1>1, <2>3
      <3>. QED
        BY <1>1, <2>3, <2>7, <3>1, CountType
    <2>10. CountIn(R, x0, x0 - 1) < CountIn(R, x0, e)
      <3>1. x0 - 1 < e /\ x0 <= (x0 - 1) + 1
        BY <1>1, <2>3
      <3>. QED
        BY <2>3, <2>7, <3>1, CountGrows
    <2>11. CountIn(R, x0, x0 - 1) \in Nat
      BY <2>3, <2>7, CountType
    <2>12. rank + 1 = CountIn(R, s, e)
      <3>1. CountIn(R, s, e) \in Nat
        BY <2>8, <2>9
      <3>. QED
        BY <3>1 DEF rank, s
    <2>. HIDE DEF left
    <2>13. rank \in Int
      BY <2>8, <2>9, <2>12 DEF rank, s
    <2>14. left(b) + 1 = CountIn(R, x0, e) /\ left(b) \in Nat
      BY <2>6, <2>8, <2>9, <2>10, <2>11, <2>12, <2>13
    <2>. QED
      BY <2>1, <2>3, <2>14 DEF s, x0
  <1>5. ASSUME NEW b \in t .. be PROVE Min({left(b), B - 1}) = IF left(b) <= B - 1 THEN left(b) ELSE B - 1
    <2>1. left(b) \in Nat
      BY <1>4
    <2>. HIDE DEF left
    <2>. HIDE DEF left
    <2>2. B - 1 \in Int
      BY <1>1
    <2>. QED
      BY <2>1, <2>2, MinMaxOfTwo
  <1>. HIDE DEF left
  <1>6. ASSUME NEW b \in t .. be - 1 PROVE step(b) = B
    <2>1. b \in t .. be /\ b \in Nat
      BY <1>1
    <2>2. b * B \in Nat /\ b * B + B <= be * B /\ left(b) \in Nat /\ left(b) + 1 = CountIn(R, b * B, e)
      BY <1>1, <1>4, <2>1, BlockOrder
    <2>. DEFINE s == b * B
                last == s + B - 1
    <2>. HIDE DEF s
    <2>3. last \in Nat /\ s <= last /\ s \in Nat /\ last < e
      BY <1>1, <2>2 DEF s
    <2>4. last - s + 1 = B
      BY <1>1, <2>3
    <2>. HIDE DEF last
    <2>5. CountIn(R, s, last) \in 0 .. B /\ CountIn(R, s, last) # B
      <3>1. s <= last + 1 /\ last \in Int
        BY <2>3
      <3>2. CountIn(R, s, last) \in 0 .. last - s + 1
        BY <2>3, <3>1, CountType
      <3>3. ~(SlotsOf(b) \subseteq R) /\ SlotsOf(b) = s .. last
        BY DEF SlotsOf, be, s, last
      <3>4. CountIn(R, s, last) # last - s + 1
        BY <2>3, <3>3, CountFull
      <3>. QED
        BY <2>4, <3>2, <3>4
    <2>6. CountIn(R, s, last) < CountIn(R, s, e)
      BY <2>3, CountGrows
    <2>7. CountIn(R, s, last) < Min({left(b), B - 1}) + 1 /\ Min({left(b), B - 1}) \in Int
      BY <1>1, <1>5, <2>1, <2>2, <2>5, <2>6 DEF s
    <2>. QED
      BY <2>1, <2>7, BitSelectNone DEF s, last
  <1>7. step(be) = e - be * B /\ e - be * B \in InBlock
    <2>1. be \in t .. be /\ be * B <= e + 1
      BY <1>1, <1>2
    <2>2. left(be) + 1 = CountIn(R, be * B, e) /\ left(be) \in Nat
      BY <1>4, <2>1
    <2>3. CountIn(R, be * B, e) \in 0 .. e - be * B + 1
      BY <1>1, <2>1, CountType
    <2>4. left(be) <= B - 1
      BY <1>1, <2>2, <2>3
    <2>5. Min({left(be), B - 1}) = left(be)
      BY <1>5, <2>1, <2>4
    <2>. QED
      BY <1>1, <2>2, <2>5, BitSelect DEF be
  <1>8. be \in stops
    <2>1. step(be) # B
      BY <1>1, <1>7 DEF InBlock
    <2>. HIDE DEF step
    <2>. QED
      BY <1>1, <1>2, <1>3, <2>1
  <1>9. \A b \in stops : be <= b
    <2>. HIDE DEF step
    <2>. QED
      BY <1>1, <1>6
  <1>10. stops \in SUBSET Int
    OBVIOUS
  <1>. HIDE DEF stops, step
  <1>11. Min(stops) = be
    BY <1>8, <1>9, <1>10, MinIs
  <1>12. be * B + step(be) = e
    <2>. DEFINE s == be * B
    <2>1. s \in Nat /\ step(be) = e - s
      BY <1>1, <1>7
    <2>. HIDE DEF s
    <2>2. s + step(be) = e
      BY <1>1, <2>1
    <2>. QED
      BY <2>2 DEF s
  <1>13. select_runend(f, t, rank) = IF stops = {} THEN -1 ELSE Min(stops) * B + step(Min(stops))
    BY DEF select_runend, stops, step, left
  <1>. QED
    BY <1>8, <1>11, <1>12, <1>13 DEF rank

-----------------------------------------------------------------------------
(***************************************************************************)
(* rank_select counts runends from the target of an offset                 *)
(***************************************************************************)
\* No search for the end of a run goes on behind a block full of runends.
Passable(f) ==
    \A i \in UsedOf(f) : \A c \in BlockOf(target(f, BlockOf(QuotsOf(f)[i]))) .. BlockOf(i) - 1 :
        ~(SlotsOf(c) \subseteq f.runends)

\* What a filter value that is placed has, in the terms of the layout.
LEMMA PlacedFacts ==
    ASSUME NEW f, Shape(f), Placed(f)
    PROVE  /\ f.nblocks \in Nat /\ nslots(f) \in Nat
           /\ Laid(UsedOf(f), QuotsOf(f), nslots(f))
           /\ UsedOf(f) \in SUBSET Nat
           /\ f.runends \in SUBSET UsedOf(f) /\ f.runends \in SUBSET Nat
           /\ f.occupieds \in SUBSET UsedOf(f) /\ f.occupieds \in SUBSET Nat
           /\ \A i \in UsedOf(f) : i < nslots(f)
  <1>1. f.nblocks \in Nat /\ Laid(UsedOf(f), QuotsOf(f), nslots(f))
    BY DEF Shape, Placed
  <1>2. nslots(f) \in Nat
    BY <1>1, BlockOrder DEF nslots
  <1>3. \A i \in UsedOf(f) : i \in Nat /\ i < nslots(f)
    BY <1>1, LaidSlot
  <1>4. f.runends \in SUBSET UsedOf(f)
    BY DEF Placed, EndsOfRuns
  <1>5. f.occupieds \in SUBSET UsedOf(f)
    BY <1>1, HomeHasEnd DEF Placed
  <1>. QED
    BY <1>1, <1>2, <1>3, <1>4, <1>5

\* A slot of the filter is in one of its blocks.
LEMMA BlockInside ==
    ASSUME NEW f, f.nblocks \in Nat, NEW x \in Nat, x < nslots(f)
    PROVE  BlockOf(x) \in Nat /\ BlockOf(x) < f.nblocks
  <1>. DEFINE b == BlockOf(x)
              s == b * BlockSlots
              n == f.nblocks * BlockSlots
  <1>1. b \in Nat /\ s \in Nat /\ s <= x
    BY BlockFacts
  <1>2. n \in Nat /\ x < n
    BY BlockOrder DEF nslots
  <1>3. s < n => b < f.nblocks
    BY <1>1, BlockOrder
  <1>. HIDE DEF b, s, n
  <1>. QED
    BY <1>1, <1>2, <1>3 DEF b

\* A block's offset tells where the last run ends that reaches over its first
\* slot, and one of the three bits whether any does.
LEMMA OffsetFacts ==
    ASSUME NEW f, Shape(f), Placed(f), NEW b \in Nat, b < f.nblocks
    PROVE  /\ b * BlockSlots \in Nat /\ b * BlockSlots < nslots(f)
           /\ HasOffset(f, b) <=> b * BlockSlots \in UsedOf(f)
           /\ b * BlockSlots \in UsedOf(f) =>
                /\ target(f, b) = LastOf(f, b * BlockSlots)
                /\ f.offset[b] = LastOf(f, b * BlockSlots) - b * BlockSlots
           /\ b * BlockSlots \notin UsedOf(f) => f.offset[b] = 0 /\ target(f, b) = b * BlockSlots
  <1>. DEFINE s == b * BlockSlots
              U == UsedOf(f)
              m == LastOf(f, s)
  <1>1. s \in Nat /\ s < nslots(f)
    <2>. DEFINE n == f.nblocks * BlockSlots
    <2>1. f.nblocks \in Nat /\ BlockSlots \in Nat /\ BlockSlots > 1
      BY PlacedFacts, BlockSize
    <2>2. s \in Nat /\ s + BlockSlots <= n /\ n \in Nat
      BY <2>1, BlockOrder
    <2>. HIDE DEF s, n
    <2>3. s < n
      BY <2>1, <2>2
    <2>. QED
      BY <2>2, <2>3 DEF nslots, n
  <1>2. f.offset[b] = IF s \in U THEN m - s ELSE 0
    <2>1. b \in 0 .. f.nblocks - 1
      BY PlacedFacts
    <2>. QED
      BY <2>1 DEF Placed
  <1>3. f.runends \in SUBSET U /\ f.occupieds \in SUBSET U
    BY PlacedFacts
  <1>4. s \in U => m \in Nat /\ s <= m /\ m \in f.runends
    <2>1. Laid(U, QuotsOf(f), nslots(f)) /\ f.runends = EndsOfRuns(U, QuotsOf(f))
      BY DEF Placed
    <2>. QED
      BY <2>1, EndFacts DEF LastOf
  <1>. HIDE DEF s, m, U
  <1>5. s \in U => HasOffset(f, b)
    <2>1. CASE s \in U /\ m = s
      BY <1>4, <2>1 DEF HasOffset, s
    <2>2. CASE s \in U /\ m # s
      BY <1>1, <1>2, <1>4, <2>2 DEF HasOffset, s
    <2>. QED
      BY <2>1, <2>2
  <1>6. s \notin U => ~HasOffset(f, b)
    BY <1>2, <1>3 DEF HasOffset, s
  <1>7. s \in U => target(f, b) = m
    <2>1. s \in U => s + (m - s) = m
      BY <1>1, <1>4
    <2>. QED
      BY <1>2, <2>1 DEF target, s
  <1>8. s \notin U => target(f, b) = s
    <2>1. s + 0 = s
      BY <1>1
    <2>. QED
      BY <1>2, <2>1 DEF target, s
  <1>. QED
    BY <1>1, <1>2, <1>5, <1>6, <1>7, <1>8 DEF s, m, U

\* Counting blocks from one's first slot, and slots of the block they end in.
LEMMA OffsetParts ==
    ASSUME NEW b \in Nat, NEW o \in Nat
    PROVE  LET t == b + (o \div BlockSlots)
               m == b * BlockSlots + o
           IN  t \in Nat /\ t = BlockOf(m) /\ t * BlockSlots + (o % BlockSlots) = m /\ o % BlockSlots \in InBlock
  <1>. DEFINE B == BlockSlots
              p == o \div B
              r == o % B
  <1>1. /\ B \in Nat /\ B > 1 /\ p \in Nat /\ p * B \in Nat
        /\ p * B <= o /\ o < p * B + B /\ r = o - p * B /\ r \in InBlock
    BY BlockFacts, BlockSize DEF BlockOf
  <1>. HIDE DEF p, r, B
  <1>2. (b + p) * B = b * B + p * B /\ b * B \in Nat /\ b + p \in Nat
    BY <1>1
  <1>. DEFINE m == b * B + o
  <1>3. m \in Nat /\ (b + p) * B <= m /\ m < (b + p) * B + B /\ (b + p) * B + r = m
    BY <1>1, <1>2
  <1>. HIDE DEF m
  <1>4. BlockOf(m) = b + p
    BY <1>2, <1>3, BlockUnique DEF B
  <1>. QED
    BY <1>1, <1>2, <1>3, <1>4 DEF m, p, r, B

\* rank_select behind the first slot of a block: from the block that the
\* offset points to, as many runends as are there up to it and as many more as
\* there are quotients in between.
LEMMA RankCounted ==
    ASSUME NEW f, Shape(f), Placed(f), NEW x \in Nat, x < nslots(f), x % BlockSlots # 0
    PROVE  LET b == BlockOf(x)
               s == b * BlockSlots
               base == BehindStart(UsedOf(f), QuotsOf(f), s)
               t == BlockOf(target(f, b))
               d == CountIn(f.runends, t * BlockSlots, base - 1) + CountIn(f.occupieds, s + 1, x)
               loc == select_runend(f, t, d - 1)
           IN  /\ rank_select(f, x) = IF d = 0 THEN RANK_SELECT_EMPTY
                                      ELSE IF loc = -1 THEN RANK_SELECT_OVERFLOW
                                      ELSE IF loc < x THEN RANK_SELECT_EMPTY ELSE loc
               /\ s \in Nat /\ s < x /\ x < s + BlockSlots
               /\ t \in Nat /\ t * BlockSlots \in Nat /\ t * BlockSlots <= base
               /\ s \in UsedOf(f) => t * BlockSlots < base /\ t = BlockOf(base - 1)
               /\ s \notin UsedOf(f) => t * BlockSlots = base /\ base = s
  <1>. DEFINE b == BlockOf(x)
              s == b * BlockSlots
              U == UsedOf(f)
              h == QuotsOf(f)
              base == BehindStart(U, h, s)
              t == BlockOf(target(f, b))
              R == f.runends
              H == f.occupieds
              o == f.offset[b]
              j == x % BlockSlots
  <1>1. /\ BlockSlots \in Nat /\ BlockSlots > 1 /\ b \in Nat /\ s \in Nat /\ s <= x /\ x < s + BlockSlots
        /\ j = x - s /\ j \in InBlock /\ j # 0
    BY BlockFacts
  <1>2. R \in SUBSET Nat /\ H \in SUBSET Nat /\ R \in SUBSET U /\ H \in SUBSET U
        /\ Laid(U, h, nslots(f)) /\ f.nblocks \in Nat /\ nslots(f) \in Nat
    BY PlacedFacts
  <1>3. b < f.nblocks
    BY <1>2, BlockInside
  <1>4. /\ HasOffset(f, b) <=> s \in U
        /\ s \in U => target(f, b) = EndOf(U, h, s) /\ o = EndOf(U, h, s) - s
        /\ s \notin U => o = 0 /\ target(f, b) = s
    BY <1>1, <1>3, OffsetFacts DEF LastOf
  <1>5. base \in Nat /\ s <= base
    BY <1>1, <1>2, BehindHome
  <1>. HIDE DEF b, j
  <1>. DEFINE Counted ==
                /\ rank_select(f, x) = SelectFrom(f, x, t, IF s \in H THEN 1 ELSE 0)
                /\ t \in Nat /\ t * BlockSlots \in Nat /\ t * BlockSlots <= base
                /\ s \in U => t * BlockSlots < base /\ t = BlockOf(base - 1)
                /\ s \notin U => t * BlockSlots = base /\ base = s
                /\ bitrank(R, t, o % BlockSlots) = CountIn(R, t * BlockSlots, base - 1)
  <1>6. ASSUME s \in U PROVE Counted
    <2>. DEFINE m == EndOf(U, h, s)
    <2>1. m \in Nat /\ s <= m /\ m < nslots(f) /\ base = m + 1
      BY <1>2, <1>6, EndFacts DEF BehindStart
    <2>. HIDE DEF m
    <2>2. o \in Nat /\ s + o = m /\ target(f, b) = m
      BY <1>1, <1>4, <1>6, <2>1 DEF m
    <2>3. /\ b + (o \div BlockSlots) = t /\ t \in Nat /\ t * BlockSlots + (o % BlockSlots) = m
          /\ o % BlockSlots \in InBlock
      <3>. HIDE DEF o
      <3>1. /\ b + (o \div BlockSlots) \in Nat /\ b + (o \div BlockSlots) = BlockOf(s + o)
            /\ (b + (o \div BlockSlots)) * BlockSlots + (o % BlockSlots) = s + o
            /\ o % BlockSlots \in InBlock
        BY <1>1, <2>2, OffsetParts
      <3>2. BlockOf(s + o) = t
        BY <2>2
      <3>. HIDE DEF s, t
      <3>. QED
        BY <2>2, <3>1, <3>2
    <2>4. t < f.nblocks /\ t * BlockSlots \in Nat /\ t * BlockSlots <= m
      <3>. HIDE DEF t, o
      <3>1. /\ o % BlockSlots \in Nat /\ t * BlockSlots \in Nat /\ f.nblocks * BlockSlots \in Nat
            /\ (t * BlockSlots < f.nblocks * BlockSlots => t < f.nblocks)
        BY <1>1, <1>2, <2>3, BlockOrder DEF InBlock
      <3>. DEFINE y == t * BlockSlots
                  z == f.nblocks * BlockSlots
                  k == o % BlockSlots
      <3>2. y \in Nat /\ k \in Nat /\ y + k = m /\ m < z /\ (y < z => t < f.nblocks) /\ z \in Nat
        BY <2>1, <2>3, <3>1 DEF nslots
      <3>. HIDE DEF y, z, k
      <3>3. y <= m /\ y < z
        BY <2>1, <3>2
      <3>. QED
        BY <3>1, <3>2, <3>3 DEF y
    <2>5. bitrank(R, t, o % BlockSlots) = CountIn(R, t * BlockSlots, m)
      <3>. DEFINE k == o % BlockSlots
      <3>. HIDE DEF t, R, k
      <3>1. bitrank(R, t, k) = CountIn(R, t * BlockSlots, t * BlockSlots + k)
        BY <1>2, <2>3, BitRank DEF k
      <3>. QED
        BY <2>3, <3>1 DEF k
    <2>6. base - 1 = m /\ t * BlockSlots < base
      <3>. HIDE DEF t
      <3>. QED
        BY <2>1, <2>4
    <2>7. t = BlockOf(m)
      BY <2>2
    <2>8. rank_select(f, x) = SelectFrom(f, x, t, IF s \in H THEN 1 ELSE 0)
      <3>1. ~(x >= nslots(f)) /\ ~(t >= f.nblocks) /\ HasOffset(f, b)
        <4>. HIDE DEF t
        <4>. QED
          BY <1>2, <1>4, <1>6, <2>3, <2>4
      <3>. QED
        BY <1>1, <2>3, <3>1 DEF rank_select, b, j
    <2>. HIDE DEF base, t, o
    <2>9. t * BlockSlots <= base
      BY <2>1, <2>4
    <2>. QED
      BY <1>6, <2>3, <2>4, <2>9, <2>5, <2>6, <2>7, <2>8
  <1>7. ASSUME s \notin U PROVE Counted
    <2>1. base = s /\ o = 0 /\ target(f, b) = s
      BY <1>4, <1>7 DEF BehindStart
    <2>2. t = b
      <3>1. s <= s /\ s < s + BlockSlots
        BY <1>1
      <3>. QED
        BY <1>1, <2>1, <3>1, BlockUnique
    <2>3. o % BlockSlots = 0 /\ 0 \in InBlock
      BY <1>1, <2>1 DEF InBlock
    <2>4. bitrank(R, t, o % BlockSlots) = CountIn(R, s, s)
      <3>1. bitrank(R, b, 0) = CountIn(R, s, s + 0)
        BY <1>1, <1>2, <2>3, BitRank
      <3>. QED
        BY <1>1, <2>2, <2>3, <3>1
    <2>5. CountIn(R, s, s) = 0
      BY <1>1, <1>2, <1>7, CountOne
    <2>6. CountIn(R, s, base - 1) = 0
      <3>1. \A y \in R : ~(s <= y /\ y <= s - 1)
        BY <1>1, <1>2
      <3>. QED
        BY <2>1, <3>1, CountNone
    <2>7. rank_select(f, x) = SelectFrom(f, x, t, IF s \in H THEN 1 ELSE 0)
      <3>1. ~(x >= nslots(f)) /\ ~(b >= f.nblocks) /\ ~HasOffset(f, b)
        BY <1>1, <1>2, <1>3, <1>4, <1>7
      <3>. QED
        BY <1>1, <2>2, <3>1 DEF rank_select, b, j
    <2>. HIDE DEF o
    <2>. QED
      BY <1>1, <1>7, <2>1, <2>2, <2>4, <2>5, <2>6, <2>7
  <1>8. Counted
    BY <1>6, <1>7
  <1>9. bitrank(H, b, j) - (IF s \in H THEN 1 ELSE 0) = CountIn(H, s + 1, x)
    <2>1. s + j = x /\ s <= x /\ s < x /\ s <= s + 1
      BY <1>1 DEF InBlock
    <2>2. bitrank(H, b, j) = CountIn(H, s, x)
      <3>1. bitrank(H, b, j) = CountIn(H, s, s + j)
        BY <1>1, <1>2, BitRank
      <3>. QED
        BY <2>1, <3>1
    <2>3. CountIn(H, s, x) = CountIn(H, s, s) + CountIn(H, s + 1, x)
      BY <1>1, <1>2, <2>1, CountSplit
    <2>4. CountIn(H, s, s) = IF s \in H THEN 1 ELSE 0
      BY <1>1, <1>2, CountOne
    <2>5. CountIn(H, s + 1, x) \in Nat
      <3>1. s + 1 \in Nat /\ s + 1 <= x + 1
        BY <1>1
      <3>. QED
        BY <1>2, <3>1, CountType
    <2>6. ASSUME NEW a \in Nat, NEW c, c = IF s \in H THEN 1 ELSE 0 PROVE c + a - c = a
      BY <2>6
    <2>. QED
      BY <2>2, <2>3, <2>4, <2>5, <2>6
  <1>10. CountIn(R, t * BlockSlots, base - 1) \in Nat
    <2>1. t * BlockSlots <= (base - 1) + 1 /\ base - 1 \in Int
      BY <1>5, <1>8
    <2>. QED
      BY <1>2, <1>8, <2>1, CountType
  <1>11. CountIn(H, s + 1, x) \in Nat
    <2>1. s + 1 \in Nat /\ s + 1 <= x + 1
      BY <1>1
    <2>. QED
      BY <1>2, <2>1, CountType
  <1>. DEFINE d == CountIn(R, t * BlockSlots, base - 1) + CountIn(H, s + 1, x)
              loc == select_runend(f, t, d - 1)
  <1>12. bitrank(H, b, j) - (IF s \in H THEN 1 ELSE 0) + bitrank(R, t, o % BlockSlots) = d
    BY <1>8, <1>9, <1>10, <1>11
  <1>13. rank_select(f, x) = IF d = 0 THEN RANK_SELECT_EMPTY
                             ELSE IF loc = -1 THEN RANK_SELECT_OVERFLOW
                             ELSE IF loc < x THEN RANK_SELECT_EMPTY ELSE loc
    <2>1. SelectFrom(f, x, t, IF s \in H THEN 1 ELSE 0)
            = IF d = 0 THEN RANK_SELECT_EMPTY
              ELSE IF loc = -1 THEN RANK_SELECT_OVERFLOW
              ELSE IF loc < x THEN RANK_SELECT_EMPTY ELSE loc
      <3>. HIDE DEF d, t, base
      <3>. QED
        BY <1>12 DEF SelectFrom, loc, b, j
    <2>. QED
      BY <1>8, <2>1
  <1>14. s < x
    BY <1>1
  <1>. QED
    BY <1>1, <1>8, <1>13, <1>14 DEF b

\* The walk from a block's offset reaches the end of a run of that block.
LEMMA WalkReaches ==
    ASSUME NEW f, Shape(f), Placed(f), Passable(f), NEW x \in Nat, x < nslots(f), x % BlockSlots # 0,
           NEW base, base = BehindStart(UsedOf(f), QuotsOf(f), BlockOf(x) * BlockSlots),
           NEW t, t = BlockOf(target(f, BlockOf(x))),
           NEW e \in f.runends, t * BlockSlots <= e, base - 1 <= e, QuotsOf(f)[e] <= x,
           BlockOf(x) * BlockSlots \notin UsedOf(f) => base <= e
    PROVE  select_runend(f, t, CountIn(f.runends, t * BlockSlots, e) - 1) = e
  <1>. DEFINE b == BlockOf(x)
              s == b * BlockSlots
              U == UsedOf(f)
              h == QuotsOf(f)
  <1>1. /\ s \in Nat /\ s < x /\ x < s + BlockSlots /\ t \in Nat
        /\ s \in U => t = BlockOf(base - 1)
    BY RankCounted
  <1>2. /\ Laid(U, h, nslots(f)) /\ f.runends \in SUBSET U /\ f.runends \in SUBSET Nat
        /\ f.nblocks \in Nat /\ e < nslots(f) /\ e \in U
    BY PlacedFacts
  <1>3. b \in Nat
    BY BlockFacts
  <1>. HIDE DEF b
  <1>4. base \in Nat /\ s <= base /\ (e >= base <=> h[e] > s)
    BY <1>1, <1>2, BehindHome DEF b
  <1>5. e \in Nat /\ h[e] \in Nat
    BY <1>2, LaidSlot
  <1>6. CASE e >= base
    <2>1. s <= h[e] /\ h[e] < s + BlockSlots
      BY <1>1, <1>4, <1>5, <1>6, BlockSize
    <2>2. BlockOf(h[e]) = b
      BY <1>3, <1>5, <2>1, BlockUnique
    <2>3. \A c \in t .. BlockOf(e) - 1 : ~(SlotsOf(c) \subseteq f.runends)
      BY <1>2, <2>2 DEF Passable, b
    <2>. QED
      BY <1>1, <1>2, <2>3, SelectRunend
  <1>7. CASE e < base
    <2>1. e = base - 1 /\ t = BlockOf(e)
      BY <1>1, <1>4, <1>5, <1>7 DEF b
    <2>2. \A c \in t .. BlockOf(e) - 1 : FALSE
      BY <1>1, <2>1
    <2>. QED
      BY <1>1, <1>2, <2>2, SelectRunend
  <1>. QED
    BY <1>4, <1>5, <1>6, <1>7

\* rank_select finds the end of the last run that reaches over a slot, and
\* says that the slot is unused where none does.
THEOREM RankSelectExact ==
    ASSUME NEW f, Shape(f), Placed(f), Passable(f), NEW x \in Nat, x < nslots(f)
    PROVE  rank_select(f, x) = IF x \in UsedOf(f) THEN LastOf(f, x) ELSE RANK_SELECT_EMPTY
  <1>. DEFINE b == BlockOf(x)
              s == b * BlockSlots
              U == UsedOf(f)
              h == QuotsOf(f)
              N == nslots(f)
              R == f.runends
              H == f.occupieds
              base == BehindStart(U, h, s)
              t == BlockOf(target(f, b))
  <1>1. /\ Laid(U, h, N) /\ R \in SUBSET U /\ R \in SUBSET Nat /\ H \in SUBSET Nat
        /\ f.nblocks \in Nat /\ N \in Nat
    BY PlacedFacts
  <1>2. R = EndsOfRuns(U, h) /\ H = Homes(U, h)
    BY DEF Placed
  <1>3. /\ b \in Nat /\ s \in Nat /\ s <= x /\ x % BlockSlots = x - s
    BY BlockFacts
  <1>4. CASE x % BlockSlots = 0
    <2>1. x = s
      BY <1>3, <1>4
    <2>2. b < f.nblocks
      BY <1>1, BlockInside
    <2>3. /\ HasOffset(f, b) <=> x \in U
          /\ x \in U => f.offset[b] = LastOf(f, x) - x
      BY <1>3, <2>1, <2>2, OffsetFacts
    <2>4. x \in U => LastOf(f, x) \in Nat
      BY <1>1, EndFacts DEF LastOf
    <2>5. rank_select(f, x) = IF HasOffset(f, b) THEN x + f.offset[b] ELSE RANK_SELECT_EMPTY
      BY <1>1, <1>4 DEF rank_select
    <2>6. x \in U => x + f.offset[b] = LastOf(f, x)
      BY <2>3, <2>4
    <2>. QED
      BY <2>3, <2>5, <2>6
  <1>5. CASE x % BlockSlots # 0
    <2>. DEFINE d == CountIn(R, t * BlockSlots, base - 1) + CountIn(H, s + 1, x)
                loc == select_runend(f, t, d - 1)
    <2>1. /\ rank_select(f, x) = IF d = 0 THEN RANK_SELECT_EMPTY
                                 ELSE IF loc = -1 THEN RANK_SELECT_OVERFLOW
                                 ELSE IF loc < x THEN RANK_SELECT_EMPTY ELSE loc
          /\ s < x /\ x < s + BlockSlots
          /\ t \in Nat /\ t * BlockSlots \in Nat /\ t * BlockSlots <= base
          /\ s \in U => t * BlockSlots < base
          /\ s \notin U => t * BlockSlots = base /\ base = s
      BY <1>5, RankCounted
    <2>2. base \in Nat /\ s <= base
      BY <1>1, <1>3, BehindHome
    <2>3. CASE x \in U
      <3>. DEFINE e == EndOf(U, h, x)
      <3>1. /\ e \in R /\ e \in Nat /\ x <= e /\ h[e] <= x
        BY <1>1, <1>2, <2>3, EndFacts
      <3>2. e >= base - 1 /\ d = CountIn(R, t * BlockSlots, e)
        <4>. HIDE DEF t, b
        <4>. QED
          BY <1>1, <1>2, <1>3, <2>1, <2>3, RankOfUsed
      <3>. HIDE DEF e, base
      <3>3. t * BlockSlots <= e /\ (s \notin U => base <= e)
        <4>. HIDE DEF s, t
        <4>1. s \in U => t * BlockSlots < base
          BY <2>1
        <4>2. s \notin U => t * BlockSlots = base /\ base = s
          BY <2>1
        <4>. DEFINE y == t * BlockSlots
        <4>3. y \in Nat /\ base \in Nat /\ s \in Nat /\ (s \in U => y < base) /\ (s \notin U => y = base /\ base = s)
          BY <1>3, <2>1, <2>2, <4>1, <4>2
        <4>. HIDE DEF y
        <4>4. y <= e /\ (s \notin U => base <= e)
          BY <1>3, <2>1, <3>1, <3>2, <4>3
        <4>. QED
          BY <4>4 DEF y
      <3>4. select_runend(f, t, CountIn(R, t * BlockSlots, e) - 1) = e
        BY <1>5, <3>1, <3>2, <3>3, WalkReaches DEF base
      <3>5. CountIn(R, t * BlockSlots, e) # 0
        <4>1. e \in Between(R, t * BlockSlots, e)
          BY <3>1, <3>3 DEF Between
        <4>2. IsFiniteSet(Between(R, t * BlockSlots, e))
          <5>1. t * BlockSlots <= e + 1
            BY <2>1, <3>1, <3>3
          <5>. QED
            BY <1>1, <2>1, <3>1, <5>1, CountType
        <4>. QED
          BY <4>1, <4>2, FS_EmptySet DEF CountIn
      <3>6. loc = e /\ d # 0 /\ e # -1 /\ ~(e < x)
        <4>. HIDE DEF d
        <4>. QED
          BY <3>1, <3>2, <3>4, <3>5
      <3>. HIDE DEF loc, d
      <3>. QED
        BY <2>1, <2>3, <3>6 DEF e, LastOf
    <2>4. CASE x \notin U
      <3>1. \/ d = 0
            \/ \E e \in R : /\ t * BlockSlots <= e /\ base - 1 <= e /\ e < x /\ h[e] <= x
                            /\ d = CountIn(R, t * BlockSlots, e)
        <4>1. x \in Nat \ U
          BY <2>4
        <4>. HIDE DEF t, b
        <4>. QED
          BY <1>1, <1>2, <1>3, <2>1, <4>1, RankOfUnused
      <3>2. CASE d = 0
        BY <2>1, <2>4, <3>2
      <3>3. ASSUME NEW e \in R, t * BlockSlots <= e, base - 1 <= e, e < x, h[e] <= x,
                   d = CountIn(R, t * BlockSlots, e)
            PROVE  loc = e /\ e # -1 /\ e \in Nat
        <4>1. s \notin U => base <= e
          <5>1. s \notin U => base = t * BlockSlots
            BY <2>1
          <5>. QED
            BY <3>3, <5>1
        <4>2. select_runend(f, t, CountIn(R, t * BlockSlots, e) - 1) = e
          BY <1>5, <3>3, <4>1, WalkReaches
        <4>3. e \in Nat
          BY <1>1
        <4>. HIDE DEF d, t
        <4>. QED
          BY <3>3, <4>2, <4>3
      <3>. HIDE DEF loc, d, t, base
      <3>. QED
        BY <2>1, <2>4, <3>1, <3>2, <3>3
    <2>. QED
      BY <2>3, <2>4
  <1>. QED
    BY <1>4, <1>5

\* first_unused finds the first slot from a place on that holds nothing.
THEOREM FirstUnusedExact ==
    ASSUME NEW f, Shape(f), Placed(f), Passable(f), NEW from \in Nat, from <= nslots(f),
           NEW u, u = first_unused(f, from)
    PROVE  /\ u = NO_UNUSED => \A i \in Nat : from <= i /\ i < nslots(f) => i \in UsedOf(f)
           /\ u # NO_UNUSED => /\ u \in Nat \ UsedOf(f) /\ from <= u /\ u < nslots(f)
                               /\ \A i \in Nat : from <= i /\ i < u => i \in UsedOf(f)
  <1>. DEFINE U == UsedOf(f)
              N == nslots(f)
              D == 0 .. N
              Free(x) == {i \in x .. N - 1 : i \notin U}
              first == [x \in D |-> IF Free(x) = {} THEN NO_UNUSED ELSE Min(Free(x))]
              body(g, x) == CASE rank_select(f, x) = RANK_SELECT_EMPTY -> x
                              [] rank_select(f, x) = RANK_SELECT_OVERFLOW -> NO_UNUSED
                              [] OTHER -> g[rank_select(f, x) + 1]
  <1>1. Laid(U, QuotsOf(f), N) /\ N \in Nat /\ U \in SUBSET Nat
    BY PlacedFacts
  <1>2. ASSUME NEW x \in D, x # N, x \in U
        PROVE  LET m == LastOf(f, x)
               IN  /\ \A g : body(g, x) = g[m + 1]
                   /\ m \in Nat /\ m + 1 \in D /\ m >= x
                   /\ \A i \in Nat : x <= i /\ i <= m => i \in U
    <2>. DEFINE m == LastOf(f, x)
    <2>1. rank_select(f, x) = m
      <3>1. x \in Nat /\ x < N
        BY <1>1, <1>2
      <3>. QED
        BY <1>2, <3>1, RankSelectExact
    <2>2. m \in Nat /\ m < N /\ x <= m /\ \A i \in Nat : x <= i /\ i <= m => i \in U
      BY <1>1, <1>2, EndFacts DEF LastOf
    <2>. HIDE DEF m
    <2>3. m # RANK_SELECT_EMPTY /\ m # RANK_SELECT_OVERFLOW
      BY <2>2 DEF RANK_SELECT_EMPTY, RANK_SELECT_OVERFLOW
    <2>4. \A g : body(g, x) = g[m + 1]
      BY <2>1, <2>3
    <2>5. m + 1 \in D /\ m >= x
      BY <1>1, <2>2
    <2>. QED
      BY <2>2, <2>4, <2>5 DEF m
  <1>3. ASSUME NEW x \in D, x # N, x \notin U PROVE \A g : body(g, x) = x
    <2>1. x \in Nat /\ x < N
      BY <1>1, <1>3
    <2>2. rank_select(f, x) = RANK_SELECT_EMPTY
      BY <1>3, <2>1, RankSelectExact
    <2>. QED
      BY <2>2 DEF RANK_SELECT_EMPTY, RANK_SELECT_OVERFLOW
  <1>4. \A g : body(g, N) = NO_UNUSED
    <2>1. rank_select(f, N) = RANK_SELECT_OVERFLOW
      BY <1>1 DEF rank_select
    <2>2. RANK_SELECT_OVERFLOW # RANK_SELECT_EMPTY
      BY DEF RANK_SELECT_EMPTY, RANK_SELECT_OVERFLOW
    <2>. QED
      BY <2>1, <2>2
  <1>. HIDE DEF body
  <1>5. ASSUME NEW x \in D PROVE first[x] = body(first, x)
    <2>1. CASE x = N
      <3>1. Free(N) = {}
        BY <1>1
      <3>. QED
        BY <1>4, <2>1, <3>1
    <2>2. CASE x # N /\ x \notin U
      <3>1. x \in Free(x) /\ Free(x) \in SUBSET Int /\ \A k \in Free(x) : x <= k
        BY <1>1, <2>2
      <3>. HIDE DEF Free
      <3>2. Min(Free(x)) = x
        BY <3>1, MinIs
      <3>3. Free(x) # {}
        BY <3>1
      <3>. QED
        BY <1>3, <2>2, <3>2, <3>3
    <2>3. CASE x # N /\ x \in U
      <3>. DEFINE m == LastOf(f, x)
      <3>1. /\ \A g : body(g, x) = g[m + 1]
            /\ m \in Nat /\ m + 1 \in D /\ m >= x
            /\ \A i \in Nat : x <= i /\ i <= m => i \in U
        BY <1>2, <2>3
      <3>. HIDE DEF m
      <3>2. \A i \in Int : i \in x .. N - 1 /\ i \notin U <=> i \in m + 1 .. N - 1 /\ i \notin U
        <4>1. m \in Int /\ x \in Nat
          BY <1>1, <3>1
        <4>2. \A i \in Int : x <= i /\ i < m + 1 => i \in U
          BY <3>1, <4>1
        <4>. QED
          BY <1>1, <3>1, <4>1, <4>2
      <3>3. Free(x) = Free(m + 1)
        BY <3>2
      <3>. HIDE DEF Free
      <3>4. first[x] = first[m + 1]
        BY <3>1, <3>3
      <3>. HIDE DEF first
      <3>. QED
        BY <3>1, <3>4
    <2>. QED
      BY <2>1, <2>2, <2>3
  <1>. DEFINE unused == CHOOSE g : g = [x \in D |-> body(g, x)]
  <1>6. first_unused(f, from) = unused[from]
    BY DEF first_unused, body
  <1>7. first = [x \in D |-> body(first, x)]
    <2>. DEFINE t == [x \in D |-> body(first, x)]
    <2>1. first = [x \in D |-> first[x]]
      OBVIOUS
    <2>. HIDE DEF first
    <2>2. \A x \in D : first[x] = t[x]
      BY <1>5
    <2>. QED
      BY <2>1, <2>2
  <1>8. unused = [x \in D |-> body(unused, x)]
    <2>. HIDE DEF first
    <2>. QED
      BY <1>7
  <1>. HIDE DEF unused
  <1>9. \A x \in D : unused[x] = first[x]
    <2>. DEFINE W == {k \in 0 .. N : unused[N - k] # first[N - k]}
    <2>1. SUFFICES W = {}
      <3>1. ASSUME NEW x \in D, unused[x] # first[x] PROVE N - x \in W
        <4>1. N - x \in 0 .. N /\ N - (N - x) = x
          BY <1>1
        <4>. QED
          BY <3>1, <4>1
      <3>. QED
        BY <2>1, <3>1
    <2>2. SUFFICES ASSUME W # {} PROVE FALSE
      OBVIOUS
    <2>3. W \in SUBSET Nat
      OBVIOUS
    <2>4. PICK k \in W : \A j \in W : k <= j
      <3>. HIDE DEF W
      <3>. QED
        BY <2>2, <2>3, SmallestNat
    <2>. DEFINE x == N - k
    <2>5. k \in 0 .. N /\ x \in D /\ x \in Nat /\ unused[x] # first[x]
      BY <1>1, <2>4
    <2>6. \A y \in D : x < y => unused[y] = first[y]
      <3>1. ASSUME NEW y \in D, x < y, unused[y] # first[y] PROVE FALSE
        <4>1. N - y \in 0 .. N /\ N - (N - y) = y /\ N - y < k
          BY <1>1, <2>5, <3>1
        <4>2. N - y \in W
          BY <3>1, <4>1
        <4>3. k <= N - y
          BY <2>4, <4>2
        <4>4. N - y \in Int /\ k \in Int
          BY <2>5, <4>1
        <4>. QED
          BY <4>1, <4>3, <4>4
      <3>. QED
        BY <3>1
    <2>. HIDE DEF x, W
    <2>7. unused[x] = body(unused, x) /\ first[x] = body(first, x)
      BY <1>5, <1>8, <2>5
    <2>. HIDE DEF first
    <2>8. CASE x = N
      BY <1>4, <2>5, <2>7, <2>8
    <2>9. CASE x # N /\ x \notin U
      BY <1>3, <2>5, <2>7, <2>9
    <2>10. CASE x # N /\ x \in U
      <3>. DEFINE m == LastOf(f, x)
      <3>1. /\ \A g : body(g, x) = g[m + 1]
            /\ m \in Nat /\ m + 1 \in D /\ m >= x
        BY <1>2, <2>5, <2>10
      <3>. HIDE DEF m
      <3>2. x < m + 1
        BY <2>5, <3>1
      <3>. QED
        BY <2>5, <2>6, <2>7, <3>1, <3>2
    <2>. QED
      BY <2>8, <2>9, <2>10
  <1>10. u = IF Free(from) = {} THEN NO_UNUSED ELSE Min(Free(from))
    <2>1. from \in D
      BY <1>1
    <2>. QED
      BY <1>6, <1>9, <2>1
  <1>11. CASE Free(from) = {}
    <2>1. \A i \in Nat : from <= i /\ i < N => i \in U
      BY <1>1, <1>11
    <2>. QED
      BY <1>10, <1>11, <2>1
  <1>12. CASE Free(from) # {}
    <2>. DEFINE S == Free(from)
    <2>1. S \in SUBSET Nat
      BY <1>1
    <2>. HIDE DEF S
    <2>2. Min(S) \in S /\ \A k \in S : Min(S) <= k
      BY <1>12, <2>1, MinOfNats DEF S
    <2>3. u = Min(S)
      BY <1>10, <1>12 DEF S
    <2>4. u \in Nat /\ from <= u /\ u < N /\ u \notin U
      BY <1>1, <2>2, <2>3 DEF S
    <2>5. ASSUME NEW i \in Nat, from <= i, i < u, i \notin U PROVE FALSE
      <3>1. i \in S
        BY <1>1, <2>4, <2>5 DEF S
      <3>. QED
        BY <2>2, <2>3, <2>4, <2>5, <3>1
    <2>6. u # NO_UNUSED
      BY <2>4 DEF NO_UNUSED
    <2>. QED
      BY <2>4, <2>5, <2>6
  <1>. QED
    BY <1>11, <1>12

-----------------------------------------------------------------------------
(***************************************************************************)
(* A fresh element is found                                                *)
(***************************************************************************)
\* An element whose remainder is the one its selector says is found in its
\* run, unless the run's last match is in slot 0.
LEMMA FreshIsFound ==
    ASSUME NEW f, Shape(f), Placed(f), Passable(f), NEW i \in UsedOf(f), i # 0, Fresh(f, i)
    PROVE  raw_lookup(f, f.remote[i]) # 0
  <1>. DEFINE U == UsedOf(f)
              h == QuotsOf(f)
              elt == f.remote[i]
              q == calc_quot(elt)
              loc == LastOf(f, q)
  <1>1. /\ Laid(U, h, nslots(f)) /\ nslots(f) \in Nat /\ U \in SUBSET Nat
        /\ f.occupieds = Homes(U, h) /\ f.runends = EndsOfRuns(U, h)
    BY PlacedFacts DEF Placed
  <1>2. h[i] = q /\ i \in Nat /\ q \in Nat /\ q <= i /\ i < nslots(f)
    <2>1. h[i] = q
      BY DEF QuotsOf
    <2>. QED
      BY <1>1, <2>1, LaidSlot
  <1>3. q \in Homes(U, h)
    BY <1>2 DEF Homes
  <1>4. q \in U /\ loc \in EndsOfRuns(U, h) /\ h[loc] = q
    BY <1>1, <1>3, HomeHasEnd DEF LastOf
  <1>5. loc \in U /\ loc \in Nat /\ q <= loc /\ \A j \in U : loc < j => h[j] > q
    BY <1>1, <1>4, EndFacts DEF LastOf
  <1>6. i <= loc
    BY <1>1, <1>2, <1>5
  <1>7. rank_select(f, q) = loc
    <2>1. q < nslots(f)
      BY <1>1, <1>2
    <2>. QED
      BY <1>2, <1>4, <2>1, RankSelectExact
  <1>. HIDE DEF loc
  <1>8. ASSUME NEW j \in i .. loc - 1 PROVE j \notin f.runends
    <2>1. j \in Nat /\ j + 1 \in Nat /\ q <= j /\ j + 1 <= loc
      BY <1>2, <1>5
    <2>2. j \in U /\ j + 1 \in U
      BY <1>1, <1>4, <1>5, <2>1, LaidSlot
    <2>3. h[j] \in Nat /\ h[j + 1] \in Nat /\ h[i] <= h[j] /\ h[j] <= h[j + 1] /\ h[j + 1] <= h[loc]
      <3>1. i <= j /\ j <= j + 1
        BY <1>2
      <3>. QED
        BY <1>1, <1>5, <2>1, <2>2, <3>1, LaidSlot, HomesAscend
    <2>4. h[j + 1] = h[j]
      BY <1>2, <1>4, <2>3
    <2>. QED
      BY <1>1, <2>2, <2>4 DEF EndsOfRuns
  <1>. DEFINE at == {j \in RunDownFrom(f, loc, q) : SlotMatches(f, j, elt)}
  <1>9. i \in at
    <2>1. i \in q .. loc
      BY <1>2, <1>5, <1>6
    <2>2. i \in RunDownFrom(f, loc, q)
      BY <1>8, <2>1 DEF RunDownFrom
    <2>3. SlotMatches(f, i, elt)
      BY DEF Fresh, SlotMatches
    <2>. QED
      BY <2>2, <2>3
  <1>10. \A j \in at : j \in Nat /\ j <= loc
    <2>1. \A j \in q .. loc : j \in Nat /\ j <= loc
      BY <1>2, <1>5
    <2>. QED
      BY <2>1 DEF RunDownFrom
  <1>. HIDE DEF at
  <1>11. Max(at) \in at /\ i <= Max(at)
    <2>1. at \in SUBSET Nat /\ at # {}
      BY <1>9, <1>10
    <2>. QED
      BY <1>5, <1>9, <1>10, <2>1, MaxOfNats
  <1>12. FoundAt(f, elt) = Max(at)
    <2>1. q \in f.occupieds /\ ~(loc < 0) /\ at # {}
      BY <1>1, <1>3, <1>5, <1>9
    <2>. QED
      BY <1>7, <2>1 DEF FoundAt, at
  <1>. DEFINE m == Max(at)
  <1>13. m \in Nat /\ m > 0
    BY <1>2, <1>10, <1>11
  <1>. HIDE DEF m
  <1>14. Max({0, m}) = m
    <2>1. m \in Int /\ 0 \in Int /\ 0 <= m
      BY <1>13
    <2>2. Max({0, m}) = IF 0 <= m THEN m ELSE 0
      BY <2>1, MinMaxOfTwo, Zenon
    <2>. QED
      BY <2>1, <2>2
  <1>. QED
    BY <1>12, <1>13, <1>14 DEF raw_lookup, m

-----------------------------------------------------------------------------
(***************************************************************************)
(* What the steps of an insertion change                                   *)
(***************************************************************************)
\* Everything but selectors and remainders is the same.
SameSlots(f, g) ==
    /\ IsTaf(g)
    /\ g.nblocks = f.nblocks /\ g.remote = f.remote
    /\ g.occupieds = f.occupieds /\ g.runends = f.runends /\ g.offset = f.offset

\* New selectors change nothing else ...
LEMMA CodeFields ==
    ASSUME NEW f, IsTaf(f), NEW code, NEW g, g = [f EXCEPT !.code = code]
    PROVE  SameSlots(f, g)
  <1>1. IsTaf(g)
    BY DEF IsTaf
  <1>2. /\ g.nblocks = f.nblocks /\ g.remote = f.remote
        /\ g.occupieds = f.occupieds /\ g.runends = f.runends /\ g.offset = f.offset
    BY DEF IsTaf
  <1>. QED
    BY <1>1, <1>2 DEF SameSlots

\* Stepping the offsets of some blocks changes the offsets of these alone.
LEMMA IncrementedFields ==
    ASSUME NEW f, IsTaf(f), NEW blocks, NEW g, g = Incremented(f, blocks)
    PROVE  /\ IsTaf(g)
           /\ g.nblocks = f.nblocks /\ g.remote = f.remote /\ g.occupieds = f.occupieds /\ g.runends = f.runends
           /\ g.offset = [i \in DOMAIN f.offset |-> IF i \in blocks THEN f.offset[i] + 1 ELSE f.offset[i]]
  BY DEF IsTaf, Incremented

\* What shifting does to the slots and the runends.
LEMMA ShiftFields ==
    ASSUME NEW f, IsTaf(f), NEW a, NEW b, ~(a > b), NEW g, g = Shift(f, a, b)
    PROVE  /\ IsTaf(g)
           /\ g.nblocks = f.nblocks /\ g.occupieds = f.occupieds /\ g.offset = f.offset
           /\ g.remote = Shifted(f.remote, a, b, NoElt)
           /\ g.runends = {i \in f.runends : i \notin a .. b + 1} \cup {i + 1 : i \in f.runends \cap (a .. b)}
  <1>. DEFINE f1 == shift_rems_and_runends(f, a, b)
              f2 == shift_remote_elts(f1, a, b)
              f3 == shift_sels(f2, a, b)
  <1>1. /\ IsTaf(f1)
        /\ f1.nblocks = f.nblocks /\ f1.occupieds = f.occupieds /\ f1.offset = f.offset /\ f1.remote = f.remote
        /\ f1.runends = {i \in f.runends : i \notin a .. b + 1} \cup {i + 1 : i \in f.runends \cap (a .. b)}
    <2>. DEFINE rems == [Shifted(f.remainders, a, b, 0) EXCEPT ![a] = f.remainders[a]]
                ends == {i \in f.runends : i \notin a .. b + 1} \cup {i + 1 : i \in f.runends \cap (a .. b)}
    <2>1. f1 = [f EXCEPT !.remainders = rems, !.runends = ends]
      BY DEF shift_rems_and_runends
    <2>. HIDE DEF rems, ends, f1
    <2>2. /\ IsTaf(f1)
          /\ f1.nblocks = f.nblocks /\ f1.occupieds = f.occupieds /\ f1.offset = f.offset /\ f1.remote = f.remote
          /\ f1.runends = ends
      BY <2>1 DEF IsTaf
    <2>. QED
      BY <2>2 DEF ends
  <1>. HIDE DEF f1
  <1>2. /\ IsTaf(f2)
        /\ f2.nblocks = f1.nblocks /\ f2.occupieds = f1.occupieds /\ f2.offset = f1.offset
        /\ f2.remote = Shifted(f1.remote, a, b, NoElt) /\ f2.runends = f1.runends
    BY <1>1 DEF IsTaf, shift_remote_elts
  <1>. HIDE DEF f2
  <1>3. /\ IsTaf(f3)
        /\ f3.nblocks = f2.nblocks /\ f3.occupieds = f2.occupieds /\ f3.offset = f2.offset
        /\ f3.remote = f2.remote /\ f3.runends = f2.runends
    <2>. DEFINE code == [i \in DOMAIN f2.code |->
                    IF i \in BlockOf(a) .. BlockOf(b + 1)
                    THEN CodeOrZero([j \in InBlock |->
                             Shifted([k \in 0 .. nslots(f2) - 1 |-> sel(f2, k)], a, b, 0)[i * BlockSlots + j]])
                    ELSE f2.code[i]]
    <2>1. f3 = [f2 EXCEPT !.code = code]
      BY DEF shift_sels
    <2>. HIDE DEF code, f3
    <2>2. SameSlots(f2, f3)
      BY <1>2, <2>1, CodeFields
    <2>. QED
      BY <2>2 DEF SameSlots
  <1>. HIDE DEF f3
  <1>4. g = f3
    BY DEF Shift, f1, f2, f3
  <1>. QED
    BY <1>1, <1>2, <1>3, <1>4

-----------------------------------------------------------------------------
(***************************************************************************)
(* The offsets that are stepped                                            *)
(***************************************************************************)
\* The targets of the offsets ascend with the blocks.
Steady(f) ==
    \A i \in 0 .. f.nblocks - 1 : HasOffset(f, i) =>
        /\ target(f, i) \in Nat /\ i * BlockSlots <= target(f, i)
        /\ \A j \in i .. f.nblocks - 1 : HasOffset(f, j) => target(f, i) <= target(f, j)

\* They do in a filter that is placed.
LEMMA PlacedSteady ==
    ASSUME NEW f, Shape(f), Placed(f)
    PROVE  Steady(f)
  <1>1. Laid(UsedOf(f), QuotsOf(f), nslots(f)) /\ f.nblocks \in Nat
    BY PlacedFacts
  <1>2. ASSUME NEW i \in 0 .. f.nblocks - 1, HasOffset(f, i)
        PROVE  /\ i * BlockSlots \in UsedOf(f) /\ target(f, i) = LastOf(f, i * BlockSlots)
               /\ i * BlockSlots \in Nat
    <2>1. i \in Nat /\ i < f.nblocks
      BY <1>1
    <2>. QED
      BY <1>2, <2>1, OffsetFacts
  <1>3. ASSUME NEW i \in 0 .. f.nblocks - 1, HasOffset(f, i)
        PROVE  target(f, i) \in Nat /\ i * BlockSlots <= target(f, i)
    BY <1>1, <1>2, <1>3, EndFacts DEF LastOf
  <1>4. ASSUME NEW i \in 0 .. f.nblocks - 1, HasOffset(f, i), NEW j \in i .. f.nblocks - 1, HasOffset(f, j)
        PROVE  target(f, i) <= target(f, j)
    <2>1. j \in 0 .. f.nblocks - 1 /\ i \in Nat /\ j \in Nat /\ (i = j \/ i < j)
      BY <1>1
    <2>2. i * BlockSlots <= j * BlockSlots
      <3>1. /\ i * BlockSlots \in Nat /\ j * BlockSlots \in Nat /\ BlockSlots \in Nat
            /\ i < j => i * BlockSlots + BlockSlots <= j * BlockSlots
        BY <2>1, BlockOrder, BlockSize
      <3>. DEFINE y == i * BlockSlots
                  z == j * BlockSlots
      <3>2. y \in Nat /\ z \in Nat /\ BlockSlots \in Nat /\ (i < j => y + BlockSlots <= z) /\ (i = j => y = z)
        BY <3>1
      <3>. HIDE DEF y, z
      <3>3. y <= z
        BY <2>1, <3>2
      <3>. QED
        BY <3>3 DEF y, z
    <2>3. /\ i * BlockSlots \in UsedOf(f) /\ target(f, i) = LastOf(f, i * BlockSlots)
          /\ j * BlockSlots \in UsedOf(f) /\ target(f, j) = LastOf(f, j * BlockSlots)
      BY <1>2, <1>4, <2>1
    <2>. QED
      BY <1>1, <2>2, <2>3, EndsAscend DEF LastOf
  <1>. QED
    BY <1>3, <1>4 DEF Steady

\* The walk backwards from the block behind slot c steps the offsets that
\* point from a to c, all of them.
LEMMA StepsExact ==
    ASSUME NEW f, f.nblocks \in Nat, Steady(f), NEW a \in Nat, NEW c \in Nat, c < nslots(f),
           NEW i \in 0 .. f.nblocks - 1
    PROVE  i \in BlocksBefore(f, a, c) /\ target(f, i) <= c
             <=> HasOffset(f, i) /\ a <= target(f, i) /\ target(f, i) <= c
  <1>. DEFINE n == f.nblocks
              start == Min({BlockOf(c) + 1, n - 1})
  <1>1. BlockOf(c) \in Nat /\ BlockOf(c) < n
    BY BlockInside
  <1>2. start \in Nat /\ BlockOf(c) <= start /\ start <= n - 1
    <2>1. BlockOf(c) + 1 \in Int /\ n - 1 \in Int
      BY <1>1
    <2>2. start = IF BlockOf(c) + 1 <= n - 1 THEN BlockOf(c) + 1 ELSE n - 1
      BY <2>1, MinMaxOfTwo
    <2>. HIDE DEF start
    <2>. QED
      BY <1>1, <2>2
  <1>. HIDE DEF start
  <1>3. i \in BlocksBefore(f, a, c) <=>
          /\ i \in 0 .. start
          /\ HasOffset(f, i)
          /\ \A j \in i .. start : HasOffset(f, j) => target(f, j) >= a
    BY DEF BlocksBefore, start
  <1>4. ASSUME i \in BlocksBefore(f, a, c) PROVE HasOffset(f, i) /\ a <= target(f, i)
    <2>1. i \in i .. start /\ HasOffset(f, i)
      BY <1>2, <1>3, <1>4
    <2>2. target(f, i) >= a
      BY <1>3, <1>4, <2>1
    <2>3. target(f, i) \in Nat
      BY <2>1 DEF Steady
    <2>. QED
      BY <2>1, <2>2, <2>3
  <1>5. ASSUME HasOffset(f, i), a <= target(f, i), target(f, i) <= c PROVE i \in BlocksBefore(f, a, c)
    <2>1. /\ target(f, i) \in Nat /\ i * BlockSlots <= target(f, i)
          /\ \A j \in i .. n - 1 : HasOffset(f, j) => target(f, i) <= target(f, j)
      BY <1>5 DEF Steady
    <2>2. i \in Nat
      OBVIOUS
    <2>3. i <= BlockOf(c)
      <3>1. BlockOf(c) * BlockSlots \in Nat /\ c < BlockOf(c) * BlockSlots + BlockSlots
            /\ (BlockOf(c) < i => BlockOf(c) * BlockSlots + BlockSlots <= i * BlockSlots)
            /\ i * BlockSlots \in Nat /\ BlockSlots \in Nat
        BY <1>1, <2>2, BlockFacts, BlockOrder
      <3>. DEFINE y == i * BlockSlots
                  z == BlockOf(c) * BlockSlots
      <3>2. z \in Nat /\ y \in Nat /\ c < z + BlockSlots /\ (BlockOf(c) < i => z + BlockSlots <= y)
            /\ BlockSlots \in Nat /\ y <= target(f, i)
        BY <2>1, <3>1
      <3>. HIDE DEF y, z
      <3>3. ~(BlockOf(c) < i)
        BY <1>5, <2>1, <3>2
      <3>. QED
        BY <1>1, <2>2, <3>3
    <2>4. i \in 0 .. start
      BY <1>1, <1>2, <2>2, <2>3
    <2>5. ASSUME NEW j \in i .. start, HasOffset(f, j) PROVE target(f, j) >= a
      <3>1. j \in i .. n - 1 /\ j \in 0 .. n - 1
        BY <1>2, <2>2
      <3>2. target(f, i) <= target(f, j) /\ target(f, j) \in Nat
        BY <2>1, <2>5, <3>1 DEF Steady
      <3>. QED
        BY <1>5, <2>1, <3>2
    <2>. QED
      BY <1>3, <1>5, <2>4, <2>5
  <1>. QED
    BY <1>4, <1>5

\* An element goes into f behind slot r, and the slots up to u move.
InsertsAt(f, elt, r, u) ==
    /\ Shape(f) /\ Placed(f) /\ elt \in Elts
    /\ Insertion(UsedOf(f), QuotsOf(f), nslots(f), calc_quot(elt), r, u)
    /\ u < nslots(f)

\* What an insertion has to do with the layout.
LEMMA InsertsFacts ==
    ASSUME NEW f, NEW elt, NEW r, NEW u, InsertsAt(f, elt, r, u)
    PROVE  /\ IsTaf(f) /\ f.nblocks \in Nat /\ nslots(f) \in Nat
           /\ f.remote \in [0 .. nslots(f) - 1 -> Elts \cup {NoElt}]
           /\ f.offset \in [0 .. f.nblocks - 1 -> Int]
           /\ r \in Nat /\ u \in Nat /\ r < u /\ u < nslots(f) /\ u \notin UsedOf(f)
           /\ f.runends \in SUBSET UsedOf(f) /\ f.runends \in SUBSET Nat /\ f.occupieds \in SUBSET UsedOf(f)
           /\ r \in f.runends
           /\ \A i \in Nat : r < i /\ i < u => i \in UsedOf(f)
  <1>1. Shape(f) /\ Placed(f)
    BY DEF InsertsAt
  <1>2. IsTaf(f) /\ f.remote \in [0 .. nslots(f) - 1 -> Elts \cup {NoElt}] /\ f.offset \in [0 .. f.nblocks - 1 -> Int]
    BY <1>1 DEF Shape, IsTaf
  <1>3. /\ f.nblocks \in Nat /\ nslots(f) \in Nat
        /\ f.runends \in SUBSET UsedOf(f) /\ f.runends \in SUBSET Nat /\ f.occupieds \in SUBSET UsedOf(f)
    BY <1>1, PlacedFacts
  <1>. DEFINE q == calc_quot(elt)
  <1>4. Insertion(UsedOf(f), QuotsOf(f), nslots(f), q, r, u) /\ u < nslots(f)
    BY DEF InsertsAt
  <1>. HIDE DEF q
  <1>5. r \in Nat /\ r \in EndsOfRuns(UsedOf(f), QuotsOf(f))
    BY <1>4, InsertionFacts
  <1>6. r \in f.runends
    BY <1>1, <1>5 DEF Placed
  <1>7. u \in Nat /\ r < u /\ u \notin UsedOf(f) /\ \A i \in Nat : r < i /\ i < u => i \in UsedOf(f)
    BY <1>4 DEF Insertion
  <1>. QED
    BY <1>2, <1>3, <1>4, <1>5, <1>6, <1>7

\* Whether the offset of block b is stepped for the slots that move.
Moves(f, b, r, u) ==
    b * BlockSlots \in UsedOf(f) /\ r < LastOf(f, b * BlockSlots) /\ LastOf(f, b * BlockSlots) < u

\* g is f with the offsets that point to slots that will move stepped ...
Stepped(f, r, u, g) ==
    /\ IsTaf(g)
    /\ g.nblocks = f.nblocks /\ g.remote = f.remote /\ g.occupieds = f.occupieds /\ g.runends = f.runends
    /\ g.offset = [b \in 0 .. f.nblocks - 1 |-> IF Moves(f, b, r, u) THEN f.offset[b] + 1 ELSE f.offset[b]]

\* ... which is what inc_offsets does.
LEMMA OffsetsStepped ==
    ASSUME NEW f, NEW elt, NEW r, NEW u, InsertsAt(f, elt, r, u), NEW g, g = inc_offsets(f, r + 1, u - 1)
    PROVE  Stepped(f, r, u, g)
  <1>1. /\ IsTaf(f) /\ f.nblocks \in Nat /\ nslots(f) \in Nat
        /\ f.offset \in [0 .. f.nblocks - 1 -> Int]
        /\ r \in Nat /\ u \in Nat /\ r < u /\ u < nslots(f)
    BY InsertsFacts
  <1>2. Shape(f) /\ Placed(f) /\ Steady(f)
    BY PlacedSteady DEF InsertsAt
  <1>3. ASSUME NEW b \in 0 .. f.nblocks - 1
        PROVE  /\ b * BlockSlots \in UsedOf(f) => LastOf(f, b * BlockSlots) \in Nat
               /\ HasOffset(f, b) <=> b * BlockSlots \in UsedOf(f)
               /\ b * BlockSlots \in UsedOf(f) => target(f, b) = LastOf(f, b * BlockSlots)
    <2>1. b \in Nat /\ b < f.nblocks
      BY <1>1
    <2>2. Laid(UsedOf(f), QuotsOf(f), nslots(f))
      BY <1>2 DEF Placed
    <2>. QED
      BY <1>2, <2>1, <2>2, OffsetFacts, EndFacts DEF LastOf
  <1>4. CASE r + 1 > u - 1
    <2>1. g = f
      BY <1>4 DEF inc_offsets
    <2>2. \A b \in 0 .. f.nblocks - 1 : ~Moves(f, b, r, u)
      BY <1>1, <1>3, <1>4 DEF Moves
    <2>3. f.offset = [b \in 0 .. f.nblocks - 1 |-> IF Moves(f, b, r, u) THEN f.offset[b] + 1 ELSE f.offset[b]]
      BY <1>1, <2>2
    <2>. QED
      BY <1>1, <2>1, <2>3 DEF Stepped
  <1>5. CASE ~(r + 1 > u - 1)
    <2>. DEFINE S == {i \in BlocksBefore(f, r + 1, u - 1) : target(f, i) <= u - 1}
    <2>1. g = Incremented(f, S)
      BY <1>5 DEF inc_offsets
    <2>2. ASSUME NEW b \in 0 .. f.nblocks - 1 PROVE b \in S <=> Moves(f, b, r, u)
      <3>1. r + 1 \in Nat /\ u - 1 \in Nat /\ u - 1 < nslots(f)
        BY <1>1, <1>5
      <3>2. b \in S <=> HasOffset(f, b) /\ r + 1 <= target(f, b) /\ target(f, b) <= u - 1
        BY <1>1, <1>2, <3>1, StepsExact
      <3>3. ASSUME NEW m \in Nat PROVE r + 1 <= m /\ m <= u - 1 <=> r < m /\ m < u
        BY <1>1
      <3>. HIDE DEF S
      <3>. QED
        BY <1>3, <3>2, <3>3 DEF Moves
    <2>. HIDE DEF S
    <2>3. /\ IsTaf(g)
          /\ g.nblocks = f.nblocks /\ g.remote = f.remote /\ g.occupieds = f.occupieds /\ g.runends = f.runends
          /\ g.offset = [i \in DOMAIN f.offset |-> IF i \in S THEN f.offset[i] + 1 ELSE f.offset[i]]
      BY <1>1, <2>1, IncrementedFields
    <2>4. DOMAIN f.offset = 0 .. f.nblocks - 1
      BY <1>1
    <2>. QED
      BY <2>2, <2>3, <2>4 DEF Stepped
  <1>. QED
    BY <1>4, <1>5

\* In g the slots, their elements and their runends have moved, too ...
Moved(f, r, u, g) ==
    /\ IsTaf(g)
    /\ g.nblocks = f.nblocks /\ g.occupieds = f.occupieds
    /\ g.offset = [b \in 0 .. f.nblocks - 1 |-> IF Moves(f, b, r, u) THEN f.offset[b] + 1 ELSE f.offset[b]]
    /\ g.remote = [i \in 0 .. nslots(f) - 1 |->
          IF i = r + 1 THEN NoElt ELSE IF r + 1 < i /\ i <= u THEN f.remote[i - 1] ELSE f.remote[i]]
    /\ g.runends \in SUBSET Nat
    /\ \A i \in Nat : i \in g.runends <=> \/ i \in f.runends /\ (i <= r \/ u < i)
                                          \/ r + 1 < i /\ i <= u /\ i - 1 \in f.runends

\* ... which is what Shift does.
LEMMA SlotsMoved ==
    ASSUME NEW f, NEW elt, NEW r, NEW u, InsertsAt(f, elt, r, u),
           NEW f1, Stepped(f, r, u, f1), NEW g, g = Shift(f1, r + 1, u - 1)
    PROVE  Moved(f, r, u, g)
  <1>1. /\ IsTaf(f1)
        /\ f1.nblocks = f.nblocks /\ f1.remote = f.remote /\ f1.occupieds = f.occupieds /\ f1.runends = f.runends
        /\ f1.offset = [b \in 0 .. f.nblocks - 1 |-> IF Moves(f, b, r, u) THEN f.offset[b] + 1 ELSE f.offset[b]]
    BY DEF Stepped
  <1>2. /\ r \in Nat /\ u \in Nat /\ r < u /\ u < nslots(f) /\ nslots(f) \in Nat
        /\ f.runends \in SUBSET Nat /\ u \notin f.runends /\ u \notin UsedOf(f)
        /\ f.remote \in [0 .. nslots(f) - 1 -> Elts \cup {NoElt}]
    BY InsertsFacts
  <1>. DEFINE moved == [i \in 0 .. nslots(f) - 1 |->
                 IF i = r + 1 THEN NoElt ELSE IF r + 1 < i /\ i <= u THEN f.remote[i - 1] ELSE f.remote[i]]
  <1>3. CASE r + 1 > u - 1
    <2>1. g = f1 /\ u = r + 1
      BY <1>2, <1>3 DEF Shift
    <2>2. f.remote[u] = NoElt
      BY <1>2 DEF UsedOf
    <2>3. \A i \in 0 .. nslots(f) - 1 : moved[i] = f.remote[i]
      BY <1>2, <2>1, <2>2
    <2>4. f.remote = moved
      BY <1>2, <2>3
    <2>5. \A i \in Nat : i \in f.runends <=> \/ i \in f.runends /\ (i <= r \/ u < i)
                                             \/ r + 1 < i /\ i <= u /\ i - 1 \in f.runends
      BY <1>2, <2>1
    <2>. HIDE DEF moved
    <2>6. f1.remote = moved /\ f1.runends \in SUBSET Nat
      BY <1>1, <1>2, <2>4
    <2>. QED
      BY <1>1, <2>1, <2>5, <2>6 DEF Moved, moved
  <1>4. CASE ~(r + 1 > u - 1)
    <2>. DEFINE E == {i \in f.runends : i \notin (r + 1) .. (u - 1) + 1}
                F == {i + 1 : i \in f.runends \cap ((r + 1) .. (u - 1))}
    <2>1. /\ IsTaf(g)
          /\ g.nblocks = f1.nblocks /\ g.occupieds = f1.occupieds /\ g.offset = f1.offset
          /\ g.remote = Shifted(f1.remote, r + 1, u - 1, NoElt)
          /\ g.runends = E \cup F
      BY <1>1, <1>4, ShiftFields
    <2>2. g.remote = moved
      <3>1. \A i \in 0 .. nslots(f) - 1 : i \in (r + 1) + 1 .. (u - 1) + 1 <=> r + 1 < i /\ i <= u
        BY <1>2
      <3>2. DOMAIN f.remote = 0 .. nslots(f) - 1
        BY <1>2
      <3>. QED
        BY <1>1, <2>1, <3>1, <3>2 DEF Shifted
    <2>3. \A i \in Nat : i \in E <=> i \in f.runends /\ (i <= r \/ u < i)
      BY <1>2
    <2>4. ASSUME NEW i \in Nat PROVE i \in F <=> r + 1 < i /\ i <= u /\ i - 1 \in f.runends
      <3>1. ASSUME i \in F PROVE r + 1 < i /\ i <= u /\ i - 1 \in f.runends
        <4>1. PICK k \in f.runends : k \in (r + 1) .. (u - 1) /\ i = k + 1
          BY <3>1
        <4>2. k \in Nat /\ i - 1 = k
          BY <1>2, <4>1
        <4>. QED
          BY <1>2, <4>1, <4>2
      <3>2. ASSUME r + 1 < i, i <= u, i - 1 \in f.runends PROVE i \in F
        <4>1. i - 1 \in (r + 1) .. (u - 1) /\ i = (i - 1) + 1
          BY <1>2, <3>2
        <4>. QED
          BY <3>2, <4>1
      <3>. QED
        BY <3>1, <3>2
    <2>5. E \in SUBSET Nat /\ F \in SUBSET Nat
      BY <1>2
    <2>. HIDE DEF E, F
    <2>6. g.runends \in SUBSET Nat /\ \A i \in Nat : i \in g.runends <=> i \in E \/ i \in F
      BY <2>1, <2>5
    <2>. QED
      BY <1>1, <2>1, <2>2, <2>3, <2>4, <2>6 DEF Moved
  <1>. QED
    BY <1>3, <1>4

\* What the offsets point to when the slots have moved.
LEMMA MovedTargets ==
    ASSUME NEW f, NEW elt, NEW r, NEW u, InsertsAt(f, elt, r, u), NEW g, Moved(f, r, u, g),
           NEW b \in 0 .. f.nblocks - 1
    PROVE  /\ b * BlockSlots \in Nat
           /\ b * BlockSlots \in UsedOf(f) =>
                /\ HasOffset(g, b)
                /\ LastOf(f, b * BlockSlots) \in Nat /\ b * BlockSlots <= LastOf(f, b * BlockSlots)
                /\ b * BlockSlots < u => LastOf(f, b * BlockSlots) < u
                /\ target(g, b) = IF r < LastOf(f, b * BlockSlots) /\ LastOf(f, b * BlockSlots) < u
                                  THEN LastOf(f, b * BlockSlots) + 1 ELSE LastOf(f, b * BlockSlots)
           /\ b * BlockSlots \notin UsedOf(f) =>
                /\ HasOffset(g, b) => b * BlockSlots = u
                /\ target(g, b) = b * BlockSlots
  <1>. DEFINE x == b * BlockSlots
              m == LastOf(f, x)
  <1>1. /\ f.nblocks \in Nat /\ nslots(f) \in Nat /\ f.offset \in [0 .. f.nblocks - 1 -> Int]
        /\ r \in Nat /\ u \in Nat /\ r < u /\ u \notin UsedOf(f)
        /\ f.runends \in SUBSET UsedOf(f) /\ f.occupieds \in SUBSET UsedOf(f)
        /\ \A i \in Nat : r < i /\ i < u => i \in UsedOf(f)
    BY InsertsFacts
  <1>2. Shape(f) /\ Placed(f) /\ b \in Nat /\ b < f.nblocks /\ Laid(UsedOf(f), QuotsOf(f), nslots(f))
    BY <1>1 DEF InsertsAt, Placed
  <1>3. /\ x \in Nat
        /\ HasOffset(f, b) <=> x \in UsedOf(f)
        /\ x \in UsedOf(f) => f.offset[b] = m - x
        /\ x \notin UsedOf(f) => f.offset[b] = 0
    BY <1>2, OffsetFacts
  <1>4. /\ x \in UsedOf(f) => m \in Nat /\ x <= m /\ \A i \in Nat : x <= i /\ i <= m => i \in UsedOf(f)
    BY <1>2, EndFacts DEF LastOf
  <1>5. /\ g.offset[b] = IF x \in UsedOf(f) /\ r < m /\ m < u THEN f.offset[b] + 1 ELSE f.offset[b]
        /\ g.occupieds = f.occupieds
        /\ \A i \in Nat : i \in g.runends <=> \/ i \in f.runends /\ (i <= r \/ u < i)
                                              \/ r + 1 < i /\ i <= u /\ i - 1 \in f.runends
    BY <1>2 DEF Moved, Moves
  <1>6. /\ HasOffset(f, b) <=> x \in f.occupieds \/ f.offset[b] # 0 \/ x \in f.runends
        /\ HasOffset(g, b) <=> x \in f.occupieds \/ g.offset[b] # 0 \/ x \in g.runends
        /\ target(g, b) = x + g.offset[b]
    BY <1>5 DEF HasOffset, target
  <1>. HIDE DEF x, m
  <1>7. CASE x \in UsedOf(f)
    <2>1. m \in Nat /\ x <= m /\ f.offset[b] = m - x /\ x # u
      BY <1>1, <1>3, <1>4, <1>7
    <2>2. x < u => m < u
      BY <1>1, <1>3, <1>4, <1>7, <2>1
    <2>3. target(g, b) = IF r < m /\ m < u THEN m + 1 ELSE m
      BY <1>3, <1>5, <1>6, <1>7, <2>1
    <2>4. HasOffset(g, b)
      <3>1. CASE x \in f.occupieds
        BY <1>6, <3>1
      <3>2. CASE f.offset[b] # 0
        BY <1>3, <1>5, <1>6, <2>1, <3>2
      <3>3. CASE x \in f.runends /\ f.offset[b] = 0
        <4>1. CASE x <= r \/ u < x
          BY <1>3, <1>5, <1>6, <3>3, <4>1
        <4>2. CASE r < x /\ x < u
          <5>1. m = x
            BY <1>3, <2>1, <3>3
          <5>. QED
            BY <1>5, <1>6, <1>7, <3>3, <4>2, <5>1
        <4>. QED
          BY <1>1, <1>3, <2>1, <4>1, <4>2
      <3>. QED
        BY <1>3, <1>6, <1>7, <3>1, <3>2, <3>3
    <2>. QED
      BY <1>3, <1>7, <2>1, <2>2, <2>3, <2>4 DEF x, m
  <1>8. CASE x \notin UsedOf(f)
    <2>1. g.offset[b] = 0 /\ x \notin f.occupieds /\ x \notin f.runends
      BY <1>1, <1>3, <1>5, <1>8
    <2>2. HasOffset(g, b) => x = u
      BY <1>1, <1>3, <1>5, <1>6, <1>8, <2>1
    <2>3. target(g, b) = x
      BY <1>3, <1>6, <2>1
    <2>. QED
      BY <1>3, <1>8, <2>2, <2>3 DEF x
  <1>. QED
    BY <1>7, <1>8

\* They still ascend.
LEMMA MovedSteady ==
    ASSUME NEW f, NEW elt, NEW r, NEW u, InsertsAt(f, elt, r, u), NEW g, Moved(f, r, u, g)
    PROVE  Steady(g)
  <1>. DEFINE At(b) == b * BlockSlots
              m(b) == LastOf(f, At(b))
              S == 0 .. f.nblocks - 1
  <1>1. /\ f.nblocks \in Nat /\ nslots(f) \in Nat /\ g.nblocks = f.nblocks
        /\ r \in Nat /\ u \in Nat /\ r < u /\ u \notin UsedOf(f)
        /\ Laid(UsedOf(f), QuotsOf(f), nslots(f))
    BY InsertsFacts DEF Moved, InsertsAt, Placed
  <1>2. ASSUME NEW b \in S
        PROVE  /\ At(b) \in Nat
               /\ At(b) \in UsedOf(f) =>
                    /\ m(b) \in Nat /\ At(b) <= m(b) /\ (At(b) < u => m(b) < u)
                    /\ target(g, b) = IF r < m(b) /\ m(b) < u THEN m(b) + 1 ELSE m(b)
               /\ At(b) \notin UsedOf(f) /\ HasOffset(g, b) => At(b) = u /\ target(g, b) = u
    BY MovedTargets
  <1>3. ASSUME NEW i \in S, NEW j \in S, i <= j
        PROVE  At(i) <= At(j)
    <2>1. i \in Nat /\ j \in Nat /\ BlockSlots \in Nat
      BY <1>1, BlockSize
    <2>2. At(i) \in Nat /\ At(j) \in Nat /\ (i < j => At(i) + BlockSlots <= At(j)) /\ (i = j => At(i) = At(j))
      BY <2>1, BlockOrder
    <2>. HIDE DEF At
    <2>. QED
      BY <1>3, <2>1, <2>2
  <1>4. ASSUME NEW i \in S, NEW j \in S, i <= j, At(i) \in UsedOf(f), At(j) \in UsedOf(f)
        PROVE  m(i) <= m(j)
    BY <1>1, <1>3, <1>4, EndsAscend DEF LastOf
  <1>. HIDE DEF At, m
  <1>5. ASSUME NEW i \in S, HasOffset(g, i) PROVE target(g, i) \in Nat /\ At(i) <= target(g, i)
    BY <1>1, <1>2, <1>5
  <1>6. ASSUME NEW i \in S, NEW j \in S, i <= j, HasOffset(g, i), HasOffset(g, j)
        PROVE  target(g, i) <= target(g, j)
    <2>1. At(i) \in Nat /\ At(j) \in Nat /\ At(i) <= At(j)
      BY <1>2, <1>3, <1>6
    <2>2. CASE At(i) \in UsedOf(f) /\ At(j) \in UsedOf(f)
      <3>1. m(i) \in Nat /\ m(j) \in Nat /\ m(i) <= m(j)
        BY <1>2, <1>4, <1>6, <2>2
      <3>. QED
        BY <1>1, <1>2, <2>2, <3>1
    <2>3. CASE At(i) \in UsedOf(f) /\ At(j) \notin UsedOf(f)
      <3>1. At(j) = u /\ target(g, j) = u /\ At(i) < u
        BY <1>1, <1>2, <1>6, <2>1, <2>3
      <3>. QED
        BY <1>1, <1>2, <2>3, <3>1
    <2>4. CASE At(i) \notin UsedOf(f)
      BY <1>1, <1>2, <1>5, <1>6, <2>1, <2>4
    <2>. QED
      BY <2>2, <2>3, <2>4
  <1>7. \A i \in S : \A j \in i .. f.nblocks - 1 : j \in S /\ i <= j
    BY <1>1
  <1>. QED
    BY <1>1, <1>5, <1>6, <1>7 DEF Steady, At

\* Whether an insertion of quotient q moves what the offset of block b points to.
Slides(f, b, q, r, u) ==
    LET x == b * BlockSlots
    IN  x \in UsedOf(f) /\ \/ r < LastOf(f, x) /\ LastOf(f, x) < u
                           \/ LastOf(f, x) = r /\ q <= x

\* In g the new slot is in its run, but does not hold its element yet ...
Linked(f, q, r, u, g) ==
    /\ IsTaf(g)
    /\ g.nblocks = f.nblocks /\ g.occupieds = f.occupieds \cup {q}
    /\ g.offset = [b \in 0 .. f.nblocks - 1 |-> IF Slides(f, b, q, r, u) THEN f.offset[b] + 1 ELSE f.offset[b]]
    /\ g.remote = [i \in 0 .. nslots(f) - 1 |->
          IF i = r + 1 THEN NoElt ELSE IF r + 1 < i /\ i <= u THEN f.remote[i - 1] ELSE f.remote[i]]
    /\ g.runends \in SUBSET Nat
    /\ \A i \in Nat : i \in g.runends <=>
          \/ i < r /\ i \in f.runends
          \/ i = r /\ q \notin f.occupieds
          \/ r + 1 < i /\ i <= u /\ i - 1 \in f.runends
          \/ u < i /\ i \in f.runends

\* ... which is what Link does.
LEMMA SlotLinked ==
    ASSUME NEW f, NEW elt, NEW r, NEW u, InsertsAt(f, elt, r, u), NEW f2, Moved(f, r, u, f2),
           NEW q, q = calc_quot(elt), NEW g, g = Link(f2, q, r)
    PROVE  Linked(f, q, r, u, g)
  <1>. DEFINE At(b) == b * BlockSlots
              m(b) == LastOf(f, At(b))
              B == 0 .. f.nblocks - 1
              Pass == {i \in BlocksBefore(f2, r, r) : target(f2, i) <= r}
              Fit == {i \in BlocksBefore(f2, r, r) : target(f2, i) = r /\ i * BlockSlots \notin f2.occupieds
                                                     /\ q <= i * BlockSlots}
  <1>1. /\ f.nblocks \in Nat /\ nslots(f) \in Nat /\ f2.nblocks = f.nblocks
        /\ r \in Nat /\ u \in Nat /\ r < u /\ u < nslots(f) /\ u \notin UsedOf(f) /\ r \in f.runends
        /\ Laid(UsedOf(f), QuotsOf(f), nslots(f)) /\ f.occupieds = Homes(UsedOf(f), QuotsOf(f))
        /\ f.offset \in [B -> Int]
    BY InsertsFacts DEF Moved, InsertsAt, Placed
  <1>2. /\ IsTaf(f2)
        /\ f2.occupieds = f.occupieds /\ DOMAIN f2.offset = B
        /\ \A b \in B : f2.offset[b] = IF Moves(f, b, r, u) THEN f.offset[b] + 1 ELSE f.offset[b]
        /\ f2.remote = [i \in 0 .. nslots(f) - 1 |->
              IF i = r + 1 THEN NoElt ELSE IF r + 1 < i /\ i <= u THEN f.remote[i - 1] ELSE f.remote[i]]
        /\ f2.runends \in SUBSET Nat
        /\ \A i \in Nat : i \in f2.runends <=> \/ i \in f.runends /\ (i <= r \/ u < i)
                                               \/ r + 1 < i /\ i <= u /\ i - 1 \in f.runends
    BY DEF Moved
  <1>3. Insertion(UsedOf(f), QuotsOf(f), nslots(f), q, r, u)
    BY DEF InsertsAt
  <1>4. /\ q \in Nat /\ q \in UsedOf(f) /\ r = EndOf(UsedOf(f), QuotsOf(f), q)
        /\ QuotsOf(f)[r] <= q /\ QuotsOf(f)[r] \in Nat
    BY <1>3, InsertionFacts DEF Insertion
  <1>5. ASSUME NEW b \in B
        PROVE  /\ At(b) \in Nat
               /\ At(b) \in UsedOf(f) =>
                    /\ HasOffset(f2, b) /\ m(b) \in Nat
                    /\ target(f2, b) = IF r < m(b) /\ m(b) < u THEN m(b) + 1 ELSE m(b)
               /\ At(b) \notin UsedOf(f) /\ HasOffset(f2, b) => target(f2, b) = u
    BY MovedTargets
  <1>6. ASSUME NEW b \in B
        PROVE  b \in BlocksBefore(f2, r, r) /\ target(f2, b) <= r
                 <=> HasOffset(f2, b) /\ r <= target(f2, b) /\ target(f2, b) <= r
    <2>1. Steady(f2)
      BY MovedSteady
    <2>2. nslots(f2) = nslots(f) /\ r < nslots(f2)
      BY <1>1 DEF nslots
    <2>. QED
      BY <1>1, <2>1, <2>2, StepsExact
  <1>7. ASSUME NEW b \in B
        PROVE  b \in BlocksBefore(f2, r, r) /\ target(f2, b) <= r <=> At(b) \in UsedOf(f) /\ m(b) = r
    <2>. HIDE DEF At, m
    <2>. QED
      BY <1>1, <1>5, <1>6
  <1>8. ASSUME NEW b \in B, At(b) \in UsedOf(f), m(b) = r PROVE target(f2, b) = r
    BY <1>1, <1>5, <1>8
  <1>9. ASSUME NEW b \in B PROVE Moves(f, b, r, u) <=> At(b) \in UsedOf(f) /\ r < m(b) /\ m(b) < u
    BY DEF Moves
  <1>10. ASSUME NEW b \in B
         PROVE  Slides(f, b, q, r, u) <=> \/ Moves(f, b, r, u)
                                          \/ At(b) \in UsedOf(f) /\ m(b) = r /\ q <= At(b)
    BY DEF Slides, Moves
  <1>11. ASSUME NEW b \in B, At(b) \in UsedOf(f), m(b) = r
         PROVE  /\ q \in f.occupieds => q <= At(b)
                /\ q \notin f.occupieds /\ q <= At(b) => At(b) \notin f.occupieds
    <2>1. QuotsOf(f)[r] <= At(b) /\ At(b) \in Nat
      BY <1>1, <1>5, <1>11, EndFacts DEF LastOf
    <2>2. ASSUME q \in f.occupieds PROVE QuotsOf(f)[r] = q
      BY <1>1, <1>4, <2>2, HomeHasEnd
    <2>3. ASSUME At(b) \in f.occupieds PROVE QuotsOf(f)[r] = At(b)
      BY <1>1, <1>11, <2>3, HomeHasEnd DEF LastOf
    <2>. HIDE DEF At
    <2>4. q \notin f.occupieds /\ q <= At(b) => At(b) \notin f.occupieds
      BY <1>4, <2>1, <2>3
    <2>. QED
      BY <2>1, <2>2, <2>4
  <1>. DEFINE offset == [b \in B |-> IF Slides(f, b, q, r, u) THEN f.offset[b] + 1 ELSE f.offset[b]]
  <1>12. ASSUME NEW S, \A b \in B : b \in S <=> At(b) \in UsedOf(f) /\ m(b) = r /\ q <= At(b)
         PROVE  [i \in DOMAIN f2.offset |-> IF i \in S THEN f2.offset[i] + 1 ELSE f2.offset[i]] = offset
    <2>1. ASSUME NEW b \in B
          PROVE  (IF b \in S THEN f2.offset[b] + 1 ELSE f2.offset[b])
                   = IF Slides(f, b, q, r, u) THEN f.offset[b] + 1 ELSE f.offset[b]
      <3>1. Moves(f, b, r, u) => b \notin S
        BY <1>1, <1>5, <1>9, <1>12
      <3>2. Slides(f, b, q, r, u) <=> Moves(f, b, r, u) \/ b \in S
        BY <1>10, <1>12
      <3>3. f2.offset[b] = IF Moves(f, b, r, u) THEN f.offset[b] + 1 ELSE f.offset[b]
        BY <1>2
      <3>. QED
        BY <3>1, <3>2, <3>3
    <2>. QED
      BY <1>2, <2>1
  <1>13. CASE q \in f.occupieds
    <2>. DEFINE f3 == Incremented(f2, Pass)
    <2>1. inc_offsets(f2, r, r) = f3
      BY <1>1 DEF inc_offsets
    <2>2. \A b \in B : b \in Pass <=> At(b) \in UsedOf(f) /\ m(b) = r /\ q <= At(b)
      BY <1>7, <1>11, <1>13
    <2>0. f3 = Incremented(f2, Pass)
      OBVIOUS
    <2>00. IsTaf(f2)
      BY <1>2
    <2>. HIDE DEF Pass, At, m, f3
    <2>3. /\ IsTaf(f3)
          /\ f3.nblocks = f2.nblocks /\ f3.remote = f2.remote /\ f3.occupieds = f2.occupieds
          /\ f3.runends = f2.runends
          /\ f3.offset = [i \in DOMAIN f2.offset |-> IF i \in Pass THEN f2.offset[i] + 1 ELSE f2.offset[i]]
      BY <2>00, <2>0, IncrementedFields
    <2>4. f3.offset = offset
      BY <1>12, <2>2, <2>3
    <2>. HIDE DEF offset
    <2>5. g = [f3 EXCEPT !.runends = f3.runends \ {r}]
      BY <1>2, <1>13, <2>1 DEF Link
    <2>6. /\ IsTaf(g)
          /\ g.nblocks = f3.nblocks /\ g.remote = f3.remote /\ g.occupieds = f3.occupieds
          /\ g.offset = f3.offset /\ g.runends = f3.runends \ {r}
      BY <2>3, <2>5 DEF IsTaf
    <2>7. g.occupieds = f.occupieds \cup {q}
      BY <1>2, <1>13, <2>3, <2>6
    <2>8. ASSUME NEW i \in Nat
          PROVE  i \in g.runends <=> \/ i < r /\ i \in f.runends
                                     \/ i = r /\ q \notin f.occupieds
                                     \/ r + 1 < i /\ i <= u /\ i - 1 \in f.runends
                                     \/ u < i /\ i \in f.runends
      <3>1. i \in g.runends <=> i \in f2.runends /\ i # r
        BY <2>3, <2>6
      <3>2. i \in f2.runends <=> \/ i \in f.runends /\ (i <= r \/ u < i)
                                 \/ r + 1 < i /\ i <= u /\ i - 1 \in f.runends
        BY <1>2
      <3>. QED
        BY <1>1, <1>13, <3>1, <3>2
    <2>9. g.runends \in SUBSET Nat
      BY <1>2, <2>3, <2>6
    <2>. QED
      BY <1>1, <1>2, <2>3, <2>4, <2>6, <2>7, <2>8, <2>9 DEF Linked, offset
  <1>14. CASE q \notin f.occupieds
    <2>. DEFINE f3 == Incremented(f2, Fit)
    <2>1. inc_offsets_for_new_run(f2, q, r) = f3
      BY DEF inc_offsets_for_new_run
    <2>2. \A b \in B : b \in Fit <=> At(b) \in UsedOf(f) /\ m(b) = r /\ q <= At(b)
      <3>1. ASSUME NEW b \in B PROVE target(f2, b) = r => target(f2, b) <= r
        BY <1>1
      <3>. QED
        BY <1>2, <1>7, <1>8, <1>11, <1>14, <3>1
    <2>0. f3 = Incremented(f2, Fit)
      OBVIOUS
    <2>00. IsTaf(f2)
      BY <1>2
    <2>. HIDE DEF Fit, At, m, f3
    <2>3. /\ IsTaf(f3)
          /\ f3.nblocks = f2.nblocks /\ f3.remote = f2.remote /\ f3.occupieds = f2.occupieds
          /\ f3.runends = f2.runends
          /\ f3.offset = [i \in DOMAIN f2.offset |-> IF i \in Fit THEN f2.offset[i] + 1 ELSE f2.offset[i]]
      BY <2>00, <2>0, IncrementedFields
    <2>4. f3.offset = offset
      BY <1>12, <2>2, <2>3
    <2>. HIDE DEF offset
    <2>5. g = [f3 EXCEPT !.occupieds = f3.occupieds \cup {q}]
      BY <1>2, <1>14, <2>1 DEF Link
    <2>6. /\ IsTaf(g)
          /\ g.nblocks = f3.nblocks /\ g.remote = f3.remote /\ g.occupieds = f3.occupieds \cup {q}
          /\ g.offset = f3.offset /\ g.runends = f3.runends
      BY <2>3, <2>5 DEF IsTaf
    <2>7. g.occupieds = f.occupieds \cup {q}
      BY <1>2, <2>3, <2>6
    <2>8. ASSUME NEW i \in Nat
          PROVE  i \in g.runends <=> \/ i < r /\ i \in f.runends
                                     \/ i = r /\ q \notin f.occupieds
                                     \/ r + 1 < i /\ i <= u /\ i - 1 \in f.runends
                                     \/ u < i /\ i \in f.runends
      <3>1. i \in g.runends <=> i \in f2.runends
        BY <2>3, <2>6
      <3>2. i \in f2.runends <=> \/ i \in f.runends /\ (i <= r \/ u < i)
                                 \/ r + 1 < i /\ i <= u /\ i - 1 \in f.runends
        BY <1>2
      <3>. QED
        BY <1>1, <1>14, <3>1, <3>2
    <2>9. g.runends \in SUBSET Nat
      BY <1>2, <2>3, <2>6
    <2>. QED
      BY <1>1, <1>2, <2>3, <2>4, <2>6, <2>7, <2>8, <2>9 DEF Linked, offset
  <1>. QED
    BY <1>13, <1>14

-----------------------------------------------------------------------------
(***************************************************************************)
(* The insertion as a whole                                                *)
(***************************************************************************)
\* In g the element is in its slot: the slots hold what they did, one later
\* from behind slot r to slot u.
Inserted(f, elt, r, u, g) ==
    /\ IsTaf(g)
    /\ g.nblocks = f.nblocks /\ g.occupieds = f.occupieds \cup {calc_quot(elt)}
    /\ g.offset = [b \in 0 .. f.nblocks - 1 |->
          IF Slides(f, b, calc_quot(elt), r, u) THEN f.offset[b] + 1 ELSE f.offset[b]]
    /\ g.remote = [i \in 0 .. nslots(f) - 1 |->
          IF i = r + 1 THEN elt ELSE IF r + 1 < i /\ i <= u THEN f.remote[i - 1] ELSE f.remote[i]]
    /\ g.runends \in SUBSET Nat
    /\ \A i \in Nat : i \in g.runends <=>
          \/ i < r /\ i \in f.runends
          \/ i = r /\ calc_quot(elt) \notin f.occupieds
          \/ i = r + 1
          \/ r + 1 < i /\ i <= u /\ i - 1 \in f.runends
          \/ u < i /\ i \in f.runends

\* insert_at gets it there.
LEMMA InsertAtInserts ==
    ASSUME NEW f, NEW elt, NEW r, NEW u, InsertsAt(f, elt, r, u), NEW g, g = insert_at(f, elt, r, u)
    PROVE  Inserted(f, elt, r, u, g)
  <1>. DEFINE q == calc_quot(elt)
              f1 == inc_offsets(f, r + 1, u - 1)
              f2 == Shift(f1, r + 1, u - 1)
              f3 == Link(f2, q, r)
  <1>1. g = Store(f3, r + 1, elt)
    BY DEF insert_at
  <1>2. Stepped(f, r, u, f1)
    BY OffsetsStepped
  <1>. HIDE DEF f1
  <1>3. Moved(f, r, u, f2)
    BY <1>2, SlotsMoved
  <1>. HIDE DEF f2
  <1>4. Linked(f, q, r, u, f3)
    BY <1>3, SlotLinked
  <1>. HIDE DEF f3, q
  <1>5. /\ nslots(f) \in Nat /\ r \in Nat /\ u \in Nat /\ r < u /\ u < nslots(f)
    BY InsertsFacts
  <1>6. /\ IsTaf(f3)
        /\ f3.nblocks = f.nblocks /\ f3.occupieds = f.occupieds \cup {q}
        /\ f3.offset = [b \in 0 .. f.nblocks - 1 |-> IF Slides(f, b, q, r, u) THEN f.offset[b] + 1 ELSE f.offset[b]]
        /\ f3.remote = [i \in 0 .. nslots(f) - 1 |->
              IF i = r + 1 THEN NoElt ELSE IF r + 1 < i /\ i <= u THEN f.remote[i - 1] ELSE f.remote[i]]
        /\ f3.runends \in SUBSET Nat
        /\ \A i \in Nat : i \in f3.runends <=>
              \/ i < r /\ i \in f.runends
              \/ i = r /\ q \notin f.occupieds
              \/ r + 1 < i /\ i <= u /\ i - 1 \in f.runends
              \/ u < i /\ i \in f.runends
    BY <1>4 DEF Linked
  <1>7. /\ IsTaf(g)
        /\ g.nblocks = f3.nblocks /\ g.occupieds = f3.occupieds /\ g.offset = f3.offset
        /\ g.remote = [f3.remote EXCEPT ![r + 1] = elt]
        /\ g.runends = f3.runends \cup {r + 1}
    <2>1. IsTaf(f3)
      BY <1>6
    <2>. DEFINE at == r + 1
    <2>2. g = Store(f3, at, elt)
      BY <1>1
    <2>. HIDE DEF at
    <2>3. /\ IsTaf(g)
          /\ g.nblocks = f3.nblocks /\ g.occupieds = f3.occupieds /\ g.offset = f3.offset
          /\ g.remote = [f3.remote EXCEPT ![at] = elt]
          /\ g.runends = f3.runends \cup {at}
      BY <2>1, <2>2 DEF IsTaf, Store
    <2>. QED
      BY <2>3 DEF at
  <1>8. g.remote = [i \in 0 .. nslots(f) - 1 |->
              IF i = r + 1 THEN elt ELSE IF r + 1 < i /\ i <= u THEN f.remote[i - 1] ELSE f.remote[i]]
    BY <1>5, <1>6, <1>7
  <1>9. ASSUME NEW i \in Nat
        PROVE  i \in g.runends <=> \/ i < r /\ i \in f.runends
                                   \/ i = r /\ q \notin f.occupieds
                                   \/ i = r + 1
                                   \/ r + 1 < i /\ i <= u /\ i - 1 \in f.runends
                                   \/ u < i /\ i \in f.runends
    BY <1>6, <1>7
  <1>10. g.runends \in SUBSET Nat
    BY <1>5, <1>6, <1>7
  <1>. QED
    BY <1>6, <1>7, <1>8, <1>9, <1>10 DEF Inserted, q

\* The slots in use and the homes of what they hold are those of the layout
\* after an insertion.
LEMMA InsertedLayout ==
    ASSUME NEW f, NEW elt, NEW r, NEW u, InsertsAt(f, elt, r, u), NEW g, Inserted(f, elt, r, u, g)
    PROVE  /\ UsedOf(g) = UsedOf(f) \cup {u}
           /\ QuotsOf(g) = InsertedHomes(UsedOf(f), QuotsOf(f), calc_quot(elt), r, u)
           /\ {g.remote[i] : i \in UsedOf(g)} = {f.remote[i] : i \in UsedOf(f)} \cup {elt}
  <1>. DEFINE U == UsedOf(f)
              h == QuotsOf(f)
              q == calc_quot(elt)
              D == 0 .. nslots(f) - 1
  <1>1. /\ nslots(f) \in Nat /\ r \in Nat /\ u \in Nat /\ r < u /\ u < nslots(f) /\ u \notin U
        /\ f.remote \in [D -> Elts \cup {NoElt}]
        /\ \A i \in Nat : r < i /\ i < u => i \in U
    BY InsertsFacts
  <1>2. elt # NoElt
    BY QuotType DEF InsertsAt
  <1>3. g.remote = [i \in D |-> IF i = r + 1 THEN elt ELSE IF r + 1 < i /\ i <= u THEN f.remote[i - 1] ELSE f.remote[i]]
    BY DEF Inserted
  <1>4. \A i \in D : i \in U <=> f.remote[i] # NoElt
    BY <1>1 DEF UsedOf
  <1>5. U \in SUBSET D /\ UsedOf(g) \in SUBSET D /\ \A i \in D : i \in UsedOf(g) <=> g.remote[i] # NoElt
    BY <1>1, <1>3 DEF UsedOf
  <1>6. ASSUME NEW i \in D PROVE i \in UsedOf(g) <=> i \in U \cup {u}
    <2>1. CASE i = r + 1
      BY <1>1, <1>2, <1>3, <1>5, <2>1
    <2>2. CASE r + 1 < i /\ i <= u
      <3>1. i - 1 \in U /\ i - 1 \in D
        BY <1>1, <2>2
      <3>2. g.remote[i] = f.remote[i - 1]
        BY <1>1, <1>3, <2>2
      <3>3. i \in U \cup {u}
        BY <1>1, <2>2
      <3>. QED
        BY <1>4, <1>5, <3>1, <3>2, <3>3
    <2>3. CASE i # r + 1 /\ ~(r + 1 < i /\ i <= u)
      <3>1. g.remote[i] = f.remote[i]
        BY <1>3, <2>3
      <3>2. i # u
        BY <1>1, <2>3
      <3>. QED
        BY <1>4, <1>5, <3>1, <3>2
    <2>. QED
      BY <2>1, <2>2, <2>3
  <1>7. UsedOf(g) = U \cup {u}
    <2>1. U \cup {u} \in SUBSET D
      BY <1>1, <1>5
    <2>. QED
      BY <1>5, <1>6, <2>1
  <1>8. ASSUME NEW i \in U \cup {u}
        PROVE  calc_quot(g.remote[i]) = IF i = r + 1 THEN q ELSE IF r + 1 < i /\ i <= u THEN h[i - 1] ELSE h[i]
    <2>1. i \in D
      BY <1>1, <1>5
    <2>2. CASE i = r + 1
      BY <1>1, <1>3, <2>1, <2>2
    <2>3. CASE r + 1 < i /\ i <= u
      <3>1. i - 1 \in U
        BY <1>1, <2>1, <2>3
      <3>2. g.remote[i] = f.remote[i - 1]
        BY <1>1, <1>3, <2>1, <2>3
      <3>. QED
        BY <1>1, <2>3, <3>1, <3>2 DEF QuotsOf
    <2>4. CASE i # r + 1 /\ ~(r + 1 < i /\ i <= u)
      <3>1. g.remote[i] = f.remote[i]
        BY <1>3, <2>1, <2>4
      <3>2. i \in U
        BY <1>1, <2>1, <2>4
      <3>. QED
        BY <2>4, <3>1, <3>2 DEF QuotsOf
    <2>. QED
      BY <2>2, <2>3, <2>4
  <1>9. QuotsOf(g) = InsertedHomes(U, h, q, r, u)
    <2>1. QuotsOf(g) = [i \in U \cup {u} |-> calc_quot(g.remote[i])]
      BY <1>7 DEF QuotsOf
    <2>. HIDE DEF U, h, q
    <2>. QED
      BY <1>8, <2>1 DEF InsertedHomes
  <1>10. ASSUME NEW i \in UsedOf(g) PROVE g.remote[i] = elt \/ \E j \in U : g.remote[i] = f.remote[j]
    <2>1. i \in D /\ i \in U \cup {u}
      BY <1>5, <1>7
    <2>2. CASE i = r + 1
      BY <1>3, <2>1, <2>2
    <2>3. CASE r + 1 < i /\ i <= u
      <3>1. i - 1 \in U
        BY <1>1, <2>1, <2>3
      <3>. QED
        BY <1>1, <1>3, <2>1, <2>3, <3>1
    <2>4. CASE i # r + 1 /\ ~(r + 1 < i /\ i <= u)
      BY <1>1, <1>3, <2>1, <2>4
    <2>. QED
      BY <2>2, <2>3, <2>4
  <1>11. ASSUME NEW j \in U PROVE \E i \in UsedOf(g) : g.remote[i] = f.remote[j]
    <2>1. j \in D /\ j # u
      BY <1>1, <1>5
    <2>2. CASE j <= r \/ u < j
      <3>1. g.remote[j] = f.remote[j]
        BY <1>1, <1>3, <2>1, <2>2
      <3>. QED
        BY <1>7, <3>1
    <2>3. CASE r < j /\ j < u
      <3>1. j + 1 \in D /\ r + 1 < j + 1 /\ j + 1 <= u /\ j + 1 # r + 1 /\ (j + 1) - 1 = j
        BY <1>1, <2>1, <2>3
      <3>2. g.remote[j + 1] = f.remote[j]
        BY <1>3, <3>1
      <3>3. j + 1 \in U \cup {u}
        BY <1>1, <2>1, <3>1
      <3>. QED
        BY <1>7, <3>2, <3>3
    <2>. QED
      BY <1>1, <2>1, <2>2, <2>3
  <1>12. \E i \in UsedOf(g) : g.remote[i] = elt
    <2>1. r + 1 \in D /\ r + 1 \in U \cup {u}
      BY <1>1
    <2>. QED
      BY <1>3, <1>7, <2>1
  <1>13. {g.remote[i] : i \in UsedOf(g)} = {f.remote[i] : i \in U} \cup {elt}
    <2>. HIDE DEF U
    <2>. QED
      BY <1>10, <1>11, <1>12
  <1>. QED
    BY <1>7, <1>9, <1>13

\* What an insertion makes of a filter that is placed is placed.
LEMMA InsertedPlaced ==
    ASSUME NEW f, NEW elt, NEW r, NEW u, InsertsAt(f, elt, r, u), NEW g, Inserted(f, elt, r, u, g)
    PROVE  Shape(g) /\ Placed(g)
  <1>. DEFINE U == UsedOf(f)
              h == QuotsOf(f)
              N == nslots(f)
              q == calc_quot(elt)
              V == U \cup {u}
              k == InsertedHomes(U, h, q, r, u)
  <1>1. /\ nslots(f) \in Nat /\ r \in Nat /\ u \in Nat /\ r < u /\ u < nslots(f) /\ u \notin U
        /\ f.nblocks \in Nat /\ f.offset \in [0 .. f.nblocks - 1 -> Int]
        /\ f.remote \in [0 .. nslots(f) - 1 -> Elts \cup {NoElt}]
        /\ \A i \in Nat : r < i /\ i < u => i \in U
    BY InsertsFacts
  <1>2. Shape(f) /\ Placed(f) /\ elt \in Elts /\ Insertion(U, h, N, q, r, u)
    BY DEF InsertsAt
  <1>3. /\ f.occupieds = Homes(U, h) /\ f.runends = EndsOfRuns(U, h) /\ Laid(U, h, N)
        /\ \A b \in 0 .. f.nblocks - 1 :
             f.offset[b] = IF b * BlockSlots \in U THEN LastOf(f, b * BlockSlots) - b * BlockSlots ELSE 0
    BY <1>2 DEF Placed
  <1>4. /\ IsTaf(g) /\ nslots(g) = N
        /\ g.nblocks = f.nblocks /\ g.occupieds = f.occupieds \cup {q}
        /\ g.offset = [b \in 0 .. f.nblocks - 1 |-> IF Slides(f, b, q, r, u) THEN f.offset[b] + 1 ELSE f.offset[b]]
        /\ g.remote = [i \in 0 .. nslots(f) - 1 |->
              IF i = r + 1 THEN elt ELSE IF r + 1 < i /\ i <= u THEN f.remote[i - 1] ELSE f.remote[i]]
        /\ g.runends \in SUBSET Nat
        /\ \A i \in Nat : i \in g.runends <=>
              \/ i < r /\ i \in f.runends
              \/ i = r /\ q \notin f.occupieds
              \/ i = r + 1
              \/ r + 1 < i /\ i <= u /\ i - 1 \in f.runends
              \/ u < i /\ i \in f.runends
    BY DEF Inserted, nslots
  <1>5. UsedOf(g) = V /\ QuotsOf(g) = k
    BY InsertedLayout
  <1>6. Shape(g)
    <2>1. g.remote \in [0 .. nslots(g) - 1 -> Elts \cup {NoElt}]
      <3>1. ASSUME NEW i \in 0 .. nslots(f) - 1
            PROVE  (IF i = r + 1 THEN elt ELSE IF r + 1 < i /\ i <= u THEN f.remote[i - 1] ELSE f.remote[i])
                     \in Elts \cup {NoElt}
        <4>1. r + 1 < i /\ i <= u => i - 1 \in 0 .. nslots(f) - 1
          BY <1>1
        <4>. QED
          BY <1>1, <1>2, <4>1
      <3>. QED
        BY <1>4, <3>1
    <2>2. g.offset \in [0 .. g.nblocks - 1 -> Int]
      BY <1>1, <1>4
    <2>3. g.nblocks \in Nat /\ 2 ^ TafQ <= nslots(g)
      BY <1>1, <1>2, <1>4 DEF Shape
    <2>. QED
      BY <1>4, <2>1, <2>2, <2>3 DEF Shape, IsTaf
  <1>7. Laid(V, k, N)
    BY <1>1, <1>2, InsertionLaid
  <1>8. g.occupieds = Homes(V, k)
    <2>. HIDE DEF k, U, h, q
    <2>1. /\ \A i \in U : i <= r \/ u < i => k[i] = h[i]
          /\ k[r + 1] = q
          /\ \A i \in Nat : r + 1 < i /\ i <= u => i - 1 \in U /\ k[i] = h[i - 1] /\ i \in U \cup {u}
          /\ r + 1 \in U \cup {u}
      BY <1>2, InsertionFacts DEF k
    <2>2. ASSUME NEW i \in V PROVE k[i] \in Homes(U, h) \cup {q}
      <3>1. /\ i \in Nat
            /\ (i \in U /\ i <= r) \/ i = r + 1 \/ (r + 1 < i /\ i <= u) \/ (i \in U /\ u < i)
        BY <1>2, InsertedPlaces
      <3>. QED
        BY <2>1, <3>1 DEF Homes
    <2>3. ASSUME NEW j \in U PROVE \E i \in V : k[i] = h[j]
      <3>1. j \in Nat
        BY <1>3 DEF Laid
      <3>2. CASE j <= r \/ u < j
        BY <2>1, <3>2
      <3>3. CASE r < j /\ j < u
        <4>1. j + 1 \in Nat /\ r + 1 < j + 1 /\ j + 1 <= u /\ (j + 1) - 1 = j
          BY <1>1, <3>1, <3>3
        <4>2. k[j + 1] = h[(j + 1) - 1] /\ j + 1 \in V
          BY <2>1, <4>1
        <4>. QED
          BY <4>1, <4>2
      <3>4. j # u
        BY <1>1
      <3>. QED
        BY <1>1, <3>1, <3>2, <3>3, <3>4
    <2>4. \E i \in V : k[i] = q
      BY <2>1
    <2>. QED
      BY <1>3, <1>4, <2>2, <2>3, <2>4 DEF Homes
  <1>9. g.runends = EndsOfRuns(V, k)
    <2>1. EndsOfRuns(V, k) \in SUBSET Nat
      BY <1>7 DEF EndsOfRuns, Laid
    <2>2. ASSUME NEW i \in Nat PROVE i \in g.runends <=> i \in EndsOfRuns(V, k)
      <3>1. i \in EndsOfRuns(V, k) <=> \/ i < r /\ i \in f.runends
                                       \/ i = r /\ q \notin f.occupieds
                                       \/ i = r + 1
                                       \/ r + 1 < i /\ i <= u /\ i - 1 \in f.runends
                                       \/ u < i /\ i \in f.runends
        BY <1>2, <1>3, InsertionRunEnds
      <3>. QED
        BY <1>4, <3>1
    <2>. QED
      BY <1>4, <2>1, <2>2
  <1>10. ASSUME NEW b \in 0 .. f.nblocks - 1
         PROVE  g.offset[b] = IF b * BlockSlots \in V THEN LastOf(g, b * BlockSlots) - b * BlockSlots ELSE 0
    <2>. DEFINE x == b * BlockSlots
                m == LastOf(f, x)
    <2>1. /\ LastOf(g, x) = EndOf(V, k, x)
          /\ g.offset[b] = IF x \in U /\ ((r < m /\ m < u) \/ (m = r /\ q <= x)) THEN f.offset[b] + 1 ELSE f.offset[b]
          /\ f.offset[b] = IF x \in U THEN m - x ELSE 0
      BY <1>3, <1>4, <1>5 DEF LastOf, Slides
    <2>2. x \in Nat
      BY <1>1, BlockOrder
    <2>3. CASE x \in U
      <3>1. EndOf(V, k, x) = IF (r < m /\ m < u) \/ (m = r /\ q <= x) THEN m + 1 ELSE m
        BY <1>2, <2>3, InsertionEndOf DEF LastOf
      <3>2. m \in Nat
        BY <1>3, <2>3, EndFacts DEF LastOf
      <3>. HIDE DEF k, V, m, x
      <3>3. g.offset[b] = LastOf(g, x) - x
        BY <2>1, <2>2, <2>3, <3>1, <3>2
      <3>. QED
        BY <2>3, <3>3 DEF x, V
    <2>4. CASE x = u
      <3>1. EndOf(V, k, x) = u
        BY <1>2, <2>4, InsertionEndAtU
      <3>. HIDE DEF k
      <3>. QED
        BY <1>1, <2>1, <2>4, <3>1
    <2>5. CASE x \notin U /\ x # u
      BY <2>1, <2>5
    <2>. QED
      BY <2>3, <2>4, <2>5
  <1>11. Placed(g)
    <2>. HIDE DEF V, k
    <2>. QED
      BY <1>4, <1>5, <1>7, <1>8, <1>9, <1>10 DEF Placed
  <1>. QED
    BY <1>6, <1>11

\* A filter that is laid out and holds the elements elts.
Sound(f, elts) == Shape(f) /\ Placed(f) /\ Holds(f, elts)

\* One more slot in use, for one more element.
LEMMA OneMore ==
    ASSUME NEW f, NEW elts, Holds(f, elts), NEW elt, elt \notin elts, NEW u, u \notin UsedOf(f), NEW g,
           UsedOf(g) = UsedOf(f) \cup {u},
           {g.remote[i] : i \in UsedOf(g)} = {f.remote[i] : i \in UsedOf(f)} \cup {elt}
    PROVE  Holds(g, elts \cup {elt})
  <1>. DEFINE U == UsedOf(f)
              V == UsedOf(g)
              H == {f.remote[i] : i \in U}
              K == {g.remote[i] : i \in V}
  <1>1. H = elts /\ IsFiniteSet(U) /\ Cardinality(U) = Cardinality(elts) /\ V = U \cup {u} /\ K = H \cup {elt}
    BY DEF Holds
  <1>2. IsFiniteSet(elts)
    <2>1. IsFiniteSet(H)
      <3>. DEFINE F == [i \in U |-> f.remote[i]]
      <3>. HIDE DEF U
      <3>1. F \in Surjection(U, H)
        BY DEF Surjection
      <3>. QED
        BY <1>1, <3>1, FS_Surjection
    <2>. QED
      BY <1>1, <2>1
  <1>. HIDE DEF U, V, H, K
  <1>3. IsFiniteSet(V) /\ Cardinality(V) = Cardinality(U) + 1
    BY <1>1, FS_AddElement DEF U
  <1>4. Cardinality(elts \cup {elt}) = Cardinality(elts) + 1
    BY <1>2, FS_AddElement
  <1>. QED
    BY <1>1, <1>3, <1>4 DEF Holds, V, K

\* A block more has the elements in the slots that they were in.
LEMMA BlockAdded ==
    ASSUME NEW f, Shape(f), Placed(f), NEW g, g = add_block(f)
    PROVE  /\ Shape(g) /\ Placed(g)
           /\ UsedOf(g) = UsedOf(f) /\ QuotsOf(g) = QuotsOf(f)
           /\ {g.remote[i] : i \in UsedOf(g)} = {f.remote[i] : i \in UsedOf(f)}
           /\ nslots(f) < nslots(g)
  <1>. DEFINE n == f.nblocks
              N == nslots(f)
              U == UsedOf(f)
              new == SlotsOf(n)
              rems == Grown(f.remainders, new, 0)
              remote == Grown(f.remote, new, NoElt)
              offset == Grown(f.offset, {n}, 0)
              code == Grown(f.code, {n}, 0)
  <1>1. /\ n \in Nat /\ N \in Nat /\ 2 ^ TafQ <= N
        /\ f.remote \in [0 .. N - 1 -> Elts \cup {NoElt}] /\ f.offset \in [0 .. n - 1 -> Int]
        /\ IsTaf(f)
    BY PlacedFacts DEF Shape, IsTaf
  <1>2. g = [f EXCEPT !.nblocks = n + 1, !.remainders = rems, !.remote = remote, !.offset = offset, !.code = code]
    BY DEF add_block
  <1>. HIDE DEF rems, remote, offset, code
  <1>3. /\ IsTaf(g)
        /\ g.nblocks = n + 1 /\ g.occupieds = f.occupieds /\ g.runends = f.runends
        /\ g.remote = remote /\ g.offset = offset
    <2>1. IsTaf(f)
      BY <1>1
    <2>. QED
      BY <1>2, <2>1 DEF IsTaf
  <1>4. BlockSlots \in Nat /\ BlockSlots > 1 /\ N = n * BlockSlots /\ nslots(g) = N + BlockSlots
    BY <1>1, <1>3, BlockSize, BlockOrder DEF nslots
  <1>. HIDE DEF N, n
  <1>5. /\ DOMAIN remote = 0 .. N + BlockSlots - 1
        /\ \A i \in 0 .. N - 1 : remote[i] = f.remote[i]
        /\ \A i \in N .. N + BlockSlots - 1 : remote[i] = NoElt
    <2>1. new = N .. N + BlockSlots - 1
      BY <1>4 DEF SlotsOf
    <2>2. DOMAIN f.remote = 0 .. N - 1 /\ remote = [i \in (0 .. N - 1) \cup new |->
                                                      IF i \in 0 .. N - 1 THEN f.remote[i] ELSE NoElt]
      <3>. HIDE DEF new
      <3>1. DOMAIN f.remote = 0 .. N - 1
        BY <1>1
      <3>. QED
        BY <3>1 DEF remote, Grown
    <2>3. (0 .. N - 1) \cup new = 0 .. N + BlockSlots - 1
      BY <1>1, <1>4, <2>1
    <2>4. \A i \in N .. N + BlockSlots - 1 : i \notin 0 .. N - 1
      BY <1>1
    <2>5. \A i \in (0 .. N - 1) \cup new : remote[i] = IF i \in 0 .. N - 1 THEN f.remote[i] ELSE NoElt
      BY <2>2
    <2>. HIDE DEF new
    <2>. QED
      BY <2>1, <2>2, <2>3, <2>4, <2>5
  <1>6. /\ DOMAIN offset = 0 .. n
        /\ \A b \in 0 .. n - 1 : offset[b] = f.offset[b]
        /\ offset[n] = 0
    <2>1. DOMAIN f.offset = 0 .. n - 1 /\ n \notin 0 .. n - 1 /\ (0 .. n - 1) \cup {n} = 0 .. n
      BY <1>1
    <2>2. offset = [i \in (0 .. n - 1) \cup {n} |-> IF i \in 0 .. n - 1 THEN f.offset[i] ELSE 0]
      BY <2>1 DEF offset, Grown
    <2>. QED
      BY <2>1, <2>2
  <1>7. UsedOf(g) = U
    <2>1. DOMAIN f.remote = 0 .. N - 1
      BY <1>1
    <2>2. \A i \in 0 .. N + BlockSlots - 1 : i \in 0 .. N - 1 \/ i \in N .. N + BlockSlots - 1
      BY <1>1, <1>4
    <2>3. 0 .. N - 1 \subseteq 0 .. N + BlockSlots - 1
      BY <1>1, <1>4
    <2>. QED
      BY <1>3, <1>5, <2>1, <2>2, <2>3 DEF UsedOf
  <1>8. U \in SUBSET (0 .. N - 1) /\ \A i \in U : g.remote[i] = f.remote[i]
    BY <1>1, <1>3, <1>5 DEF UsedOf
  <1>9. QuotsOf(g) = QuotsOf(f)
    BY <1>7, <1>8 DEF QuotsOf
  <1>10. {g.remote[i] : i \in UsedOf(g)} = {f.remote[i] : i \in U}
    BY <1>7, <1>8
  <1>11. Shape(g)
    <2>1. g.nblocks \in Nat /\ 2 ^ TafQ <= nslots(g)
      <3>1. 2 ^ TafQ \in Nat
        BY TafAssumption, PowerOfTwo
      <3>. DEFINE p == 2 ^ TafQ
      <3>. HIDE DEF p
      <3>2. p \in Nat /\ p <= N
        BY <1>1, <3>1 DEF p
      <3>3. p <= nslots(g)
        BY <1>1, <1>4, <3>2
      <3>. QED
        BY <1>1, <1>3, <3>3 DEF p
    <2>2. g.remote \in [0 .. nslots(g) - 1 -> Elts \cup {NoElt}]
      <3>1. \A i \in 0 .. N + BlockSlots - 1 : i \in 0 .. N - 1 \/ i \in N .. N + BlockSlots - 1
        BY <1>1, <1>4
      <3>2. \A i \in 0 .. N + BlockSlots - 1 : remote[i] \in Elts \cup {NoElt}
        BY <1>1, <1>5, <3>1
      <3>3. remote = [i \in 0 .. N + BlockSlots - 1 |-> remote[i]]
        <4>1. remote = [i \in DOMAIN remote |-> remote[i]]
          BY DEF remote, Grown
        <4>. QED
          BY <1>5, <4>1
      <3>4. nslots(g) - 1 = N + BlockSlots - 1
        BY <1>4
      <3>5. remote \in [0 .. N + BlockSlots - 1 -> Elts \cup {NoElt}]
        BY <3>2, <3>3
      <3>. QED
        BY <1>3, <3>4, <3>5
    <2>3. g.offset \in [0 .. g.nblocks - 1 -> Int]
      <3>1. \A b \in 0 .. n : b \in 0 .. n - 1 \/ b = n
        BY <1>1
      <3>2. \A b \in 0 .. n : offset[b] \in Int
        BY <1>1, <1>6, <3>1
      <3>3. offset = [b \in 0 .. n |-> offset[b]]
        <4>1. offset = [b \in DOMAIN offset |-> offset[b]]
          BY DEF offset, Grown
        <4>. QED
          BY <1>6, <4>1
      <3>4. g.nblocks - 1 = n
        BY <1>1, <1>3
      <3>. QED
        BY <1>3, <3>2, <3>3, <3>4
    <2>. QED
      BY <1>3, <2>1, <2>2, <2>3 DEF Shape, IsTaf
  <1>12. Placed(g)
    <2>1. Laid(U, QuotsOf(f), nslots(g))
      <3>1. Laid(U, QuotsOf(f), N)
        BY DEF Placed, N
      <3>2. nslots(g) \in Nat /\ 0 .. N - 1 \subseteq 0 .. nslots(g) - 1
        BY <1>1, <1>4
      <3>. QED
        BY <3>1, <3>2 DEF Laid
    <2>2. ASSUME NEW b \in 0 .. g.nblocks - 1
          PROVE  g.offset[b] = IF b * BlockSlots \in UsedOf(g) THEN LastOf(g, b * BlockSlots) - b * BlockSlots ELSE 0
      <3>1. CASE b = n
        <4>1. b * BlockSlots \notin U
          BY <1>1, <1>4, <1>8, <3>1
        <4>. QED
          BY <1>3, <1>6, <1>7, <3>1, <4>1
      <3>2. CASE b \in 0 .. n - 1
        <4>1. g.offset[b] = f.offset[b]
          BY <1>3, <1>6, <3>2
        <4>2. f.offset[b] = IF b * BlockSlots \in U THEN LastOf(f, b * BlockSlots) - b * BlockSlots ELSE 0
          BY <3>2 DEF Placed, n
        <4>. QED
          BY <1>7, <1>9, <4>1, <4>2 DEF LastOf
      <3>. QED
        BY <1>1, <1>3, <3>1, <3>2
    <2>3. f.occupieds = Homes(U, QuotsOf(f)) /\ f.runends = EndsOfRuns(U, QuotsOf(f))
      BY DEF Placed
    <2>. QED
      BY <1>3, <1>7, <1>9, <2>1, <2>2, <2>3 DEF Placed
  <1>. QED
    <2>1. N < nslots(g)
      BY <1>1, <1>4
    <2>. QED
      BY <1>7, <1>9, <1>10, <1>11, <1>12, <2>1 DEF N

\* An element whose quotient is an unused slot goes there.
LEMMA EmptyTaken ==
    ASSUME NEW f, Shape(f), Placed(f), NEW elt \in Elts, calc_quot(elt) \notin UsedOf(f),
           NEW g, g = insert_empty(f, elt)
    PROVE  /\ Shape(g) /\ Placed(g)
           /\ UsedOf(g) = UsedOf(f) \cup {calc_quot(elt)}
           /\ {g.remote[i] : i \in UsedOf(g)} = {f.remote[i] : i \in UsedOf(f)} \cup {elt}
  <1>. DEFINE N == nslots(f)
              U == UsedOf(f)
              h == QuotsOf(f)
              q == calc_quot(elt)
              f1 == Store(f, q, elt)
              V == U \cup {q}
              k == AloneHomes(U, h, q)
  <1>1. /\ f.nblocks \in Nat /\ N \in Nat /\ 2 ^ TafQ <= N
        /\ f.remote \in [0 .. N - 1 -> Elts \cup {NoElt}] /\ f.offset \in [0 .. f.nblocks - 1 -> Int]
        /\ IsTaf(f)
    BY PlacedFacts DEF Shape, IsTaf
  <1>2. q \in 0 .. N - 1 /\ elt # NoElt /\ q \notin U
    <2>1. q \in Nat /\ q < 2 ^ TafQ /\ elt # NoElt /\ 2 ^ TafQ \in Nat
      BY TafAssumption, PowerOfTwo, QuotType
    <2>. DEFINE p == 2 ^ TafQ
    <2>. HIDE DEF p
    <2>2. q \in Nat /\ q < p /\ p <= N /\ p \in Nat
      BY <1>1, <2>1 DEF p
    <2>. HIDE DEF q, N
    <2>3. q \in 0 .. N - 1
      BY <1>1, <2>2
    <2>. QED
      BY <2>1, <2>3 DEF q
  <1>3. g = [f1 EXCEPT !.occupieds = f1.occupieds \cup {q}]
    BY DEF insert_empty
  <1>. HIDE DEF q
  <1>4. /\ IsTaf(f1)
        /\ f1.nblocks = f.nblocks /\ f1.occupieds = f.occupieds /\ f1.offset = f.offset
        /\ f1.remote = [f.remote EXCEPT ![q] = elt]
        /\ f1.runends = f.runends \cup {q}
    <2>1. IsTaf(f)
      BY <1>1
    <2>2. f1 = Store(f, q, elt)
      OBVIOUS
    <2>. HIDE DEF f1
    <2>. QED
      BY <2>1, <2>2 DEF IsTaf, Store
  <1>. HIDE DEF f1
  <1>5. /\ IsTaf(g)
        /\ g.nblocks = f.nblocks /\ g.occupieds = f.occupieds \cup {q} /\ g.offset = f.offset
        /\ g.remote = [f.remote EXCEPT ![q] = elt]
        /\ g.runends = f.runends \cup {q}
    BY <1>3, <1>4 DEF IsTaf
  <1>6. nslots(g) = N
    BY <1>5 DEF nslots
  <1>. HIDE DEF N
  <1>7. /\ UsedOf(g) = V /\ g.remote[q] = elt
        /\ \A i \in U : i # q /\ g.remote[i] = f.remote[i]
    BY <1>1, <1>2, <1>5 DEF UsedOf
  <1>8. QuotsOf(g) = k
    <2>1. QuotsOf(g) = [i \in V |-> calc_quot(g.remote[i])]
      BY <1>7 DEF QuotsOf
    <2>2. \A i \in V : calc_quot(g.remote[i]) = IF i = q THEN q ELSE h[i]
      BY <1>7 DEF QuotsOf, q
    <2>. HIDE DEF U, h
    <2>. QED
      BY <2>1, <2>2 DEF AloneHomes
  <1>9. {g.remote[i] : i \in UsedOf(g)} = {f.remote[i] : i \in U} \cup {elt}
    <2>. HIDE DEF U
    <2>. QED
      BY <1>7
  <1>10. Shape(g)
    <2>1. g.remote \in [0 .. N - 1 -> Elts \cup {NoElt}]
      BY <1>1, <1>5
    <2>2. g.nblocks \in Nat /\ 2 ^ TafQ <= nslots(g) /\ g.offset \in [0 .. g.nblocks - 1 -> Int]
      BY <1>1, <1>5, <1>6
    <2>. QED
      BY <1>5, <1>6, <2>1, <2>2 DEF Shape, IsTaf
  <1>11. /\ Laid(U, h, N) /\ f.occupieds = Homes(U, h) /\ f.runends = EndsOfRuns(U, h)
         /\ \A b \in 0 .. f.nblocks - 1 :
              f.offset[b] = IF b * BlockSlots \in U THEN LastOf(f, b * BlockSlots) - b * BlockSlots ELSE 0
    BY DEF Placed, N
  <1>12. Placed(g)
    <2>1. Laid(V, k, N)
      BY <1>2, <1>11, AloneLaid
    <2>2. g.runends = EndsOfRuns(V, k)
      BY <1>2, <1>5, <1>11, AloneRunEnds
    <2>3. g.occupieds = Homes(V, k)
      <3>1. k[q] = q /\ \A i \in U : k[i] = h[i]
        BY <1>2 DEF AloneHomes
      <3>. HIDE DEF k, U, h
      <3>. QED
        BY <1>5, <1>11, <3>1 DEF Homes
    <2>4. ASSUME NEW b \in 0 .. g.nblocks - 1
          PROVE  g.offset[b] = IF b * BlockSlots \in V THEN LastOf(g, b * BlockSlots) - b * BlockSlots ELSE 0
      <3>. DEFINE x == b * BlockSlots
      <3>1. x \in Nat
        <4>1. b \in Nat
          BY <1>1, <1>5
        <4>. QED
          BY <4>1, BlockOrder
      <3>2. x \in V => LastOf(g, x) = IF x = q THEN q ELSE LastOf(f, x)
        BY <1>2, <1>7, <1>8, <1>11, AloneEndOf DEF LastOf
      <3>3. g.offset[b] = IF x \in U THEN LastOf(f, x) - x ELSE 0
        BY <1>5, <1>11
      <3>. HIDE DEF x
      <3>. QED
        <4>1. CASE x = q
          BY <1>2, <3>1, <3>2, <3>3, <4>1 DEF x
        <4>2. CASE x # q
          BY <3>2, <3>3, <4>2 DEF x
        <4>. QED
          BY <4>1, <4>2
    <2>. HIDE DEF V, k
    <2>. QED
      BY <1>5, <1>6, <1>7, <1>8, <2>1, <2>2, <2>3, <2>4 DEF Placed
  <1>. QED
    BY <1>7, <1>9, <1>10, <1>12 DEF q

\* An insertion leaves a filter that is laid out and holds one element more.
THEOREM RawInsertSound ==
    ASSUME NEW f, NEW elts, Sound(f, elts), Passable(f), NEW elt \in Elts, elt \notin elts
    PROVE  Sound(raw_insert(f, elt), elts \cup {elt})
  <1>. DEFINE q == calc_quot(elt)
              g == raw_insert(f, elt)
  <1>1. Shape(f) /\ Placed(f) /\ Holds(f, elts)
    BY DEF Sound
  <1>2. /\ nslots(f) \in Nat /\ Laid(UsedOf(f), QuotsOf(f), nslots(f)) /\ UsedOf(f) \in SUBSET Nat
    BY <1>1, PlacedFacts
  <1>3. q \in Nat /\ q < nslots(f)
    <2>1. q \in Nat /\ q < 2 ^ TafQ /\ 2 ^ TafQ \in Nat /\ 2 ^ TafQ <= nslots(f)
      BY <1>1, TafAssumption, PowerOfTwo, QuotType DEF Shape
    <2>. DEFINE p == 2 ^ TafQ
    <2>. HIDE DEF p
    <2>2. q \in Nat /\ q < p /\ p <= nslots(f) /\ p \in Nat
      BY <2>1 DEF p
    <2>. HIDE DEF q
    <2>. QED
      BY <1>2, <2>2
  <1>4. rank_select(f, q) = IF q \in UsedOf(f) THEN LastOf(f, q) ELSE RANK_SELECT_EMPTY
    BY <1>1, <1>3, RankSelectExact
  <1>5. CASE q \notin UsedOf(f)
    <2>1. g = insert_empty(f, elt)
      BY <1>4, <1>5 DEF raw_insert
    <2>. HIDE DEF g
    <2>2. /\ Shape(g) /\ Placed(g)
          /\ UsedOf(g) = UsedOf(f) \cup {q}
          /\ {g.remote[i] : i \in UsedOf(g)} = {f.remote[i] : i \in UsedOf(f)} \cup {elt}
      BY <1>1, <1>5, <2>1, EmptyTaken
    <2>3. Holds(g, elts \cup {elt})
      BY <1>1, <1>5, <2>2, OneMore
    <2>. QED
      BY <2>2, <2>3 DEF Sound, g
  <1>6. CASE q \in UsedOf(f)
    <2>. DEFINE r == LastOf(f, q)
                u == first_unused(f, r + 1)
    <2>1. /\ r \in Nat /\ r < nslots(f) /\ r = EndOf(UsedOf(f), QuotsOf(f), q)
      BY <1>2, <1>6, EndFacts DEF LastOf
    <2>2. g = insert_behind(f, elt, r)
      <3>. HIDE DEF r
      <3>. QED
        BY <1>4, <1>6, <2>1 DEF raw_insert, RANK_SELECT_EMPTY, r
    <2>3. g = IF u = NO_UNUSED THEN insert_at(add_block(f), elt, r, nslots(f)) ELSE insert_at(f, elt, r, u)
      BY <2>2 DEF insert_behind
    <2>4. /\ u = NO_UNUSED => \A i \in Nat : r + 1 <= i /\ i < nslots(f) => i \in UsedOf(f)
          /\ u # NO_UNUSED => /\ u \in Nat \ UsedOf(f) /\ r + 1 <= u /\ u < nslots(f)
                              /\ \A i \in Nat : r + 1 <= i /\ i < u => i \in UsedOf(f)
      <3>. HIDE DEF r
      <3>1. r + 1 \in Nat /\ r + 1 <= nslots(f)
        BY <1>2, <2>1
      <3>. QED
        BY <1>1, <3>1, FirstUnusedExact
    <2>. HIDE DEF u, r, g, q
    <2>5. \A i \in Nat : r < i => r + 1 <= i
      BY <2>1
    <2>6. CASE u = NO_UNUSED
      <3>. DEFINE f1 == add_block(f)
                  n == nslots(f)
      <3>1. /\ Shape(f1) /\ Placed(f1)
            /\ UsedOf(f1) = UsedOf(f) /\ QuotsOf(f1) = QuotsOf(f)
            /\ {f1.remote[i] : i \in UsedOf(f1)} = {f.remote[i] : i \in UsedOf(f)}
            /\ n < nslots(f1)
        BY <1>1, BlockAdded
      <3>. HIDE DEF f1
      <3>2. n \in Nat \ UsedOf(f) /\ r < n /\ \A i \in Nat : r < i /\ i < n => i \in UsedOf(f)
        BY <1>2, <2>1, <2>4, <2>5, <2>6 DEF Laid
      <3>3. Insertion(UsedOf(f1), QuotsOf(f1), nslots(f1), q, r, n)
        BY <1>6, <2>1, <3>1, <3>2 DEF Insertion, Placed
      <3>4. InsertsAt(f1, elt, r, n)
        BY <3>1, <3>3 DEF InsertsAt, q
      <3>5. g = insert_at(f1, elt, r, n)
        BY <2>3, <2>6 DEF f1
      <3>6. Inserted(f1, elt, r, n, g)
        BY <3>4, <3>5, InsertAtInserts
      <3>7. Shape(g) /\ Placed(g) /\ UsedOf(g) = UsedOf(f1) \cup {n}
            /\ {g.remote[i] : i \in UsedOf(g)} = {f1.remote[i] : i \in UsedOf(f1)} \cup {elt}
        BY <3>4, <3>6, InsertedLayout, InsertedPlaced
      <3>8. Holds(g, elts \cup {elt})
        BY <1>1, <3>1, <3>2, <3>7, OneMore
      <3>. QED
        BY <3>7, <3>8 DEF Sound, g
    <2>7. CASE u # NO_UNUSED
      <3>1. u \in Nat \ UsedOf(f) /\ r < u /\ u < nslots(f) /\ \A i \in Nat : r < i /\ i < u => i \in UsedOf(f)
        BY <2>1, <2>4, <2>5, <2>7
      <3>2. Insertion(UsedOf(f), QuotsOf(f), nslots(f), q, r, u)
        BY <1>2, <1>6, <2>1, <3>1 DEF Insertion
      <3>3. InsertsAt(f, elt, r, u)
        BY <1>1, <3>1, <3>2 DEF InsertsAt, q
      <3>4. g = insert_at(f, elt, r, u)
        BY <2>3, <2>7
      <3>5. Inserted(f, elt, r, u, g)
        BY <3>3, <3>4, InsertAtInserts
      <3>6. Shape(g) /\ Placed(g) /\ UsedOf(g) = UsedOf(f) \cup {u}
            /\ {g.remote[i] : i \in UsedOf(g)} = {f.remote[i] : i \in UsedOf(f)} \cup {elt}
        BY <3>3, <3>5, InsertedLayout, InsertedPlaced
      <3>7. Holds(g, elts \cup {elt})
        BY <1>1, <3>1, <3>6, OneMore
      <3>. QED
        BY <3>6, <3>7 DEF Sound, g
    <2>. QED
      BY <2>6, <2>7
  <1>. QED
    BY <1>5, <1>6

-----------------------------------------------------------------------------
(***************************************************************************)
(* Queries, and the empty filter                                           *)
(***************************************************************************)
\* New selectors and new remainders leave the slots as they are ...
LEMMA BothFields ==
    ASSUME NEW f, IsTaf(f), NEW code, NEW rems, NEW g, g = [f EXCEPT !.code = code, !.remainders = rems]
    PROVE  SameSlots(f, g)
  <1>1. IsTaf(g)
    BY DEF IsTaf
  <1>2. /\ g.nblocks = f.nblocks /\ g.remote = f.remote
        /\ g.occupieds = f.occupieds /\ g.runends = f.runends /\ g.offset = f.offset
    BY DEF IsTaf
  <1>. QED
    BY <1>1, <1>2 DEF SameSlots

\* ... and adapting a slot makes nothing else.
LEMMA AdaptedSlots ==
    ASSUME NEW f, IsTaf(f), NEW i, NEW query
    PROVE  SameSlots(f, AdaptOn(f, i, query))
  <1>1. SameSlots(f, f)
    BY DEF SameSlots
  <1>2. ASSUME NEW sels, NEW new_sel PROVE SameSlots(f, Recoded(f, i, sels, new_sel))
    <2>. DEFINE c == encode_sel([sels EXCEPT ![i % BlockSlots] = new_sel])
                alone == encode_sel([j \in InBlock |-> IF j = i % BlockSlots THEN new_sel ELSE 0])
                g == Recoded(f, i, sels, new_sel)
    <2>1. CASE c = NoCode
      <3>. DEFINE kept == IF alone = NoCode THEN 0 ELSE new_sel
                  code == [f.code EXCEPT ![BlockOf(i)] = IF alone = NoCode THEN 0 ELSE alone]
                  rems == [j \in DOMAIN f.remainders |->
                             IF j = i THEN calc_rem(f.remote[j], kept)
                             ELSE IF BlockOf(j) = BlockOf(i) THEN calc_rem(f.remote[j], 0) ELSE f.remainders[j]]
      <3>1. g = Rebuilt(f, i, new_sel, alone)
        BY <2>1 DEF Recoded
      <3>2. Rebuilt(f, i, new_sel, alone) = [f EXCEPT !.code = code, !.remainders = rems]
        BY DEF Rebuilt
      <3>. HIDE DEF code, rems, g
      <3>3. g = [f EXCEPT !.code = code, !.remainders = rems]
        BY <3>1, <3>2
      <3>4. SameSlots(f, g)
        BY <3>3, BothFields
      <3>. QED
        BY <3>4 DEF g
    <2>2. CASE c # NoCode
      <3>. DEFINE code == [f.code EXCEPT ![BlockOf(i)] = c]
                  rems == [f.remainders EXCEPT ![i] = calc_rem(f.remote[i], new_sel)]
      <3>1. g = [f EXCEPT !.code = code, !.remainders = rems]
        BY <2>2 DEF Recoded
      <3>. HIDE DEF code, rems, g
      <3>2. SameSlots(f, g)
        BY <3>1, BothFields
      <3>. QED
        BY <3>2 DEF g
    <2>. QED
      BY <2>1, <2>2
  <1>3. SameSlots(f, adapt_loc(f, i))
    BY <1>2 DEF adapt_loc
  <1>. QED
    BY <1>1, <1>3 DEF AdaptOn

\* What the walk down a run from loc makes of the filter, by the slot it is at.
Walked(f, query, q, loc) ==
    CHOOSE g : g = [i \in q .. loc + 1 |-> IF i = loc + 1 THEN f ELSE AdaptOn(g[i + 1], i, query)]

\* The walk leaves the slots as they are.
LEMMA AdaptedRun ==
    ASSUME NEW f, IsTaf(f), NEW query, NEW q \in Nat, NEW loc \in Nat, NEW from \in q .. loc,
           NEW adapted, adapted = Walked(f, query, q, loc)
    PROVE  SameSlots(f, adapted[from])
  <1>. DEFINE Walk(lo, g) == g = [i \in lo .. loc + 1 |-> IF i = loc + 1 THEN f ELSE AdaptOn(g[i + 1], i, query)]
  <1>1. \E g : Walk(q, g)
    <2>. DEFINE W == {k \in Nat : k <= loc + 1 /\ ~ \E g : Walk(loc + 1 - k, g)}
    <2>1. SUFFICES W = {}
      <3>. DEFINE k == loc + 1 - q
      <3>1. k \in Nat /\ k <= loc + 1 /\ loc + 1 - k = q
        OBVIOUS
      <3>. HIDE DEF Walk, k
      <3>. QED
        BY <2>1, <3>1
    <2>2. SUFFICES ASSUME W # {} PROVE FALSE
      OBVIOUS
    <2>3. PICK k \in W : \A j \in W : k <= j
      <3>1. W \in SUBSET Nat
        OBVIOUS
      <3>. HIDE DEF W
      <3>. QED
        BY <2>2, <3>1, SmallestNat
    <2>4. k \in Nat /\ k <= loc + 1
      OBVIOUS
    <2>5. k # 0
      <3>1. Walk(loc + 1, [i \in loc + 1 .. loc + 1 |-> f])
        <4>1. \A i \in loc + 1 .. loc + 1 : i = loc + 1
          OBVIOUS
        <4>. QED
          BY <4>1
      <3>. HIDE DEF Walk
      <3>2. \E g : Walk(loc + 1, g)
        BY <3>1
      <3>. QED
        BY <3>2
    <2>. DEFINE lo == loc + 1 - k
    <2>6. lo \in Nat /\ lo <= loc /\ lo + 1 = loc + 1 - (k - 1) /\ k - 1 \in Nat /\ k - 1 <= loc + 1
      BY <2>4, <2>5
    <2>7. PICK g : Walk(lo + 1, g)
      <3>1. k - 1 \notin W
        <4>1. k \in Nat /\ ~(k <= k - 1)
          BY <2>4
        <4>. HIDE DEF W
        <4>. QED
          BY <2>3, <4>1
      <3>. HIDE DEF Walk
      <3>. QED
        BY <2>6, <3>1
    <2>. HIDE DEF lo
    <2>. DEFINE b == [i \in lo .. loc + 1 |-> IF i = lo THEN AdaptOn(g[lo + 1], lo, query) ELSE g[i]]
    <2>8. Walk(lo, b)
      <3>1. ASSUME NEW i \in lo .. loc + 1
            PROVE  b[i] = IF i = loc + 1 THEN f ELSE AdaptOn(b[i + 1], i, query)
        <4>1. CASE i = lo
          <5>1. lo \in lo .. loc + 1 /\ lo + 1 \in lo .. loc + 1 /\ lo + 1 # lo /\ lo # loc + 1
            BY <2>6
          <5>2. b[lo + 1] = g[lo + 1] /\ b[lo] = AdaptOn(g[lo + 1], lo, query)
            BY <5>1
          <5>. HIDE DEF b
          <5>. QED
            BY <4>1, <5>1, <5>2
        <4>2. CASE i # lo
          <5>1. i \in lo + 1 .. loc + 1
            BY <2>6, <4>2
          <5>2. g[i] = IF i = loc + 1 THEN f ELSE AdaptOn(g[i + 1], i, query)
            BY <2>7, <5>1
          <5>3. i # loc + 1 => i + 1 \in lo .. loc + 1 /\ i + 1 # lo
            BY <2>6, <5>1
          <5>4. b[i] = g[i] /\ (i # loc + 1 => b[i + 1] = g[i + 1])
            BY <4>2, <5>3
          <5>. HIDE DEF b
          <5>. QED
            BY <5>2, <5>4
        <4>. QED
          BY <4>1, <4>2
      <3>2. b = [i \in lo .. loc + 1 |-> b[i]]
        OBVIOUS
      <3>. HIDE DEF b
      <3>. QED
        BY <3>1, <3>2
    <2>. HIDE DEF b, Walk
    <2>9. \E c : Walk(lo, c)
      BY <2>8
    <2>. QED
      BY <2>9 DEF lo
  <1>2. Walk(q, adapted)
    BY <1>1 DEF Walked
  <1>3. \A i \in q .. loc + 1 : adapted[i] = IF i = loc + 1 THEN f ELSE AdaptOn(adapted[i + 1], i, query)
    BY <1>2
  <1>. DEFINE W == {k \in Nat : k <= loc + 1 - q /\ ~SameSlots(f, adapted[loc + 1 - k])}
  <1>4. W = {}
    <2>1. SUFFICES ASSUME W # {} PROVE FALSE
      OBVIOUS
    <2>2. PICK k \in W : \A j \in W : k <= j
      <3>1. W \in SUBSET Nat
        OBVIOUS
      <3>. HIDE DEF W
      <3>. QED
        BY <2>1, <3>1, SmallestNat
    <2>. DEFINE i == loc + 1 - k
    <2>3. k \in Nat /\ i \in q .. loc + 1 /\ ~SameSlots(f, adapted[i])
      OBVIOUS
    <2>4. i # loc + 1
      <3>1. SameSlots(f, f)
        BY DEF SameSlots
      <3>2. loc + 1 \in q .. loc + 1
        OBVIOUS
      <3>. HIDE DEF i
      <3>. QED
        BY <1>3, <2>3, <3>1, <3>2
    <2>5. k - 1 \in Nat /\ k - 1 <= loc + 1 - q /\ loc + 1 - (k - 1) = i + 1 /\ i + 1 \in q .. loc + 1
      BY <2>3, <2>4
    <2>6. SameSlots(f, adapted[i + 1])
      <3>1. k - 1 \notin W
        <4>1. k \in Nat /\ ~(k <= k - 1)
          BY <2>3
        <4>. HIDE DEF W
        <4>. QED
          BY <2>2, <4>1
      <3>. HIDE DEF i
      <3>. QED
        BY <2>5, <3>1
    <2>. HIDE DEF i
    <2>7. SameSlots(adapted[i + 1], adapted[i])
      <3>1. IsTaf(adapted[i + 1])
        BY <2>6 DEF SameSlots
      <3>2. adapted[i] = AdaptOn(adapted[i + 1], i, query)
        BY <1>3, <2>3, <2>4
      <3>. QED
        BY <3>1, <3>2, AdaptedSlots
    <2>. QED
      BY <2>3, <2>6, <2>7 DEF SameSlots
  <1>5. loc + 1 - from \in Nat /\ loc + 1 - from <= loc + 1 - q /\ loc + 1 - (loc + 1 - from) = from
    OBVIOUS
  <1>. QED
    BY <1>4, <1>5

\* What a query finds is a slot at or behind the quotient, if anything.
LEMMA FoundType ==
    ASSUME NEW f, Shape(f), Placed(f), Passable(f), NEW elt \in Elts, FoundAt(f, elt) # -1
    PROVE  FoundAt(f, elt) \in Nat /\ calc_quot(elt) <= FoundAt(f, elt) /\ calc_quot(elt) \in Nat
  <1>. DEFINE U == UsedOf(f)
              h == QuotsOf(f)
              q == calc_quot(elt)
              loc == LastOf(f, q)
              at == {j \in RunDownFrom(f, loc, q) : SlotMatches(f, j, elt)}
  <1>1. /\ Laid(U, h, nslots(f)) /\ nslots(f) \in Nat /\ U \in SUBSET Nat
        /\ f.occupieds = Homes(U, h)
    BY PlacedFacts DEF Placed
  <1>2. q \in f.occupieds
    BY DEF FoundAt
  <1>3. q \in U /\ q \in Nat
    BY <1>1, <1>2, HomeHasEnd
  <1>4. loc \in Nat /\ q <= loc /\ q < nslots(f)
    BY <1>1, <1>3, EndFacts, LaidSlot DEF LastOf
  <1>5. rank_select(f, q) = loc
    BY <1>3, <1>4, RankSelectExact
  <1>. HIDE DEF loc
  <1>6. FoundAt(f, elt) = IF at = {} THEN -1 ELSE Max(at)
    <2>1. ~(loc < 0)
      BY <1>4
    <2>. QED
      BY <1>2, <1>5, <2>1 DEF FoundAt
  <1>7. \A j \in at : j \in Nat /\ q <= j /\ j <= loc
    <2>1. \A j \in q .. loc : j \in Nat /\ q <= j /\ j <= loc
      BY <1>3, <1>4
    <2>. QED
      BY <2>1 DEF RunDownFrom
  <1>. HIDE DEF at
  <1>8. at # {}
    BY <1>6
  <1>9. Max(at) \in at
    <2>1. at \in SUBSET Nat
      BY <1>7
    <2>. QED
      BY <1>4, <1>7, <1>8, <2>1, MaxOfNats
  <1>. QED
    BY <1>3, <1>6, <1>7, <1>8, <1>9

\* A query leaves the slots as they are.
LEMMA LookedUpSlots ==
    ASSUME NEW f, Shape(f), Placed(f), Passable(f), NEW elt \in Elts
    PROVE  SameSlots(f, LookedUp(f, elt))
  <1>. DEFINE q == calc_quot(elt)
              loc == FoundAt(f, elt)
              run == RunDownFrom(f, loc, q)
              adapted == Walked(f, elt, q, loc)
  <1>1. IsTaf(f) /\ SameSlots(f, f)
    BY DEF Shape, IsTaf, SameSlots
  <1>2. CASE loc = -1 \/ f.remote[loc] = elt
    BY <1>1, <1>2 DEF LookedUp
  <1>3. CASE ~(loc = -1 \/ f.remote[loc] = elt)
    <2>1. LookedUp(f, elt) = taf_adapt(f, elt, loc)
      BY <1>3 DEF LookedUp
    <2>2. taf_adapt(f, elt, loc) = IF \E i \in run : f.remote[i] = elt THEN f ELSE adapted[Min(run)]
      BY DEF taf_adapt, Walked
    <2>3. loc \in Nat /\ q <= loc /\ q \in Nat
      BY <1>3, FoundType
    <2>. HIDE DEF loc, q
    <2>4. Min(run) \in q .. loc
      <3>1. loc \in run
        <4>1. loc \in q .. loc /\ \A j \in loc .. loc - 1 : FALSE
          BY <2>3
        <4>. QED
          BY <4>1 DEF RunDownFrom
      <3>2. run \in SUBSET (q .. loc)
        BY DEF RunDownFrom
      <3>3. q .. loc \in SUBSET Nat
        BY <2>3
      <3>. HIDE DEF run
      <3>4. Min(run) \in run
        BY <3>1, <3>2, <3>3, MinOfNats
      <3>. QED
        BY <3>2, <3>4
    <2>5. SameSlots(f, adapted[Min(run)])
      <3>1. adapted = Walked(f, elt, q, loc)
        OBVIOUS
      <3>. DEFINE from == Min(run)
      <3>2. from \in q .. loc
        BY <2>4
      <3>. HIDE DEF run, from, adapted
      <3>3. SameSlots(f, adapted[from])
        BY <1>1, <2>3, <3>1, <3>2, AdaptedRun
      <3>. QED
        BY <3>3 DEF from
    <2>. QED
      BY <1>1, <2>1, <2>2, <2>5
  <1>. QED
    BY <1>2, <1>3

\* What the slots hold and where they end is the same then.
LEMMA SameSlotsSound ==
    ASSUME NEW f, NEW elts, Sound(f, elts), NEW g, SameSlots(f, g)
    PROVE  Sound(g, elts)
  <1>1. /\ IsTaf(g) /\ nslots(g) = nslots(f)
        /\ g.nblocks = f.nblocks /\ g.remote = f.remote
        /\ g.occupieds = f.occupieds /\ g.runends = f.runends /\ g.offset = f.offset
    BY DEF SameSlots, nslots
  <1>2. UsedOf(g) = UsedOf(f)
    BY <1>1 DEF UsedOf
  <1>3. QuotsOf(g) = QuotsOf(f)
    BY <1>1, <1>2 DEF QuotsOf
  <1>4. ASSUME NEW x PROVE LastOf(g, x) = LastOf(f, x)
    BY <1>2, <1>3 DEF LastOf
  <1>5. Shape(g)
    BY <1>1 DEF Sound, Shape, IsTaf
  <1>6. Placed(g)
    BY <1>1, <1>2, <1>3, <1>4 DEF Sound, Placed
  <1>7. Holds(g, elts)
    BY <1>1, <1>2 DEF Sound, Holds
  <1>. QED
    BY <1>5, <1>6, <1>7 DEF Sound

\* The empty filter is laid out and holds nothing.
LEMMA InitSound == Sound(taf_init, {})
  <1>. DEFINE n == 2 ^ TafQ
              k == n \div BlockSlots
  <1>1. n \in Nat /\ BlockSlots \in Nat \ {0} /\ n % BlockSlots = 0
    BY TafAssumption, PowerOfTwo
  <1>2. k \in Nat /\ n = k * BlockSlots
    <2>. HIDE DEF n
    <2>. QED
      BY <1>1, DivFacts
  <1>3. /\ taf_init = [nblocks |-> k, remainders |-> [i \in 0 .. n - 1 |-> 0], remote |-> [i \in 0 .. n - 1 |-> NoElt],
                       occupieds |-> {}, runends |-> {}, offset |-> [b \in 0 .. k - 1 |-> 0],
                       code |-> [b \in 0 .. k - 1 |-> 0]]
    BY DEF taf_init
  <1>. HIDE DEF k
  <1>4. nslots(taf_init) = n
    BY <1>2, <1>3 DEF nslots
  <1>5. UsedOf(taf_init) = {}
    BY <1>3 DEF UsedOf
  <1>6. QuotsOf(taf_init) = [i \in {} |-> 0]
    BY <1>5 DEF QuotsOf
  <1>7. Shape(taf_init)
    <2>1. n <= nslots(taf_init)
      <3>. HIDE DEF n
      <3>. QED
        BY <1>1, <1>4
    <2>. QED
      BY <1>2, <1>3, <1>4, <2>1 DEF Shape, IsTaf
  <1>8. Placed(taf_init)
    <2>. DEFINE h == QuotsOf(taf_init)
    <2>1. Laid({}, h, n)
      <3>. HIDE DEF n
      <3>. QED
        BY <1>1, <1>6 DEF Laid, Ordered
    <2>2. Homes({}, h) = {} /\ EndsOfRuns({}, h) = {}
      BY DEF Homes, EndsOfRuns
    <2>3. \A b \in 0 .. taf_init.nblocks - 1 : taf_init.offset[b] = 0
      BY <1>3
    <2>4. taf_init.occupieds = {} /\ taf_init.runends = {}
      BY <1>3
    <2>. HIDE DEF h
    <2>. QED
      BY <1>4, <1>5, <2>1, <2>2, <2>3, <2>4 DEF Placed, h
  <1>9. Holds(taf_init, {})
    <2>1. {taf_init.remote[i] : i \in UsedOf(taf_init)} = {}
      BY <1>5
    <2>. QED
      BY <1>5, <2>1, FS_EmptySet DEF Holds
  <1>. QED
    BY <1>7, <1>8, <1>9 DEF Sound

-----------------------------------------------------------------------------
(***************************************************************************)
(* The invariant                                                           *)
(***************************************************************************)
IInv == Sound(taf, inserted)

\* The slots in use of the filter, and their quotients.
LEMMA UsedIs == Used = UsedOf(taf) /\ \A i \in Used : Quot(i) = QuotsOf(taf)[i]
  BY DEF Used, Quot, UsedOf, QuotsOf

\* The hypothesis of the walk says of the filter what the lemmas take.
LEMMA PassableIs == SearchesPass <=> Passable(taf)
  BY UsedIs DEF SearchesPass, Passable

\* The invariant holds at the start ...
LEMMA IInvInit == TafInit => IInv
  BY InitSound DEF TafInit, IInv

\* ... and every step from a filter whose searches pass keeps it.
LEMMA IInvStep == IInv /\ SearchesPass /\ [TafNext]_tafVars => IInv'
  <1>. SUFFICES ASSUME IInv, SearchesPass, [TafNext]_tafVars PROVE IInv'
    OBVIOUS
  <1>1. Sound(taf, inserted) /\ Passable(taf) /\ Shape(taf) /\ Placed(taf)
    BY PassableIs DEF IInv, Sound
  <1>2. ASSUME NEW elt \in Elts, taf_insert(elt) PROVE IInv'
    <2>1. Sound(raw_insert(taf, elt), inserted \cup {elt})
      BY <1>1, <1>2, RawInsertSound DEF taf_insert
    <2>. QED
      BY <1>2, <2>1 DEF taf_insert, IInv
  <1>3. ASSUME NEW elt \in Elts, taf_lookup(elt) PROVE IInv'
    <2>1. SameSlots(taf, LookedUp(taf, elt))
      BY <1>1, LookedUpSlots
    <2>2. Sound(LookedUp(taf, elt), inserted)
      BY <1>1, <2>1, SameSlotsSound
    <2>. QED
      BY <1>3, <2>2 DEF taf_lookup, IInv
  <1>4. CASE UNCHANGED tafVars
    BY <1>4 DEF tafVars, IInv
  <1>. QED
    BY <1>2, <1>3, <1>4 DEF TafNext

\* It says of the bits and the offsets what RunsExact says.
LEMMA IInvExact == IInv => RunsExact
  <1>. SUFFICES ASSUME IInv PROVE RunsExact
    OBVIOUS
  <1>. DEFINE U == UsedOf(taf)
              h == QuotsOf(taf)
  <1>1. Shape(taf) /\ Placed(taf) /\ Holds(taf, inserted)
    BY DEF IInv, Sound
  <1>2. /\ Laid(U, h, nslots(taf)) /\ taf.occupieds = Homes(U, h) /\ taf.runends = EndsOfRuns(U, h)
        /\ U \in SUBSET Nat /\ taf.nblocks \in Nat
        /\ DOMAIN taf.offset = 0 .. taf.nblocks - 1
        /\ \A b \in 0 .. taf.nblocks - 1 :
             taf.offset[b] = IF b * BlockSlots \in U THEN LastOf(taf, b * BlockSlots) - b * BlockSlots ELSE 0
    BY <1>1, PlacedFacts DEF Shape, Placed
  <1>3. Used = U /\ \A i \in U : Quot(i) = h[i]
    BY UsedIs
  <1>4. {taf.remote[i] : i \in Used} = inserted /\ Cardinality(Used) = Cardinality(inserted)
    BY <1>1, <1>3 DEF Holds
  <1>5. taf.occupieds = {calc_quot(e) : e \in inserted}
    <2>1. {h[i] : i \in U} = {calc_quot(taf.remote[i]) : i \in U}
      BY DEF QuotsOf
    <2>2. {taf.remote[i] : i \in U} = inserted
      BY <1>3, <1>4
    <2>. HIDE DEF U, h
    <2>. QED
      BY <1>2, <2>1, <2>2 DEF Homes
  <1>6. taf.runends = {i \in Used : i + 1 \notin Used \/ Quot(i + 1) # Quot(i)}
    <2>. HIDE DEF U, h
    <2>. QED
      BY <1>2, <1>3 DEF EndsOfRuns
  <1>7. ASSUME NEW i \in Used
        PROVE  Quot(i) <= i /\ \A j \in Quot(i) .. i : j \in Used /\ Quot(j) <= Quot(i)
    <2>1. h[i] <= i /\ \A j \in h[i] .. i : j \in U /\ h[j] <= h[i]
      BY <1>2, <1>3 DEF Laid, Ordered
    <2>. QED
      BY <1>3, <2>1
  <1>8. ASSUME NEW b \in DOMAIN taf.offset
        PROVE  LET ends == {i \in Used : i >= b * BlockSlots /\ Quot(i) <= b * BlockSlots}
               IN taf.offset[b] = IF ends = {} THEN 0 ELSE Max(ends) - b * BlockSlots
    <2>. DEFINE x == b * BlockSlots
                ends == {i \in Used : i >= x /\ Quot(i) <= x}
    <2>1. x \in Nat /\ b \in 0 .. taf.nblocks - 1
      BY <1>2, BlockOrder
    <2>. HIDE DEF U, h
    <2>2. ends = EndsAt(U, h, x)
      BY <1>3 DEF EndsAt
    <2>3. x \in U <=> ends # {}
      BY <1>2, <2>1, <2>2, UsedIffReached
    <2>4. LastOf(taf, x) = Max(ends)
      BY <2>2 DEF LastOf, EndOf, U, h
    <2>. QED
      BY <1>2, <2>1, <2>3, <2>4
  <1>. QED
    BY <1>4, <1>5, <1>6, <1>7, <1>8 DEF RunsExact

\* Where searches pass, a fresh element is found.
LEMMA IInvFound == IInv /\ SearchesPass => StoredFound
  <1>. SUFFICES ASSUME IInv, SearchesPass PROVE StoredFound
    OBVIOUS
  <1>1. Passable(taf) /\ Shape(taf) /\ Placed(taf)
    BY PassableIs DEF IInv, Sound
  <1>2. ASSUME NEW i \in Used, i # 0, Fresh(taf, i) PROVE raw_lookup(taf, taf.remote[i]) # 0
    BY <1>1, <1>2, FreshIsFound, UsedIs
  <1>. QED
    BY <1>2 DEF StoredFound

\* As long as the walks of select_runend meet no block full of runends, the
\* occupieds, the runends and the offsets of every block are those of the
\* elements in the remote table.
THEOREM RunsStayExact == TafSpec /\ []SearchesPass => []RunsExact
  <1>. QED
    BY IInvInit, IInvStep, IInvExact, PTL DEF TafSpec

\* As long as they do not, raw_lookup finds every element whose remainder is
\* the one its selector says, but for what is in slot 0.
THEOREM FreshStaysFound == TafSpec /\ []SearchesPass => []StoredFound
  <1>. QED
    BY IInvInit, IInvStep, IInvFound, PTL DEF TafSpec

-----------------------------------------------------------------------------
(***************************************************************************)
(* The hypothesis where there are few quotients                            *)
(***************************************************************************)
\* A block full of runends in front of an element holds one quotient less
\* than there are.
LEMMA FewQuotients ==
    ASSUME IInv, IsFiniteSet(Elts), Cardinality({calc_quot(e) : e \in Elts}) <= BlockSlots
    PROVE  SearchesPass
  <1>. DEFINE U == UsedOf(taf)
              h == QuotsOf(taf)
              N == nslots(taf)
              Q == {calc_quot(e) : e \in Elts}
  <1>1. /\ Laid(U, h, N) /\ taf.runends = EndsOfRuns(U, h) /\ U \in SUBSET Nat /\ N \in Nat
        /\ taf.remote \in [0 .. N - 1 -> Elts \cup {NoElt}]
    BY PlacedFacts DEF IInv, Sound, Shape, Placed
  <1>2. \A i \in U : h[i] \in Q
    BY <1>1 DEF UsedOf, QuotsOf
  <1>3. IsFiniteSet(Q)
    <2>. DEFINE F == [e \in Elts |-> calc_quot(e)]
    <2>1. F \in Surjection(Elts, Q)
      BY DEF Surjection
    <2>. QED
      BY <2>1, FS_Surjection
  <1>. HIDE DEF Q
  <1>4. SUFFICES ASSUME NEW i \in U, NEW b \in BlockOf(target(taf, BlockOf(h[i]))) .. BlockOf(i) - 1,
                        SlotsOf(b) \subseteq taf.runends
                 PROVE  FALSE
    BY PassableIs DEF Passable
  <1>. DEFINE S == SlotsOf(b)
              T == {h[j] : j \in S}
  <1>5. BlockSlots \in Nat /\ BlockSlots > 1 /\ i \in Nat /\ i < N
    BY <1>1, BlockSize, LaidSlot
  <1>6. b \in Nat /\ b * BlockSlots \in Nat /\ b * BlockSlots + BlockSlots <= i
    <2>1. taf.nblocks \in Nat /\ Shape(taf) /\ Placed(taf)
      BY PlacedFacts DEF IInv, Sound
    <2>2. h[i] \in Nat /\ h[i] < N
      BY <1>1, <1>5, LaidSlot
    <2>3. BlockOf(h[i]) \in Nat /\ BlockOf(h[i]) < taf.nblocks
      BY <2>1, <2>2, BlockInside
    <2>4. target(taf, BlockOf(h[i])) \in Nat
      <3>. DEFINE c == BlockOf(h[i])
      <3>1. /\ c * BlockSlots \in Nat
            /\ c * BlockSlots \in U => target(taf, c) = LastOf(taf, c * BlockSlots)
            /\ c * BlockSlots \notin U => target(taf, c) = c * BlockSlots
        BY <2>1, <2>3, OffsetFacts
      <3>2. c * BlockSlots \in U => LastOf(taf, c * BlockSlots) \in Nat
        BY <1>1, EndFacts DEF LastOf
      <3>. QED
        BY <3>1, <3>2
    <2>. DEFINE t == BlockOf(target(taf, BlockOf(h[i])))
    <2>5. t \in Nat /\ BlockOf(i) \in Nat /\ BlockOf(i) * BlockSlots <= i /\ BlockOf(i) * BlockSlots \in Nat
      BY <1>5, <2>4, BlockFacts
    <2>. HIDE DEF t
    <2>6. b \in Nat /\ b < BlockOf(i)
      BY <2>5 DEF t
    <2>7. b * BlockSlots \in Nat /\ b * BlockSlots + BlockSlots <= BlockOf(i) * BlockSlots
      BY <2>5, <2>6, BlockOrder
    <2>. DEFINE y == b * BlockSlots
                z == BlockOf(i) * BlockSlots
    <2>8. y \in Nat /\ z \in Nat /\ y + BlockSlots <= z /\ z <= i
      BY <2>5, <2>7
    <2>. HIDE DEF y, z
    <2>9. y + BlockSlots <= i
      BY <1>5, <2>8
    <2>. QED
      BY <2>6, <2>7, <2>9 DEF y
  <1>. DEFINE lo == b * BlockSlots
  <1>7. S = lo .. lo + BlockSlots - 1 /\ lo \in Nat /\ lo + BlockSlots <= i
    BY <1>6 DEF SlotsOf
  <1>. HIDE DEF S, lo
  <1>8. IsFiniteSet(S) /\ Cardinality(S) = BlockSlots
    BY <1>5, <1>7, FS_Interval
  <1>9. \A j \in S : j \in Nat /\ j < i /\ j \in U /\ j \in EndsOfRuns(U, h)
    <2>1. \A j \in S : j \in Nat /\ j < i
      BY <1>5, <1>7
    <2>2. S \subseteq EndsOfRuns(U, h)
      BY <1>1, <1>4 DEF S
    <2>. QED
      BY <2>1, <2>2 DEF EndsOfRuns
  <1>10. IsFiniteSet(T) /\ Cardinality(T) = Cardinality(S)
    <2>. DEFINE F == [j \in S |-> h[j]]
    <2>1. \A j, k \in S : h[j] = h[k] => j = k
      BY <1>1, <1>9, OneEndPerHome
    <2>. HIDE DEF h
    <2>2. F \in Bijection(S, T)
      BY <2>1 DEF Bijection, Injection, Surjection, IsInjective
    <2>. QED
      BY <1>8, <2>2, FS_Bijection DEF ExistsBijection
  <1>11. h[i] \notin T
    <2>1. SUFFICES ASSUME NEW j \in S, h[j] = h[i] PROVE FALSE
      OBVIOUS
    <2>2. j \in Nat /\ j < i /\ j \in U /\ j \in EndsOfRuns(U, h)
      BY <1>9
    <2>3. h[i] \in Nat /\ h[j] \in Nat /\ h[j] <= j /\ \A k \in Nat : h[i] <= k /\ k <= i => k \in U
      BY <1>1, <2>2, LaidSlot
    <2>4. j + 1 \in U
      BY <1>5, <2>1, <2>2, <2>3
    <2>5. h[j + 1] \in Nat /\ h[j] <= h[j + 1] /\ h[j + 1] <= h[i]
      <3>1. j <= j + 1 /\ j + 1 <= i
        BY <1>5, <2>2
      <3>. QED
        BY <1>1, <2>2, <2>4, <3>1, LaidSlot, HomesAscend
    <2>6. h[j + 1] = h[j]
      BY <2>1, <2>3, <2>5
    <2>. QED
      BY <2>2, <2>4, <2>6 DEF EndsOfRuns
  <1>12. T \cup {h[i]} \in SUBSET Q
    BY <1>2, <1>9
  <1>. HIDE DEF T, h
  <1>13. Cardinality(T \cup {h[i]}) = BlockSlots + 1
    BY <1>8, <1>10, <1>11, FS_AddElement
  <1>14. Cardinality(T \cup {h[i]}) <= Cardinality(Q) /\ Cardinality(Q) \in Nat
    BY <1>3, <1>12, FS_Subset, FS_CardinalityType
  <1>. QED
    BY <1>5, <1>13, <1>14 DEF Q

\* With no more quotients than a block has slots, the filter is exact
\* whatever the order of insertions and queries: it takes one quotient more
\* for the walk of select_runend to go wrong.
THEOREM FewQuotientsExact ==
    ASSUME IsFiniteSet(Elts), Cardinality({calc_quot(e) : e \in Elts}) <= BlockSlots
    PROVE  TafSpec => [](RunsExact /\ StoredFound)
  <1>1. IInv => SearchesPass
    BY FewQuotients
  <1>. QED
    BY <1>1, IInvInit, IInvStep, IInvExact, IInvFound, PTL DEF TafSpec
=============================================================================
