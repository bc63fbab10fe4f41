-------------------------------- MODULE ACF --------------------------------
(***************************************************************************)
(* The adaptive cuckoo filter of other_filters/acf, a baseline of the      *)
(* experiments: a table of buckets with a tag per slot, a backing map that *)
(* holds the key of every slot, and a selector per bucket, which of a      *)
(* family of hash functions makes the tags of the bucket.  A false         *)
(* positive moves its bucket on to the next function.                      *)
(*                                                                         *)
(* Adding a key is a loop, one round of which is one step here: rand()     *)
(* chooses the slot that is kicked out.  A bucket has NumSlots slots, 4 in *)
(* the code, and there are NumSels hash functions, 16 in the code; the     *)
(* loop runs MaxCuckooCount times, 500 in the code.                        *)
(*                                                                         *)
(* Two selectors share a byte of hash_sels, a signed char.  The selector   *)
(* of an odd bucket, the upper half, is shifted down with its sign: those  *)
(* from NumSels / 2 on index hash_fcns from -NumSels / 2 to -1.  What      *)
(* memory is there is not known, nor who writes it: it is a variable any   *)
(* step of the program may change, and what a hash function read from it   *)
(* computes is one of OutsideFcns.                                         *)
(***************************************************************************)
EXTENDS Integers, FiniteSets

CONSTANTS ItemType,               \* the keys added and queried
          NoItem,                 \* what the map has for an empty slot
          NumBuckets, NumSlots,   \* table_->num_buckets_, kTagsPerBucket
          NumSels,                \* hash_fcns
          MaxCuckooCount,         \* kMaxCuckooCount
          Hasher, AltHasher,      \* hasher_ and alt_hasher_, item -> hash
          HashFcns,               \* hash_fcns, selector -> item -> hash cut to the bits of a tag
          OutsideFcns             \* what memory in front of hash_fcns may compute, likewise

Buckets == 0 .. NumBuckets - 1
Slots == 0 .. NumSlots - 1
Sels == 0 .. NumSels - 1
OutsideSels == -(NumSels \div 2) .. -1
Memories == [OutsideSels -> OutsideFcns]

ASSUME ACFAssumption ==
    /\ {NumBuckets, NumSlots, NumSels, MaxCuckooCount} \subseteq Nat \ {0}
    /\ Hasher \in [ItemType -> Nat] /\ AltHasher \in [ItemType -> Nat]
    /\ NumBuckets % 2 = 0 /\ NumSels % 2 = 0
    /\ HashFcns \in [Sels -> [ItemType -> Nat]]
    /\ OutsideFcns \subseteq [ItemType -> Nat]
    /\ NoItem \notin ItemType

VARIABLES tags,         \* buckets_: bucket -> slot -> tag, 0 for none
          hash_sels,    \* bucket -> selector
          outside,      \* the memory in front of hash_fcns
          backing_map,  \* bucket -> slot -> item
          victim,       \* victim_; its item is history
          adding,       \* curkey, curindex and count of AddUsingBackingMap
          added         \* history: the items added

acfVars == <<tags, hash_sels, outside, backing_map, victim, adding, added>>

GenerateIndexHash(item) == Hasher[item] % NumBuckets

Before(index) == IF index = 0 THEN NumBuckets - 1 ELSE index - 1

GenerateAltIndexHash(item, first_index) ==
    LET index == AltHasher[item] % NumBuckets
    IN IF index = first_index THEN Before(index) ELSE index

\* Mutant: an item whose hashes agree moves on, not back.
AltIndexFromKey_NoFirst(index, item) ==
    LET alt_index == AltHasher[item] % NumBuckets
    IN IF alt_index # index THEN alt_index ELSE Before(index)

\* The other of an item's two buckets.
AltIndexFromKey(index, item) ==
    LET alt_index == AltHasher[item] % NumBuckets
        first_index == Hasher[item] % NumBuckets
    IN IF alt_index # index THEN alt_index
       ELSE IF first_index # index THEN first_index
       ELSE Before(index)

Index1(item) == GenerateIndexHash(item)
Index2(item) == GenerateAltIndexHash(item, Index1(item))

\* Where in hash_fcns a bucket with selector s gets its function.
HashSel(index, s) == IF index % 2 = 1 /\ s >= NumSels \div 2 THEN s - NumSels ELSE s

InFamily(index) == HashSel(index, hash_sels[index]) \in Sels

TagFor(item, index, s, memory) ==
    LET hash_sel == HashSel(index, s)
        tag == IF hash_sel \in Sels THEN HashFcns[hash_sel][item] ELSE memory[hash_sel][item]
    IN IF tag = 0 THEN 1 ELSE tag

\* memory is what is in front of hash_fcns at the time.
GenerateTagHash(item, index, memory) == TagFor(item, index, hash_sels[index], memory)

FindTagInBucket(index, tag) == \E j \in Slots : tags[index][j] = tag

\* The slot FindTagLocationInBucket answers with.
IsFirstTag(index, j, tag) == tags[index][j] = tag /\ \A l \in 0 .. j - 1 : tags[index][l] # tag

\* Mutant: only an item's first bucket is compared.
IsVictim_FirstOnly(item, memory) ==
    /\ victim.used
    /\ victim.index = Index1(item)
    /\ victim.tag = GenerateTagHash(item, victim.index, memory)

IsVictim(item, memory) ==
    /\ victim.used
    /\ victim.index \in {Index1(item), Index2(item)}
    /\ victim.tag = GenerateTagHash(item, victim.index, memory)

Contain(item) ==
    \/ IsVictim(item, outside)
    \/ \E index \in {Index1(item), Index2(item)} :
          FindTagInBucket(index, GenerateTagHash(item, index, outside))

\* ContainReturn's location: in the first bucket if the tag is there.
ContainReturn(item, index, j) ==
    /\ ~IsVictim(item, outside)
    /\ IsFirstTag(index, j, GenerateTagHash(item, index, outside))
    /\ \/ index = Index1(item)
       \/ /\ index = Index2(item)
          /\ ~FindTagInBucket(Index1(item), GenerateTagHash(item, Index1(item), outside))

-----------------------------------------------------------------------------
\* hash_sels is allocated and not initialised.
ACFInit ==
    /\ tags = [i \in Buckets |-> [j \in Slots |-> 0]]
    /\ hash_sels \in [Buckets -> Sels]
    /\ outside \in Memories
    /\ backing_map = [i \in Buckets |-> [j \in Slots |-> NoItem]]
    /\ victim = [used |-> FALSE, index |-> 0, tag |-> 0, item |-> NoItem]
    /\ adding = [item |-> NoItem, index |-> 0, count |-> 0]
    /\ added = {}

Idle == adding.item = NoItem

AddStart(item) ==
    /\ Idle
    /\ ~victim.used
    /\ item \notin added
    /\ adding' = [item |-> item, index |-> GenerateIndexHash(item), count |-> 0]
    /\ added' = added \union {item}
    /\ UNCHANGED <<tags, hash_sels, outside, backing_map, victim>>

\* The tag and the item that are on the move get slot j of their bucket.
PutInto(j) ==
    /\ tags' = [tags EXCEPT ![adding.index][j] = GenerateTagHash(adding.item, adding.index, outside)]
    /\ backing_map' = [backing_map EXCEPT ![adding.index][j] = adding.item]
    /\ UNCHANGED <<hash_sels, added>>

\* InsertTagToBucket finds an empty slot.
AddPlace(j) ==
    /\ ~Idle
    /\ IsFirstTag(adding.index, j, 0)
    /\ PutInto(j)
    /\ adding' = [adding EXCEPT !.item = NoItem]
    /\ UNCHANGED <<outside, victim>>

\* InsertTagToBucket kicks out the item in slot j, which goes to its other
\* bucket.  The last one kicked out is the victim, whose tag is made after the
\* calls to the map.
AddKick(j) ==
    LET nextkey == backing_map[adding.index][j]
        index == AltIndexFromKey(adding.index, nextkey)
        last == adding.count + 1 = MaxCuckooCount
    IN
    /\ ~Idle
    /\ ~FindTagInBucket(adding.index, 0)
    /\ PutInto(j)
    /\ outside' \in Memories
    /\ adding' = [item |-> IF last THEN NoItem ELSE nextkey, index |-> index, count |-> adding.count + 1]
    /\ victim' = IF last THEN [used |-> TRUE, index |-> index, item |-> nextkey,
                               tag |-> GenerateTagHash(nextkey, index, outside')] ELSE victim

\* The tags of a bucket whose selector becomes s, for the items in the map;
\* between two slots the map is read.
Retagged(index, s, memory) ==
    [j \in Slots |-> IF backing_map[index][j] = NoItem THEN tags[index][j]
                     ELSE TagFor(backing_map[index][j], index, s, memory[j])]

\* Adapt, IncrHashSel included.  It looks for item's bucket anew, by its tag;
\* before is the memory in front of hash_fcns then, memory[j] at slot j.
AdaptItem(item, before, memory) ==
    LET tag1 == GenerateTagHash(item, Index1(item), before)
        index == IF FindTagInBucket(Index1(item), tag1) THEN Index1(item) ELSE Index2(item)
        s == (hash_sels[index] + 1) % NumSels
    IN
    /\ ~IsVictim(item, before)
    /\ hash_sels' = [hash_sels EXCEPT ![index] = s]
    /\ tags' = [tags EXCEPT ![index] = Retagged(index, s, memory)]
    /\ outside' = memory[NumSlots - 1]
    /\ UNCHANGED <<backing_map, victim, adding, added>>

\* A query is answered "present" for another item's tag.  The filter adapts
\* by that item or, in test_micro_throughput.cc, by the one asked for.
QueryAndAdapt(item) ==
    /\ Idle
    /\ \E index \in {Index1(item), Index2(item)}, j \in Slots :
          /\ ContainReturn(item, index, j)
          /\ backing_map[index][j] # item
          /\ \E by \in {backing_map[index][j], item}, before \in Memories, memory \in [Slots -> Memories] :
                AdaptItem(by, before, memory)

\* Whatever else the memory in front of hash_fcns belongs to is written.
OutsideWritten ==
    /\ outside' \in Memories
    /\ UNCHANGED <<tags, hash_sels, backing_map, victim, adding, added>>

ACFNext ==
    \/ \E item \in ItemType : AddStart(item) \/ QueryAndAdapt(item)
    \/ \E j \in Slots : AddPlace(j) \/ AddKick(j)
    \/ OutsideWritten

ACFSpec == ACFInit /\ [][ACFNext]_acfVars

-----------------------------------------------------------------------------
(***************************************************************************)
(* Properties                                                              *)
(***************************************************************************)
At(index, j) == backing_map[index][j]

\* A slot with a tag has an item in the map, in one of the item's buckets,
\* and the tag is the one the bucket's selector makes of it - unless that
\* selector leads in front of hash_fcns, where the tag was made by memory that
\* may be another now.  Every item added is in exactly one slot, on the move,
\* or the victim.
MapTied ==
    /\ \A i \in Buckets, j \in Slots :
          IF tags[i][j] = 0 THEN At(i, j) = NoItem
          ELSE /\ At(i, j) \in added
               /\ i \in {Index1(At(i, j)), Index2(At(i, j))}
               /\ InFamily(i) => tags[i][j] = GenerateTagHash(At(i, j), i, outside)
    /\ \A item \in added :
          \/ \E i \in Buckets, j \in Slots : At(i, j) = item
          \/ item = adding.item
          \/ victim.used /\ item = victim.item
    /\ \A i, k \in Buckets, j, l \in Slots :
          At(i, j) = At(k, l) /\ At(i, j) # NoItem => i = k /\ j = l

\* Between two calls every item added is found, whatever was kicked out and
\* adapted - but the victim, whose tag is not made anew when its bucket
\* adapts, and the items of an odd bucket whose selector leads in front of
\* hash_fcns.
AddedAreFound ==
    Idle => \A item \in added :
        \/ Contain(item)
        \/ victim.item = item /\ victim.tag # GenerateTagHash(item, victim.index, outside)
        \/ \E i \in {Index1(item), Index2(item)}, j \in Slots : At(i, j) = item /\ ~InFamily(i)
=============================================================================
