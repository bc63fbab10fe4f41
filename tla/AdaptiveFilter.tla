--------------------------- MODULE AdaptiveFilter ---------------------------
(***************************************************************************)
(* What an adaptive filter with a reverse map promises: the abstract       *)
(* specification of src/variants/*.hpp over src/src/gqf.c and src/db/*.hpp.*)
(*                                                                         *)
(* The filter is a family of miniruns.  The minirun of a fingerprint (the  *)
(* quotient and remainder of a hash) is the sequence of the items stored   *)
(* for it, in slot order; an item is the extension it has been given so    *)
(* far and the false positives counted against it.  The reverse map holds, *)
(* for the same fingerprint, the keys those items stand for.  Nothing in   *)
(* an item says whose it is: only its position ties it to its key, and     *)
(* that tie is what makes adapting safe.                                   *)
(*                                                                         *)
(* Keys are hashes (the variants pass QF_KEY_IS_HASH).  One step is one    *)
(* call on the filter: bench_variants.cc runs queryFilter, the database    *)
(* lookup and adapt one after the other on a single thread.                *)
(***************************************************************************)
EXTENDS Integers, Sequences

CONSTANTS Keys,        \* the hashes
          Fps,         \* the fingerprints: quotient and remainder
          Chunks,      \* the values of a slot
          MaxExt,      \* the chunks a hash has above its fingerprint
          FpOf,        \* the fingerprint of a hash
          ChunkOf,     \* the chunks of a hash
          LoadLimit,   \* 95% of the slots: no insertion at or above
          FullPoint,   \* max_load_factor of the slots: no adaptation at or above
          BreakEven,   \* breakEvenCount of SkiQF
          Policy,      \* which variant's adapt()
          MapKind      \* which reverse map

Policies == {"AdaptiveQF", "SkiQF", "CoinFlip", "NonAdaptive", "HybridSkiQF"}
MapKinds == {"SplinterDB", "WiredTiger"}

(***************************************************************************)
(* The hash is exactly its fingerprint and its chunks.  BreakEven is at    *)
(* most 2: from 3 on, insert_and_extend rewrites counters that sit behind  *)
(* an extension, and writes them to another slot (run ski_break_even_3).   *)
(***************************************************************************)
ASSUME AFAssumption ==
    /\ MaxExt \in Nat \ {0}
    /\ 0 \in Chunks
    /\ FpOf \in [Keys -> Fps]
    /\ ChunkOf \in [Keys -> [1 .. MaxExt -> Chunks]]
    /\ \A k, l \in Keys : FpOf[k] = FpOf[l] /\ ChunkOf[k] = ChunkOf[l] => k = l
    /\ LoadLimit \in Nat
    /\ FullPoint \in Nat
    /\ BreakEven \in {1, 2}
    /\ Policy \in Policies
    /\ MapKind \in MapKinds

\* The chunks of ext beyond ext_len are 0, as in the uint64_t of the code.
Items == [ext_len : 0 .. MaxExt, ext : [1 .. MaxExt -> Chunks], count : 1 .. 2]

NewItem == [ext_len |-> 0, ext |-> [j \in 1 .. MaxExt |-> 0], count |-> 1]

VARIABLES miniruns,     \* the filter
          used,         \* metadata->noccupied_slots
          reverseMap,   \* fingerprint -> keys, by rank
          db,           \* the keys inserted
          phase         \* "load" until bulkLoad is done, then "query"

vars == <<miniruns, used, reverseMap, db, phase>>

Init ==
    /\ miniruns = [f \in Fps |-> <<>>]
    /\ used = 0
    /\ reverseMap = [f \in Fps |-> <<>>]
    /\ db = {}
    /\ phase = "load"

-----------------------------------------------------------------------------
Matches(item, k) == \A j \in 1 .. item.ext_len : item.ext[j] = ChunkOf[k][j]

\* queryFilter's key_present, and the position (rank + 1) it answers with.
Positive(k) == \E i \in DOMAIN miniruns[FpOf[k]] : Matches(miniruns[FpOf[k]][i], k)

IsFirstMatch(k, i) ==
    /\ i \in DOMAIN miniruns[FpOf[k]]
    /\ Matches(miniruns[FpOf[k]][i], k)
    /\ \A j \in 1 .. i - 1 : ~Matches(miniruns[FpOf[k]][j], k)

\* Mutant: insertions go on after adaptations have begun.
Insert_AnyTime(k) ==
    /\ used < LoadLimit
    /\ miniruns' = [miniruns EXCEPT ![FpOf[k]] = <<NewItem>> \o @]
    /\ used' = used + 1
    /\ reverseMap' = [reverseMap EXCEPT ![FpOf[k]] =
                         IF MapKind = "SplinterDB" THEN <<k>> \o @ ELSE Append(@, k)]
    /\ db' = db \union {k}
    /\ UNCHANGED phase

(***************************************************************************)
(* bulkLoad, one key.  The filter puts the new item in front of its        *)
(* minirun.  SplinterDB's merge operator also puts the newest key in       *)
(* front; WiredTiger files it under the rank the insertion reported, the   *)
(* number of items already there.                                          *)
(***************************************************************************)
Insert(k) ==
    LET f == FpOf[k] IN
    /\ phase = "load"
    /\ used < LoadLimit
    /\ miniruns' = [miniruns EXCEPT ![f] = <<NewItem>> \o @]
    /\ used' = used + 1
    /\ reverseMap' = [reverseMap EXCEPT ![f] =
                         IF MapKind = "SplinterDB" THEN <<k>> \o @ ELSE Append(@, k)]
    /\ db' = db \union {k}
    /\ UNCHANGED phase

EndLoad ==
    /\ phase = "load"
    /\ phase' = "query"
    /\ UNCHANGED <<miniruns, used, reverseMap, db>>

\* A false positive of k at position i: the filter says yes, the database no.
FalsePositive(k, i) ==
    /\ phase = "query"
    /\ k \notin db
    /\ IsFirstMatch(k, i)

\* Mutant: no variant checks its full point.
MayCharge_Always == TRUE

\* noccupied_slots >= fullPoint: "Don't have space to adapt more."
MayCharge == Policy = "HybridSkiQF" \/ used < FullPoint

\* Mutant: the new counter slot takes the place of a chunk.
Charged_OverExtension(item) ==
    [item EXCEPT !.count = @ + 1, !.ext_len = IF @ > 0 THEN @ - 1 ELSE 0]

Charged(item) == [item EXCEPT !.count = @ + 1]

\* SkiQF below the break-even point: charge the item, fetch nothing.
Charge(k, i) ==
    LET f == FpOf[k] IN
    /\ FalsePositive(k, i)
    /\ Policy = "SkiQF"
    /\ MayCharge
    /\ miniruns[f][i].count < BreakEven
    /\ miniruns' = [miniruns EXCEPT ![f][i] = Charged(@)]
    /\ used' = used + 1
    /\ UNCHANGED <<reverseMap, db, phase>>

\* Which variants may adapt now: the coin and Hybrid's window averages are
\* left open.
MayAdapt(item) ==
    /\ MayCharge
    /\ Policy # "NonAdaptive"
    /\ Policy = "SkiQF" => item.count >= BreakEven

\* Mutant: appends orig's first chunks, not the ones after the extension.
Extended_FromFirst(item, orig, n) ==
    [ext_len |-> n,
     ext |-> [j \in 1 .. MaxExt |-> IF item.ext_len < j /\ j <= n
                                    THEN ChunkOf[orig][j - item.ext_len] ELSE item.ext[j]],
     count |-> 1]

\* Mutant: a counter survives the adaptation and is charged again.
Extended_KeepsCounter(item, orig, n) ==
    [ext_len |-> n,
     ext |-> [j \in 1 .. MaxExt |-> IF item.ext_len < j /\ j <= n THEN ChunkOf[orig][j]
                                                                 ELSE item.ext[j]],
     count |-> item.count + 1]

\* The item with chunks of orig appended up to length n; a counter slot is
\* used up by the first of them.
Extended(item, orig, n) ==
    [ext_len |-> n,
     ext |-> [j \in 1 .. MaxExt |-> IF item.ext_len < j /\ j <= n THEN ChunkOf[orig][j]
                                                                 ELSE item.ext[j]],
     count |-> 1]

\* n is where extending stops: the first chunk that tells orig from k.
Separates(item, orig, k, n) ==
    /\ n \in item.ext_len + 1 .. MaxExt
    /\ ChunkOf[orig][n] # ChunkOf[k][n]
    /\ \A j \in item.ext_len + 1 .. n - 1 : ChunkOf[orig][j] = ChunkOf[k][j]

CounterSlots(item) == IF item.count > 1 THEN 1 ELSE 0

(***************************************************************************)
(* adapt(): fetch the key the reverse map holds for the item's position    *)
(* and extend the item with that key's chunks.                             *)
(***************************************************************************)
Adapt(k, i, n) ==
    LET f == FpOf[k]
        item == miniruns[f][i]
    IN
    /\ FalsePositive(k, i)
    /\ MayAdapt(item)
    /\ i \in DOMAIN reverseMap[f]
    /\ Separates(item, reverseMap[f][i], k, n)
    /\ miniruns' = [miniruns EXCEPT ![f][i] = Extended(item, reverseMap[f][i], n)]
    /\ used' = used + (n - item.ext_len) - CounterSlots(item)
    /\ UNCHANGED <<reverseMap, db, phase>>

(***************************************************************************)
(* adapt() when the slot array runs out after m of the chunks: the chunks  *)
(* already appended stay and QF_NO_SPACE is not reported.                  *)
(***************************************************************************)
AdaptNoSpace(k, i, n, m) ==
    LET f == FpOf[k]
        item == miniruns[f][i]
    IN
    /\ FalsePositive(k, i)
    /\ MayAdapt(item)
    /\ i \in DOMAIN reverseMap[f]
    /\ Separates(item, reverseMap[f][i], k, n)
    /\ m \in item.ext_len + 1 .. n - 1
    /\ miniruns' = [miniruns EXCEPT ![f][i] = Extended(item, reverseMap[f][i], m)]
    /\ used' = used + (m - item.ext_len) - CounterSlots(item)
    /\ UNCHANGED <<reverseMap, db, phase>>

Next ==
    \/ \E k \in Keys : Insert(k)
    \/ EndLoad
    \/ \E k \in Keys : \E i \in DOMAIN miniruns[FpOf[k]] :
          \/ Charge(k, i)
          \/ \E n \in 1 .. MaxExt : Adapt(k, i, n)
          \/ \E n \in 1 .. MaxExt : \E m \in 1 .. n - 1 : AdaptNoSpace(k, i, n, m)

Spec == Init /\ [][Next]_vars

-----------------------------------------------------------------------------
\* Items stay within a hash's chunks and counters within one slot's worth.
TypeOK ==
    /\ miniruns \in [Fps -> Seq(Items)]
    /\ used \in Int
    /\ reverseMap \in [Fps -> Seq(Keys)]
    /\ db \in SUBSET Keys
    /\ phase \in {"load", "query"}

(***************************************************************************)
(* A filter has no false negatives: queryFilter answers "present" for      *)
(* every key ever inserted, after any sequence of charges and adaptations, *)
(* also adaptations the slot array had no room to finish.                  *)
(***************************************************************************)
NoFalseNegative == \A k \in db : Positive(k)

(***************************************************************************)
(* Why: the item at every rank of a minirun is one the key the reverse map *)
(* holds at that rank would match, every inserted key is held at some      *)
(* rank, and loading (which puts new items in front of old ones) is over   *)
(* before the first extension is written.                                  *)
(***************************************************************************)
RanksAgree == \A f \in Fps : Len(reverseMap[f]) = Len(miniruns[f])

ItemsMatchTheirKeys ==
    \A f \in Fps : \A i \in DOMAIN reverseMap[f] :
        /\ FpOf[reverseMap[f][i]] = f
        /\ Matches(miniruns[f][i], reverseMap[f][i])

KeysHaveARank == \A k \in db : \E i \in DOMAIN reverseMap[FpOf[k]] : reverseMap[FpOf[k]][i] = k

LoadIsUnextended ==
    phase = "load" => \A f \in Fps : \A i \in DOMAIN miniruns[f] : miniruns[f][i].ext_len = 0

RankTie == RanksAgree /\ ItemsMatchTheirKeys /\ KeysHaveARank /\ LoadIsUnextended

(***************************************************************************)
(* Adapting is monotone: once loading is over, a key the filter rejects is *)
(* rejected for good.  No adaptation, charge or aborted adaptation brings  *)
(* a corrected false positive back.                                        *)
(***************************************************************************)
StaysNegative ==
    [][phase = "query" => \A k \in Keys : Positive(k)' => Positive(k)]_vars

(***************************************************************************)
(* The check against fullPoint is made once per call, before a whole       *)
(* extension is written: adaptations may pass it, but by fewer slots than  *)
(* a hash has chunks.  HybridSkiQF makes no such check.                    *)
(***************************************************************************)
SpaceBound == Policy # "HybridSkiQF" => used <= LoadLimit \/ used < FullPoint + MaxExt
=============================================================================
