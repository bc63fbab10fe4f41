--------------------------- MODULE SlotRefinement ---------------------------
(***************************************************************************)
(* The slot array of SlotFilter, replayed, implements the miniruns of       *)
(* AdaptiveFilter.                                                         *)
(*                                                                         *)
(* The refinement mapping reads the items out of the slots by GQFLayout's  *)
(* reference layout.  It is kept in two auxiliary variables, functions of  *)
(* the state they are part of, so that TLC computes it once per step.      *)
(***************************************************************************)
EXTENDS Replay

VARIABLES miniruns,    \* fingerprint -> its items
          keysByRank   \* fingerprint -> the keys the reverse map holds

rvars == <<qf, reverseMap, db, phase, fpCount, adaptCount, queryKey, miniruns, keysByRank>>

MaxExt == (HashBits - QuotientBits - 1) \div BitsPerSlot
LoadLimit == Min({NumKeys, (95 * nslots + 99) \div 100})
FpOf == [k \in Keys |-> minirun_id(k)]
ChunkOf == [k \in Keys |-> [j \in 1 .. MaxExt |-> chunk(k, j - 1)]]

\* The item whose remainder is in slot i.
Item(q, i) ==
    LET info == get_slot_info(q, i)
    IN [ext_len |-> info.ext_len, count |-> info.count,
        ext |-> [j \in 1 .. MaxExt |-> IF j <= info.ext_len THEN get_slot(q, i + j) ELSE 0]]

Miniruns(q) ==
    [f \in Fps |-> LET at == MinirunSlots(q, f) IN [i \in DOMAIN at |-> Item(q, at[i])]]

KeysByRank(map) ==
    [f \in Fps |-> [i \in 1 .. Cardinality(DOMAIN map[f]) |->
        IF i - 1 \in DOMAIN map[f] THEN map[f][i - 1] ELSE NoKey]]

RInit == ReplayInit /\ miniruns = Miniruns(qf) /\ keysByRank = KeysByRank(reverseMap)

RNext == ReplayNext /\ miniruns' = Miniruns(qf') /\ keysByRank' = KeysByRank(reverseMap')

RSpec == RInit /\ [][RNext]_rvars /\ LoadingEnds /\ Replayed

Abstract == INSTANCE AdaptiveFilter WITH
    Chunks <- SlotValues, used <- qf.noccupied_slots, reverseMap <- keysByRank,
    phase <- IF phase = "aborted" THEN "load" ELSE phase

(***************************************************************************)
(* Every step of the slot array is a step of AdaptiveFilter: finding a     *)
(* minirun by occupied bits, runends and offsets, walking it by rank and   *)
(* shifting slots is the same as indexing a sequence, and so is running    *)
(* out of slots half way through an adaptation.                            *)
(***************************************************************************)
RefinesAdaptiveFilter == Abstract!Spec
=============================================================================
