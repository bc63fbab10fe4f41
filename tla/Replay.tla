------------------------------- MODULE Replay -------------------------------
(***************************************************************************)
(* SlotFilter under the adversarial workload of bench_variants.cc, which   *)
(* queries every key that was once positive again and again: adv_queries,  *)
(* read round and round.                                                   *)
(***************************************************************************)
EXTENDS SlotFilter

VARIABLE queryKey      \* the key of the latest query

ReplayInit == Init /\ queryKey = NoKey

Loading == EndLoad \/ \E k \in Keys : Load(k) \/ LoadRefused(k)

ReplayNext ==
    \/ Loading /\ UNCHANGED queryKey
    \/ \E k \in Keys : Query(k) /\ queryKey' = k

\* Once loading is over no key is left out for good.  The loop can always
\* make the next query.
Replayed == \A k \in Keys : []<>(phase = "query") => []<>(queryKey = k)

\* bulkLoad is a loop over the keys that stops at NumKeys.
LoadingEnds == <>(phase # "load")

(***************************************************************************)
(* A false positive queried again and again is corrected, unless the       *)
(* filter reaches its full point first: charges add up to an adaptation,   *)
(* an adaptation away from the item at the reported rank leaves one item   *)
(* fewer that matches, and the filter never charges an item forever.       *)
(***************************************************************************)
EventuallyCorrected ==
    \A k \in Keys :
        phase = "query" /\ k \notin db ~> ~Positive(k) \/ qf.noccupied_slots >= FullPoint
=============================================================================
