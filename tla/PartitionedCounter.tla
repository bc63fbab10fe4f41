------------------------- MODULE PartitionedCounter -------------------------
(***************************************************************************)
(* The partitioned counter of src/src/partitioned_counter.c.  A pc_t keeps *)
(* one local counter per CPU in front of a shared global counter; pc_add   *)
(* works on the local counter of the CPU it happens to run on and only     *)
(* spills into the global counter when the local one leaves the band       *)
(* -threshold .. threshold; pc_sync spills all of them.  Each of the three *)
(* accesses (add to the local, exchange it with 0, add to the global) is   *)
(* one __ATOMIC_SEQ_CST operation, so each is one action here, and the     *)
(* thread holds the exchanged value privately in between.                  *)
(***************************************************************************)
EXTENDS Integers, FiniteSets, FiniteSetsExt

CONSTANTS Threads,      \* callers of pc_add and pc_sync
          NumCounters,  \* pc->num_counters
          Threshold,    \* pc->threshold
          Deltas,       \* the counts passed to pc_add
          MaxAdds       \* bound: pc_add calls in a behaviour

ASSUME PCAssumption ==
    /\ NumCounters \in Nat \ {0}
    /\ Threshold \in Nat
    /\ Deltas \subseteq Int
    /\ MaxAdds \in Nat
    /\ IsFiniteSet(Threads)

Counters == 0 .. NumCounters - 1

VARIABLES local_counters,  \* pc->local_counters[i].counter
          global_counter,  \* *pc->global_counter
          pc,              \* where each thread is
          idx,             \* counter_id of pc_add, i of pc_sync
          held,            \* new_count of pc_add, c of pc_sync
          adds,            \* number of pc_add calls so far (for the bound)
          total            \* history: the sum of all counts passed to pc_add

pcVars == <<local_counters, global_counter, pc, idx, held, adds, total>>

PCInit ==
    /\ local_counters = [c \in Counters |-> 0]
    /\ global_counter = 0
    /\ pc = [t \in Threads |-> "idle"]
    /\ idx = [t \in Threads |-> 0]
    /\ held = [t \in Threads |-> 0]
    /\ adds = 0
    /\ total = 0

\* Mutant: only the upper end of the band.
Beyond_UpperOnly(n) == n > Threshold

Beyond(n) == n > Threshold \/ n < -Threshold

\* sched_getcpu may return any CPU, so any local counter.
AddLocal(t, c, count) ==
    LET cur_count == local_counters[c] + count IN
    /\ pc[t] = "idle"
    /\ adds < MaxAdds
    /\ adds' = adds + 1
    /\ total' = total + count
    /\ local_counters' = [local_counters EXCEPT ![c] = cur_count]
    /\ idx' = [idx EXCEPT ![t] = c]
    /\ pc' = [pc EXCEPT ![t] = IF Beyond(cur_count) THEN "add_exchange" ELSE "idle"]
    /\ UNCHANGED <<global_counter, held>>

\* Mutant: the local counter is read but not reset.
Exchange_NoReset(t, from, to) ==
    /\ pc[t] = from
    /\ held' = [held EXCEPT ![t] = local_counters[idx[t]]]
    /\ pc' = [pc EXCEPT ![t] = to]
    /\ UNCHANGED <<local_counters, global_counter, idx, adds, total>>

\* Both pc_add and pc_sync take the local counter's value away.
Exchange(t, from, to) ==
    /\ pc[t] = from
    /\ held' = [held EXCEPT ![t] = local_counters[idx[t]]]
    /\ local_counters' = [local_counters EXCEPT ![idx[t]] = 0]
    /\ pc' = [pc EXCEPT ![t] = to]
    /\ UNCHANGED <<global_counter, idx, adds, total>>

AddExchange(t) == Exchange(t, "add_exchange", "add_global")

SyncExchange(t) == Exchange(t, "sync_exchange", "sync_global")

AddGlobal(t) ==
    /\ pc[t] = "add_global"
    /\ global_counter' = global_counter + held[t]
    /\ held' = [held EXCEPT ![t] = 0]
    /\ pc' = [pc EXCEPT ![t] = "idle"]
    /\ UNCHANGED <<local_counters, idx, adds, total>>

SyncStart(t) ==
    /\ pc[t] = "idle"
    /\ idx' = [idx EXCEPT ![t] = 0]
    /\ pc' = [pc EXCEPT ![t] = "sync_exchange"]
    /\ UNCHANGED <<local_counters, global_counter, held, adds, total>>

\* Mutant: the loop runs once too often.
SyncGlobal_OffByOne(t) ==
    /\ pc[t] = "sync_global"
    /\ global_counter' = global_counter + held[t]
    /\ held' = [held EXCEPT ![t] = 0]
    /\ IF idx[t] < NumCounters
       THEN /\ idx' = [idx EXCEPT ![t] = @ + 1]
            /\ pc' = [pc EXCEPT ![t] = "sync_exchange"]
       ELSE /\ pc' = [pc EXCEPT ![t] = "idle"]
            /\ UNCHANGED idx
    /\ UNCHANGED <<local_counters, adds, total>>

\* One round of pc_sync's loop ends and the next begins.
SyncGlobal(t) ==
    /\ pc[t] = "sync_global"
    /\ global_counter' = global_counter + held[t]
    /\ held' = [held EXCEPT ![t] = 0]
    /\ IF idx[t] + 1 < NumCounters
       THEN /\ idx' = [idx EXCEPT ![t] = @ + 1]
            /\ pc' = [pc EXCEPT ![t] = "sync_exchange"]
       ELSE /\ pc' = [pc EXCEPT ![t] = "idle"]
            /\ UNCHANGED idx
    /\ UNCHANGED <<local_counters, adds, total>>

PCNext ==
    \E t \in Threads :
        \/ \E c \in Counters, count \in Deltas : AddLocal(t, c, count)
        \/ AddExchange(t)
        \/ AddGlobal(t)
        \/ SyncStart(t)
        \/ SyncExchange(t)
        \/ SyncGlobal(t)

PCSpec == PCInit /\ [][PCNext]_pcVars

-----------------------------------------------------------------------------
\* Every index is that of a local counter: pc_sync stays inside the array.
PCTypeOK ==
    /\ local_counters \in [Counters -> Int]
    /\ global_counter \in Int
    /\ pc \in [Threads -> {"idle", "add_exchange", "add_global",
                           "sync_exchange", "sync_global"}]
    /\ idx \in [Threads -> Counters]
    /\ held \in [Threads -> Int]
    /\ adds \in 0 .. MaxAdds
    /\ total \in Int

SumOver(f, S) == MapThenSumSet(LAMBDA x : f[x], S)

(***************************************************************************)
(* Nothing added is ever lost or counted twice, whatever the interleaving  *)
(* of pc_add and pc_sync: what the counter was given is in the global      *)
(* counter, in a local one, or in the hands of a thread between its        *)
(* exchange and its add to the global counter.                             *)
(***************************************************************************)
Conservation ==
    total = global_counter + SumOver(local_counters, Counters)
                           + SumOver(held, Threads)

(***************************************************************************)
(* When no call is in progress every local counter is inside the band, so  *)
(* an unsynchronised read of the global counter (as                        *)
(* qf_get_num_occupied_slots does) is off by at most                       *)
(* NumCounters * Threshold.                                                *)
(***************************************************************************)
QuiescentError ==
    (\A t \in Threads : pc[t] = "idle") =>
        LET error == total - global_counter IN
        error <= NumCounters * Threshold /\ -error <= NumCounters * Threshold
=============================================================================
