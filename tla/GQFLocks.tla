------------------------------ MODULE GQFLocks ------------------------------
(***************************************************************************)
(* The region locks of src/src/gqf.c: qf_lock, qf_unlock and the operations*)
(* that run between them on several threads (src/src/test_driver.c starts  *)
(* them).  A lock covers NumSlotsToLock slots.  An operation that starts   *)
(* at slot s takes the lock of s's region and, when s is near its border,  *)
(* or the operation is a large one, neighbours' locks as well, always in   *)
(* ascending order; it gives them back in descending order.                *)
(*                                                                         *)
(* Taking a lock (__sync_lock_test_and_set), releasing one, and reading    *)
(* and writing metadata->noccupied_slots (a plain ++) are steps of their   *)
(* own.  What an operation does to the slots is left to GQF: here it       *)
(* matters which slots it may touch.                                       *)
(***************************************************************************)
EXTENDS Integers, FiniteSets

CONSTANTS Threads,
          NumSlotsToLock,  \* NUM_SLOTS_TO_LOCK: 2^16 in the code
          ClusterSize,     \* CLUSTER_SIZE: 2^14 in the code
          XnSlots,         \* metadata->xnslots
          StartSlots,      \* the buckets or slots operations start at
          Kinds,           \* the operations that run
          MaxOps           \* bound: how many are started

AllKinds == {"insert", "try_insert", "locked_insert", "extend", "remove"}

ASSUME LocksAssumption ==
    /\ NumSlotsToLock \in Nat \ {0}
    /\ ClusterSize \in 1 .. NumSlotsToLock
    /\ XnSlots \in Nat \ {0}
    /\ StartSlots \subseteq 0 .. XnSlots - 1
    /\ Kinds \subseteq AllKinds
    /\ MaxOps \in Nat

VARIABLES locks,            \* runtimedata->locks
          pc, op,           \* where each thread is, and in which operation
          need, held,       \* the locks it has yet to take, and those it has
          seen,             \* the noccupied_slots it read
          occupied,         \* slot -> items stored by operations started there
          noccupied_slots,  \* metadata->noccupied_slots
          used,             \* the slots really used
          started           \* the operations started

vars == <<locks, pc, op, need, held, seen, occupied, noccupied_slots, used, started>>

Regions == 0 .. XnSlots \div NumSlotsToLock + 1
Operations == [kind : Kinds, slot : StartSlots]

Region(slot) == slot \div NumSlotsToLock

\* extend is insert_and_extend, locked_insert the qf_lock around
\* qf_splinter_insert in thread_splinter_insert_keys.
IsSmall(o) == o.kind \in {"insert", "try_insert"}
Waits(o) == o.kind \in {"insert", "remove"}         \* QF_WAIT_FOR_LOCK

\* Mutant: a small operation locks its own region only.
LockSet_NoBorder(o) ==
    IF IsSmall(o) THEN {Region(o.slot)} ELSE {Region(o.slot), Region(o.slot) + 1}

\* Mutant: without hash_bucket_index >= NUM_SLOTS_TO_LOCK.
LockSet_NoLowerEnd(o) ==
    IF IsSmall(o) THEN {Region(o.slot), Region(o.slot) + 1}
    ELSE {Region(o.slot) - 1, Region(o.slot), Region(o.slot) + 1}

LockSet(o) ==
    LET r == Region(o.slot)
        offset == o.slot % NumSlotsToLock
    IN IF IsSmall(o)
       THEN {r} \union {s \in {r + 1} : NumSlotsToLock - offset <= ClusterSize}
       ELSE {r, r + 1} \union
            {s \in {r - 1} : o.slot >= NumSlotsToLock /\ offset <= ClusterSize}

Init ==
    /\ locks = [r \in Regions |-> 0]
    /\ pc = [t \in Threads |-> "idle"]
    /\ op \in [Threads -> {[kind |-> "none", slot |-> 0]}]
    /\ need = [t \in Threads |-> {}]
    /\ held = [t \in Threads |-> {}]
    /\ seen = [t \in Threads |-> 0]
    /\ occupied = [s \in StartSlots |-> 0]
    /\ noccupied_slots = 0
    /\ used = 0
    /\ started = 0

-----------------------------------------------------------------------------
Start(t, o) ==
    /\ pc[t] = "idle"
    /\ started < MaxOps
    /\ started' = started + 1
    /\ pc' = [pc EXCEPT ![t] = "locking"]
    /\ op' = [op EXCEPT ![t] = o]
    /\ need' = [need EXCEPT ![t] = LockSet(o)]
    /\ UNCHANGED <<locks, held, seen, occupied, noccupied_slots, used>>

\* Mutant: locks taken in any order.
IsLowest_Any(r, S) == r \in S

IsLowest(r, S) == r \in S /\ \A s \in S : r <= s
IsHighest(r, S) == r \in S /\ \A s \in S : s <= r

\* qf_spin_lock on the next region, free.
TakeLock(t, r) ==
    /\ pc[t] = "locking"
    /\ IsLowest(r, need[t])
    /\ locks[r] = 0
    /\ locks' = [locks EXCEPT ![r] = 1]
    /\ held' = [held EXCEPT ![t] = @ \union {r}]
    /\ need' = [need EXCEPT ![t] = @ \ {r}]
    /\ pc' = [pc EXCEPT ![t] = IF need[t] = {r} THEN "working" ELSE "locking"]
    /\ UNCHANGED <<op, seen, occupied, noccupied_slots, used, started>>

\* qf_spin_lock on the next region, busy, without QF_WAIT_FOR_LOCK.
GiveUp(t, r) ==
    /\ pc[t] = "locking"
    /\ IsLowest(r, need[t])
    /\ locks[r] = 1
    /\ ~Waits(op[t])
    /\ pc' = [pc EXCEPT ![t] = "giving_up"]
    /\ need' = [need EXCEPT ![t] = {}]
    /\ UNCHANGED <<locks, op, held, seen, occupied, noccupied_slots, used, started>>

\* Only _remove looks for something that may be missing.
Finds(t) == op[t].kind = "remove" => occupied[op[t].slot] > 0

\* The operation itself, up to the point where it reads the counter.
Work(t) ==
    /\ pc[t] = "working"
    /\ Finds(t)
    /\ occupied' = [occupied EXCEPT ![op[t].slot] =
                       IF op[t].kind = "remove" THEN @ - 1
                       ELSE IF op[t].kind = "extend" THEN @ ELSE @ + 1]
    /\ used' = IF op[t].kind = "remove" THEN used - 1 ELSE used + 1
    /\ seen' = [seen EXCEPT ![t] = noccupied_slots]
    /\ pc' = [pc EXCEPT ![t] = "counting"]
    /\ UNCHANGED <<locks, op, need, held, noccupied_slots, started>>

\* _remove on a bucket that is not occupied returns at once: with its locks.
RemoveNothing(t) ==
    /\ pc[t] = "working"
    /\ ~Finds(t)
    /\ pc' = [pc EXCEPT ![t] = "idle"]
    /\ held' = [held EXCEPT ![t] = {}]
    /\ UNCHANGED <<locks, op, need, seen, occupied, noccupied_slots, used, started>>

\* Nothing matches, or the scan met the end of the filter: the call ends with
\* the filter as it was.
NothingDone(t) ==
    /\ pc[t] = "working"
    /\ Finds(t)
    /\ pc' = [pc EXCEPT ![t] = "unlocking"]
    /\ UNCHANGED <<locks, op, need, held, seen, occupied, noccupied_slots, used, started>>

\* The second half of noccupied_slots++ (or -=).
Count(t) ==
    /\ pc[t] = "counting"
    /\ noccupied_slots' = IF op[t].kind = "remove" THEN seen[t] - 1 ELSE seen[t] + 1
    /\ pc' = [pc EXCEPT ![t] = "unlocking"]
    /\ UNCHANGED <<locks, op, need, held, seen, occupied, used, started>>

ReleaseLock(t, r) ==
    /\ pc[t] \in {"unlocking", "giving_up"}
    /\ IsHighest(r, held[t])
    /\ locks' = [locks EXCEPT ![r] = 0]
    /\ held' = [held EXCEPT ![t] = @ \ {r}]
    /\ UNCHANGED <<pc, op, need, seen, occupied, noccupied_slots, used, started>>

\* The call returns.  while (!qf_lock(...)) tries again.
Return(t) ==
    /\ pc[t] \in {"unlocking", "giving_up"}
    /\ held[t] = {}
    /\ LET again == pc[t] = "giving_up" /\ op[t].kind = "locked_insert" IN
       /\ pc' = [pc EXCEPT ![t] = IF again THEN "locking" ELSE "idle"]
       /\ need' = [need EXCEPT ![t] = IF again THEN LockSet(op[t]) ELSE {}]
    /\ UNCHANGED <<locks, op, held, seen, occupied, noccupied_slots, used, started>>

Step(t) ==
    \/ \E r \in Regions : TakeLock(t, r) \/ GiveUp(t, r) \/ ReleaseLock(t, r)
    \/ Work(t)
    \/ RemoveNothing(t)
    \/ NothingDone(t)
    \/ Count(t)
    \/ Return(t)

Next == \E t \in Threads : Step(t) \/ \E o \in Operations : Start(t, o)

Spec == Init /\ [][Next]_vars

\* Every thread runs on; a spin lock promises nothing beyond that.
FairSpec == Spec /\ \A t \in Threads : WF_vars(Step(t))

-----------------------------------------------------------------------------
\* The threads and locks are in states the code knows: no lock index below 0
\* or past num_locks is ever asked for.
TypeOK ==
    /\ locks \in [Regions -> {0, 1}]
    /\ pc \in [Threads -> {"idle", "locking", "giving_up", "working", "counting", "unlocking"}]
    /\ op \in [Threads -> Operations \union {[kind |-> "none", slot |-> 0]}]
    /\ \A t \in Threads : pc[t] # "idle" => op[t] \in Operations
    /\ need \in [Threads -> SUBSET Regions]
    /\ held \in [Threads -> SUBSET Regions]
    /\ seen \in [Threads -> Int]
    /\ occupied \in [StartSlots -> Int]
    /\ {noccupied_slots, used} \subseteq Int
    /\ started \in 0 .. MaxOps

(***************************************************************************)
(* No two operations are at work on the same slot.  An insertion may write *)
(* the ClusterSize slots from its bucket on (the code's own limit on a     *)
(* cluster), a large operation those before its slot as well: the locks    *)
(* qf_lock takes at a region's border are the ones needed.                 *)
(***************************************************************************)
Touched(o) ==
    IF IsSmall(o) THEN o.slot .. o.slot + ClusterSize - 1
    ELSE {s \in o.slot - ClusterSize .. o.slot + ClusterSize - 1 : s >= 0}

AtWork(t) == pc[t] \in {"working", "counting"}

Exclusion ==
    \A t, u \in Threads :
        t # u /\ AtWork(t) /\ AtWork(u) => Touched(op[t]) \intersect Touched(op[u]) = {}

\* A lock that is set is held by an operation that will release it.
NoOrphanLock == \A r \in Regions : locks[r] = 1 => \E t \in Threads : r \in held[t]

(***************************************************************************)
(* When no operation is under way, metadata->noccupied_slots is the number *)
(* of slots used.                                                          *)
(***************************************************************************)
CountExact == (\A t \in Threads : pc[t] = "idle") => noccupied_slots = used

(***************************************************************************)
(* The threads neither wait for each other in a circle nor wait for a lock *)
(* nobody will release: once no more operations are started, every one     *)
(* that waits gets its locks, works and returns.                           *)
(***************************************************************************)
EveryCallReturns == \A t \in Threads : pc[t] = "locking" /\ Waits(op[t]) ~> pc[t] = "idle"

(***************************************************************************)
(* The same of all operations together, as long as _remove has not left a  *)
(* lock behind (run remove_keeps_locks): the order of the locks and giving *)
(* all of them back keeps everyone going.                                  *)
(***************************************************************************)
ReturnsUnlessOrphaned == []NoOrphanLock => EveryCallReturns
=============================================================================
