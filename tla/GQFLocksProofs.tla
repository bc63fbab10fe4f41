--------------------------- MODULE GQFLocksProofs ---------------------------
(***************************************************************************)
(* The region locks exclude each other's operations for every number of    *)
(* threads, every region and cluster size and every start slot.            *)
(*                                                                         *)
(* Exclusion is not inductive: it says nothing of an operation that is     *)
(* still taking its locks.  The inductive invariant says which locks an    *)
(* operation has at each point and that no lock is held twice; that those  *)
(* locks cover every slot the operation touches is arithmetic.             *)
(***************************************************************************)
EXTENDS GQFLocks, TLAPS

\* Division and remainder by a positive number.
LEMMA DivFacts ==
    ASSUME NEW n \in Nat \ {0}, NEW s \in Nat
    PROVE  /\ s \div n \in Nat
           /\ s % n \in 0 .. n - 1
           /\ s = n * (s \div n) + (s % n)
  OBVIOUS

\* The quotient is the one multiple that fits.
LEMMA DivUnique ==
    ASSUME NEW n \in Nat \ {0}, NEW s \in Nat, NEW q \in Int, n * q <= s, s < n * q + n
    PROVE  s \div n = q
  <1>. DEFINE p == s \div n
  <1>1. p \in Nat /\ n * p <= s /\ s < n * p + n
    BY DivFacts
  <1>. HIDE DEF p
  <1>2. CASE p < q
    <2>1. n * (p + 1) <= n * q
      BY <1>1, <1>2
    <2>2. n * (p + 1) = n * p + n
      BY <1>1
    <2>. QED
      BY <1>1, <2>1, <2>2
  <1>3. CASE q < p
    <2>1. n * (q + 1) <= n * p
      BY <1>1, <1>3
    <2>2. n * (q + 1) = n * q + n
      OBVIOUS
    <2>. QED
      BY <1>1, <2>1, <2>2
  <1>. QED
    BY <1>1, <1>2, <1>3 DEF p

\* A slot less than a region away from slot is in its region or a neighbour's,
\* and which one it is shows in slot's offset.
LEMMA NearbyRegion ==
    ASSUME NEW slot \in Nat, NEW s \in Nat,
           slot - ClusterSize <= s, s < slot + ClusterSize
    PROVE  \/ Region(s) = Region(slot)
           \/ /\ Region(s) = Region(slot) + 1
              /\ slot < s
              /\ NumSlotsToLock - (slot % NumSlotsToLock) <= ClusterSize
           \/ /\ Region(s) = Region(slot) - 1
              /\ s < slot
              /\ slot >= NumSlotsToLock
              /\ slot % NumSlotsToLock <= ClusterSize
  <1>. DEFINE n == NumSlotsToLock
              c == ClusterSize
              r == slot \div n
              d == slot % n
  <1>1. n \in Nat \ {0} /\ c \in 1 .. n
    BY LocksAssumption
  <1>2. r \in Nat /\ d \in 0 .. n - 1 /\ slot = n * r + d
    BY <1>1, DivFacts
  <1>3. n * (r + 1) = n * r + n /\ n * (r - 1) = n * r - n
    BY <1>1, <1>2
  <1>. HIDE DEF n, c, r, d
  <1>4. CASE n * r <= s /\ s < n * r + n
    <2>1. s \div n = r
      BY <1>1, <1>2, <1>4, DivUnique
    <2>. QED
      BY <2>1 DEF Region, n, r
  <1>5. CASE s >= n * r + n
    <2>1. s < n * r + n + n /\ slot < s /\ n - d <= c
      BY <1>1, <1>2, <1>5 DEF c
    <2>2. r + 1 \in Int /\ n * (r + 1) <= s /\ s < n * (r + 1) + n
      BY <1>2, <1>3, <1>5, <2>1
    <2>3. s \div n = r + 1
      BY <1>1, <2>2, DivUnique
    <2>. QED
      BY <2>1, <2>3 DEF Region, n, r, d, c
  <1>6. CASE s < n * r
    <2>1. n * r - n <= s /\ s < slot /\ d <= c
      BY <1>1, <1>2, <1>6 DEF c
    <2>2. r - 1 \in Int /\ n * (r - 1) <= s /\ s < n * (r - 1) + n
      BY <1>1, <1>2, <1>3, <1>6, <2>1
    <2>3. s \div n = r - 1
      BY <1>1, <2>2, DivUnique
    <2>4. r >= 1 /\ n * r >= n
      <3>1. r # 0
        BY <1>1, <1>2, <1>6
      <3>2. n * (r - 1) >= 0
        BY <1>1, <1>2, <3>1
      <3>. QED
        BY <1>1, <1>2, <1>3, <3>1, <3>2
    <2>5. slot >= n
      BY <1>1, <1>2, <2>4
    <2>. QED
      BY <2>1, <2>3, <2>5 DEF Region, n, r, d, c
  <1>. QED
    BY <1>1, <1>2, <1>4, <1>5, <1>6

\* An operation starts at a slot of the filter.
LEMMA OperationStarts ==
    ASSUME NEW o \in Operations
    PROVE  o.slot \in Nat /\ o.slot < XnSlots
  <1>1. o.slot \in StartSlots
    BY DEF Operations
  <1>2. o.slot \in 0 .. XnSlots - 1 /\ XnSlots \in Nat
    BY <1>1, LocksAssumption
  <1>. QED
    BY <1>2

\* An operation holds the lock of the region of every slot it touches.
LEMMA LocksCover ==
    ASSUME NEW o \in Operations, NEW s \in Touched(o)
    PROVE  Region(s) \in LockSet(o)
  <1>1. /\ o.slot \in Nat
        /\ ClusterSize \in Nat
        /\ s \in Nat
        /\ o.slot - ClusterSize <= s /\ s < o.slot + ClusterSize
        /\ IsSmall(o) => o.slot <= s
    <2>1. o.slot \in Nat /\ ClusterSize \in Nat /\ ClusterSize > 0
      BY OperationStarts, LocksAssumption
    <2>. QED
      BY <2>1 DEF Touched
  <1>2. \/ Region(s) = Region(o.slot)
        \/ /\ Region(s) = Region(o.slot) + 1
           /\ NumSlotsToLock - (o.slot % NumSlotsToLock) <= ClusterSize
        \/ /\ Region(s) = Region(o.slot) - 1
           /\ ~IsSmall(o)
           /\ o.slot >= NumSlotsToLock
           /\ o.slot % NumSlotsToLock <= ClusterSize
    BY <1>1, NearbyRegion
  <1>. QED
    BY <1>2 DEF LockSet

\* Every lock an operation takes exists.
LEMMA LocksExist ==
    ASSUME NEW o \in Operations
    PROVE  LockSet(o) \subseteq Regions
  <1>. DEFINE n == NumSlotsToLock
              r == o.slot \div n
              x == XnSlots \div n
  <1>1. n \in Nat \ {0} /\ o.slot \in Nat /\ XnSlots \in Nat /\ o.slot < XnSlots
    BY OperationStarts, LocksAssumption
  <1>2. r \in Nat /\ o.slot % n \in 0 .. n - 1 /\ o.slot = n * r + (o.slot % n)
    BY <1>1, DivFacts
  <1>3. x \in Nat /\ XnSlots % n \in 0 .. n - 1 /\ XnSlots = n * x + (XnSlots % n)
    BY <1>1, DivFacts
  <1>. HIDE DEF n, r, x
  <1>4. r <= x
    <2>1. SUFFICES ASSUME x + 1 <= r PROVE FALSE
      BY <1>2, <1>3
    <2>2. n * (x + 1) <= n * r
      BY <1>1, <1>2, <1>3, <2>1
    <2>3. n * (x + 1) = n * x + n
      BY <1>1, <1>3
    <2>. QED
      BY <1>1, <1>2, <1>3, <2>2, <2>3
  <1>5. o.slot >= n => r >= 1
    BY <1>1, <1>2
  <1>. QED
    BY <1>2, <1>3, <1>4, <1>5 DEF LockSet, Regions, Region, n, r, x

-----------------------------------------------------------------------------
\* The locks of an operation are set and are its own, and at work it has all
\* of them.
LocksHeld == \A t \in Threads : \A r \in held[t] : locks[r] = 1
HeldOnce == \A t, u \in Threads : t # u => held[t] \intersect held[u] = {}
HasOrNeeds ==
    \A t \in Threads :
        /\ pc[t] = "locking" => held[t] \union need[t] = LockSet(op[t])
        /\ AtWork(t) => held[t] = LockSet(op[t])

IdleHoldsNothing == \A t \in Threads : pc[t] = "idle" => held[t] = {}

IInv == TypeOK /\ LocksHeld /\ HeldOnce /\ HasOrNeeds /\ IdleHoldsNothing

\* Two operations at work hold the locks of what they touch, and no lock twice.
LEMMA ExclusionFollows == IInv => Exclusion
  <1>. SUFFICES ASSUME IInv, NEW t \in Threads, NEW u \in Threads, t # u, AtWork(t), AtWork(u),
                       NEW s \in Touched(op[t]) \intersect Touched(op[u])
                PROVE  FALSE
    BY DEF Exclusion
  <1>1. op[t] \in Operations /\ op[u] \in Operations
    BY DEF IInv, TypeOK, AtWork
  <1>2. Region(s) \in held[t] /\ Region(s) \in held[u]
    BY <1>1, LocksCover DEF IInv, HasOrNeeds
  <1>. QED
    BY <1>2 DEF IInv, HeldOnce

\* The inductive invariant holds at first, and every action keeps it.
LEMMA IInvInit == Init => IInv
  BY LocksAssumption DEF Init, IInv, TypeOK, LocksHeld, HeldOnce, HasOrNeeds, IdleHoldsNothing, AtWork

\* Start asks for locks that exist and holds none.
LEMMA IInvStart ==
    ASSUME IInv, NEW t \in Threads, NEW o \in Operations, Start(t, o)
    PROVE  IInv'
  <1>1. LockSet(o) \subseteq Regions
    BY LocksExist
  <1>2. held[t] = {}
    BY DEF IInv, Start, IdleHoldsNothing
  <1>3. TypeOK'
    BY <1>1, LocksAssumption DEF IInv, TypeOK, Start
  <1>4. LocksHeld' /\ HeldOnce' /\ IdleHoldsNothing'
    BY DEF IInv, LocksHeld, HeldOnce, IdleHoldsNothing, Start, TypeOK
  <1>5. HasOrNeeds'
    BY <1>2 DEF IInv, TypeOK, HasOrNeeds, Start, AtWork
  <1>. QED
    BY <1>3, <1>4, <1>5 DEF IInv

\* A lock that is taken was free, so nobody held it.
LEMMA IInvTakeLock ==
    ASSUME IInv, NEW t \in Threads, NEW r \in Regions, TakeLock(t, r)
    PROVE  IInv'
  <1>1. TypeOK'
    BY DEF IInv, TypeOK, TakeLock
  <1>2. \A u \in Threads : r \notin held[u]
    BY DEF IInv, LocksHeld, TakeLock
  <1>3. LocksHeld' /\ IdleHoldsNothing'
    BY DEF IInv, LocksHeld, IdleHoldsNothing, TakeLock, TypeOK
  <1>4. HeldOnce'
    BY <1>2 DEF IInv, HeldOnce, TakeLock, TypeOK
  <1>5. HasOrNeeds'
    <2>1. held[t] \union need[t] = LockSet(op[t]) /\ r \in need[t]
      BY DEF IInv, HasOrNeeds, TakeLock, IsLowest
    <2>2. held'[t] \union need'[t] = LockSet(op[t])
      BY <2>1 DEF TakeLock, IInv, TypeOK
    <2>3. pc'[t] = "working" => held'[t] = LockSet(op[t])
      BY <2>1 DEF TakeLock, IInv, TypeOK
    <2>4. pc'[t] \in {"working", "locking"}
      BY DEF TakeLock, IInv, TypeOK
    <2>5. \A u \in Threads : u # t => pc'[u] = pc[u] /\ held'[u] = held[u] /\ need'[u] = need[u]
      BY DEF TakeLock, IInv, TypeOK
    <2>6. op' = op
      BY DEF TakeLock
    <2>7. ASSUME NEW u \in Threads
          PROVE  /\ pc'[u] = "locking" => held'[u] \union need'[u] = LockSet(op[u])
                 /\ pc'[u] \in {"working", "counting"} => held'[u] = LockSet(op[u])
      <3>1. CASE u = t
        BY <3>1, <2>2, <2>3, <2>4
      <3>2. CASE u # t
        BY <3>2, <2>5 DEF IInv, HasOrNeeds, AtWork
      <3>. QED
        BY <3>1, <3>2
    <2>8. \A u \in Threads : LockSet(op[u])' = LockSet(op[u])
      BY <2>6
    <2>. QED
      BY <2>7, <2>8 DEF HasOrNeeds, AtWork
  <1>. QED
    BY <1>1, <1>3, <1>4, <1>5 DEF IInv

\* A lock that is released is held by nobody else.
LEMMA IInvReleaseLock ==
    ASSUME IInv, NEW t \in Threads, NEW r \in Regions, ReleaseLock(t, r)
    PROVE  IInv'
  <1>1. TypeOK'
    BY DEF IInv, TypeOK, ReleaseLock
  <1>2. r \in held[t] /\ \A u \in Threads : u # t => r \notin held[u]
    BY DEF IInv, HeldOnce, ReleaseLock, IsHighest
  <1>3. LocksHeld' /\ HeldOnce' /\ IdleHoldsNothing'
    BY <1>2 DEF IInv, LocksHeld, HeldOnce, IdleHoldsNothing, ReleaseLock, TypeOK
  <1>4. HasOrNeeds'
    BY DEF IInv, HasOrNeeds, ReleaseLock, TypeOK, AtWork
  <1>. QED
    BY <1>1, <1>3, <1>4 DEF IInv

\* The steps in which a thread changes what it does and neither takes nor
\* releases a lock.
LEMMA IInvOther ==
    ASSUME IInv, NEW t \in Threads,
           \/ \E r \in Regions : GiveUp(t, r)
           \/ Work(t)
           \/ NothingDone(t)
           \/ Count(t)
    PROVE  IInv'
  <1>1. CASE \E r \in Regions : GiveUp(t, r)
    BY <1>1 DEF IInv, TypeOK, LocksHeld, HeldOnce, IdleHoldsNothing, HasOrNeeds, AtWork, GiveUp
  <1>2. CASE Work(t)
    <2>1. op[t] \in Operations
      BY <1>2 DEF IInv, TypeOK, Work
    <2>2. TypeOK'
      BY <1>2, <2>1 DEF IInv, TypeOK, Work, Operations
    <2>. QED
      BY <1>2, <2>2 DEF IInv, TypeOK, LocksHeld, HeldOnce, IdleHoldsNothing, HasOrNeeds, AtWork, Work
  <1>3. CASE Count(t)
    BY <1>3 DEF IInv, TypeOK, LocksHeld, HeldOnce, IdleHoldsNothing, HasOrNeeds, AtWork, Count
  <1>4. CASE NothingDone(t)
    BY <1>4 DEF IInv, TypeOK, LocksHeld, HeldOnce, IdleHoldsNothing, HasOrNeeds, AtWork, NothingDone
  <1>. QED
    BY <1>1, <1>2, <1>3, <1>4

\* _remove's early return forgets its locks, which stay set.
LEMMA IInvRemoveNothing ==
    ASSUME IInv, NEW t \in Threads, RemoveNothing(t)
    PROVE  IInv'
  BY DEF IInv, TypeOK, LocksHeld, HeldOnce, IdleHoldsNothing, HasOrNeeds, AtWork, RemoveNothing

\* A call that tries again asks for the same locks again.
LEMMA IInvReturn ==
    ASSUME IInv, NEW t \in Threads, Return(t)
    PROVE  IInv'
  <1>1. op[t] \in Operations
    BY DEF IInv, TypeOK, Return
  <1>2. LockSet(op[t]) \subseteq Regions
    BY <1>1, LocksExist
  <1>3. TypeOK'
    BY <1>1, <1>2 DEF IInv, TypeOK, Return
  <1>4. LocksHeld' /\ HeldOnce' /\ IdleHoldsNothing'
    BY DEF IInv, TypeOK, LocksHeld, HeldOnce, IdleHoldsNothing, Return
  <1>5. HasOrNeeds'
    BY DEF IInv, TypeOK, HasOrNeeds, AtWork, Return
  <1>. QED
    BY <1>3, <1>4, <1>5 DEF IInv

-----------------------------------------------------------------------------
\* Every step of every thread keeps the inductive invariant.
LEMMA IInvNext == IInv /\ [Next]_vars => IInv'
  <1>. SUFFICES ASSUME IInv, [Next]_vars PROVE IInv'
    OBVIOUS
  <1>1. ASSUME NEW t \in Threads, NEW o \in Operations, Start(t, o) PROVE IInv'
    BY <1>1, IInvStart
  <1>2. ASSUME NEW t \in Threads, Step(t) PROVE IInv'
    BY <1>2, IInvTakeLock, IInvReleaseLock, IInvOther, IInvRemoveNothing, IInvReturn DEF Step
  <1>3. CASE UNCHANGED vars
    BY <1>3 DEF vars, IInv, TypeOK, LocksHeld, HeldOnce, IdleHoldsNothing, HasOrNeeds, AtWork
  <1>. QED
    BY <1>1, <1>2, <1>3 DEF Next

\* No operation ever asks for a lock outside the array of locks, whatever the
\* sizes of regions and clusters.
THEOREM LocksInRange == Spec => []TypeOK
  <1>1. IInv => TypeOK
    BY DEF IInv
  <1>. QED
    BY <1>1, IInvInit, IInvNext, PTL DEF Spec

\* No two operations are ever at work on the same slot, for every number of
\* threads and every size of regions and clusters.
THEOREM OperationsExclude == Spec => []Exclusion
  BY IInvInit, IInvNext, ExclusionFollows, PTL DEF Spec
=============================================================================
