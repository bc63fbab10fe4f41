---------------------------- MODULE MinirunProofs ----------------------------
(***************************************************************************)
(* What insertions, charges and adaptations do to the items of a minirun,  *)
(* for every size of filter: whatever key is filed behind an item is still *)
(* found there afterwards.                                                 *)
(*                                                                         *)
(* A write puts a slot in and moves others up (Moved, PutIn); the slots of *)
(* an item move together (Carries).  Lists names the items of a minirun in *)
(* their order, Filed says that the keys of a row of the reverse map stand *)
(* behind these items by their rank, each with a hash that begins with     *)
(* its item's fingerprint and extension, and Tidy says so of all rows of a *)
(* filter in shape with its runs in order.  An insertion adds an item in   *)
(* front (InsertionEnters); a charge, and an adaptation of the item that a *)
(* query found and the key that is filed behind it, leave every row filed  *)
(* (ChargeTidies, TableAdaptTidies); and a key that is filed is found      *)
(* (FiledFound).                                                           *)
(*                                                                         *)
(* The counter slots stand for the rent paid: a charge makes one, an       *)
(* adaptation makes none or, when it overwrites the counter it found, has  *)
(* one less (AdaptCounts), and what GQFLayout's Charges adds up over all   *)
(* items is their number (ChargesAreCounters).                             *)
(*                                                                         *)
(* Read as records (ItemAt), the items of all miniruns stay what they      *)
(* are, but for the one that is charged (ChargeShows) or made longer       *)
(* (AdaptShows), which changes as a record would; SlotsListed says that    *)
(* the list of a minirun is how GQFLayout reads it off the bits.  What     *)
(* adapt() appends ends with the first chunk that tells the two hashes     *)
(* apart (RoundsIs).                                                       *)
(***************************************************************************)
EXTENDS GQFProofs

-----------------------------------------------------------------------------
(***************************************************************************)
(* A slot put in                                                           *)
(***************************************************************************)
\* Slot j of new holds what slot i of qf did.
Carried(qf, h, i, new, g, j) ==
    /\ g[j] = h[i] /\ new.slots[j] = qf.slots[i]
    /\ j \in new.extensions <=> i \in qf.extensions
    /\ j \in new.extensions \intersect new.runends <=> i \in qf.extensions \intersect qf.runends

\* new is qf with value put in at slot at for home q, and everything from there
\* to the free slot u moved up by one.
Moved(qf, U, h, at, u, q, value, new, g) ==
    /\ at \in Nat /\ at \in U \cup {u} /\ FreeFrom(U, at, u) /\ at \notin qf.extensions
    /\ g[at] = q /\ new.slots[at] = value
    /\ \A i \in U : Up(at, u, i) \in U \cup {u} /\ Carried(qf, h, i, new, g, Up(at, u, i))
    /\ \A j \in U \cup {u} : j # at => \E i \in U : j = Up(at, u, i)

\* Moving up keeps the order and leaves the slot at.
LEMMA UpOrder ==
    ASSUME NEW U \in SUBSET Nat, NEW at \in Nat, NEW u, FreeFrom(U, at, u)
    PROVE  /\ \A i \in U : /\ Up(at, u, i) \in Nat /\ Up(at, u, i) # at
                           /\ i < at => Up(at, u, i) = i
                           /\ at <= i => at < Up(at, u, i)
           /\ \A i, j \in U : /\ i < j <=> Up(at, u, i) < Up(at, u, j)
                              /\ i = j <=> Up(at, u, i) = Up(at, u, j)
  <1>1. u \in Nat /\ u \notin U /\ at <= u
    BY DEF FreeFrom
  <1>2. ASSUME NEW i \in U
        PROVE  /\ i \in Nat /\ i # u
               /\ (i < at \/ u < i) => Up(at, u, i) = i
               /\ (at <= i /\ i < u) => Up(at, u, i) = i + 1
               /\ i < at \/ u < i \/ (at <= i /\ i < u)
    <2>1. i \in Nat /\ i # u
      BY <1>1
    <2>2. Up(at, u, i) = IF at <= i /\ i < u THEN i + 1 ELSE i
      BY DEF Up
    <2>. QED
      BY <1>1, <2>1, <2>2
  <1>3. ASSUME NEW i \in U
        PROVE  /\ Up(at, u, i) \in Nat /\ Up(at, u, i) # at
               /\ i < at => Up(at, u, i) = i
               /\ at <= i => at < Up(at, u, i)
    BY <1>1, <1>2
  <1>4. ASSUME NEW i \in U, NEW j \in U
        PROVE  /\ i < j <=> Up(at, u, i) < Up(at, u, j)
               /\ i = j <=> Up(at, u, i) = Up(at, u, j)
    BY <1>1, <1>2
  <1>. QED
    BY <1>3, <1>4

\* slots are those of qf with value put in at at.
SlotsUp(qf, U, at, u, value, slots) == slots[at] = value /\ \A i \in U : slots[Up(at, u, i)] = qf.slots[i]

\* The slots after make_space.
LEMMA ShiftedAt ==
    ASSUME NEW qf, NEW U, U \in SUBSET Slots, NEW at, at \in Nat, NEW u, FreeFrom(U, at, u), u < PastEnd,
           NEW value, NEW slots, slots = ShiftedSlots(qf, at, u, value)
    PROVE  SlotsUp(qf, U, at, u, value, slots)
  <1>1. Slots = 0 .. PastEnd - 1 /\ PastEnd \in Nat
    BY Sizes
  <1>2. u \in Nat /\ u \notin U /\ at <= u /\ at \in Slots
    BY <1>1 DEF FreeFrom
  <1>3. \A i \in Slots : slots[i] = IF i = at THEN value
                                    ELSE IF at < i /\ i <= u THEN qf.slots[i - 1] ELSE qf.slots[i]
    BY DEF ShiftedSlots
  <1>4. slots[at] = value
    BY <1>2, <1>3
  <1>5. ASSUME NEW i \in U PROVE slots[Up(at, u, i)] = qf.slots[i]
    <2>1. i \in Nat /\ i \in Slots /\ i # u
      BY <1>1, <1>2
    <2>2. CASE at <= i /\ i < u
      <3>1. Up(at, u, i) = i + 1 /\ i + 1 \in Slots /\ i + 1 # at /\ at < i + 1 /\ i + 1 <= u /\ (i + 1) - 1 = i
        BY <1>1, <1>2, <2>1, <2>2 DEF Up
      <3>. QED
        BY <1>3, <3>1
    <2>3. CASE ~(at <= i /\ i < u)
      <3>1. Up(at, u, i) = i /\ i # at /\ ~(at < i /\ i <= u)
        BY <1>1, <1>2, <2>1, <2>3 DEF Up
      <3>. QED
        BY <1>3, <2>1, <3>1
    <2>. QED
      BY <2>2, <2>3
  <1>. QED
    BY <1>4, <1>5 DEF SlotsUp

\* make_space and the bits set after it put a slot in.
LEMMA PutMoved ==
    ASSUME NEW qf, NEW U, NEW h, Shaped(qf, U, h), NEW q, NEW at, Placed(U, h, q, at), at \notin qf.extensions,
           NEW u, FreeFrom(U, at, u), u < PastEnd, NEW E \in SUBSET {at}, NEW value, NEW new,
           new.slots = ShiftedSlots(qf, at, u, value),
           new.extensions = ShiftBits(qf.extensions, at, u) \cup E,
           \A i \in qf.extensions : Up(at, u, i) \in new.runends <=> Up(at, u, i) \in ShiftBits(qf.runends, at, u)
    PROVE  Moved(qf, U, h, at, u, q, value, new, PutHomes(U, h, q, u))
  <1>. DEFINE g == PutHomes(U, h, q, u)
  <1>1. /\ Laid(U, h, PastEnd) /\ qf.extensions \in SUBSET U /\ qf.runends \in SUBSET U /\ U \in SUBSET Slots
    BY HomedTypes DEF Shaped, Homed
  <1>2. /\ \A i \in U : /\ Up(at, u, i) \in U \cup {u} /\ Up(at, u, i) # at
                        /\ g[Up(at, u, i)] = h[i]
        /\ \A i \in U \cup {u} : i # at => \E j \in U : i = Up(at, u, j)
        /\ \A X \in SUBSET U : \A i \in U : i \in X <=> Up(at, u, i) \in ShiftBits(X, at, u)
    <2>1. g = PutHomes(U, h, q, u)
      OBVIOUS
    <2>. HIDE DEF g
    <2>. QED
      BY <1>1, <2>1, UpFacts
  <1>3. at \in U \cup {u} /\ g[at] = q
    <2>1. g = PutHomes(U, h, q, u)
      OBVIOUS
    <2>. HIDE DEF g
    <2>. QED
      BY <1>1, <2>1, PutPlaces
  <1>4. at \in Nat
    BY DEF Placed
  <1>5. new.slots[at] = value /\ \A i \in U : new.slots[Up(at, u, i)] = qf.slots[i]
    <2>. DEFINE slots == new.slots
    <2>1. U \in SUBSET Slots /\ at \in Nat /\ FreeFrom(U, at, u) /\ u < PastEnd
          /\ slots = ShiftedSlots(qf, at, u, value)
      BY <1>1, <1>4
    <2>. HIDE DEF slots, g
    <2>2. SlotsUp(qf, U, at, u, value, slots)
      BY <2>1, ShiftedAt
    <2>. QED
      BY <2>2 DEF slots, SlotsUp
  <1>. HIDE DEF g
  <1>6. ASSUME NEW i \in U PROVE Carried(qf, h, i, new, g, Up(at, u, i))
    <2>1. Up(at, u, i) \in new.extensions <=> i \in qf.extensions
      BY <1>1, <1>2
    <2>2. i \in qf.extensions => (Up(at, u, i) \in new.runends <=> i \in qf.runends)
      BY <1>1, <1>2
    <2>. QED
      BY <1>2, <1>5, <2>1, <2>2 DEF Carried
  <1>7. Moved(qf, U, h, at, u, q, value, new, g)
    BY <1>2, <1>3, <1>4, <1>5, <1>6 DEF Moved
  <1>. QED
    BY <1>7 DEF g

\* So does an item put into its empty home slot, where nothing has to move.
LEMMA AloneMoved ==
    ASSUME NEW qf, NEW U, NEW h, Shaped(qf, U, h), NEW q \in Slots, q \notin U, NEW value, NEW new,
           new.slots = [qf.slots EXCEPT ![q] = value], new.extensions = qf.extensions, qf.extensions = {}
    PROVE  Moved(qf, U, h, q, q, q, value, new, AloneHomes(U, h, q))
  <1>. DEFINE g == AloneHomes(U, h, q)
  <1>1. U \in SUBSET Nat /\ q \in Nat /\ U \in SUBSET Slots /\ qf.slots \in [Slots -> SlotValues]
    BY HomedTypes, Sizes DEF Shaped, Filters
  <1>2. \A i \in U : Up(q, q, i) = i
    BY <1>1 DEF Up
  <1>3. g[q] = q /\ \A i \in U : g[i] = h[i]
    BY DEF AloneHomes
  <1>4. new.slots[q] = value /\ \A i \in U : new.slots[i] = qf.slots[i]
    BY <1>1
  <1>5. FreeFrom(U, q, q)
    BY <1>1 DEF FreeFrom
  <1>. HIDE DEF g
  <1>6. ASSUME NEW i \in U PROVE i \in U \cup {q} /\ Carried(qf, h, i, new, g, i)
    BY <1>3, <1>4 DEF Carried
  <1>7. Moved(qf, U, h, q, q, q, value, new, g)
    BY <1>1, <1>2, <1>3, <1>4, <1>5, <1>6 DEF Moved
  <1>. QED
    BY <1>7 DEF g

-----------------------------------------------------------------------------
(***************************************************************************)
(* Chunks that move                                                        *)
(***************************************************************************)
\* Filters in shape before and after a slot is put in.
PutIn(qf, U, h, at, u, q, value, new, g) ==
    Shaped(qf, U, h) /\ Moved(qf, U, h, at, u, q, value, new, g) /\ Shaped(new, U \cup {u}, g)

\* What is marked was marked before, next to the same slot, or is the new slot.
LEMMA MarkOrigin ==
    ASSUME NEW qf, NEW U, NEW h, NEW at, NEW u, NEW q, NEW value, NEW new, NEW g,
           PutIn(qf, U, h, at, u, q, value, new, g)
    PROVE  /\ U \in SUBSET Nat /\ at \in Nat /\ u \in Nat /\ u \notin U /\ at <= u
           /\ FreeFrom(U, at, u) /\ qf.extensions \in SUBSET U
           /\ \A k \in new.extensions : k # at =>
                 \E y \in qf.extensions : /\ y \in U /\ y \in Nat /\ y - 1 \in U /\ y - 1 \in Nat
                                          /\ Up(at, u, y) = k /\ Up(at, u, y - 1) = k - 1
           /\ at + 1 \notin new.extensions
  <1>1. /\ U \in SUBSET Nat /\ qf.extensions \in SUBSET U
        /\ \A i \in Nat : i + 1 \in qf.extensions => i \in U
        /\ \A i \in qf.extensions : i - 1 \in U
    BY ChunkFacts DEF PutIn, Shaped, Homed
  <1>2. new.extensions \in SUBSET (U \cup {u})
    BY ChunkFacts DEF PutIn
  <1>3. /\ at \in Nat /\ FreeFrom(U, at, u) /\ at \notin qf.extensions
        /\ \A i \in U : Carried(qf, h, i, new, g, Up(at, u, i))
        /\ \A j \in U \cup {u} : j # at => \E i \in U : j = Up(at, u, i)
    BY DEF PutIn, Moved
  <1>4. u \in Nat /\ u \notin U /\ at <= u
    BY <1>3 DEF FreeFrom
  <1>5. \A i \in U : /\ Up(at, u, i) \in Nat /\ Up(at, u, i) # at
    <2>1. U \in SUBSET Nat /\ at \in Nat /\ FreeFrom(U, at, u)
      BY <1>1, <1>3
    <2>. QED
      BY <2>1, UpOrder
  <1>6. ASSUME NEW k \in new.extensions, k # at
        PROVE  \E y \in qf.extensions : /\ y \in U /\ y \in Nat /\ y - 1 \in U /\ y - 1 \in Nat
                                        /\ Up(at, u, y) = k /\ Up(at, u, y - 1) = k - 1
    <2>1. PICK y \in U : k = Up(at, u, y)
      BY <1>2, <1>3, <1>6
    <2>2. y \in qf.extensions
      BY <1>3, <1>6, <2>1 DEF Carried
    <2>3. y \in Nat /\ y - 1 \in U /\ y - 1 \in Nat
      BY <1>1, <2>1, <2>2
    <2>4. y # at /\ y # u /\ y - 1 # u
      BY <1>3, <1>4, <2>1, <2>2, <2>3
    <2>5. Up(at, u, y - 1) = k - 1
      BY <1>3, <1>4, <2>1, <2>3, <2>4 DEF Up
    <2>. QED
      BY <2>1, <2>2, <2>3, <2>5
  <1>7. at + 1 \notin new.extensions
    <2>1. SUFFICES ASSUME at + 1 \in new.extensions PROVE FALSE
      OBVIOUS
    <2>2. at + 1 # at /\ (at + 1) - 1 = at
      BY <1>3
    <2>3. PICK y \in qf.extensions : y - 1 \in U /\ Up(at, u, y - 1) = (at + 1) - 1
      BY <1>6, <2>1, <2>2
    <2>. QED
      BY <1>5, <2>2, <2>3
  <1>. QED
    BY <1>1, <1>3, <1>4, <1>6, <1>7

\* Everything behind j up to s is a chunk.
ChunkTo(qf, j, s) == j < s /\ \A k \in Nat : j < k /\ k <= s => k \in qf.extensions \ qf.runends

\* Everything between j and at is a chunk, and at is a new one.
NewChunk(qf, j, at, new) ==
    /\ j < at /\ at \in new.extensions \ new.runends
    /\ \A k \in Nat : j < k /\ k < at => k \in qf.extensions \ qf.runends

\* A chunk behind the slot of an item is the new slot, or was as far behind it
\* before.
LEMMA ChunkOrigin ==
    ASSUME NEW qf, NEW U, NEW h, NEW at, NEW u, NEW q, NEW value, NEW new, NEW g,
           PutIn(qf, U, h, at, u, q, value, new, g),
           NEW j \in U, NEW s \in Nat, ChunkTo(new, Up(at, u, j), s)
    PROVE  \/ s = at /\ Up(at, u, j) = j /\ NewChunk(qf, j, at, new)
           \/ \E d \in U : d \in Nat /\ ChunkTo(qf, j, d) /\ s = Up(at, u, d) /\ s - Up(at, u, j) = d - j
  <1>1. /\ U \in SUBSET Nat /\ at \in Nat /\ u \in Nat /\ u \notin U /\ at <= u
        /\ FreeFrom(U, at, u) /\ qf.extensions \in SUBSET U
        /\ \A k \in new.extensions : k # at =>
              \E y \in qf.extensions : /\ y \in U /\ y \in Nat /\ y - 1 \in U /\ y - 1 \in Nat
                                       /\ Up(at, u, y) = k /\ Up(at, u, y - 1) = k - 1
        /\ at + 1 \notin new.extensions
    BY MarkOrigin
  <1>. DEFINE a == Up(at, u, j)
  <1>2. /\ j \in Nat /\ j # u /\ a \in Nat /\ a # at
        /\ j < at => a = j
        /\ at <= j => at < a
        /\ a = IF at <= j /\ j < u THEN j + 1 ELSE j
    BY <1>1, UpOrder DEF Up
  <1>3. a < s /\ \A k \in Nat : a < k /\ k <= s => k \in new.extensions \ new.runends
    BY DEF ChunkTo
  <1>4. \A i \in U : Carried(qf, h, i, new, g, Up(at, u, i))
    BY DEF PutIn, Moved
  <1>. HIDE DEF a
  \* A chunk in front of or behind at comes from one.
  <1>5. ASSUME NEW k \in Nat, a < k, k <= s, k # at
        PROVE  \E y \in Nat : /\ y \in U /\ y \in qf.extensions \ qf.runends /\ Up(at, u, y) = k
                              /\ y # at /\ y # u /\ y - 1 # u
    <2>1. k \in new.extensions \ new.runends
      BY <1>3, <1>5
    <2>2. PICK y \in qf.extensions : /\ y \in U /\ y \in Nat /\ y - 1 \in U
                                     /\ Up(at, u, y) = k /\ Up(at, u, y - 1) = k - 1
      BY <1>1, <1>5, <2>1
    <2>3. y \notin qf.runends
      BY <1>4, <2>1, <2>2 DEF Carried
    <2>4. y # u /\ y - 1 # u /\ y # at
      BY <1>1, <2>2 DEF PutIn, Moved
    <2>. QED
      BY <2>2, <2>3, <2>4
  <1>6. CASE j < at
    <2>1. a = j
      BY <1>2, <1>6
    <2>2. s <= at
      <3>1. SUFFICES ASSUME at < s PROVE FALSE
        BY <1>1
      <3>2. at + 1 \in Nat /\ a < at + 1 /\ at + 1 <= s
        BY <1>1, <1>2, <1>6, <2>1, <3>1
      <3>. QED
        BY <1>1, <1>3, <3>2
    <2>3. ASSUME NEW k \in Nat, j < k, k <= s, k # at PROVE k \in U /\ k \in qf.extensions \ qf.runends
      <3>1. PICK y \in Nat : y \in U /\ y \in qf.extensions \ qf.runends /\ Up(at, u, y) = k
        BY <1>5, <2>1, <2>3
      <3>2. k < at
        BY <1>1, <2>2, <2>3
      <3>3. y = k
        BY <1>1, <3>1, <3>2 DEF Up
      <3>. QED
        BY <3>1, <3>3
    <2>4. CASE s = at
      <3>1. at \in new.extensions \ new.runends
        BY <1>2, <1>3, <1>6, <2>1, <2>4
      <3>2. ASSUME NEW k \in Nat, j < k, k < at PROVE k \in qf.extensions \ qf.runends
        <4>1. k <= s /\ k # at
          BY <1>1, <2>4, <3>2
        <4>. QED
          BY <2>3, <3>2, <4>1
      <3>. QED
        BY <1>6, <2>1, <2>4, <3>1, <3>2 DEF NewChunk, a
    <2>5. CASE s # at
      <3>1. s < at /\ j < s
        BY <1>1, <1>3, <2>1, <2>2, <2>5
      <3>2. s \in U
        BY <2>3, <2>5, <3>1
      <3>3. Up(at, u, s) = s
        BY <1>1, <3>1 DEF Up
      <3>4. ChunkTo(qf, j, s)
        <4>1. ASSUME NEW k \in Nat, j < k, k <= s PROVE k \in qf.extensions \ qf.runends
          <5>1. k # at
            BY <1>1, <3>1, <4>1
          <5>. QED
            BY <2>3, <4>1, <5>1
        <4>. QED
          BY <3>1, <4>1 DEF ChunkTo
      <3>. QED
        BY <2>1, <3>2, <3>3, <3>4 DEF a
    <2>. QED
      BY <2>4, <2>5
  <1>7. CASE at <= j /\ j < u
    <2>1. a = j + 1 /\ at < a
      BY <1>2, <1>7
    <2>2. ASSUME NEW k \in Nat, a < k, k <= s
          PROVE  k <= u /\ k - 1 \in U /\ k - 1 \in qf.extensions \ qf.runends /\ Up(at, u, k - 1) = k
      <3>1. k # at
        BY <1>1, <1>2, <2>1, <2>2
      <3>2. k <= u
        <4>1. SUFFICES ASSUME u < k PROVE FALSE
          BY <1>1
        <4>2. u + 1 \in Nat /\ a < u + 1 /\ u + 1 <= s /\ u + 1 # at
          BY <1>1, <1>2, <1>7, <2>1, <2>2, <4>1
        <4>3. PICK y \in Nat : y \in U /\ Up(at, u, y) = u + 1 /\ y # u /\ y - 1 # u
          BY <1>5, <4>2
        <4>. QED
          BY <1>1, <4>3 DEF Up
      <3>3. PICK y \in Nat : y \in U /\ y \in qf.extensions \ qf.runends /\ Up(at, u, y) = k /\ y # u
        BY <1>5, <2>2, <3>1
      <3>4. y = k - 1
        BY <1>1, <1>2, <2>1, <2>2, <3>2, <3>3 DEF Up
      <3>. QED
        BY <3>2, <3>3, <3>4
    <2>3. s <= u /\ s - 1 \in U /\ s - 1 \in Nat /\ Up(at, u, s - 1) = s
      BY <1>1, <1>2, <1>3, <2>2
    <2>4. ChunkTo(qf, j, s - 1)
      <3>1. j < s - 1
        BY <1>2, <1>3, <2>1
      <3>2. ASSUME NEW k \in Nat, j < k, k <= s - 1 PROVE k \in qf.extensions \ qf.runends
        <4>1. k + 1 \in Nat /\ a < k + 1 /\ k + 1 <= s /\ (k + 1) - 1 = k
          BY <1>2, <2>1, <3>2
        <4>. QED
          BY <2>2, <4>1
      <3>. QED
        BY <3>1, <3>2 DEF ChunkTo
    <2>5. s - a = (s - 1) - j
      BY <1>2, <2>1
    <2>. QED
      BY <2>3, <2>4, <2>5 DEF a
  <1>8. CASE u < j
    <2>1. a = j /\ at < a
      BY <1>1, <1>2, <1>8
    <2>2. ASSUME NEW k \in Nat, a < k, k <= s
          PROVE  k \in U /\ k \in qf.extensions \ qf.runends /\ Up(at, u, k) = k
      <3>1. k # at
        BY <1>1, <1>2, <2>1, <2>2
      <3>2. PICK y \in Nat : y \in U /\ y \in qf.extensions \ qf.runends /\ Up(at, u, y) = k /\ y # u
        BY <1>5, <2>2, <3>1
      <3>3. y = k
        BY <1>1, <1>2, <1>8, <2>1, <2>2, <3>2 DEF Up
      <3>. QED
        BY <3>2, <3>3
    <2>3. ChunkTo(qf, j, s) /\ s \in U /\ Up(at, u, s) = s
      BY <1>2, <1>3, <2>1, <2>2 DEF ChunkTo
    <2>. QED
      BY <2>1, <2>3 DEF a
  <1>9. j < at \/ (at <= j /\ j < u) \/ u < j
    BY <1>1, <1>2
  <1>. QED
    BY <1>6, <1>7, <1>8, <1>9

\* The chunks behind item j are those of key.
Carries(qf, j, key) == \A s \in Nat : ChunkTo(qf, j, s) => qf.slots[s] = chunk(key, s - j - 1)

\* They still are if a new one among them is.
LEMMA CarriesMoved ==
    ASSUME NEW qf, NEW U, NEW h, NEW at, NEW u, NEW q, NEW value, NEW new, NEW g,
           PutIn(qf, U, h, at, u, q, value, new, g),
           NEW j \in U, NEW key, Carries(qf, j, key),
           NewChunk(qf, j, at, new) => value = chunk(key, at - j - 1)
    PROVE  Carries(new, Up(at, u, j), key)
  <1>. DEFINE a == Up(at, u, j)
  <1>1. /\ new.slots[at] = value
        /\ \A i \in U : new.slots[Up(at, u, i)] = qf.slots[i]
    BY DEF PutIn, Moved, Carried
  <1>2. a \in Nat /\ j \in Nat
    BY MarkOrigin, UpOrder
  <1>. HIDE DEF a
  <1>3. ASSUME NEW s \in Nat, ChunkTo(new, a, s) PROVE new.slots[s] = chunk(key, s - a - 1)
    <2>1. \/ s = at /\ a = j /\ NewChunk(qf, j, at, new)
          \/ \E d \in U : d \in Nat /\ ChunkTo(qf, j, d) /\ s = Up(at, u, d) /\ s - a = d - j
      BY <1>3, ChunkOrigin DEF a
    <2>2. CASE s = at /\ a = j /\ NewChunk(qf, j, at, new)
      BY <1>1, <2>2
    <2>3. ASSUME NEW d \in U, d \in Nat, ChunkTo(qf, j, d), s = Up(at, u, d), s - a = d - j
          PROVE  new.slots[s] = chunk(key, s - a - 1)
      <3>1. new.slots[s] = qf.slots[d]
        BY <1>1, <2>3
      <3>2. qf.slots[d] = chunk(key, d - j - 1)
        BY <2>3 DEF Carries
      <3>. QED
        BY <2>3, <3>1, <3>2
    <2>. QED
      BY <2>1, <2>2, <2>3
  <1>. QED
    BY <1>3 DEF Carries, a

-----------------------------------------------------------------------------
(***************************************************************************)
(* Items and their rows                                                    *)
(***************************************************************************)
\* A slot in use below the filter's end reads as what it holds.
LEMMA SlotRead ==
    ASSUME NEW qf, NEW U, NEW h, Shaped(qf, U, h), Fits(U), NEW i \in U
    PROVE  get_slot(qf, i) = qf.slots[i] /\ qf.slots[i] \in SlotValues /\ qf.slots[i] \in Nat
  <1>1. U \in SUBSET Slots /\ qf.slots \in [Slots -> SlotValues]
    BY HomedTypes DEF Shaped, Filters
  <1>2. i \in Slots /\ i \in Nat /\ i < XnSlots /\ XnSlots \in Nat
    BY <1>1, Sizes DEF Fits
  <1>3. ~(i > XnSlots)
    BY <1>2
  <1>. QED
    BY <1>1, <1>2, <1>3, SlotTypes DEF get_slot

\* The items of a minirun move with their slots; the new slot joins them if it
\* holds an item of that remainder.
LEMMA MinirunMoved ==
    ASSUME NEW qf, NEW U, NEW h, NEW at, NEW u, NEW q, NEW value, NEW new, NEW g,
           PutIn(qf, U, h, at, u, q, value, new, g), Fits(U \cup {u}), NEW hash, NEW i
    PROVE  i \in Minirun(new, U \cup {u}, g, hash) <=>
              \/ \E j \in Minirun(qf, U, h, hash) : i = Up(at, u, j)
              \/ i = at /\ at \notin new.extensions /\ q = bucket(hash) /\ value = remainder(hash)
  <1>1. /\ at \in U \cup {u} /\ g[at] = q /\ new.slots[at] = value
        /\ \A j \in U : Up(at, u, j) \in U \cup {u} /\ Carried(qf, h, j, new, g, Up(at, u, j))
        /\ \A j \in U \cup {u} : j # at => \E y \in U : j = Up(at, u, y)
    BY DEF PutIn, Moved
  <1>2. \A j \in U : get_slot(qf, j) = qf.slots[j]
    BY SlotRead DEF PutIn, Fits
  <1>3. \A j \in U \cup {u} : get_slot(new, j) = new.slots[j]
    <2>1. Shaped(new, U \cup {u}, g) /\ Fits(U \cup {u})
      BY DEF PutIn
    <2>. QED
      BY <2>1, SlotRead
  <1>4. ASSUME NEW j \in U
        PROVE  j \in Minirun(qf, U, h, hash) <=> Up(at, u, j) \in Minirun(new, U \cup {u}, g, hash)
    BY <1>1, <1>2, <1>3 DEF Minirun, Items, Carried
  <1>5. at \in Minirun(new, U \cup {u}, g, hash) <=>
           at \notin new.extensions /\ q = bucket(hash) /\ value = remainder(hash)
    BY <1>1, <1>3 DEF Minirun, Items
  <1>6. Minirun(new, U \cup {u}, g, hash) \in SUBSET (U \cup {u}) /\ Minirun(qf, U, h, hash) \in SUBSET U
    BY DEF Minirun, Items
  <1>. DEFINE T == Minirun(qf, U, h, hash)
              T2 == Minirun(new, U \cup {u}, g, hash)
  <1>7. /\ \A j \in U : j \in T <=> Up(at, u, j) \in T2
        /\ at \in T2 <=> at \notin new.extensions /\ q = bucket(hash) /\ value = remainder(hash)
        /\ T2 \in SUBSET (U \cup {u}) /\ T \in SUBSET U
    BY <1>4, <1>5, <1>6
  <1>8. \A j \in U \cup {u} : j # at => \E y \in U : j = Up(at, u, y)
    BY <1>1
  <1>. HIDE DEF T, T2
  <1>9. i \in T2 => i = at \/ \E j \in T : i = Up(at, u, j)
    BY <1>7, <1>8
  <1>10. (\E j \in T : i = Up(at, u, j)) => i \in T2
    BY <1>7
  <1>11. i \in T2 <=> \/ \E j \in T : i = Up(at, u, j)
                      \/ i = at /\ at \notin new.extensions /\ q = bucket(hash) /\ value = remainder(hash)
    BY <1>7, <1>9, <1>10
  <1>. QED
    BY <1>11 DEF T, T2

\* e lists the n elements of T in ascending order, from 0 on.
Lists(e, n, T) ==
    /\ n \in Nat
    /\ \A r \in 0 .. n - 1 : e[r] \in T
    /\ \A r, s \in 0 .. n - 1 : r < s => e[r] < e[s]
    /\ \A x \in T : \E r \in 0 .. n - 1 : e[r] = x

\* A list moves with its slots.
LEMMA ListMoved ==
    ASSUME NEW U \in SUBSET Nat, NEW at \in Nat, NEW u, FreeFrom(U, at, u), NEW T \in SUBSET U,
           NEW T2, \A i : i \in T2 <=> \E j \in T : i = Up(at, u, j),
           NEW e, NEW n, Lists(e, n, T)
    PROVE  Lists([r \in 0 .. n - 1 |-> Up(at, u, e[r])], n, T2)
  <1>. DEFINE f == [r \in 0 .. n - 1 |-> Up(at, u, e[r])]
  <1>1. \A i, j \in U : i < j => Up(at, u, i) < Up(at, u, j)
    BY UpOrder
  <1>2. n \in Nat /\ \A r \in 0 .. n - 1 : f[r] = Up(at, u, e[r]) /\ e[r] \in T /\ e[r] \in U
    BY DEF Lists
  <1>. HIDE DEF f
  <1>3. \A r \in 0 .. n - 1 : f[r] \in T2
    BY <1>2
  <1>4. \A r, s \in 0 .. n - 1 : r < s => f[r] < f[s]
    BY <1>1, <1>2 DEF Lists
  <1>5. ASSUME NEW x \in T2 PROVE \E r \in 0 .. n - 1 : f[r] = x
    <2>1. PICK j \in T : x = Up(at, u, j)
      OBVIOUS
    <2>2. PICK r \in 0 .. n - 1 : e[r] = j
      BY DEF Lists
    <2>. QED
      BY <1>2, <2>1, <2>2
  <1>6. Lists(f, n, T2)
    BY <1>2, <1>3, <1>4, <1>5 DEF Lists
  <1>. QED
    BY <1>6 DEF f

\* The list with the slot at in front.
Fronted(at, u, e, n) == [r \in 0 .. n |-> IF r = 0 THEN at ELSE Up(at, u, e[r - 1])]

\* It lists the slots moved up and the new one.
LEMMA ListFronted ==
    ASSUME NEW U \in SUBSET Nat, NEW at \in Nat, NEW u, FreeFrom(U, at, u), NEW T \in SUBSET U,
           \A j \in T : at <= j,
           NEW T2, \A i : i \in T2 <=> i = at \/ \E j \in T : i = Up(at, u, j),
           NEW e, NEW n, Lists(e, n, T)
    PROVE  Lists(Fronted(at, u, e, n), n + 1, T2)
  <1>. DEFINE f == Fronted(at, u, e, n)
  <1>1. /\ \A i, j \in U : i < j => Up(at, u, i) < Up(at, u, j)
        /\ \A i \in U : at <= i => at < Up(at, u, i)
    BY UpOrder
  <1>2. n \in Nat /\ n + 1 \in Nat /\ (n + 1) - 1 = n /\ \A r \in 0 .. n - 1 : e[r] \in T /\ e[r] \in U
    <2>1. n \in Nat /\ \A r \in 0 .. n - 1 : e[r] \in T
      BY DEF Lists
    <2>2. n + 1 \in Nat /\ (n + 1) - 1 = n
      BY <2>1
    <2>3. \A x \in T : x \in U
      OBVIOUS
    <2>. QED
      BY <2>1, <2>2, <2>3
  <1>3. f[0] = at /\ \A r \in 0 .. n : r # 0 => f[r] = Up(at, u, e[r - 1]) /\ r - 1 \in 0 .. n - 1
    BY <1>2 DEF Fronted
  <1>. HIDE DEF f
  <1>4. \A r \in 0 .. n : f[r] \in T2
    BY <1>2, <1>3
  <1>5. ASSUME NEW r \in 0 .. n, NEW s \in 0 .. n, r < s PROVE f[r] < f[s]
    <2>1. s # 0 /\ s - 1 \in 0 .. n - 1 /\ f[s] = Up(at, u, e[s - 1]) /\ e[s - 1] \in T /\ e[s - 1] \in U
      BY <1>2, <1>3, <1>5
    <2>2. CASE r = 0
      BY <1>1, <1>3, <2>1, <2>2
    <2>3. CASE r # 0
      <3>1. r - 1 \in 0 .. n - 1 /\ f[r] = Up(at, u, e[r - 1]) /\ e[r - 1] \in U
        BY <1>2, <1>3, <2>3
      <3>2. r - 1 < s - 1
        BY <1>5
      <3>3. e[r - 1] < e[s - 1]
        BY <2>1, <3>1, <3>2 DEF Lists
      <3>. QED
        BY <1>1, <2>1, <3>1, <3>3
    <2>. QED
      BY <2>2, <2>3
  <1>6. ASSUME NEW x \in T2 PROVE \E r \in 0 .. n : f[r] = x
    <2>1. CASE x = at
      <3>1. 0 \in 0 .. n
        BY <1>2
      <3>. QED
        BY <1>3, <2>1, <3>1
    <2>2. CASE x # at
      <3>1. PICK j \in T : x = Up(at, u, j)
        BY <2>2
      <3>2. PICK r \in 0 .. n - 1 : e[r] = j
        BY DEF Lists
      <3>3. r + 1 \in 0 .. n /\ r + 1 # 0 /\ (r + 1) - 1 = r
        BY <1>2
      <3>4. f[r + 1] = Up(at, u, e[r])
        BY <1>3, <3>3
      <3>. QED
        BY <3>1, <3>2, <3>3, <3>4
    <2>. QED
      BY <2>1, <2>2
  <1>7. Lists(f, n + 1, T2)
    BY <1>2, <1>4, <1>5, <1>6 DEF Lists
  <1>. QED
    BY <1>7 DEF f

\* row has a key for each item of hash's minirun, by rank, whose chunks the item
\* has.
Filed(qf, U, h, hash, row) ==
    \E n, e : /\ Lists(e, n, Minirun(qf, U, h, hash))
              /\ DOMAIN row = 0 .. n - 1
              /\ \A r \in 0 .. n - 1 : Carries(qf, e[r], row[r])

\* In a run the remainders ascend.
Sorted(qf, U, h) ==
    \A i, j \in U \ qf.extensions : h[i] = h[j] /\ i < j => qf.slots[i] <= qf.slots[j]

\* Every counter is one slot that says 2.
Counted(qf) == \A s \in qf.extensions \intersect qf.runends : qf.slots[s] = 2 /\ s + 1 \notin qf.extensions

\* The items listed have the chunks of the row's keys, and a new chunk is the one
\* of its item's key.
RowFits(qf, e, n, row, at, value, new) ==
    \A r \in 0 .. n - 1 : /\ Carries(qf, e[r], row[r])
                          /\ NewChunk(qf, e[r], at, new) => value = chunk(row[r], at - e[r] - 1)

\* The list f of the items of T that are moved up from those of e, with their
\* chunks.
RowUp(U, at, u, e, n, row, new, f, T) ==
    /\ Lists(f, n, T)
    /\ \A r \in 0 .. n - 1 : /\ f[r] = Up(at, u, e[r]) /\ e[r] \in U /\ U \in SUBSET Nat
                              /\ Carries(new, f[r], row[r])

\* The list of a minirun moves, and its items keep their chunks if a new one is
\* the one of its item's key.
LEMMA RowMoved ==
    ASSUME NEW qf, NEW U, NEW h, NEW at, NEW u, NEW q, NEW value, NEW new, NEW g,
           PutIn(qf, U, h, at, u, q, value, new, g), Fits(U \cup {u}), NEW hash, NEW row,
           ~(at \notin new.extensions /\ q = bucket(hash) /\ value = remainder(hash)),
           NEW n, NEW e, Lists(e, n, Minirun(qf, U, h, hash)), DOMAIN row = 0 .. n - 1,
           RowFits(qf, e, n, row, at, value, new)
    PROVE  \E f : RowUp(U, at, u, e, n, row, new, f, Minirun(new, U \cup {u}, g, hash))
  <1>. DEFINE T == Minirun(qf, U, h, hash)
              T2 == Minirun(new, U \cup {u}, g, hash)
              f == [r \in 0 .. n - 1 |-> Up(at, u, e[r])]
  <1>1. U \in SUBSET Nat /\ at \in Nat /\ FreeFrom(U, at, u) /\ T \in SUBSET U
    BY MarkOrigin DEF Minirun, Items
  <1>2. \A i : i \in T2 <=> \E j \in T : i = Up(at, u, j)
    <2>1. \A i : i \in T2 <=> \/ \E j \in T : i = Up(at, u, j)
                              \/ i = at /\ at \notin new.extensions /\ q = bucket(hash) /\ value = remainder(hash)
      BY MinirunMoved
    <2>. QED
      BY <2>1
  <1>3. Lists(e, n, T)
    OBVIOUS
  <1>. HIDE DEF T, T2
  <1>4. Lists(f, n, T2)
    BY <1>1, <1>2, <1>3, ListMoved
  <1>5. ASSUME NEW r \in 0 .. n - 1
        PROVE  f[r] = Up(at, u, e[r]) /\ e[r] \in U /\ U \in SUBSET Nat /\ Carries(new, f[r], row[r])
    <2>1. e[r] \in U /\ f[r] = Up(at, u, e[r])
      BY <1>1, <1>3 DEF Lists
    <2>. DEFINE j == e[r]
                key == row[r]
    <2>2. Carries(qf, j, key) /\ (NewChunk(qf, j, at, new) => value = chunk(key, at - j - 1))
      BY DEF RowFits
    <2>3. j \in U
      BY <2>1
    <2>. HIDE DEF j, key
    <2>4. Carries(new, Up(at, u, j), key)
      BY <2>2, <2>3, CarriesMoved
    <2>. QED
      BY <1>1, <2>1, <2>4 DEF j, key
  <1>. HIDE DEF f
  <1>. QED
    BY <1>4, <1>5 DEF T2, RowUp

\* Rows stay filed.
LEMMA FiledMoved ==
    ASSUME NEW qf, NEW U, NEW h, NEW at, NEW u, NEW q, NEW value, NEW new, NEW g,
           PutIn(qf, U, h, at, u, q, value, new, g), Fits(U \cup {u}), NEW hash, NEW row,
           ~(at \notin new.extensions /\ q = bucket(hash) /\ value = remainder(hash)),
           NEW n, NEW e, Lists(e, n, Minirun(qf, U, h, hash)), DOMAIN row = 0 .. n - 1,
           \A r \in 0 .. n - 1 : /\ Carries(qf, e[r], row[r])
                                 /\ NewChunk(qf, e[r], at, new) => value = chunk(row[r], at - e[r] - 1)
    PROVE  Filed(new, U \cup {u}, g, hash, row)
  <1>1. RowFits(qf, e, n, row, at, value, new)
    BY DEF RowFits
  <1>2. PICK f : RowUp(U, at, u, e, n, row, new, f, Minirun(new, U \cup {u}, g, hash))
    BY <1>1, RowMoved
  <1>. QED
    BY <1>2 DEF Filed, RowUp

\* A row is filed, and where its minirun has the item x, there with the key.
FiledAs(qf, U, h, hash, row, x, key) ==
    \E n, e : /\ Lists(e, n, Minirun(qf, U, h, hash))
              /\ DOMAIN row = 0 .. n - 1
              /\ \A r \in 0 .. n - 1 : Carries(qf, e[r], row[r]) /\ (e[r] = x => row[r] = key)

\* So are rows, if a new chunk goes in behind the item x.
LEMMA FiledAsMoved ==
    ASSUME NEW qf, NEW U, NEW h, NEW at, NEW u, NEW q, NEW value, NEW new, NEW g,
           PutIn(qf, U, h, at, u, q, value, new, g), Fits(U \cup {u}), NEW hash, NEW row,
           ~(at \notin new.extensions /\ q = bucket(hash) /\ value = remainder(hash)),
           NEW x \in Nat, x < at, NEW key,
           NEW n, NEW e, Lists(e, n, Minirun(qf, U, h, hash)), DOMAIN row = 0 .. n - 1,
           \A r \in 0 .. n - 1 : e[r] = x => row[r] = key,
           \A r \in 0 .. n - 1 : /\ Carries(qf, e[r], row[r])
                                 /\ NewChunk(qf, e[r], at, new) => value = chunk(row[r], at - e[r] - 1)
    PROVE  FiledAs(new, U \cup {u}, g, hash, row, x, key)
  <1>0. RowFits(qf, e, n, row, at, value, new)
    BY DEF RowFits
  <1>1. PICK f : RowUp(U, at, u, e, n, row, new, f, Minirun(new, U \cup {u}, g, hash))
    BY <1>0, RowMoved
  <1>2. at \in Nat
    BY MarkOrigin
  <1>3. ASSUME NEW r \in 0 .. n - 1, f[r] = x PROVE row[r] = key
    <2>1. e[r] \in Nat /\ f[r] = Up(at, u, e[r])
      BY <1>1 DEF RowUp
    <2>2. e[r] = x
      BY <1>2, <1>3, <2>1 DEF Up
    <2>. QED
      BY <2>2
  <1>. QED
    BY <1>1, <1>3 DEF FiledAs, RowUp

\* Where nothing is extended, a row with one key more is filed after an item has
\* gone in in front of its minirun.
LEMMA FiledFronted ==
    ASSUME NEW qf, NEW U, NEW h, NEW at, NEW u, NEW q, NEW value, NEW new, NEW g,
           PutIn(qf, U, h, at, u, q, value, new, g), Fits(U \cup {u}), NEW hash, NEW row,
           new.extensions = {}, q = bucket(hash), value = remainder(hash),
           \A j \in Minirun(qf, U, h, hash) : at <= j,
           NEW n, NEW e, Lists(e, n, Minirun(qf, U, h, hash)), DOMAIN row = 0 .. n
    PROVE  Filed(new, U \cup {u}, g, hash, row)
  <1>. DEFINE T == Minirun(qf, U, h, hash)
              T2 == Minirun(new, U \cup {u}, g, hash)
              f == Fronted(at, u, e, n)
  <1>1. U \in SUBSET Nat /\ at \in Nat /\ FreeFrom(U, at, u) /\ T \in SUBSET U
    BY MarkOrigin DEF Minirun, Items
  <1>2. \A i : i \in T2 <=> i = at \/ \E j \in T : i = Up(at, u, j)
    BY MinirunMoved
  <1>3. Lists(e, n, T) /\ \A j \in T : at <= j
    OBVIOUS
  <1>. HIDE DEF T, T2
  <1>4. Lists(f, n + 1, T2)
    BY <1>1, <1>2, <1>3, ListFronted
  <1>5. n \in Nat /\ (n + 1) - 1 = n
    BY <1>3 DEF Lists
  <1>6. ASSUME NEW r \in 0 .. n PROVE Carries(new, f[r], row[r])
    <2>1. f[r] \in Nat
      <3>1. f[r] \in T2
        BY <1>4, <1>5 DEF Lists
      <3>. QED
        BY <1>1, <1>3, <3>1, MarkOrigin, HomedTypes DEF T2, Minirun, Items, PutIn, Shaped
    <2>2. ASSUME NEW s \in Nat PROVE ~ChunkTo(new, f[r], s)
      <3>1. SUFFICES ASSUME ChunkTo(new, f[r], s) PROVE FALSE
        OBVIOUS
      <3>2. f[r] < s /\ s <= s
        BY <3>1 DEF ChunkTo
      <3>3. s \in new.extensions
        BY <3>1, <3>2 DEF ChunkTo
      <3>. QED
        BY <3>3
    <2>. QED
      BY <2>2 DEF Carries
  <1>. HIDE DEF f
  <1>. QED
    BY <1>4, <1>5, <1>6 DEF Filed, T2

\* Runs stay sorted if a new item is between the ones it has to be between.
LEMMA SortedMoved ==
    ASSUME NEW qf, NEW U, NEW h, NEW at, NEW u, NEW q, NEW value, NEW new, NEW g,
           PutIn(qf, U, h, at, u, q, value, new, g), Sorted(qf, U, h),
           at \notin new.extensions =>
              \A i \in U \ qf.extensions : h[i] = q =>
                 IF i < at THEN qf.slots[i] <= value ELSE value <= qf.slots[i]
    PROVE  Sorted(new, U \cup {u}, g)
  <1>1. /\ at \in U \cup {u} /\ g[at] = q /\ new.slots[at] = value
        /\ \A j \in U : Carried(qf, h, j, new, g, Up(at, u, j))
        /\ \A j \in U \cup {u} : j # at => \E y \in U : j = Up(at, u, y)
    BY DEF PutIn, Moved
  <1>2. U \in SUBSET Nat /\ at \in Nat /\ FreeFrom(U, at, u)
    BY MarkOrigin
  <1>3. /\ \A i, j \in U : i < j <=> Up(at, u, i) < Up(at, u, j)
        /\ \A i \in U : /\ i < at => Up(at, u, i) < at
                        /\ at <= i => at < Up(at, u, i)
                        /\ i \in Nat /\ Up(at, u, i) \in Nat
    <2>1. /\ \A i, j \in U : i < j <=> Up(at, u, i) < Up(at, u, j)
          /\ \A i \in U : /\ i < at => Up(at, u, i) = i
                          /\ at <= i => at < Up(at, u, i)
                          /\ Up(at, u, i) \in Nat
      BY <1>2, UpOrder
    <2>. QED
      BY <1>2, <2>1
  <1>4. ASSUME NEW i \in (U \cup {u}) \ new.extensions, NEW j \in (U \cup {u}) \ new.extensions,
               g[i] = g[j], i < j
        PROVE  new.slots[i] <= new.slots[j]
    <2>1. CASE i # at /\ j # at
      <3>1. PICK y \in U, z \in U : i = Up(at, u, y) /\ j = Up(at, u, z)
        BY <1>1, <2>1
      <3>2. /\ h[y] = h[z] /\ y < z /\ y \notin qf.extensions /\ z \notin qf.extensions
            /\ new.slots[i] = qf.slots[y] /\ new.slots[j] = qf.slots[z]
        BY <1>1, <1>3, <1>4, <3>1 DEF Carried
      <3>. QED
        BY <3>2 DEF Sorted
    <2>2. CASE i = at
      <3>1. PICK z \in U : j = Up(at, u, z)
        BY <1>1, <1>2, <1>4, <2>2
      <3>2. h[z] = q /\ z \notin qf.extensions /\ new.slots[j] = qf.slots[z] /\ at \notin new.extensions
        BY <1>1, <1>4, <2>2, <3>1 DEF Carried
      <3>3. ~(z < at)
        BY <1>2, <1>3, <1>4, <2>2, <3>1
      <3>. QED
        BY <1>1, <2>2, <3>2, <3>3
    <2>3. CASE j = at
      <3>1. PICK z \in U : i = Up(at, u, z)
        BY <1>1, <1>2, <1>4, <2>3
      <3>2. h[z] = q /\ z \notin qf.extensions /\ new.slots[i] = qf.slots[z] /\ at \notin new.extensions
        BY <1>1, <1>4, <2>3, <3>1 DEF Carried
      <3>3. z < at
        BY <1>2, <1>3, <1>4, <2>3, <3>1
      <3>. QED
        BY <1>1, <2>3, <3>2, <3>3
    <2>. QED
      BY <2>1, <2>2, <2>3
  <1>. QED
    BY <1>4 DEF Sorted

\* Counters stay single slots that say 2 if a new one does, and nothing goes in
\* behind a counter.
LEMMA CountedMoved ==
    ASSUME NEW qf, NEW U, NEW h, NEW at, NEW u, NEW q, NEW value, NEW new, NEW g,
           PutIn(qf, U, h, at, u, q, value, new, g), Counted(qf),
           at \in new.extensions \intersect new.runends => value = 2,
           at \in new.extensions => at - 1 \notin qf.extensions \intersect qf.runends
    PROVE  Counted(new)
  <1>1. /\ new.slots[at] = value
        /\ \A j \in U : Carried(qf, h, j, new, g, Up(at, u, j))
        /\ \A j \in U \cup {u} : j # at => \E y \in U : j = Up(at, u, y)
    BY DEF PutIn, Moved
  <1>2. /\ U \in SUBSET Nat /\ at \in Nat /\ u \in Nat /\ u \notin U /\ at <= u
        /\ FreeFrom(U, at, u)
        /\ \A k \in new.extensions : k # at =>
              \E y \in qf.extensions : /\ y \in U /\ y \in Nat /\ y - 1 \in U /\ y - 1 \in Nat
                                       /\ Up(at, u, y) = k /\ Up(at, u, y - 1) = k - 1
        /\ at + 1 \notin new.extensions
    BY MarkOrigin
  <1>3. \A i, j \in U : i = j <=> Up(at, u, i) = Up(at, u, j)
    BY <1>2, UpOrder
  <1>4. new.extensions \in SUBSET (U \cup {u})
    BY ChunkFacts DEF PutIn
  <1>5. ASSUME NEW s \in new.extensions \intersect new.runends
        PROVE  new.slots[s] = 2 /\ s + 1 \notin new.extensions
    <2>1. CASE s = at
      BY <1>1, <1>2, <2>1
    <2>2. CASE s # at
      <3>1. PICK y \in U : s = Up(at, u, y)
        BY <1>1, <1>4, <2>2
      <3>2. y \in qf.extensions \intersect qf.runends /\ new.slots[s] = qf.slots[y] /\ y \in Nat
        BY <1>1, <1>2, <3>1 DEF Carried
      <3>3. new.slots[s] = 2 /\ y + 1 \notin qf.extensions
        BY <3>2 DEF Counted
      <3>4. s + 1 \notin new.extensions
        <4>1. SUFFICES ASSUME s + 1 \in new.extensions PROVE FALSE
          OBVIOUS
        <4>2. s \in Nat /\ (s + 1) - 1 = s
          BY <1>2, <3>1, <3>2 DEF Up
        <4>3. CASE s + 1 = at
          <5>1. y = at - 1
            BY <1>2, <3>1, <3>2, <4>2, <4>3 DEF Up
          <5>. QED
            BY <3>2, <4>1, <4>3, <5>1
        <4>4. CASE s + 1 # at
          <5>1. PICK z \in qf.extensions : z \in Nat /\ z - 1 \in U /\ Up(at, u, z - 1) = (s + 1) - 1
            BY <1>2, <4>1, <4>4
          <5>2. z - 1 = y
            BY <1>3, <3>1, <4>2, <5>1
          <5>3. z = y + 1
            BY <3>2, <5>1, <5>2
          <5>. QED
            BY <3>3, <5>3
        <4>. QED
          BY <4>3, <4>4
      <3>. QED
        BY <3>3, <3>4
    <2>. QED
      BY <2>1, <2>2
  <1>. QED
    BY <1>5 DEF Counted

-----------------------------------------------------------------------------
(***************************************************************************)
(* Insertion in front of the minirun                                       *)
(***************************************************************************)
\* One step of count_minirun, which goes on as g says.
CountStep(qf, rem, g, i) ==
    LET next == skip_extensions(qf, i) + 1
    IN 1 + (IF is_runend(qf, i) \/ get_slot(qf, next) # rem THEN 0 ELSE g[next])

\* The counting from every slot from k on.
IsCount(qf, rem, k, g) == g = [i \in k .. PastEnd |-> CountStep(qf, rem, g, i)]

\* count_minirun by its steps.
LEMMA CountDef ==
    ASSUME NEW qf, NEW rem, NEW first
    PROVE  count_minirun(qf, rem, first) = (CHOOSE g : IsCount(qf, rem, 0, g))[first]
  BY DEF count_minirun, IsCount, CountStep

\* There is such a counting: it moves on, and no slot behind the filter holds a
\* remainder.
LEMMA CountExists ==
    ASSUME NEW qf, qf.extensions \in SUBSET Slots, NEW rem \in SlotValues
    PROVE  \E g : IsCount(qf, rem, 0, g)
  <1>. DEFINE K == {k \in Nat : k <= PastEnd + 1 /\ \E g : IsCount(qf, rem, k, g)}
  <1>1. PastEnd \in Nat /\ Slots = 0 .. PastEnd - 1
    BY Sizes
  <1>2. PastEnd + 1 \in K
    <2>. DEFINE g == [i \in {} |-> 0]
    <2>1. (PastEnd + 1) .. PastEnd = {}
      BY <1>1
    <2>2. [i \in (PastEnd + 1) .. PastEnd |-> CountStep(qf, rem, g, i)] = g
      BY <2>1
    <2>3. IsCount(qf, rem, PastEnd + 1, g)
      BY <2>2 DEF IsCount
    <2>. QED
      BY <1>1, <2>3
  <1>3. PICK k \in K : \A m \in K : k <= m
    <2>1. K \in SUBSET Nat /\ K # {}
      BY <1>2
    <2>. HIDE DEF K
    <2>. QED
      BY <2>1, SmallestNat
  <1>4. k \in Nat /\ k <= PastEnd + 1 /\ \E g : IsCount(qf, rem, k, g)
    BY <1>3
  <1>5. CASE k = 0
    BY <1>4, <1>5
  <1>6. CASE k # 0
    <2>. DEFINE p == k - 1
    <2>1. p \in Nat /\ p <= PastEnd /\ p < k /\ ~(k <= p)
      BY <1>1, <1>4, <1>6
    <2>2. PICK g : IsCount(qf, rem, k, g)
      BY <1>4
    <2>. DEFINE new == [i \in p .. PastEnd |-> IF i = p THEN CountStep(qf, rem, g, p) ELSE g[i]]
    <2>3. ASSUME NEW i \in p .. PastEnd PROVE CountStep(qf, rem, new, i) = CountStep(qf, rem, g, i)
      <3>. DEFINE j == skip_extensions(qf, i)
                  next == j + 1
      <3>1. i \in Nat /\ i <= PastEnd /\ p <= i
        BY <1>1, <2>1
      <3>2. j \in Nat /\ i <= j
        <4>. HIDE DEF j
        <4>. QED
          BY <3>1, SkipIs DEF j
      <3>. HIDE DEF j, p
      <3>3. CASE next <= PastEnd
        <4>1. next \in p .. PastEnd /\ next # p
          BY <1>1, <2>1, <3>1, <3>2, <3>3
        <4>. HIDE DEF next
        <4>2. new[next] = g[next]
          BY <4>1
        <4>. HIDE DEF new
        <4>. QED
          BY <4>2 DEF CountStep, next, j
      <3>4. CASE ~(next <= PastEnd)
        <4>1. next \notin Slots
          BY <1>1, <3>2, <3>4
        <4>2. get_slot(qf, next) # rem
          <5>1. get_slot(qf, next) = 2 ^ BitsPerSlot
            BY <4>1 DEF get_slot
          <5>2. 2 ^ BitsPerSlot \in Nat
            BY GQFAssumption, PowerOfTwo
          <5>. DEFINE P == 2 ^ BitsPerSlot
          <5>3. rem \in 0 .. P - 1 /\ P \in Nat
            BY <5>2 DEF SlotValues
          <5>. HIDE DEF P
          <5>4. rem # P
            BY <5>3
          <5>. QED
            BY <5>1, <5>4 DEF P
        <4>. HIDE DEF next, new
        <4>. QED
          BY <4>2 DEF CountStep, next, j
      <3>. QED
        BY <3>3, <3>4
    <2>4. ASSUME NEW i \in p .. PastEnd PROVE new[i] = CountStep(qf, rem, new, i)
      <3>1. CASE i = p
        <4>1. new[i] = CountStep(qf, rem, g, p)
          BY <3>1
        <4>. QED
          BY <2>3, <3>1, <4>1
      <3>2. CASE i # p
        <4>1. i \in k .. PastEnd
          BY <1>1, <1>4, <2>1, <3>2
        <4>2. g[i] = CountStep(qf, rem, g, i)
          <5>. HIDE DEF new, p
          <5>. QED
            BY <2>2, <4>1 DEF IsCount
        <4>3. new[i] = g[i]
          BY <3>2
        <4>. QED
          BY <2>3, <4>2, <4>3
      <3>. QED
        BY <3>1, <3>2
    <2>5. IsCount(qf, rem, p, new)
      <3>1. new = [i \in p .. PastEnd |-> new[i]]
        OBVIOUS
      <3>. HIDE DEF new
      <3>2. new = [i \in p .. PastEnd |-> CountStep(qf, rem, new, i)]
        BY <2>4, <3>1
      <3>. QED
        BY <3>2 DEF IsCount
    <2>6. p \in K
      <3>. HIDE DEF new, p
      <3>1. p <= PastEnd + 1
        BY <1>1, <2>1
      <3>. QED
        BY <2>1, <2>5, <3>1
    <2>. QED
      BY <1>3, <2>1, <2>6
  <1>. QED
    BY <1>5, <1>6

\* Where nothing is extended, count_minirun counts the items of the minirun.
LEMMA CountExact ==
    ASSUME NEW qf, NEW U, NEW h, Shaped(qf, U, h), Fits(U), qf.extensions = {}, Sorted(qf, U, h),
           NEW hash \in Nat, NEW n, NEW e, Lists(e, n, Minirun(qf, U, h, hash)), n # 0
    PROVE  count_minirun(qf, remainder(hash), e[0]) = n
  <1>. DEFINE T == Minirun(qf, U, h, hash)
              rem == remainder(hash)
              b == bucket(hash)
  <1>1. /\ Homed(qf, U, h) /\ U \in SUBSET Slots /\ Slots = 0 .. PastEnd - 1 /\ PastEnd \in Nat
        /\ qf.extensions \in SUBSET Slots
    BY HomedTypes, Sizes DEF Shaped
  <1>2. rem \in SlotValues /\ rem \in Nat
    BY SlotTypes
  <1>3. PICK g : g = CHOOSE f : IsCount(qf, rem, 0, f)
    OBVIOUS
  <1>4. IsCount(qf, rem, 0, g) /\ count_minirun(qf, rem, e[0]) = g[e[0]]
    <2>. HIDE DEF rem
    <2>. QED
      BY <1>1, <1>2, <1>3, CountExists, CountDef
  <1>5. /\ n \in Nat
        /\ \A r \in 0 .. n - 1 : e[r] \in T
        /\ \A r, s \in 0 .. n - 1 : r < s => e[r] < e[s]
        /\ \A x \in T : \E r \in 0 .. n - 1 : e[r] = x
    BY DEF Lists
  <1>6. \A i \in T : /\ i \in U /\ i \in Nat /\ i <= PastEnd /\ h[i] = b /\ i \in Items(qf, U, h, b)
                     /\ get_slot(qf, i) = rem
    BY <1>1 DEF Minirun, Items
  <1>7. \A i \in Items(qf, U, h, b) : get_slot(qf, i) = rem => i \in T
    BY DEF Minirun
  <1>. HIDE DEF T
  <1>8. ASSUME NEW i \in T
        PROVE  g[i] = 1 + (IF i \in RunEnds(qf) \/ get_slot(qf, i + 1) # rem THEN 0 ELSE g[i + 1])
    <2>1. i \in 0 .. PastEnd
      BY <1>1, <1>6
    <2>2. g[i] = CountStep(qf, rem, g, i)
      BY <1>4, <2>1 DEF IsCount
    <2>. DEFINE j == skip_extensions(qf, i)
    <2>3. j = i
      <3>1. i \in Nat /\ i <= PastEnd
        BY <1>6
      <3>. HIDE DEF j
      <3>2. j \in Nat /\ i <= j /\ \A k \in Nat : i <= k /\ k < j => k \in qf.extensions
        BY <1>1, <3>1, SkipIs DEF j
      <3>. QED
        BY <3>1, <3>2
    <2>. HIDE DEF j
    <2>4. g[i] = 1 + (IF is_runend(qf, i) \/ get_slot(qf, j + 1) # rem THEN 0 ELSE g[j + 1])
      BY <2>2 DEF CountStep, j
    <2>. QED
      BY <2>3, <2>4 DEF is_runend, RunEnds
  <1>9. ASSUME NEW r \in 0 .. n - 1, NEW s \in 0 .. n - 1, e[r] < e[s] PROVE r < s
    <2>1. e[r] \in Nat /\ e[s] \in Nat
      BY <1>5, <1>6
    <2>2. r \in Nat /\ s \in Nat
      BY <1>5
    <2>3. s = r \/ s < r \/ r < s
      BY <2>2
    <2>4. s < r => e[s] < e[r]
      BY <1>5
    <2>. QED
      BY <1>9, <2>1, <2>3, <2>4
  \* The item behind, if it has the remainder, is the next of the minirun.
  <1>10. ASSUME NEW i \in T, i \notin RunEnds(qf)
         PROVE  i + 1 \in Items(qf, U, h, b) /\ \A j \in Items(qf, U, h, b) : i < j => i + 1 <= j
    <2>. DEFINE m == skip_extensions(qf, i + 1)
    <2>1. i \in Items(qf, U, h, b) /\ i \in Nat /\ i + 1 \in Nat /\ i + 1 <= PastEnd
      BY <1>1, <1>6, HomedTypes
    <2>. HIDE DEF m
    <2>2. m \in Items(qf, U, h, b) /\ m \in Nat /\ i < m /\ \A j \in Items(qf, U, h, b) : i < j => m <= j
      <3>. HIDE DEF b
      <3>. QED
        BY <1>1, <1>10, <2>1, NextItem DEF m
    <2>3. m = i + 1
      <3>1. m \in Nat /\ i + 1 <= m /\ \A k \in Nat : i + 1 <= k /\ k < m => k \in qf.extensions
        BY <1>1, <2>1, SkipIs DEF m
      <3>. QED
        BY <2>1, <3>1
    <2>. QED
      BY <2>2, <2>3
  <1>11. \A r \in 0 .. n - 1 : g[e[r]] = n - r
    <2>. DEFINE W == {r \in 0 .. n - 1 : g[e[r]] # n - r}
    <2>1. SUFFICES ASSUME W # {} PROVE FALSE
      OBVIOUS
    <2>2. PICK r \in W : \A s \in W : s <= r
      <3>1. W \in SUBSET Nat /\ (\A s \in W : s <= n) /\ n \in Nat
        BY <1>5
      <3>. HIDE DEF W
      <3>. QED
        BY <2>1, <3>1, MaxOfNats
    <2>3. r \in 0 .. n - 1 /\ r \in Nat /\ g[e[r]] # n - r /\ \A s \in 0 .. n - 1 : r < s => g[e[s]] = n - s
      <3>1. r \in 0 .. n - 1 /\ g[e[r]] # n - r
        BY <2>2
      <3>2. ASSUME NEW s \in 0 .. n - 1, r < s PROVE g[e[s]] = n - s
        <4>1. s \notin W
          <5>. HIDE DEF W
          <5>1. r \in Nat /\ s \in Nat /\ ~(s <= r)
            BY <1>5, <3>1, <3>2
          <5>. QED
            BY <2>2, <5>1
        <4>. QED
          BY <4>1
      <3>. QED
        BY <1>5, <3>1, <3>2
    <2>. HIDE DEF W
    <2>. DEFINE i == e[r]
    <2>4. i \in T /\ i \in Nat /\ i \in U /\ h[i] = b /\ get_slot(qf, i) = rem
      BY <1>5, <1>6, <2>3
    <2>5. CASE r = n - 1
      <3>1. i \in RunEnds(qf) \/ get_slot(qf, i + 1) # rem
        <4>1. SUFFICES ASSUME i \notin RunEnds(qf), get_slot(qf, i + 1) = rem PROVE FALSE
          OBVIOUS
        <4>2. i + 1 \in T
          BY <1>7, <1>10, <2>4, <4>1
        <4>3. PICK s \in 0 .. n - 1 : e[s] = i + 1
          BY <1>5, <4>2
        <4>4. e[r] < e[s]
          BY <2>4, <4>3
        <4>5. r < s
          BY <1>9, <2>3, <4>4
        <4>. QED
          BY <1>5, <2>5, <4>5
      <3>2. g[i] = 1 + 0
        BY <1>8, <2>4, <3>1
      <3>. QED
        BY <1>5, <2>3, <2>5, <3>2
    <2>6. CASE r # n - 1
      <3>1. r + 1 \in 0 .. n - 1 /\ r < r + 1
        BY <1>5, <2>3, <2>6
      <3>. DEFINE x == e[r + 1]
      <3>2. /\ x \in T /\ i < x /\ x \in Items(qf, U, h, b) /\ x \in Nat /\ x \in U /\ h[x] = b
            /\ get_slot(qf, x) = rem /\ g[x] = n - (r + 1)
        BY <1>5, <1>6, <2>3, <3>1
      <3>. HIDE DEF x, i
      <3>3. i \notin RunEnds(qf)
        <4>1. i \in Items(qf, U, h, b)
          BY <1>6, <2>4
        <4>2. ~(x <= i)
          BY <2>4, <3>2
        <4>. HIDE DEF b
        <4>. QED
          BY <1>1, <3>2, <4>1, <4>2, LastItemOnly
      <3>4. i + 1 \in Items(qf, U, h, b) /\ i + 1 <= x
        BY <1>10, <2>4, <3>2, <3>3
      <3>5. i + 1 \in U /\ h[i + 1] = b
        BY <3>4 DEF Items
      <3>6. get_slot(qf, i + 1) = rem
        <4>1. /\ get_slot(qf, i) = qf.slots[i] /\ get_slot(qf, x) = qf.slots[x]
              /\ get_slot(qf, i + 1) = qf.slots[i + 1] /\ qf.slots[i + 1] \in Nat
          BY <2>4, <3>2, <3>5, SlotRead
        <4>2. qf.slots[i] <= qf.slots[i + 1]
          <5>1. i < i + 1 /\ h[i] = h[i + 1] /\ i \in U \ qf.extensions /\ i + 1 \in U \ qf.extensions
            BY <2>4, <3>5
          <5>. QED
            BY <5>1 DEF Sorted
        <4>3. qf.slots[i + 1] <= qf.slots[x]
          <5>1. CASE i + 1 = x
            BY <4>1, <5>1
          <5>2. CASE i + 1 # x
            <6>1. i + 1 < x /\ h[i + 1] = h[x] /\ x \in U \ qf.extensions /\ i + 1 \in U \ qf.extensions
              BY <2>4, <3>2, <3>4, <3>5, <5>2
            <6>. QED
              BY <6>1 DEF Sorted
          <5>. QED
            BY <5>1, <5>2
        <4>. HIDE DEF rem
        <4>. QED
          BY <1>2, <2>4, <3>2, <4>1, <4>2, <4>3
      <3>7. i + 1 = x
        <4>1. PICK s \in 0 .. n - 1 : e[s] = i + 1
          BY <1>5, <1>7, <3>4, <3>6
        <4>2. r < s
          <5>1. e[r] < e[s]
            BY <2>4, <4>1 DEF i
          <5>. QED
            BY <1>9, <2>3, <5>1
        <4>3. s = r + 1 \/ r + 1 < s
          BY <2>3, <4>2
        <4>4. r + 1 < s => x < i + 1
          BY <1>5, <3>1, <4>1 DEF x
        <4>. QED
          BY <2>4, <3>2, <3>4, <4>1, <4>3, <4>4 DEF x
      <3>8. g[i] = 1 + g[i + 1]
        BY <1>8, <2>4, <3>3, <3>6
      <3>. QED
        BY <1>5, <2>3, <3>2, <3>7, <3>8 DEF i
    <2>. QED
      BY <2>5, <2>6
  <1>12. 0 \in 0 .. n - 1
    BY <1>5
  <1>13. g[e[0]] = n - 0
    BY <1>11, <1>12
  <1>. QED
    BY <1>4, <1>5, <1>13

\* In run q the remainders before slot at are less than rem, and those from there
\* on are not.
Splits(qf, U, h, q, at, rem) ==
    \A i \in U \ qf.extensions : h[i] = q => IF i < at THEN qf.slots[i] < rem ELSE rem <= qf.slots[i]

\* new is qf with an item for hash, in front of its minirun.
Entered(qf, U, h, hash, new) ==
    \E at, u, g :
        /\ PutIn(qf, U, h, at, u, bucket(hash), remainder(hash), new, g)
        /\ Fits(U \cup {u}) /\ new.extensions = {}
        /\ Splits(qf, U, h, bucket(hash), at, remainder(hash))

\* What make_space does to a filter without extensions.
LEMMA PutEnters ==
    ASSUME NEW qf, NEW U, NEW h, Shaped(qf, U, h), Fits(U), qf.extensions = {}, NEW hash,
           NEW b, b = bucket(hash), NEW rem, rem = remainder(hash),
           NEW at, Placed(U, h, b, at), NEW u, FreeFrom(U, at, u), u < XnSlots, NEW new,
           new.slots = ShiftedSlots(qf, at, u, rem),
           new.extensions = ShiftBits(qf.extensions, at, u),
           Shaped(new, U \cup {u}, PutHomes(U, h, b, u)), Splits(qf, U, h, b, at, rem)
    PROVE  Entered(qf, U, h, hash, new)
  <1>. DEFINE g == PutHomes(U, h, b, u)
  <1>1. new.extensions = {} /\ new.extensions = ShiftBits(qf.extensions, at, u) \cup {} /\ {} \in SUBSET {at}
    BY DEF ShiftBits
  <1>2. u < PastEnd /\ at \notin qf.extensions
    BY Sizes DEF FreeFrom
  <1>3. \A i \in qf.extensions : Up(at, u, i) \in new.runends <=> Up(at, u, i) \in ShiftBits(qf.runends, at, u)
    OBVIOUS
  <1>4. Moved(qf, U, h, at, u, b, rem, new, PutHomes(U, h, b, u))
    BY <1>1, <1>2, <1>3, PutMoved
  <1>5. Fits(U \cup {u})
    BY FitsMore
  <1>6. PutIn(qf, U, h, at, u, bucket(hash), remainder(hash), new, g)
    BY <1>4 DEF PutIn
  <1>7. Splits(qf, U, h, bucket(hash), at, remainder(hash))
    OBVIOUS
  <1>. HIDE DEF g
  <1>. QED
    BY <1>1, <1>5, <1>6, <1>7 DEF Entered

\* The stop of insert_using_ll_table leaves lesser remainders behind.
LEMMA StopFirst ==
    ASSUME NEW qf \in Filters, NEW U, NEW h, Homed(qf, U, h), NEW b, NEW rem \in Int,
           NEW s \in Items(qf, U, h, b),
           NEW i, i = FirstFrom({j \in (Slots \ qf.extensions) \cup {s} :
                                    get_slot(qf, j) >= rem \/ is_runend(qf, j)}, s)
    PROVE  \A j \in Items(qf, U, h, b) : s <= j /\ j < i => get_slot(qf, j) < rem
  <1>. DEFINE S == {j \in (Slots \ qf.extensions) \cup {s} : get_slot(qf, j) >= rem \/ is_runend(qf, j)}
  <1>1. U \in SUBSET Slots /\ Slots \in SUBSET Nat /\ Slots = 0 .. PastEnd - 1 /\ PastEnd \in Nat
    BY HomedTypes, Sizes
  <1>2. s \in Slots /\ s \in Nat
    BY <1>1 DEF Items
  <1>3. S \in SUBSET Nat /\ i = FirstFrom(S, s)
    BY <1>1, <1>2
  <1>4. \/ i \in S /\ s <= i /\ \A k \in S : s <= k => i <= k
        \/ i = PastEnd /\ \A k \in S : k < s
    <2>. HIDE DEF S
    <2>. QED
      BY <1>2, <1>3, FirstFromIs
  <1>5. ASSUME NEW j \in Items(qf, U, h, b), s <= j, j < i PROVE get_slot(qf, j) < rem
    <2>1. j \in Slots /\ j \in Nat /\ j \notin qf.extensions
      BY <1>1 DEF Items
    <2>2. j \notin S
      <3>1. i \in Nat
        BY <1>1, <1>3, <1>4
      <3>. HIDE DEF S
      <3>. QED
        BY <1>2, <1>4, <1>5, <2>1, <3>1
    <2>3. ~(get_slot(qf, j) >= rem)
      BY <2>1, <2>2
    <2>4. get_slot(qf, j) \in Nat
      BY <2>1, SlotTypes
    <2>. QED
      BY <2>3, <2>4
  <1>. QED
    BY <1>5

\* A list of nothing is empty.
LEMMA ListEmpty ==
    ASSUME NEW e, NEW n, Lists(e, n, {})
    PROVE  n = 0
  <1>1. n \in Nat /\ \A r \in 0 .. n - 1 : FALSE
    BY DEF Lists
  <1>2. n # 0 => 0 \in 0 .. n - 1
    BY <1>1
  <1>. QED
    BY <1>1, <1>2

(***************************************************************************)
(* While nothing is extended, insert_using_ll_table puts the item in front *)
(* of its minirun and answers how many items that had.                     *)
(***************************************************************************)
THEOREM InsertionEnters ==
    ASSUME NEW qf, NEW U, NEW h, Shaped(qf, U, h), Fits(U), qf.extensions = {}, Sorted(qf, U, h),
           NEW hash \in Nat, NEW free \in bucket(hash) .. XnSlots - 1, free \notin U,
           NEW result, result = insert_using_ll_table(qf, hash, 1)
    PROVE  /\ result.ret = 0 /\ Entered(qf, U, h, hash, result.qf)
           /\ \A n, e : Lists(e, n, Minirun(qf, U, h, hash)) => result.minirun_rank = n
  <1>. DEFINE b == bucket(hash)
              rem == remainder(hash)
              T == Minirun(qf, U, h, hash)
  <1>1. /\ qf \in Filters /\ Homed(qf, U, h) /\ Stored(qf, U, h) /\ Laid(U, h, PastEnd)
        /\ qf.occupieds = Homes(U, h)
    BY DEF Shaped, Homed
  <1>2. b \in Buckets /\ b \in Nat /\ b \in Slots /\ b < XnSlots /\ rem \in Nat /\ rem \in Int
    BY BucketType, SlotTypes
  <1>3. free \in Nat /\ b <= free /\ free < XnSlots
    BY <1>2, Sizes
  <1>4. ASSUME NEW at \in Nat, at <= free PROVE HasSpace(qf, at)
    BY <1>1, <1>3, <1>4, RoomFound
  <1>5. home_slot_empty(qf, b) <=> b \notin U
    BY <1>1, <1>2, HomeSlotEmptyIs
  <1>6. \A i \in U : get_slot(qf, i) = qf.slots[i] /\ qf.slots[i] \in Nat /\ i \in Nat
    BY SlotRead, HomedTypes DEF Shaped
  \* A bucket without a run has no item.
  <1>7. ASSUME b \notin Homes(U, h), result.minirun_rank = 0
        PROVE  /\ \A n, e : Lists(e, n, T) => result.minirun_rank = n
               /\ \A at : Splits(qf, U, h, b, at, rem)
    <2>1. \A i \in U : h[i] # b
      BY <1>7 DEF Homes
    <2>2. T = {}
      BY <2>1 DEF Minirun, Items
    <2>. HIDE DEF T
    <2>. QED
      BY <1>7, <2>1, <2>2, ListEmpty DEF Splits
  <1>8. CASE b \notin U
    <2>1. result.qf = insert_at_home(qf, hash, 1) /\ result.ret = 0 /\ result.minirun_rank = 0
      BY <1>5, <1>8 DEF insert_using_ll_table
    <2>. DEFINE new == result.qf
                g == AloneHomes(U, h, b)
    <2>2. /\ Shaped(new, U \cup {b}, g) /\ new.slots = [qf.slots EXCEPT ![b] = rem]
          /\ new.extensions = qf.extensions
      <3>1. new = insert_at_home(qf, hash, 1)
        BY <2>1
      <3>. HIDE DEF new
      <3>. QED
        BY <1>8, <3>1, HomeInserted
    <2>3. Moved(qf, U, h, b, b, b, rem, new, AloneHomes(U, h, b))
      <3>1. new.slots = [qf.slots EXCEPT ![b] = rem] /\ new.extensions = qf.extensions
        BY <2>2
      <3>. HIDE DEF new, b, rem, g
      <3>. QED
        BY <1>2, <1>8, <3>1, AloneMoved DEF b
    <2>4. Fits(U \cup {b})
      BY <1>2, FitsMore
    <2>5. b \notin Homes(U, h)
      <3>1. \A q \in Homes(U, h) : q \in U
        BY <1>1, HomedTypes
      <3>. QED
        BY <1>8, <3>1
    <2>6. \A at : Splits(qf, U, h, b, at, rem)
      BY <1>7, <2>1, <2>5
    <2>7. PutIn(qf, U, h, b, b, bucket(hash), remainder(hash), new, g) /\ new.extensions = {}
      BY <2>2, <2>3 DEF PutIn
    <2>8. Entered(qf, U, h, hash, new)
      <3>1. Splits(qf, U, h, bucket(hash), b, remainder(hash))
        BY <2>6
      <3>. HIDE DEF new, b, rem, g
      <3>. QED
        BY <2>4, <2>7, <3>1 DEF Entered
    <2>. QED
      BY <1>7, <2>1, <2>5, <2>8
  <1>9. CASE b \in U
    <2>. DEFINE m == EndOf(U, h, b)
                at == m + 1
    <2>1. m \in Nat /\ at \in Nat /\ at <= free /\ \A i \in U : h[i] = b => i <= m
      <3>1. m \in Nat /\ (\A i \in Nat : b <= i /\ i <= m => i \in U) /\ \A k \in U : m < k => h[k] > b
        BY <1>1, <1>9, EndFacts
      <3>2. ~(free <= m)
        BY <1>2, <1>3, <3>1
      <3>3. \A i \in U : h[i] = b => i <= m
        BY <1>2, <1>6, <3>1
      <3>. QED
        BY <1>3, <3>1, <3>2, <3>3
    <2>2. HasSpace(qf, at)
      BY <1>4, <2>1
    <2>3. Placed(U, h, b, at)
      BY <1>1, <1>9, EndPlaced
    <2>4. CASE b \notin Homes(U, h)
      <3>. DEFINE u == find_first_empty_slot(qf, at)
                  new == result.qf
      <3>1. result.qf = insert_new_run(qf, hash, 1) /\ result.ret = 0 /\ result.minirun_rank = 0
        BY <1>1, <1>5, <1>9, <2>4 DEF insert_using_ll_table, is_occupied
      <3>2. ItemPut(qf, U, h, b, at, u, rem, new)
        <4>1. /\ bucket(hash) \in U /\ bucket(hash) \notin Homes(U, h)
              /\ at = EndOf(U, h, bucket(hash)) + 1 /\ HasSpace(qf, at)
              /\ u = find_first_empty_slot(qf, at) /\ new = insert_new_run(qf, hash, 1)
          BY <1>9, <2>2, <2>4, <3>1
        <4>. HIDE DEF u, new, at, m
        <4>2. ItemPut(qf, U, h, bucket(hash), at, u, remainder(hash), new)
          BY <4>1, NewRunInserted
        <4>. QED
          BY <4>2
      <3>3. Splits(qf, U, h, b, at, rem)
        BY <1>7, <2>4, <3>1
      <3>4. Entered(qf, U, h, hash, new)
        <4>. HIDE DEF u, new, at, m
        <4>. QED
          BY <2>3, <3>2, <3>3, PutEnters DEF ItemPut
      <3>. QED
        BY <1>7, <2>4, <3>1, <3>4
    <2>5. CASE b \in Homes(U, h)
      <3>. DEFINE s == run_start(qf, b)
                  i == FirstFrom({j \in (Slots \ qf.extensions) \cup {s} :
                                     get_slot(qf, j) >= rem \/ is_runend(qf, j)}, s)
                  at_end == get_slot(qf, i) < rem
                  place == IF at_end THEN at ELSE i
                  u == find_first_empty_slot(qf, place)
                  new == result.qf
      <3>1. s \in Items(qf, U, h, b) /\ \A k \in U : h[k] = b => s <= k
        <4>1. s \in U /\ h[s] = b /\ s \notin qf.extensions /\ \A k \in U : h[k] = b => s <= k
          BY <1>1, <2>5, RunStartIs
        <4>. QED
          BY <4>1 DEF Items
      <3>. HIDE DEF s
      <3>2. PICK x \in RunEnds(qf) : h[x] = b
        BY <1>1, <2>5, HasLastItem
      <3>3. x \in Items(qf, U, h, b) /\ s <= x
        <4>1. x \in U /\ x \notin qf.extensions
          BY <1>1, <3>2, HomedTypes DEF RunEnds
        <4>. QED
          BY <3>1, <3>2, <4>1 DEF Items
      <3>4. /\ i \in Items(qf, U, h, b) /\ i \in Nat
            /\ at_end => i \in RunEnds(qf)
        <4>. HIDE DEF b, rem
        <4>. QED
          BY <1>1, <1>2, <3>1, <3>2, <3>3, StopIs
      <3>5. \A j \in Items(qf, U, h, b) : s <= j /\ j < i => get_slot(qf, j) < rem
        <4>. HIDE DEF b, rem
        <4>. QED
          BY <1>1, <1>2, <3>1, StopFirst
      <3>6. /\ result.qf = insert_in_run(qf, hash, 1, i, at_end, 1) /\ result.ret = 0
            /\ result.minirun_rank = IF get_slot(qf, i) = rem THEN count_minirun(qf, rem, i) ELSE 0
        <4>1. ~(i >= XnSlots)
          BY <3>4, Sizes DEF Items, Fits
        <4>2. is_occupied(qf, b) /\ ~home_slot_empty(qf, b)
          BY <1>1, <1>5, <1>9, <2>5 DEF is_occupied
        <4>. QED
          BY <4>1, <4>2 DEF insert_using_ll_table, s
      <3>. HIDE DEF i
      <3>7. i \in U /\ h[i] = b /\ i <= m /\ i \notin qf.extensions /\ get_slot(qf, i) = qf.slots[i]
        BY <1>6, <2>1, <3>4 DEF Items
      <3>8. HasSpace(qf, place) /\ Placed(U, h, b, place)
        <4>1. i <= free
          BY <1>3, <2>1, <3>4, <3>7
        <4>2. Placed(U, h, b, i)
          BY <1>1, <3>7, FrontPlaced
        <4>. QED
          BY <1>4, <2>2, <2>3, <3>4, <4>1, <4>2
      <3>9. ItemPut(qf, U, h, b, place, u, rem, new)
        <4>1. /\ at_end \in BOOLEAN /\ place = (IF at_end THEN EndOf(U, h, bucket(hash)) + 1 ELSE i) /\ 1 \in Nat
              /\ i \in Items(qf, U, h, bucket(hash)) /\ (at_end => i \in RunEnds(qf)) /\ HasSpace(qf, place)
              /\ u = find_first_empty_slot(qf, place) /\ new = insert_in_run(qf, hash, 1, i, at_end, 1)
          BY <3>4, <3>6, <3>8
        <4>. HIDE DEF place, at_end, m, at, u, new
        <4>2. ItemPut(qf, U, h, bucket(hash), place, u, remainder(hash), new)
          BY <4>1, InRunInserted
        <4>. QED
          BY <4>2
      \* The items before the stop are less, the others are not.
      <3>10. ASSUME NEW j \in U \ qf.extensions, h[j] = b
             PROVE  /\ j \in Items(qf, U, h, b) /\ s <= j /\ j \in Nat /\ qf.slots[j] \in Nat
                    /\ j < i => qf.slots[j] < rem
                    /\ i <= j => qf.slots[i] <= qf.slots[j]
                    /\ at_end => j <= i
        <4>1. j \in Items(qf, U, h, b) /\ s <= j /\ j \in Nat /\ qf.slots[j] \in Nat
              /\ get_slot(qf, j) = qf.slots[j]
          BY <1>6, <3>1, <3>10 DEF Items
        <4>2. j < i => qf.slots[j] < rem
          BY <3>5, <4>1
        <4>3. i <= j => qf.slots[i] <= qf.slots[j]
          <5>1. CASE i = j
            BY <4>1, <5>1
          <5>2. CASE i # j
            <6>1. i <= j => i < j
              BY <3>4, <4>1, <5>2
            <6>. QED
              BY <3>7, <3>10, <6>1 DEF Sorted
          <5>. QED
            BY <5>1, <5>2
        <4>4. at_end => j <= i
          <5>1. ASSUME at_end PROVE j <= i
            <6>1. \A y \in Items(qf, U, h, b) : y <= i
              <7>1. i \in RunEnds(qf) /\ i \in Items(qf, U, h, b)
                BY <3>4, <5>1
              <7>. HIDE DEF b
              <7>. QED
                BY <1>1, <7>1, LastItemOnly
            <6>. QED
              BY <4>1, <6>1
          <5>. HIDE DEF at_end
          <5>. QED
            BY <5>1
        <4>. QED
          BY <4>1, <4>2, <4>3, <4>4
      <3>11. Splits(qf, U, h, b, place, rem)
        <4>1. ASSUME NEW j \in U \ qf.extensions, h[j] = b
              PROVE  IF j < place THEN qf.slots[j] < rem ELSE rem <= qf.slots[j]
          <5>1. /\ j \in Nat /\ qf.slots[j] \in Nat
                /\ j < i => qf.slots[j] < rem
                /\ i <= j => qf.slots[i] <= qf.slots[j]
                /\ at_end => j <= i
            BY <3>10, <4>1
          <5>2. qf.slots[i] \in Nat /\ i \in Nat /\ (at_end <=> qf.slots[i] < rem)
            BY <1>6, <3>4, <3>7
          <5>3. CASE at_end
            <6>1. j < place
              BY <2>1, <3>7, <5>1, <5>2, <5>3
            <6>2. j = i \/ j < i
              BY <5>1, <5>2, <5>3
            <6>. QED
              BY <5>1, <5>2, <5>3, <6>1, <6>2
          <5>4. CASE ~at_end
            <6>1. place = i
              BY <5>4
            <6>2. j < i \/ i <= j
              BY <5>1, <5>2
            <6>3. rem <= qf.slots[i]
              BY <1>2, <5>2, <5>4
            <6>. HIDE DEF place, at_end, rem
            <6>. QED
              BY <1>2, <5>1, <5>2, <6>1, <6>2, <6>3
          <5>. QED
            BY <5>3, <5>4
        <4>. HIDE DEF place
        <4>. QED
          BY <4>1 DEF Splits
      <3>12. Entered(qf, U, h, hash, new)
        <4>. HIDE DEF u, new, place, at_end, at, m
        <4>. QED
          BY <3>8, <3>9, <3>11, PutEnters DEF ItemPut
      <3>13. ASSUME NEW n, NEW e, Lists(e, n, T) PROVE result.minirun_rank = n
        <4>1. \A j \in T : j \in Nat /\ i <= j /\ qf.slots[j] = rem /\ qf.slots[i] <= rem
          <5>1. ASSUME NEW j \in T PROVE j \in Nat /\ i <= j /\ qf.slots[j] = rem /\ qf.slots[i] <= rem
            <6>1. j \in U \ qf.extensions /\ h[j] = b /\ qf.slots[j] = rem
              BY <1>6 DEF Minirun, Items
            <6>2. /\ j \in Nat
                  /\ j < i => qf.slots[j] < rem
                  /\ i <= j => qf.slots[i] <= qf.slots[j]
              BY <3>10, <6>1
            <6>. QED
              BY <1>2, <3>4, <6>1, <6>2
          <5>. QED
            BY <5>1
        <4>2. CASE get_slot(qf, i) = rem
          <5>1. i \in T
            BY <3>4, <4>2 DEF Minirun
          <5>2. e[0] = i /\ n # 0
            <6>1. PICK r \in 0 .. n - 1 : e[r] = i
              BY <3>13, <5>1 DEF Lists
            <6>2. n \in Nat /\ n # 0 /\ 0 \in 0 .. n - 1 /\ (r # 0 => 0 < r)
              BY <3>13, <6>1 DEF Lists
            <6>3. e[0] \in T /\ (r # 0 => e[0] < e[r])
              BY <3>13, <6>2 DEF Lists
            <6>4. e[0] \in Nat /\ i <= e[0]
              BY <4>1, <6>3
            <6>. QED
              BY <3>4, <6>1, <6>2, <6>3, <6>4
          <5>3. count_minirun(qf, rem, e[0]) = n
            <6>1. Lists(e, n, Minirun(qf, U, h, hash)) /\ n # 0
              BY <3>13, <5>2
            <6>. QED
              BY <6>1, CountExact
          <5>. QED
            BY <3>6, <4>2, <5>2, <5>3
        <4>3. CASE get_slot(qf, i) # rem
          <5>1. T = {}
            <6>1. SUFFICES ASSUME NEW j \in T PROVE FALSE
              OBVIOUS
            <6>2. qf.slots[i] < rem /\ qf.slots[i] \in Nat
              BY <1>2, <1>6, <3>7, <4>1, <4>3
            <6>3. j \in U \ qf.extensions /\ h[j] = b
              BY DEF Minirun, Items
            <6>4. j <= i
              BY <3>7, <3>10, <6>2, <6>3
            <6>5. j = i
              BY <3>4, <4>1, <6>4
            <6>. QED
              BY <3>7, <4>1, <4>3, <6>5
          <5>2. n = 0
            BY <3>13, <5>1, ListEmpty
          <5>. QED
            BY <3>6, <4>3, <5>2
        <4>. QED
          BY <4>2, <4>3
      <3>. QED
        BY <3>6, <3>12, <3>13
    <2>. QED
      BY <2>4, <2>5
  <1>. QED
    BY <1>8, <1>9

-----------------------------------------------------------------------------
(***************************************************************************)
(* Charges                                                                 *)
(***************************************************************************)
\* A filter in shape with sorted runs, one-slot counters and the rows of K
\* filed.
Tidied(qf, U, h, K, rows) ==
    /\ Shaped(qf, U, h) /\ Fits(U) /\ Sorted(qf, U, h) /\ Counted(qf)
    /\ \A k \in K : Filed(qf, U, h, k, rows[k])

Tidy(qf, K, rows) == \E U, h : Tidied(qf, U, h, K, rows)

\* What the metadata counts is not part of it.
LEMMA TidySame ==
    ASSUME NEW qf, NEW K, NEW rows, Tidy(qf, K, rows), NEW n \in Nat,
           NEW new, new = [qf EXCEPT !.nelts = @ + n]
    PROVE  Tidy(new, K, rows)
  <1>1. PICK U, h : Tidied(qf, U, h, K, rows)
    BY DEF Tidy
  <1>2. Shaped(qf, U, h) /\ qf \in Filters
    BY <1>1 DEF Tidied, Shaped
  <1>3. new = Updated(qf, qf.slots, qf.occupieds, qf.runends, qf.extensions,
                      qf.noccupied_slots, qf.nelts + n, qf.ndistinct_elts)
    BY <1>2 DEF Filters, Updated
  <1>4. /\ new \in Filters /\ new.occupieds = qf.occupieds /\ new.runends = qf.runends
        /\ new.extensions = qf.extensions /\ new.offset = qf.offset
        /\ new.noccupied_slots = qf.noccupied_slots /\ new.slots = qf.slots
    <2>1. /\ qf.slots \in [Slots -> SlotValues] /\ qf.occupieds \in SUBSET Buckets /\ qf.runends \in SUBSET Slots
          /\ qf.extensions \in SUBSET Slots /\ qf.noccupied_slots \in Nat
          /\ qf.nelts + n \in Nat /\ qf.ndistinct_elts \in Nat
      BY <1>2 DEF Filters
    <2>. QED
      BY <1>2, <1>3, <2>1, UpdatedFields
  <1>5. ChunksFirst(new) /\ RunEnds(new) = RunEnds(qf) /\ new.runends \in SUBSET qf.runends
    BY <1>2, <1>4 DEF Shaped, ChunksFirst, is_counter, is_extension, RunEnds
  <1>6. Shaped(new, U, h)
    BY <1>2, <1>4, <1>5, SameShape
  <1>7. Sorted(new, U, h) /\ Counted(new)
    BY <1>1, <1>4 DEF Tidied, Sorted, Counted
  <1>8. \A hash : Minirun(new, U, h, hash) = Minirun(qf, U, h, hash)
    BY <1>4 DEF Minirun, Items, get_slot
  <1>9. \A j, key : Carries(qf, j, key) => Carries(new, j, key)
    BY <1>4 DEF Carries, ChunkTo
  <1>10. ASSUME NEW k \in K PROVE Filed(new, U, h, k, rows[k])
    <2>1. Filed(qf, U, h, k, rows[k])
      BY <1>1 DEF Tidied
    <2>. QED
      BY <1>8, <1>9, <2>1 DEF Filed
  <1>. QED
    BY <1>1, <1>6, <1>7, <1>10 DEF Tidied, Tidy

\* A chunk or a counter slot put in.
LEMMA MarkedPut ==
    ASSUME NEW qf, NEW U, NEW h, Shaped(qf, U, h), NEW b, NEW at, at \notin qf.extensions, NEW ends \in SUBSET {at},
           NEW value, NEW u, NEW new, IsMarked(qf, U, h, b, at, ends, value, u, new)
    PROVE  /\ PutIn(qf, U, h, at, u, b, value, new, PutHomes(U, h, b, u))
           /\ at \in new.extensions /\ (at \in new.runends <=> at \in ends)
  <1>. DEFINE g == PutHomes(U, h, b, u)
  <1>1. /\ Placed(U, h, b, at) /\ FreeFrom(U, at, u) /\ u < XnSlots /\ u \in Nat /\ at <= u
        /\ new.slots = ShiftedSlots(qf, at, u, value)
        /\ new.extensions = ShiftBits(qf.extensions, at, u) \cup {at}
        /\ new.runends = ShiftBits(qf.runends, at, u) \cup ends
        /\ Shaped(new, U \cup {u}, PutHomes(U, h, b, u))
    BY DEF IsMarked
  <1>2. Laid(U, h, PastEnd) /\ qf.runends \in SUBSET U /\ qf.extensions \in SUBSET U /\ U \in SUBSET Nat
    BY ChunkFacts DEF Shaped, Homed
  <1>3. at \notin ShiftBits(qf.runends, at, u) /\ at \in Nat
    <2>1. at \in Nat
      BY <1>1 DEF Placed
    <2>. QED
      BY <1>1, <1>2, <2>1, ShiftedInside
  <1>4. ASSUME NEW i \in qf.extensions
        PROVE  Up(at, u, i) \in new.runends <=> Up(at, u, i) \in ShiftBits(qf.runends, at, u)
    <2>1. Up(at, u, i) # at
      BY <1>1, <1>2, <1>3, UpOrder
    <2>. QED
      BY <1>1, <2>1
  <1>5. u < PastEnd /\ {at} \in SUBSET {at}
    BY <1>1, Sizes
  <1>6. Moved(qf, U, h, at, u, b, value, new, PutHomes(U, h, b, u))
    BY <1>1, <1>4, <1>5, PutMoved
  <1>. HIDE DEF g
  <1>. QED
    BY <1>1, <1>3, <1>6 DEF PutIn

\* A first counter slot that says 2 leaves the rows filed.
LEMMA CounterTidies ==
    ASSUME NEW qf, NEW U, NEW h, NEW K, NEW rows, Tidied(qf, U, h, K, rows),
           NEW at, NEW u, NEW q, NEW value, NEW new, NEW g,
           PutIn(qf, U, h, at, u, q, value, new, g), Fits(U \cup {u}),
           value = 2, at \in new.extensions \intersect new.runends,
           at - 1 \notin qf.extensions \intersect qf.runends
    PROVE  Tidied(new, U \cup {u}, g, K, rows)
  <1>1. Sorted(new, U \cup {u}, g)
    BY SortedMoved DEF Tidied
  <1>2. Counted(new)
    BY CountedMoved DEF Tidied
  <1>3. ASSUME NEW k \in K PROVE Filed(new, U \cup {u}, g, k, rows[k])
    <2>1. PICK n, e : /\ Lists(e, n, Minirun(qf, U, h, k)) /\ DOMAIN rows[k] = 0 .. n - 1
                      /\ \A r \in 0 .. n - 1 : Carries(qf, e[r], rows[k][r])
      BY DEF Tidied, Filed
    <2>2. \A r \in 0 .. n - 1 : ~NewChunk(qf, e[r], at, new)
      BY DEF NewChunk
    <2>3. \A r \in 0 .. n - 1 : /\ Carries(qf, e[r], rows[k][r])
                                /\ NewChunk(qf, e[r], at, new) => value = chunk(rows[k][r], at - e[r] - 1)
      BY <2>1, <2>2
    <2>4. ~(at \notin new.extensions /\ q = bucket(k) /\ value = remainder(k))
      OBVIOUS
    <2>. QED
      BY <2>1, <2>3, <2>4, FiledMoved
  <1>4. Shaped(new, U \cup {u}, g)
    BY DEF PutIn
  <1>. QED
    BY <1>1, <1>2, <1>3, <1>4 DEF Tidied

\* 2 has one digit.
LEMMA LengthOfTwo ==
    ASSUME BitsPerSlot > 1
    PROVE  /\ Length(2) = 1 /\ Max({0, Length(2)}) = 1
           /\ (2 \div 2 ^ (BitsPerSlot * (1 - 1))) % 2 ^ BitsPerSlot = 2 /\ 2 \in SlotValues
  <1>1. BitsPerSlot \in Nat /\ BitsPerSlot * 0 = 0 /\ BitsPerSlot * 1 = BitsPerSlot /\ 2 <= BitsPerSlot
    BY GQFAssumption
  <1>2. 2 ^ 0 = 1 /\ 2 < 2 ^ BitsPerSlot /\ 2 ^ BitsPerSlot \in Nat
    <2>1. 2 < 2 ^ 2 /\ 2 ^ 2 <= 2 ^ BitsPerSlot /\ 2 ^ BitsPerSlot \in Nat /\ 2 ^ 2 \in Nat
      BY <1>1, PowerExceeds, PowerGrows, PowerOfTwo
    <2>. QED
      BY <2>1, PowerSmall
  <1>. DEFINE Is(k) == 2 < 2 ^ (BitsPerSlot * k) /\ (k > 0 => 2 >= 2 ^ (BitsPerSlot * (k - 1)))
              L == CHOOSE k \in 0 .. 2 : Is(k)
  <1>3. Is(1) /\ 1 \in 0 .. 2 /\ ~Is(0)
    <2>1. 1 - 1 = 0 /\ 1 \in 0 .. 2 /\ ~(2 < 1) /\ 2 >= 1 /\ 1 > 0
      OBVIOUS
    <2>2. 2 ^ (BitsPerSlot * 1) = 2 ^ BitsPerSlot /\ 2 ^ (BitsPerSlot * 0) = 1
      BY <1>1, <1>2
    <2>3. 2 ^ (BitsPerSlot * (1 - 1)) = 1
      BY <2>1, <2>2
    <2>. QED
      BY <1>2, <2>1, <2>2, <2>3
  <1>4. L \in 0 .. 2 /\ Is(L)
    <2>. HIDE DEF Is
    <2>. QED
      BY <1>3
  <1>5. Length(2) = L
    BY DEF Length
  <1>. HIDE DEF L
  <1>6. L <= 1
    <2>1. 2 < 2 ^ (BitsPerSlot * 1) /\ 2 \in Nat /\ 1 \in Nat
      BY <1>1, <1>2
    <2>2. Length(2) <= 1
      BY <2>1, LengthIs
    <2>. QED
      BY <1>5, <2>2
  <1>7. L = 1
    <2>1. L # 0
      <3>. HIDE DEF Is
      <3>. QED
        BY <1>3, <1>4
    <2>. QED
      BY <1>4, <1>6, <2>1
  <1>8. Max({0, 1}) = 1
    BY MinMaxOfTwo
  <1>9. (2 \div 2 ^ (BitsPerSlot * (1 - 1))) % 2 ^ BitsPerSlot = 2
    <2>. DEFINE P == 2 ^ BitsPerSlot
    <2>1. 1 - 1 = 0
      OBVIOUS
    <2>2. 2 ^ (BitsPerSlot * (1 - 1)) = 1
      BY <1>1, <1>2, <2>1
    <2>3. P \in Nat /\ 2 < P
      BY <1>2
    <2>. HIDE DEF P
    <2>4. 2 \div 1 = 2 /\ 2 % P = 2
      BY <2>3
    <2>. QED
      BY <2>2, <2>4 DEF P
  <1>10. 2 \in SlotValues
    BY <1>2 DEF SlotValues
  <1>. QED
    BY <1>5, <1>7, <1>8, <1>9, <1>10

\* One-slot counters say 2, and an item without one counts once.
LEMMA CountOf ==
    ASSUME NEW qf, NEW U, NEW h, Shaped(qf, U, h), Fits(U), Counted(qf), NEW i \in U,
           NEW info, info = get_slot_info(qf, i)
    PROVE  /\ info.ext_len \in Nat /\ info.count_len \in {0, 1}
           /\ info.count = IF info.count_len = 0 THEN 1 ELSE 2
  <1>. DEFINE c == i + 1 + info.ext_len
              e == c + info.count_len
  <1>1. qf \in Filters /\ Homed(qf, U, h) /\ ChunksFirst(qf)
    BY DEF Shaped
  <1>2. /\ i \in Nat /\ i \in Slots /\ U \in SUBSET Slots /\ U \in SUBSET Nat
        /\ qf.extensions \in SUBSET U /\ qf.extensions \in SUBSET Slots
    BY <1>1, HomedTypes
  <1>3. /\ info.ext_len \in Nat /\ info.count_len \in Nat
        /\ c \in Nat /\ e \in Nat /\ c <= e
        /\ \A k \in Nat : c <= k /\ k < e => is_counter(qf, k)
        /\ info.count = IF e = c THEN 1 ELSE number(qf, c, e)
    <2>1. c = i + 1 + info.ext_len /\ e = c + info.count_len
      OBVIOUS
    <2>. HIDE DEF c, e
    <2>. QED
      BY <1>2, <2>1, InfoPlaces
  <1>4. e = c + info.count_len
    OBVIOUS
  <1>. HIDE DEF c, e
  <1>5. info.count_len \in {0, 1}
    <2>1. ASSUME info.count_len >= 2 PROVE FALSE
      <3>1. c < e /\ c + 1 \in Nat /\ c <= c + 1 /\ c + 1 < e
        BY <1>3, <1>4, <2>1
      <3>2. c \in qf.extensions \intersect qf.runends /\ c + 1 \in qf.extensions
        BY <1>3, <3>1 DEF is_counter
      <3>. QED
        BY <3>2 DEF Counted
    <2>. QED
      BY <1>3, <2>1
  <1>6. CASE info.count_len = 0
    BY <1>3, <1>4, <1>6
  <1>7. CASE info.count_len = 1
    <2>1. e = c + 1 /\ e # c /\ c < e /\ c <= c
      BY <1>3, <1>4, <1>7
    <2>2. c \in qf.extensions \intersect qf.runends
      BY <1>3, <2>1 DEF is_counter
    <2>3. get_slot(qf, c) = 2
      <3>1. get_slot(qf, c) = qf.slots[c]
        BY <1>2, <2>2, SlotRead
      <3>. QED
        BY <2>2, <3>1 DEF Counted
    <2>. DEFINE n == CHOOSE f : IsNumber(qf, c, e, f)
    <2>4. IsNumber(qf, c, e, n)
      <3>1. \E f : IsNumber(qf, c, e, f)
        BY <1>3, NumberExists
      <3>. QED
        BY <3>1
    <2>5. number(qf, c, e) = n[c]
      BY NumberDef
    <2>. HIDE DEF n
    <2>6. n[c] = Digits(qf, e, n, c) /\ n[e] = Digits(qf, e, n, e)
      <3>1. c \in c .. e /\ e \in c .. e
        BY <1>3, <2>1
      <3>. QED
        BY <2>4, <3>1 DEF IsNumber
    <2>7. n[e] = 0 /\ n[c] = 2 + 2 ^ BitsPerSlot * 0
      BY <2>1, <2>3, <2>6 DEF Digits
    <2>8. 2 ^ BitsPerSlot \in Nat
      BY PowerOfTwo, GQFAssumption
    <2>9. n[c] = 2
      BY <2>7, <2>8
    <2>. QED
      BY <1>3, <1>7, <2>1, <2>5, <2>9
  <1>. QED
    BY <1>3, <1>5, <1>6, <1>7

\* The first charge is a counter slot put in at at.
FirstSlot(qf, hash, index, at) ==
    increment_counter(qf, index, hash, 1)
      = [Marked(insert_one_slot(qf, bucket(hash), at, 2), at, {at}) EXCEPT !.nelts = @ + 1]

\* The first charge of an item adds a counter slot behind its chunks.
LEMMA FirstCharge ==
    ASSUME NEW qf, NEW U, NEW h, Shaped(qf, U, h), Fits(U), Counted(qf), BitsPerSlot > 1,
           NEW hash \in Nat, NEW index \in Items(qf, U, h, bucket(hash)),
           NEW info, info = get_slot_info(qf, index), info.count_len = 0,
           NEW at, at = index + info.ext_len + 1
    PROVE  FirstSlot(qf, hash, index, at)
  <1>. DEFINE b == bucket(hash)
              total == 2
              n == 1
              g == CHOOSE f : IsRewrite(qf, index, info, hash, total, n, f)
              one == Marked(insert_one_slot(qf, b, at, 2), at, {at})
  <1>1. info.count = 1
    <2>1. index \in U
      BY DEF Items
    <2>. QED
      BY <2>1, CountOf
  <1>2. /\ Length(2) = 1 /\ Max({0, Length(2)}) = 1
        /\ (2 \div 2 ^ (BitsPerSlot * (1 - 1))) % 2 ^ BitsPerSlot = 2
    BY LengthOfTwo
  <1>3. IsRewrite(qf, index, info, hash, total, n, g)
    <2>1. n \in Nat
      OBVIOUS
    <2>2. \E f : IsRewrite(qf, index, info, hash, total, n, f)
      <3>. HIDE DEF n, total
      <3>. QED
        BY <2>1, RewriteExists
    <2>. QED
      BY <2>2
  <1>4. rewrite_counter(qf, index, info, hash, total) = g[n]
    <2>1. n = Max({info.count_len, Length(total)})
      BY <1>2
    <2>. HIDE DEF n, total, one, b
    <2>2. rewrite_counter(qf, index, info, hash, total)
             = (CHOOSE f : IsRewrite(qf, index, info, hash, total, n, f))[n]
      BY <2>1, RewriteDef
    <2>. QED
      BY <2>2
  <1>. HIDE DEF g
  <1>5. g[0] = RewriteStep(qf, index, info, hash, 2, g, 0) /\ g[1] = RewriteStep(qf, index, info, hash, 2, g, 1)
    <2>1. 0 \in 0 .. 1 /\ 1 \in 0 .. 1
      OBVIOUS
    <2>. QED
      BY <1>3, <2>1 DEF IsRewrite
  <1>6. g[0] = qf
    BY <1>5 DEF RewriteStep
  <1>7. g[1] = one
    <2>1. ~(1 <= info.count_len) /\ 1 - 1 = 0
      OBVIOUS
    <2>. QED
      BY <1>2, <1>5, <1>6, <2>1 DEF RewriteStep
  <1>8. info.count + 1 = 2
    BY <1>1
  <1>9. increment_counter(qf, index, hash, 1) = [rewrite_counter(qf, index, info, hash, 2) EXCEPT !.nelts = @ + 1]
    BY <1>8 DEF increment_counter
  <1>. QED
    BY <1>4, <1>7, <1>9 DEF FirstSlot

\* The item at index of hash's bucket has been charged for the first time: one is
\* qf with a counter slot put in at at, behind the item's chunks.
ChargedBy(qf, U, h, hash, index, at, u, one, g) ==
    /\ PutIn(qf, U, h, at, u, bucket(hash), 2, one, g) /\ Fits(U \cup {u})
    /\ at \in one.extensions \intersect one.runends /\ at - 1 \notin qf.extensions \intersect qf.runends
    /\ at = index + get_slot_info(qf, index).ext_len + 1
    /\ increment_counter(qf, index, hash, 1) = [one EXCEPT !.nelts = @ + 1]

\* With room for it behind its bucket, the first charge puts in such a slot.
LEMMA ChargePuts ==
    ASSUME NEW qf, NEW U, NEW h, Shaped(qf, U, h), Fits(U), Counted(qf), BitsPerSlot > 1,
           NEW hash \in Nat, NEW index \in Items(qf, U, h, bucket(hash)), Room(U, bucket(hash), 2),
           get_slot_info(qf, index).count_len = 0
    PROVE  \E at, u, one, g : ChargedBy(qf, U, h, hash, index, at, u, one, g)
  <1>. DEFINE b == bucket(hash)
              info == get_slot_info(qf, index)
              at == index + info.ext_len + 1
              u == find_first_empty_slot(qf, at)
              moved == make_space(qf, b, at, u, 2)
              one == Marked(moved, at, {at})
  <1>1. /\ Shaped(qf, U, h) /\ Fits(U) /\ Counted(qf) /\ qf \in Filters
        /\ Homed(qf, U, h) /\ Stored(qf, U, h) /\ ChunksFirst(qf) /\ index \in U /\ b \in Nat
    BY BucketType DEF Shaped, Items
  <1>2. /\ index \in Nat /\ info.ext_len \in Nat
        /\ index + 1 + info.ext_len + info.count_len = skip_extensions(qf, index + 1)
        /\ \A k \in Nat : index < k /\ k < index + 1 + info.ext_len => is_extension(qf, k)
    <2>1. index \in Nat
      BY <1>1, HomedTypes
    <2>. QED
      BY <1>1, <2>1, InfoIs
  <1>3. at = skip_extensions(qf, index + 1) /\ at \in Nat
    BY <1>2
  <1>4. at - 1 \notin qf.extensions \intersect qf.runends
    <2>1. at - 1 \in Nat /\ (at - 1 = index \/ (index < at - 1 /\ at - 1 < index + 1 + info.ext_len))
      BY <1>2
    <2>2. index \notin qf.extensions
      BY DEF Items
    <2>. QED
      BY <1>2, <2>1, <2>2 DEF is_extension
  <1>5. increment_counter(qf, index, hash, 1)
          = [Marked(insert_one_slot(qf, b, at, 2), at, {at}) EXCEPT !.nelts = @ + 1]
    <2>1. /\ Shaped(qf, U, h) /\ Fits(U) /\ Counted(qf) /\ BitsPerSlot > 1 /\ hash \in Nat
          /\ index \in Items(qf, U, h, bucket(hash))
          /\ info = get_slot_info(qf, index) /\ info.count_len = 0 /\ at = index + info.ext_len + 1
      OBVIOUS
    <2>. HIDE DEF info, at
    <2>2. FirstSlot(qf, hash, index, at)
      BY <2>1, FirstCharge
    <2>. QED
      BY <2>2 DEF FirstSlot
  <1>. HIDE DEF info, at
  <1>6. PICK V, k : Shaped(qf, V, k) /\ Fits(V) /\ Behind(qf, V, k, b, at) /\ Room(V, at, 2)
    <2>1. Counting(qf, b, at, 2)
      <3>1. 2 \in Nat
        OBVIOUS
      <3>. QED
        BY <1>1, <1>3, CountingStarts
    <2>. QED
      BY <2>1 DEF Counting
  \* Which layout is the filter's is not said there, so once more for this one.
  <1>7. Behind(qf, U, h, b, at)
    <2>1. at # 0 /\ at \notin qf.extensions /\ at - 1 \in Nat /\ index <= at - 1 /\ at - 1 < at
      BY <1>2, <1>6 DEF Behind, at
    <2>2. at - 1 \in U /\ h[at - 1] = h[index] /\ h[index] = b
      BY <1>1, <1>3, <2>1, ItemSlots DEF Items
    <2>. QED
      BY <1>3, <2>1, <2>2 DEF Behind
  <1>8. HasSpace(qf, at)
    <2>1. PICK F : /\ IsFiniteSet(F) /\ Cardinality(F) >= 2
                   /\ \A f \in F : f \in Nat /\ at <= f /\ f < XnSlots /\ f \notin V
      BY <1>6 DEF Room
    <2>2. PICK f \in F : TRUE
      BY <2>1, FS_EmptySet
    <2>3. Homed(qf, V, k) /\ Stored(qf, V, k)
      BY <1>6 DEF Shaped
    <2>. QED
      BY <1>3, <2>1, <2>2, <2>3, RoomFound
  <1>9. 2 \in SlotValues
    BY LengthOfTwo
  <1>10. insert_one_slot(qf, b, at, 2) = moved
    <2>1. u = find_first_empty_slot(qf, at) /\ moved = make_space(qf, b, at, u, 2)
      OBVIOUS
    <2>. HIDE DEF u, moved
    <2>. QED
      BY <1>1, <1>3, <1>8, <1>9, <2>1, SpaceMade
  <1>11. IsMarked(qf, U, h, b, at, {at}, 2, u, one)
    <2>1. Markable(qf, U, h, b, at, {at})
      BY <1>1, <1>7, <1>8 DEF Markable
    <2>. HIDE DEF b
    <2>. QED
      BY <1>1, <1>9, <2>1, MarkedFields
  <1>. HIDE DEF u, moved, one
  <1>12. /\ PutIn(qf, U, h, at, u, b, 2, one, PutHomes(U, h, b, u))
         /\ at \in one.extensions \intersect one.runends
    <2>1. at \notin qf.extensions /\ {at} \in SUBSET {at}
      BY <1>7 DEF Behind
    <2>. HIDE DEF b
    <2>2. /\ PutIn(qf, U, h, at, u, b, 2, one, PutHomes(U, h, b, u))
          /\ at \in one.extensions /\ (at \in one.runends <=> at \in {at})
      BY <1>1, <1>11, <2>1, MarkedPut
    <2>. QED
      BY <2>2
  <1>13. Fits(U \cup {u})
    BY <1>11 DEF IsMarked
  <1>14. increment_counter(qf, index, hash, 1) = [one EXCEPT !.nelts = @ + 1]
    BY <1>5, <1>10 DEF one
  <1>15. at = index + get_slot_info(qf, index).ext_len + 1
    BY DEF at, info
  <1>. QED
    BY <1>4, <1>12, <1>13, <1>14, <1>15 DEF ChargedBy

(***************************************************************************)
(* The first charge of an item, with room for it behind its bucket, leaves *)
(* every row filed: it pushes the slots behind it up as they are, and the  *)
(* items that it does not belong to keep their chunks.                     *)
(***************************************************************************)
THEOREM ChargeTidies ==
    ASSUME NEW qf, NEW U, NEW h, NEW K, NEW rows, Tidied(qf, U, h, K, rows), BitsPerSlot > 1,
           NEW hash \in Nat, NEW index \in Items(qf, U, h, bucket(hash)), Room(U, bucket(hash), 2),
           get_slot_info(qf, index).count_len = 0
    PROVE  Tidy(increment_counter(qf, index, hash, 1), K, rows)
  <1>1. Shaped(qf, U, h) /\ Fits(U) /\ Counted(qf)
    BY DEF Tidied
  <1>2. PICK at, u, one, g : ChargedBy(qf, U, h, hash, index, at, u, one, g)
    BY <1>1, ChargePuts
  <1>3. Tidied(one, U \cup {u}, g, K, rows)
    BY <1>2, CounterTidies DEF ChargedBy
  <1>4. increment_counter(qf, index, hash, 1) = [one EXCEPT !.nelts = @ + 1]
    BY <1>2 DEF ChargedBy
  <1>. QED
    BY <1>3, <1>4, TidySame DEF Tidy

-----------------------------------------------------------------------------
(***************************************************************************)
(* Extensions                                                              *)
(***************************************************************************)
\* A filter that is tidy, and whose item x is filed with key.
Owned(qf, U, h, K, rows, x, key) ==
    /\ Shaped(qf, U, h) /\ Fits(U) /\ Sorted(qf, U, h) /\ Counted(qf)
    /\ \A k \in K : FiledAs(qf, U, h, k, rows[k], x, key)

\* Between the item x and the slot at are chunks only.
ChunksFrom(qf, x, at) ==
    /\ x \in Nat /\ x < at /\ x \notin qf.extensions
    /\ \A j \in Nat : x < j /\ j < at => j \in qf.extensions \ qf.runends

\* The chunks of item x of bucket b may go on at at, or there is no free slot
\* from there on.
Extending(qf, K, rows, b, x, key, at) ==
    \E U, h :
        /\ Owned(qf, U, h, K, rows, x, key)
        /\ \/ Behind(qf, U, h, b, at) /\ ChunksFrom(qf, x, at)
           \/ \A k \in Nat : at <= k /\ k < XnSlots => k \in U

\* Chunks belong to one item only.
LEMMA OneOwner ==
    ASSUME NEW qf, NEW x, NEW at \in Nat, ChunksFrom(qf, x, at), NEW j \in Nat, j < at, j \notin qf.extensions,
           \A k \in Nat : j < k /\ k < at => k \in qf.extensions
    PROVE  j = x
  BY DEF ChunksFrom

\* The slot of a row's item is no chunk.
LEMMA ListedItems ==
    ASSUME NEW qf, NEW U, NEW h, Shaped(qf, U, h), NEW hash, NEW n, NEW e, Lists(e, n, Minirun(qf, U, h, hash)),
           NEW r \in 0 .. n - 1
    PROVE  e[r] \in Minirun(qf, U, h, hash) /\ e[r] \in U /\ e[r] \in Nat /\ e[r] \notin qf.extensions
  <1>1. e[r] \in Minirun(qf, U, h, hash)
    BY DEF Lists
  <1>2. U \in SUBSET Nat
    BY ChunkFacts
  <1>. QED
    BY <1>1, <1>2 DEF Minirun, Items

\* A chunk of the key, put in behind the chunks of its item, leaves the rows
\* filed.
LEMMA ChunkTidies ==
    ASSUME NEW qf, NEW U, NEW h, NEW K, NEW rows, NEW x, NEW key, Owned(qf, U, h, K, rows, x, key),
           NEW at, NEW u, NEW q, NEW value, NEW new, NEW g,
           PutIn(qf, U, h, at, u, q, value, new, g), Fits(U \cup {u}),
           value = chunk(key, at - x - 1), at \in new.extensions \ new.runends,
           ChunksFrom(qf, x, at)
    PROVE  Owned(new, U \cup {u}, g, K, rows, x, key)
  <1>0. Shaped(qf, U, h) /\ at \in Nat /\ x \in Nat /\ x < at
    BY MarkOrigin DEF Owned, ChunksFrom
  <1>1. Sorted(new, U \cup {u}, g)
    BY SortedMoved DEF Owned
  <1>2. at - 1 \notin qf.extensions \intersect qf.runends
    <2>1. at - 1 \in Nat /\ (at - 1 = x \/ (x < at - 1 /\ at - 1 < at))
      BY <1>0
    <2>. QED
      BY <2>1 DEF ChunksFrom
  <1>3. Counted(new)
    BY <1>2, CountedMoved DEF Owned
  <1>4. ASSUME NEW k \in K PROVE FiledAs(new, U \cup {u}, g, k, rows[k], x, key)
    <2>1. PICK n, e : /\ Lists(e, n, Minirun(qf, U, h, k)) /\ DOMAIN rows[k] = 0 .. n - 1
                      /\ \A r \in 0 .. n - 1 : Carries(qf, e[r], rows[k][r]) /\ (e[r] = x => rows[k][r] = key)
      BY DEF Owned, FiledAs
    <2>2. ASSUME NEW r \in 0 .. n - 1, NewChunk(qf, e[r], at, new) PROVE value = chunk(rows[k][r], at - e[r] - 1)
      <3>1. e[r] \in Nat /\ e[r] \notin qf.extensions
        BY <1>0, <2>1, ListedItems
      <3>2. e[r] < at /\ \A j \in Nat : e[r] < j /\ j < at => j \in qf.extensions
        BY <2>2 DEF NewChunk
      <3>3. e[r] = x
        BY <1>0, <3>1, <3>2, OneOwner
      <3>. QED
        BY <2>1, <3>3
    <2>3. \A r \in 0 .. n - 1 : /\ Carries(qf, e[r], rows[k][r])
                                /\ NewChunk(qf, e[r], at, new) => value = chunk(rows[k][r], at - e[r] - 1)
      BY <2>1, <2>2
    <2>4. ~(at \notin new.extensions /\ q = bucket(k) /\ value = remainder(k))
      OBVIOUS
    <2>5. \A r \in 0 .. n - 1 : e[r] = x => rows[k][r] = key
      BY <2>1
    <2>. QED
      BY <1>0, <2>1, <2>3, <2>4, <2>5, FiledAsMoved
  <1>5. Shaped(new, U \cup {u}, g)
    BY DEF PutIn
  <1>. QED
    BY <1>1, <1>3, <1>4, <1>5 DEF Owned

\* One round: whether or not there is space for it, behind a chunk the next one
\* may go on.
LEMMA ChunkExtends ==
    ASSUME NEW qf, NEW K, NEW rows, NEW b \in Nat, NEW x, NEW key, NEW at \in Nat,
           Extending(qf, K, rows, b, x, key, at), NEW value \in SlotValues, value = chunk(key, at - x - 1),
           NEW new, new = Appended(qf, b, at, value)
    PROVE  Extending(new, K, rows, b, x, key, at + 1)
  <1>1. PICK U, h :
           /\ Owned(qf, U, h, K, rows, x, key)
           /\ \/ Behind(qf, U, h, b, at) /\ ChunksFrom(qf, x, at)
              \/ \A k \in Nat : at <= k /\ k < XnSlots => k \in U
    BY DEF Extending
  <1>2. Shaped(qf, U, h) /\ Fits(U) /\ Homed(qf, U, h) /\ Stored(qf, U, h) /\ qf \in Filters
    BY <1>1 DEF Owned, Shaped
  <1>3. CASE ~HasSpace(qf, at)
    <2>2. ASSUME NEW k \in Nat, at + 1 <= k, k < XnSlots PROVE k \in U
      <3>1. at <= k
        BY <2>2
      <3>. QED
        BY <1>2, <1>3, <2>2, <3>1, RoomFound
    <2>3. new = qf
      BY <1>3 DEF Appended
    <2>. QED
      BY <1>1, <2>2, <2>3 DEF Extending
  <1>4. CASE HasSpace(qf, at)
    <2>. DEFINE u == find_first_empty_slot(qf, at)
                moved == make_space(qf, b, at, u, value)
                g == PutHomes(U, h, b, u)
                ends == {}
    <2>1. Behind(qf, U, h, b, at) /\ ChunksFrom(qf, x, at)
      <3>2. u < XnSlots
        BY <1>4 DEF HasSpace
      <3>3. FreeFrom(U, at, u)
        BY <1>2, <3>2, SpaceFound
      <3>4. u \in Nat /\ u \notin U /\ at <= u
        BY <3>3 DEF FreeFrom
      <3>. HIDE DEF u
      <3>. QED
        BY <1>1, <3>2, <3>4
    <2>2. x \in Nat /\ x < at /\ at - 1 \notin qf.extensions \intersect qf.runends /\ at \notin qf.extensions
      <3>1. x \in Nat /\ x < at
        BY <2>1 DEF ChunksFrom
      <3>2. at - 1 \in Nat /\ (at - 1 = x \/ (x < at - 1 /\ at - 1 < at))
        BY <3>1
      <3>. QED
        BY <2>1, <3>1, <3>2 DEF ChunksFrom, Behind
    <2>3. moved \in Filters
      <3>1. moved = make_space(qf, b, at, u, value)
        OBVIOUS
      <3>2. u = find_first_empty_slot(qf, at)
        OBVIOUS
      <3>. HIDE DEF u, moved
      <3>. QED
        BY <1>2, <1>4, <3>1, <3>2, SpaceMade
    <2>4. new = Marked(moved, at, {})
      <3>1. new = [moved EXCEPT !.extensions = @ \cup {at}, !.noccupied_slots = @ + 1]
        BY <1>4 DEF Appended, Grown
      <3>. HIDE DEF moved
      <3>2. moved.runends \cup {} = moved.runends
        OBVIOUS
      <3>. QED
        BY <2>3, <3>1, <3>2 DEF Marked, Filters
    <2>5. ends \in SUBSET {at} /\ at \notin ends /\ ends = {}
      OBVIOUS
    <2>6. new = Marked(make_space(qf, b, at, u, value), at, ends) /\ u = find_first_empty_slot(qf, at)
      BY <2>4
    <2>. HIDE DEF u, moved, ends, g
    <2>7. Markable(qf, U, h, b, at, ends)
      BY <1>2, <1>4, <2>1, <2>2, <2>5 DEF Markable
    <2>8. IsMarked(qf, U, h, b, at, ends, value, u, new)
      BY <2>6, <2>7, MarkedFields
    <2>9. /\ PutIn(qf, U, h, at, u, b, value, new, PutHomes(U, h, b, u))
          /\ at \in new.extensions /\ (at \in new.runends <=> at \in ends)
      BY <1>2, <2>2, <2>5, <2>8, MarkedPut
    <2>10. Fits(U \cup {u}) /\ Behind(new, U \cup {u}, PutHomes(U, h, b, u), b, at + 1)
      BY <2>8 DEF IsMarked
    <2>11. Owned(new, U \cup {u}, PutHomes(U, h, b, u), K, rows, x, key)
      BY <1>1, <2>1, <2>5, <2>9, <2>10, ChunkTidies
    <2>12. ChunksFrom(new, x, at + 1)
      <3>1. /\ u \in Nat /\ at <= u
            /\ new.extensions = ShiftBits(qf.extensions, at, u) \cup {at}
            /\ new.runends = ShiftBits(qf.runends, at, u) \cup ends
        BY <2>8 DEF IsMarked
      <3>2. qf.extensions \in SUBSET Nat /\ qf.runends \in SUBSET Nat
        BY <1>2, ChunkFacts
      <3>3. ASSUME NEW j \in Nat, j < at
            PROVE  (j \in new.extensions <=> j \in qf.extensions) /\ (j \in new.runends <=> j \in qf.runends)
        <4>1. /\ j \in ShiftBits(qf.extensions, at, u) <=> j \in qf.extensions
              /\ j \in ShiftBits(qf.runends, at, u) <=> j \in qf.runends
          BY <3>1, <3>2, <3>3, BitsBefore
        <4>2. j # at
          BY <3>3
        <4>. QED
          BY <2>5, <3>1, <4>1, <4>2
      <3>4. ASSUME NEW j \in Nat, x < j, j < at + 1 PROVE j \in new.extensions \ new.runends
        <4>1. CASE j = at
          BY <2>5, <2>9, <4>1
        <4>2. CASE j # at
          <5>1. j < at
            BY <3>4, <4>2
          <5>. QED
            BY <2>1, <3>3, <3>4, <5>1 DEF ChunksFrom
        <4>. QED
          BY <4>1, <4>2
      <3>5. x \notin new.extensions
        BY <2>1, <2>2, <3>3 DEF ChunksFrom
      <3>6. x < at + 1
        BY <2>2
      <3>. QED
        BY <2>2, <3>4, <3>5, <3>6 DEF ChunksFrom
    <2>. QED
      BY <2>10, <2>11, <2>12 DEF Extending
  <1>. QED
    BY <1>3, <1>4

\* A one-slot counter turned into the first chunk leaves the rows filed.
LEMMA OverwriteExtends ==
    ASSUME NEW qf, NEW U, NEW h, NEW K, NEW rows, NEW x, NEW key, Owned(qf, U, h, K, rows, x, key),
           NEW b \in Nat, x \in Items(qf, U, h, b),
           NEW info, info = get_slot_info(qf, x), info.count_len = 1,
           NEW at, at = x + info.ext_len + 1, NEW value \in SlotValues, value = chunk(key, at - x - 1),
           NEW new, new = Overwritten(qf, at, value)
    PROVE  Extending(new, K, rows, b, x, key, at + 1)
  <1>1. /\ Shaped(qf, U, h) /\ Fits(U) /\ Homed(qf, U, h) /\ ChunksFirst(qf) /\ qf \in Filters
        /\ x \in U /\ x \notin qf.extensions
    BY DEF Owned, Shaped, Items
  <1>2. /\ Shaped(new, U, h) /\ Behind(new, U, h, b, at + 1)
        /\ at \in Nat /\ at \in qf.extensions \intersect qf.runends /\ x < at
        /\ new.extensions = qf.extensions /\ new.runends = qf.runends \ {at}
        /\ new.slots = [qf.slots EXCEPT ![at] = value]
    BY <1>1, OverwrittenFields
  <1>3. x \in Nat /\ U \in SUBSET Nat /\ U \in SUBSET Slots
    BY <1>1, HomedTypes
  <1>4. \A i \in Slots : i # at => new.slots[i] = qf.slots[i]
    BY <1>1, <1>2 DEF Filters
  <1>5. new.slots[at] = value
    <2>1. at \in Slots
      BY <1>1, <1>2 DEF Filters
    <2>. QED
      BY <1>1, <1>2, <2>1 DEF Filters
  <1>6. at + 1 \notin qf.extensions
    BY <1>2 DEF Owned, Counted
  <1>7. Sorted(new, U, h)
    <2>1. \A i \in U \ qf.extensions : new.slots[i] = qf.slots[i]
      BY <1>2, <1>3, <1>4
    <2>. QED
      BY <1>2, <2>1 DEF Owned, Sorted
  <1>8. Counted(new)
    <2>1. ASSUME NEW s \in new.extensions \intersect new.runends PROVE new.slots[s] = 2 /\ s + 1 \notin new.extensions
      <3>1. s \in qf.extensions \intersect qf.runends /\ s # at /\ s \in Slots
        BY <1>1, <1>2, <2>1 DEF Filters
      <3>. QED
        BY <1>2, <1>4, <3>1 DEF Owned, Counted
    <2>. QED
      BY <2>1 DEF Counted
  <1>9. \A hash : Minirun(new, U, h, hash) = Minirun(qf, U, h, hash)
    <2>1. ASSUME NEW hash PROVE Items(new, U, h, bucket(hash)) = Items(qf, U, h, bucket(hash))
      BY <1>2 DEF Items
    <2>2. ASSUME NEW hash, NEW i \in Items(qf, U, h, bucket(hash)) PROVE get_slot(new, i) = get_slot(qf, i)
      <3>1. i # at /\ i \in Slots
        BY <1>2, <1>3, <2>2 DEF Items
      <3>. QED
        BY <1>4, <3>1 DEF get_slot
    <2>. QED
      BY <2>1, <2>2 DEF Minirun
  <1>10. \A j \in Nat : x < j /\ j < at => j \in qf.extensions \ qf.runends
    <2>1. \A k \in Nat : x < k /\ k < x + 1 + info.ext_len => is_extension(qf, k)
      BY <1>1, InfoIs
    <2>2. info.ext_len \in Nat
      BY <1>1, InfoIs
    <2>3. at = x + 1 + info.ext_len
      BY <1>3, <2>2
    <2>. QED
      BY <2>1, <2>3 DEF is_extension
  <1>11. ChunksFrom(qf, x, at)
    BY <1>1, <1>2, <1>3, <1>10 DEF ChunksFrom
  <1>12. ChunksFrom(new, x, at + 1)
    <2>1. ASSUME NEW j \in Nat, x < j, j < at + 1 PROVE j \in new.extensions \ new.runends
      <3>1. j = at \/ (j < at /\ j # at)
        BY <1>2, <2>1
      <3>. QED
        BY <1>2, <1>10, <2>1, <3>1
    <2>2. x < at + 1
      BY <1>2, <1>3
    <2>. QED
      BY <1>1, <1>2, <1>3, <2>1, <2>2 DEF ChunksFrom
  \* Which chunks the items have.
  <1>13. ASSUME NEW j \in Nat, j \notin qf.extensions, NEW k, Carries(qf, j, k), j = x => k = key
         PROVE  Carries(new, j, k)
    <2>1. SUFFICES ASSUME NEW s \in Nat, ChunkTo(new, j, s) PROVE new.slots[s] = chunk(k, s - j - 1)
      BY DEF Carries
    <2>2. j < s /\ \A i \in Nat : j < i /\ i <= s => i \in qf.extensions /\ i \notin new.runends
      BY <1>2, <2>1 DEF ChunkTo
    <2>3. s <= s /\ s \in qf.extensions /\ s \in Slots
      BY <1>1, <2>2 DEF Filters
    <2>4. CASE j < at /\ at <= s
      <3>1. \A i \in Nat : j < i /\ i < at => i \in qf.extensions
        BY <1>2, <2>2, <2>4
      <3>2. j = x
        BY <1>2, <1>11, <1>13, <2>4, <3>1, OneOwner
      <3>3. ~(at < s)
        <4>1. SUFFICES ASSUME at < s PROVE FALSE
          OBVIOUS
        <4>2. at + 1 \in Nat /\ j < at + 1 /\ at + 1 <= s
          BY <1>2, <2>4, <4>1
        <4>. QED
          BY <1>6, <2>2, <4>2
      <3>4. s = at
        BY <1>2, <2>4, <3>3
      <3>. QED
        BY <1>5, <1>13, <3>2, <3>4
    <2>5. CASE ~(j < at /\ at <= s)
      <3>1. ASSUME NEW i \in Nat, j < i, i <= s PROVE i \in qf.extensions \ qf.runends
        <4>1. i # at
          BY <2>5, <3>1
        <4>. QED
          BY <1>2, <2>2, <3>1, <4>1
      <3>2. ChunkTo(qf, j, s)
        BY <2>2, <3>1 DEF ChunkTo
      <3>3. s # at
        BY <2>2, <2>5
      <3>. QED
        BY <1>4, <1>13, <2>3, <3>2, <3>3 DEF Carries
    <2>. QED
      BY <2>4, <2>5
  <1>14. ASSUME NEW k \in K PROVE FiledAs(new, U, h, k, rows[k], x, key)
    <2>1. PICK n, e : /\ Lists(e, n, Minirun(qf, U, h, k)) /\ DOMAIN rows[k] = 0 .. n - 1
                      /\ \A r \in 0 .. n - 1 : Carries(qf, e[r], rows[k][r]) /\ (e[r] = x => rows[k][r] = key)
      BY DEF Owned, FiledAs
    <2>2. ASSUME NEW r \in 0 .. n - 1 PROVE Carries(new, e[r], rows[k][r])
      <3>1. e[r] \in Nat /\ e[r] \notin qf.extensions
        BY <1>1, <2>1, ListedItems
      <3>2. Carries(qf, e[r], rows[k][r]) /\ (e[r] = x => rows[k][r] = key)
        BY <2>1
      <3>. QED
        BY <1>13, <3>1, <3>2
    <2>. QED
      BY <1>9, <2>1, <2>2 DEF FiledAs
  <1>15. Owned(new, U, h, K, rows, x, key)
    BY <1>1, <1>2, <1>7, <1>8, <1>14 DEF Owned
  <1>. QED
    BY <1>2, <1>12, <1>15 DEF Extending

\* Rows that are filed with an item's key are filed.
LEMMA OwnedTidy ==
    ASSUME NEW qf, NEW U, NEW h, NEW K, NEW rows, NEW x, NEW key, Owned(qf, U, h, K, rows, x, key)
    PROVE  Tidied(qf, U, h, K, rows) /\ Tidy(qf, K, rows)
  <1>1. ASSUME NEW k \in K PROVE Filed(qf, U, h, k, rows[k])
    BY DEF Owned, FiledAs, Filed
  <1>. QED
    BY <1>1 DEF Owned, Tidied, Tidy

(***************************************************************************)
(* Adapting an item by the key it is filed with leaves every row filed,    *)
(* also if it runs out of slots on the way.                                *)
(***************************************************************************)
THEOREM AdaptTidies ==
    ASSUME NEW qf, NEW U, NEW h, NEW K, NEW rows, NEW x, NEW key \in Nat, Owned(qf, U, h, K, rows, x, key),
           NEW b \in Nat, x \in Items(qf, U, h, b), NEW other \in Nat
    PROVE  Tidy(adapt(qf, x, b, key, other), K, rows)
  <1>. DEFINE info == get_slot_info(qf, x)
              n == Rounds(info, key, other)
              at(i) == x + info.ext_len + i
              value(i) == chunk(key, info.ext_len + i - 1)
              g == CHOOSE f : IsAppend(qf, x, info, b, key, n, f)
              Good(i) == Extending(g[i], K, rows, b, x, key, at(i + 1))
  <1>1. /\ Shaped(qf, U, h) /\ Fits(U) /\ qf \in Filters /\ Homed(qf, U, h) /\ Stored(qf, U, h) /\ ChunksFirst(qf)
        /\ U \in SUBSET Nat /\ x \in U /\ x \in Nat /\ h[x] = b /\ x \notin qf.extensions
    <2>1. Shaped(qf, U, h) /\ Fits(U) /\ qf \in Filters /\ Homed(qf, U, h) /\ Stored(qf, U, h) /\ ChunksFirst(qf)
      BY DEF Owned, Shaped
    <2>2. U \in SUBSET Nat
      BY <2>1, HomedTypes
    <2>. QED
      BY <2>1, <2>2 DEF Items
  <1>2. /\ info.ext_len \in Nat /\ info.count_len \in {0, 1}
        /\ x + 1 + info.ext_len + info.count_len = skip_extensions(qf, x + 1)
        /\ \A k \in Nat : x < k /\ k < x + 1 + info.ext_len => is_extension(qf, k)
    <2>1. info.count_len \in {0, 1}
      BY <1>1, CountOf DEF Owned
    <2>. QED
      BY <1>1, <2>1, InfoIs
  <1>3. n \in Nat
    BY <1>2, RoundsType
  <1>4. IsAppend(qf, x, info, b, key, n, g)
    <2>. HIDE DEF info, n
    <2>1. \E f : IsAppend(qf, x, info, b, key, n, f)
      BY <1>3, AppendExists
    <2>. QED
      BY <2>1
  <1>5. adapt(qf, x, b, key, other) = g[n]
    <2>1. ~(info.count_len > 1)
      BY <1>2
    <2>2. adapt(qf, x, b, key, other) = append_chunks(qf, x, info, b, key, other)
      BY <2>1 DEF adapt
    <2>3. n = Rounds(info, key, other) /\ g = CHOOSE f : IsAppend(qf, x, info, b, key, n, f)
      OBVIOUS
    <2>. HIDE DEF info, n, g, Good
    <2>. QED
      BY <2>2, <2>3, AppendDef
  <1>. HIDE DEF g, n
  <1>6. ASSUME NEW i \in 0 .. n PROVE g[i] = AppendStep(qf, x, info, b, key, g, i)
    <2>. HIDE DEF info
    <2>. QED
      BY <1>4 DEF IsAppend
  <1>7. ASSUME NEW i \in Nat, i # 0
        PROVE  /\ at(i) \in Nat /\ at(i) + 1 = at(i + 1) /\ value(i) \in SlotValues
               /\ value(i) = chunk(key, at(i) - x - 1)
    <2>1. at(i) \in Nat /\ at(i) + 1 = at(i + 1) /\ info.ext_len + i - 1 \in Nat /\ at(i) - x - 1 = info.ext_len + i - 1
      BY <1>1, <1>2, <1>7
    <2>. QED
      BY <2>1, ChunkType
  <1>8. CASE n = 0
    <2>1. g[n] = qf
      BY <1>3, <1>6, <1>8 DEF AppendStep
    <2>. QED
      BY <1>5, <2>1, OwnedTidy
  <1>9. CASE n # 0
    <2>1. Good(1)
      <3>1. 1 \in 0 .. n /\ 0 \in 0 .. n
        BY <1>3, <1>9
      <3>2. g[0] = qf /\ g[1 - 1] = qf
        <4>1. g[0] = qf
          BY <1>6, <3>1 DEF AppendStep
        <4>. QED
          BY <4>1
      <3>3. /\ at(1) \in Nat /\ at(1) + 1 = at(2) /\ at(1 + 1) = at(2) /\ at(1) # 0
            /\ at(1) = x + info.ext_len + 1 /\ at(1) = x + 1 + info.ext_len /\ x < at(1)
        BY <1>1, <1>2
      <3>4. value(1) \in SlotValues /\ value(1) = chunk(key, at(1) - x - 1)
        BY <1>7
      <3>5. CASE info.count_len = 1 /\ ~HasSpace(qf, at(1))
        <4>1. g[1] = qf
          BY <1>6, <3>1, <3>2, <3>5 DEF AppendStep
        <4>2. ASSUME NEW k \in Nat, at(2) <= k, k < XnSlots PROVE k \in U
          <5>1. at(1) <= k
            BY <3>3, <4>2
          <5>. HIDE DEF at
          <5>. QED
            BY <1>1, <3>3, <3>5, <4>2, <5>1, RoomFound
        <4>. HIDE DEF at
        <4>3. Extending(qf, K, rows, b, x, key, at(2))
          BY <4>2 DEF Extending
        <4>. QED
          BY <3>3, <4>1, <4>3
      <3>6. CASE info.count_len = 1 /\ HasSpace(qf, at(1))
        <4>1. g[1] = Overwritten(qf, at(1), value(1))
          BY <1>6, <3>1, <3>2, <3>6 DEF AppendStep
        <4>2. info = get_slot_info(qf, x)
          OBVIOUS
        <4>. HIDE DEF at, info, value
        <4>3. Extending(g[1], K, rows, b, x, key, at(1) + 1)
          BY <3>3, <3>4, <3>6, <4>1, <4>2, OverwriteExtends
        <4>. QED
          BY <3>3, <4>3
      <3>7. CASE info.count_len = 0
        <4>1. at(1) = skip_extensions(qf, x + 1)
          BY <1>2, <3>3, <3>7
        <4>2. at(1) \notin qf.extensions
          <5>1. /\ qf.extensions \in SUBSET Slots /\ x + 1 \in Nat /\ x + 1 <= PastEnd
            <6>1. x < PastEnd /\ PastEnd \in Nat /\ qf.extensions \in SUBSET Slots
              BY <1>1, HomedTypes
            <6>. QED
              BY <1>1, <6>1
          <5>. HIDE DEF at
          <5>. QED
            BY <4>1, <5>1, SkipIs
        <4>3. at(1) - 1 \in U /\ h[at(1) - 1] = b
          <5>1. at(1) - 1 \in Nat /\ x <= at(1) - 1 /\ at(1) - 1 < at(1)
            BY <1>1, <3>3
          <5>. HIDE DEF at
          <5>. QED
            BY <1>1, <4>1, <5>1, ItemSlots
        <4>4. ChunksFrom(qf, x, at(1))
          <5>1. \A j \in Nat : x < j /\ j < at(1) => j \in qf.extensions \ qf.runends
            BY <1>2, <3>3 DEF is_extension
          <5>. HIDE DEF at
          <5>. QED
            BY <1>1, <3>3, <5>1 DEF ChunksFrom
        <4>5. Behind(qf, U, h, b, at(1))
          <5>. HIDE DEF at
          <5>. QED
            BY <3>3, <4>2, <4>3 DEF Behind
        <4>6. g[1] = Appended(qf, b, at(1), value(1))
          BY <1>6, <3>1, <3>2, <3>7 DEF AppendStep, Appended
        <4>. HIDE DEF at, info, value
        <4>7. Extending(qf, K, rows, b, x, key, at(1))
          BY <4>4, <4>5 DEF Extending
        <4>8. Extending(g[1], K, rows, b, x, key, at(1) + 1)
          BY <3>3, <3>4, <4>6, <4>7, ChunkExtends
        <4>. QED
          BY <3>3, <4>8
      <3>. HIDE DEF info, Good
      <3>. QED
        BY <1>2, <3>5, <3>6, <3>7
    <2>2. ASSUME NEW i \in 1 .. n, i # 1, Good(i - 1) PROVE Good(i)
      <3>1. i \in 0 .. n /\ i \in Nat /\ i # 0 /\ i - 1 \in Nat /\ (i - 1) + 1 = i
        BY <1>3, <2>2
      <3>2. /\ value(i) \in SlotValues /\ at(i) \in Nat /\ at(i) + 1 = at(i + 1)
            /\ value(i) = chunk(key, at(i) - x - 1)
        BY <1>7, <3>1
      <3>3. g[i] = Appended(g[i - 1], b, at(i), value(i))
        BY <1>6, <2>2, <3>1 DEF AppendStep, Appended
      <3>4. Extending(g[i - 1], K, rows, b, x, key, at(i))
        BY <2>2, <3>1
      <3>. HIDE DEF at, info, value
      <3>5. Extending(g[i], K, rows, b, x, key, at(i) + 1)
        BY <3>2, <3>3, <3>4, ChunkExtends
      <3>. QED
        BY <3>2, <3>5
    <2>3. Good(n)
      <3>. DEFINE Bad == {i \in 1 .. n : ~Good(i)}
      <3>1. SUFFICES ASSUME Bad # {} PROVE FALSE
        <4>1. n \in 1 .. n
          BY <1>3, <1>9
        <4>. HIDE DEF Good
        <4>. QED
          BY <4>1
      <3>. HIDE DEF Good
      <3>2. PICK i \in Bad : \A j \in Bad : i <= j
        <4>1. Bad \in SUBSET Nat
          OBVIOUS
        <4>. HIDE DEF Bad
        <4>. QED
          BY <3>1, <4>1, SmallestNat
      <3>3. i \in 1 .. n /\ ~Good(i) /\ i # 1
        BY <2>1, <3>2
      <3>4. i - 1 \in 1 .. n /\ ~(i <= i - 1)
        BY <1>3, <3>3
      <3>5. Good(i - 1)
        BY <3>2, <3>4
      <3>. QED
        BY <2>2, <3>3, <3>4, <3>5
    <2>4. PICK V, k : Owned(g[n], V, k, K, rows, x, key)
      BY <2>3 DEF Extending
    <2>. QED
      BY <1>5, <2>4, OwnedTidy
  <1>. QED
    BY <1>8, <1>9

-----------------------------------------------------------------------------
(***************************************************************************)
(* Fingerprints and ranks                                                  *)
(***************************************************************************)
\* A fingerprint is the bucket and the remainder.
LEMMA FingerprintParts ==
    ASSUME NEW x \in Nat
    PROVE  /\ minirun_id(x) = 2 ^ BitsPerSlot * bucket(x) + remainder(x)
           /\ remainder(x) = minirun_id(x) % 2 ^ BitsPerSlot
  <1>. DEFINE P == 2 ^ BitsPerSlot
              Q == 2 ^ QuotientBits
              R == 2 ^ (QuotientBits + BitsPerSlot)
              v == x % R
              c == x \div R
              w == v \div P
              r == v % P
              a == Q * c + w
  <1>1. BitsPerSlot \in Nat /\ QuotientBits \in Nat /\ QuotientBits + BitsPerSlot \in Nat
    BY GQFAssumption
  <1>2. P \in Nat \ {0} /\ Q \in Nat \ {0} /\ R \in Nat \ {0} /\ R = Q * P
    BY <1>1, PowerOfTwo, PowerSum
  <1>3. bucket(x) = w /\ minirun_id(x) = v /\ remainder(x) = x % P
    BY MinirunBucket DEF minirun_id, remainder
  <1>. HIDE DEF P, Q, R
  <1>4. c \in Nat /\ v \in Nat /\ x = R * c + v
    <2>1. c \in Nat /\ v \in 0 .. R - 1 /\ x = R * c + v
      BY <1>2, DivFacts
    <2>. HIDE DEF c, v
    <2>. QED
      BY <1>2, <2>1
  <1>. HIDE DEF c, v
  <1>5. w \in Nat /\ r \in Nat /\ r < P /\ v = P * w + r
    <2>1. w \in Nat /\ r \in 0 .. P - 1 /\ v = P * w + r
      BY <1>2, <1>4, DivFacts
    <2>. HIDE DEF w, r
    <2>. QED
      BY <1>2, <2>1
  <1>. HIDE DEF w, r
  <1>6. P * a + r = x /\ a \in Nat
    <2>1. \A p, q, k, m \in Nat : p * (q * k + m) = (q * p) * k + p * m /\ q * k + m \in Nat /\ p * m \in Nat
                                  /\ (q * p) * k \in Nat
      OBVIOUS
    <2>2. P * a = R * c + P * w /\ a \in Nat /\ P * w \in Nat /\ R * c \in Nat
      BY <1>2, <1>4, <1>5, <2>1
    <2>. DEFINE y == P * w
                z == R * c
                t == P * a
    <2>3. t = z + y /\ v = y + r /\ x = z + v /\ y \in Nat /\ z \in Nat
      BY <1>4, <1>5, <2>2
    <2>4. t + r = x
      <3>. HIDE DEF y, z, t
      <3>. QED
        BY <1>5, <2>3
    <2>. QED
      BY <2>2, <2>4
  <1>. HIDE DEF a
  <1>7. x \div P = a
    <2>. DEFINE t == P * a
    <2>1. t <= x /\ x < t + P
      <3>1. t \in Nat /\ t + r = x
        <4>1. \A p, q \in Nat : p * q \in Nat
          OBVIOUS
        <4>. QED
          BY <1>2, <1>6, <4>1
      <3>. HIDE DEF t
      <3>. QED
        BY <1>2, <1>5, <3>1
    <2>2. a \in Int
      BY <1>6
    <2>. QED
      BY <1>2, <2>1, <2>2, DivUnique
  <1>8. x % P = r
    <2>. DEFINE t == P * a
                y == x % P
    <2>1. t \in Nat
      <3>1. \A p, q \in Nat : p * q \in Nat
        OBVIOUS
      <3>. QED
        BY <1>2, <1>6, <3>1
    <2>2. y \in 0 .. P - 1 /\ x = P * (x \div P) + y
      BY <1>2, DivFacts
    <2>3. x = t + y /\ x = t + r
      BY <1>6, <1>7, <2>2
    <2>4. y \in Int
      <3>. HIDE DEF y
      <3>. QED
        BY <1>2, <2>2
    <2>. HIDE DEF t, y
    <2>5. y = r
      BY <1>5, <2>1, <2>3, <2>4
    <2>. QED
      BY <2>5 DEF y
  <1>. QED
    BY <1>3, <1>5, <1>8 DEF P, r

\* Keys of one fingerprint have one minirun.
LEMMA SameFingerprint ==
    ASSUME NEW x \in Nat, NEW y \in Nat
    PROVE  minirun_id(x) = minirun_id(y) <=> bucket(x) = bucket(y) /\ remainder(x) = remainder(y)
  <1>1. ASSUME minirun_id(x) = minirun_id(y) PROVE bucket(x) = bucket(y) /\ remainder(x) = remainder(y)
    <2>1. bucket(x) = bucket(y)
      BY <1>1, MinirunBucket
    <2>2. remainder(x) = remainder(y)
      BY <1>1, FingerprintParts
    <2>. QED
      BY <2>1, <2>2
  <1>2. ASSUME bucket(x) = bucket(y), remainder(x) = remainder(y) PROVE minirun_id(x) = minirun_id(y)
    BY <1>2, FingerprintParts
  <1>. QED
    BY <1>1, <1>2

\* The slot of an item is in the minirun of one fingerprint only.
LEMMA MinirunOwner ==
    ASSUME NEW qf, NEW U, NEW h, NEW x \in Nat, NEW y \in Nat
    PROVE  /\ minirun_id(x) = minirun_id(y) => Minirun(qf, U, h, x) = Minirun(qf, U, h, y)
           /\ \A i \in Minirun(qf, U, h, x) : i \in Minirun(qf, U, h, y) => minirun_id(x) = minirun_id(y)
  <1>1. ASSUME minirun_id(x) = minirun_id(y) PROVE Minirun(qf, U, h, x) = Minirun(qf, U, h, y)
    <2>1. bucket(x) = bucket(y) /\ remainder(x) = remainder(y)
      BY <1>1, SameFingerprint
    <2>. QED
      BY <2>1 DEF Minirun
  <1>2. ASSUME NEW i \in Minirun(qf, U, h, x), i \in Minirun(qf, U, h, y) PROVE minirun_id(x) = minirun_id(y)
    <2>1. bucket(x) = bucket(y) /\ remainder(x) = remainder(y)
      BY <1>2 DEF Minirun, Items
    <2>. QED
      BY <2>1, SameFingerprint
  <1>. QED
    BY <1>1, <1>2

\* In an ascending list m elements are in front of the one of rank m.
LEMMA ListRank ==
    ASSUME NEW T \in SUBSET Nat, NEW e, NEW n, Lists(e, n, T), NEW m \in 0 .. n - 1
    PROVE  CountIn(T, 0, e[m] - 1) = m
  <1>1. n \in Nat /\ \A r \in 0 .. n - 1 : e[r] \in T /\ e[r] \in Nat
    BY DEF Lists
  <1>2. \A r, s \in 0 .. n - 1 : r < s => e[r] < e[s]
    BY DEF Lists
  <1>3. \A x \in T : \E r \in 0 .. n - 1 : e[r] = x
    BY DEF Lists
  <1>. DEFINE Bad == {r \in 0 .. n - 1 : CountIn(T, 0, e[r] - 1) # r}
  <1>4. SUFFICES ASSUME Bad # {} PROVE FALSE
    OBVIOUS
  <1>5. PICK r \in Bad : \A k \in Bad : r <= k
    <2>1. Bad \in SUBSET Nat
      BY <1>1
    <2>. HIDE DEF Bad
    <2>. QED
      BY <1>4, <2>1, SmallestNat
  <1>6. r \in 0 .. n - 1 /\ r \in Nat
    BY <1>1, <1>5
  <1>7. CASE r = 0
    <2>1. ASSUME NEW x \in T PROVE ~(0 <= x /\ x <= e[r] - 1)
      <3>1. PICK s \in 0 .. n - 1 : e[s] = x
        BY <1>3
      <3>2. s = r \/ e[r] < e[s]
        BY <1>1, <1>2, <1>6, <1>7
      <3>. QED
        BY <1>1, <1>6, <3>1, <3>2
    <2>2. CountIn(T, 0, e[r] - 1) = 0
      BY <2>1, CountNone
    <2>. QED
      BY <1>5, <1>7, <2>2
  <1>8. CASE r # 0
    <2>. DEFINE p == r - 1
                x == e[p]
                y == e[r]
    <2>1. p \in 0 .. n - 1 /\ p \in Nat /\ p < r /\ p + 1 = r
      BY <1>1, <1>6, <1>8
    <2>2. x \in T /\ x \in Nat /\ y \in Nat /\ x < y
      BY <1>1, <1>2, <1>6, <2>1
    <2>3. CountIn(T, 0, x - 1) = p
      BY <1>5, <2>1
    <2>. HIDE DEF p
    <2>4. ASSUME NEW z \in T PROVE ~(x + 1 <= z /\ z <= y - 1)
      <3>1. PICK s \in 0 .. n - 1 : e[s] = z
        BY <1>3
      <3>2. s = p \/ s < p \/ s = r \/ r < s
        BY <1>1, <1>6, <2>1
      <3>3. s = p \/ e[s] < e[p] \/ s = r \/ e[r] < e[s]
        BY <1>2, <1>6, <2>1, <3>2
      <3>4. z \in Nat
        OBVIOUS
      <3>. QED
        BY <2>2, <3>1, <3>3, <3>4
    <2>. HIDE DEF x, y
    <2>5. CountIn(T, x + 1, y - 1) = 0
      BY <2>4, CountNone
    <2>6. CountIn(T, x, x) = 1
      BY <2>2, CountOne
    <2>7. CountIn(T, 0, y - 1) = CountIn(T, 0, x) + CountIn(T, x + 1, y - 1)
      <3>1. 0 \in Nat /\ x \in Int /\ y - 1 \in Int /\ 0 <= x + 1 /\ x <= y - 1
        BY <2>2
      <3>. QED
        BY <3>1, CountSplit
    <2>8. CountIn(T, 0, x) = CountIn(T, 0, x - 1) + CountIn(T, (x - 1) + 1, x)
      <3>1. 0 \in Nat /\ x - 1 \in Int /\ x \in Int /\ 0 <= (x - 1) + 1 /\ x - 1 <= x
        BY <2>2
      <3>. QED
        BY <3>1, CountSplit
    <2>9. (x - 1) + 1 = x
      BY <2>2
    <2>10. CountIn(T, 0, y - 1) = r
      BY <2>1, <2>3, <2>5, <2>6, <2>7, <2>8, <2>9
    <2>. QED
      BY <1>5, <2>10 DEF y
  <1>. QED
    BY <1>7, <1>8

\* An element of the list has the rank that counting finds.
LEMMA RankListed ==
    ASSUME NEW T \in SUBSET Nat, NEW e, NEW n, Lists(e, n, T), NEW x \in T
    PROVE  /\ CountIn(T, 0, x - 1) \in 0 .. n - 1 /\ n \in Nat
           /\ e[CountIn(T, 0, x - 1)] = x
  <1>1. PICK r \in 0 .. n - 1 : e[r] = x
    BY DEF Lists
  <1>2. CountIn(T, 0, e[r] - 1) = r
    BY ListRank
  <1>. QED
    BY <1>1, <1>2 DEF Lists

\* Miniruns are sets of slots.
LEMMA MinirunType ==
    ASSUME NEW qf, NEW U, NEW h, Shaped(qf, U, h), NEW hash
    PROVE  /\ Minirun(qf, U, h, hash) \in SUBSET Nat
           /\ Minirun(qf, U, h, hash) \in SUBSET U
           /\ Minirun(qf, U, h, hash) \in SUBSET Items(qf, U, h, bucket(hash))
  <1>1. U \in SUBSET Nat
    BY HomedTypes DEF Shaped
  <1>. QED
    BY <1>1 DEF Minirun, Items

\* The row of a minirun has a key for each rank up to the one a query answers.
LEMMA RankFiled ==
    ASSUME NEW qf, NEW U, NEW h, NEW K, NEW rows, Tidied(qf, U, h, K, rows), NEW hash \in K,
           Lookup(qf, hash).found, NEW m \in Nat, m <= Lookup(qf, hash).rank
    PROVE  m \in DOMAIN rows[hash]
  <1>. DEFINE r == Lookup(qf, hash)
              T == Minirun(qf, U, h, hash)
  <1>1. Shaped(qf, U, h) /\ Fits(U) /\ Filed(qf, U, h, hash, rows[hash])
    BY DEF Tidied
  <1>2. PICK n, e : Lists(e, n, T) /\ DOMAIN rows[hash] = 0 .. n - 1
    BY <1>1 DEF Filed
  <1>3. r.index \in T /\ r.rank = CountIn(T, 0, r.index - 1)
    <2>1. Homed(qf, U, h) /\ Stored(qf, U, h) /\ ChunksFirst(qf) /\ \A j \in U : j < XnSlots
      BY <1>1 DEF Shaped, Fits
    <2>. HIDE DEF r, T
    <2>2. r = Lookup(qf, hash) /\ r.found
      BY DEF r
    <2>3. r.index \in Matching(qf, U, h, hash) /\ r.rank = CountIn(Minirun(qf, U, h, hash), 0, r.index - 1)
      BY <2>1, <2>2, LookupExact
    <2>. QED
      BY <2>3 DEF Matching, T
  <1>4. T \in SUBSET Nat
    BY <1>1, MinirunType
  <1>5. m <= r.rank
    OBVIOUS
  <1>. HIDE DEF r, T
  <1>6. r.rank \in 0 .. n - 1 /\ n \in Nat
    BY <1>2, <1>3, <1>4, RankListed
  <1>7. m \in 0 .. n - 1
    BY <1>5, <1>6
  <1>. QED
    BY <1>2, <1>7

\* The item of rank m is filed with the row's key of that rank.
LEMMA RankOwned ==
    ASSUME NEW qf, NEW U, NEW h, NEW K \in SUBSET Nat, NEW rows, Tidied(qf, U, h, K, rows), NEW hash \in K,
           \A k \in K : minirun_id(k) = minirun_id(hash) => rows[k] = rows[hash],
           NEW x \in Minirun(qf, U, h, hash), NEW m, m = CountIn(Minirun(qf, U, h, hash), 0, x - 1)
    PROVE  Owned(qf, U, h, K, rows, x, rows[hash][m])
  <1>1. Shaped(qf, U, h) /\ Fits(U) /\ Sorted(qf, U, h) /\ Counted(qf)
    BY DEF Tidied
  <1>2. ASSUME NEW k \in K PROVE FiledAs(qf, U, h, k, rows[k], x, rows[hash][m])
    <2>. DEFINE T == Minirun(qf, U, h, k)
    <2>1. PICK n, e : /\ Lists(e, n, T) /\ DOMAIN rows[k] = 0 .. n - 1
                      /\ \A r \in 0 .. n - 1 : Carries(qf, e[r], rows[k][r])
      BY DEF Tidied, Filed
    <2>2. ASSUME NEW r \in 0 .. n - 1, e[r] = x PROVE rows[k][r] = rows[hash][m]
      <3>1. x \in T
        BY <2>1, <2>2 DEF Lists
      <3>2. k \in Nat /\ hash \in Nat
        OBVIOUS
      <3>3. minirun_id(k) = minirun_id(hash)
        BY <3>1, <3>2, MinirunOwner
      <3>4. T = Minirun(qf, U, h, hash)
        BY <3>2, <3>3, MinirunOwner
      <3>5. CountIn(T, 0, e[r] - 1) = r
        <4>1. T \in SUBSET Nat
          BY <1>1, MinirunType
        <4>. HIDE DEF T
        <4>. QED
          BY <2>1, <4>1, ListRank
      <3>6. r = m
        BY <2>2, <3>4, <3>5
      <3>. QED
        BY <3>3, <3>6
    <2>. QED
      BY <2>1, <2>2 DEF FiledAs
  <1>. QED
    BY <1>1, <1>2 DEF Owned

(***************************************************************************)
(* Adapting by rank, with the key that is filed under the rank, leaves     *)
(* every row filed.                                                        *)
(***************************************************************************)
THEOREM TableAdaptTidies ==
    ASSUME NEW qf, NEW U, NEW h, NEW K \in SUBSET Nat, NEW rows, Tidied(qf, U, h, K, rows), NEW hash \in K,
           \A k \in K : minirun_id(k) = minirun_id(hash) => rows[k] = rows[hash],
           Lookup(qf, hash).found, NEW m \in Nat, m <= Lookup(qf, hash).rank,
           NEW orig \in Nat, orig = rows[hash][m], minirun_id(orig) = minirun_id(hash)
    PROVE  Tidy(qf_adapt_using_ll_table(qf, orig, hash, m), K, rows)
  <1>. DEFINE b == bucket(hash)
              new == qf_adapt_using_ll_table(qf, orig, hash, m)
  <1>1. Shaped(qf, U, h) /\ Fits(U) /\ Tidy(qf, K, rows)
    BY DEF Tidied, Tidy
  <1>2. qf \in Filters /\ Homed(qf, U, h) /\ Stored(qf, U, h) /\ ChunksFirst(qf) /\ \A j \in U : j < XnSlots
    BY <1>1 DEF Shaped, Fits
  <1>3. hash \in Nat
    OBVIOUS
  <1>4. b \in Nat /\ bucket(orig) = b
    BY <1>3, BucketType, SameBucket
  <1>5. \/ new = qf
        \/ \E j \in Minirun(qf, U, h, hash) :
              /\ CountIn(Minirun(qf, U, h, hash), 0, j - 1) = m
              /\ new = qf_adapt(qf, j, orig, hash)
    BY <1>2, <1>3, WalkExact
  <1>6. CASE new = qf
    BY <1>1, <1>6
  <1>7. ASSUME NEW j \in Minirun(qf, U, h, hash), CountIn(Minirun(qf, U, h, hash), 0, j - 1) = m,
               new = qf_adapt(qf, j, orig, hash)
        PROVE  Tidy(new, K, rows)
    <2>. HIDE DEF new
    <2>1. j \in Items(qf, U, h, b)
      BY DEF Minirun
    <2>2. CASE orig = hash
      BY <1>1, <1>7, <2>2 DEF qf_adapt
    <2>3. CASE orig # hash
      <3>1. new = adapt(qf, j, b, orig, hash)
        BY <1>4, <1>7, <2>3 DEF qf_adapt
      <3>2. Owned(qf, U, h, K, rows, j, orig)
        <4>1. m = CountIn(Minirun(qf, U, h, hash), 0, j - 1)
          BY <1>7
        <4>2. Owned(qf, U, h, K, rows, j, rows[hash][m])
          BY <4>1, RankOwned
        <4>. QED
          BY <4>2
      <3>. HIDE DEF b
      <3>3. Tidy(adapt(qf, j, b, orig, hash), K, rows)
        BY <1>3, <1>4, <2>1, <3>2, AdaptTidies
      <3>. QED
        BY <3>1, <3>3
    <2>. QED
      BY <2>2, <2>3
  <1>. QED
    BY <1>5, <1>6, <1>7

-----------------------------------------------------------------------------
(***************************************************************************)
(* Chunks as one number                                                    *)
(***************************************************************************)
\* Quotient and remainder are the only ones.
LEMMA ModUnique ==
    ASSUME NEW n \in Nat \ {0}, NEW s \in Nat, NEW q \in Nat, NEW r \in Nat, r < n, s = n * q + r
    PROVE  s \div n = q /\ s % n = r
  <1>. DEFINE t == n * q
              y == s % n
  <1>1. t \in Nat
    <2>1. \A a, b \in Nat : a * b \in Nat
      OBVIOUS
    <2>. QED
      BY <2>1
  <1>2. s \div n = q
    <2>1. t <= s /\ s < t + n /\ q \in Int
      <3>1. s = t + r
        OBVIOUS
      <3>. HIDE DEF t
      <3>. QED
        BY <1>1, <3>1
    <2>. QED
      BY <2>1, DivUnique
  <1>3. y \in 0 .. n - 1 /\ s = t + y
    BY <1>2, DivFacts
  <1>4. y \in Int
    <2>. HIDE DEF y
    <2>. QED
      BY <1>3
  <1>5. y = r
    <2>1. s = t + r
      OBVIOUS
    <2>. HIDE DEF t, y
    <2>. QED
      BY <1>1, <1>3, <1>4, <2>1
  <1>. QED
    BY <1>2, <1>5

\* Products of naturals, which the provers treat as atoms.
LEMMA Products ==
    /\ \A a, b \in Nat : a * b \in Nat /\ a * b = b * a
    /\ \A a, b \in Nat \ {0} : a * b \in Nat \ {0}
    /\ \A a, b, c, d \in Nat : a * (b * c + d) = (a * b) * c + a * d
  OBVIOUS

\* Dividing by a and the quotient by b.
LEMMA DivTwice ==
    ASSUME NEW x \in Nat, NEW a \in Nat \ {0}, NEW b \in Nat \ {0}
    PROVE  /\ (x \div a) \div b = x \div (a * b)
           /\ x % (a * b) = (x % a) + a * ((x \div a) % b)
  <1>. DEFINE u == x \div a
              r == x % a
              w == u \div b
              t == u % b
              c == a * b
              v == r + a * t
  <1>1. u \in Nat /\ r \in 0 .. a - 1 /\ x = a * u + r
    BY DivFacts
  <1>2. w \in Nat /\ t \in 0 .. b - 1 /\ u = b * w + t
    <2>. HIDE DEF u
    <2>. QED
      BY <1>1, DivFacts
  <1>. HIDE DEF u, r
  <1>. HIDE DEF w, t
  <1>3. r \in Nat /\ r < a /\ t \in Nat /\ t < b
    BY <1>1, <1>2
  <1>4. c \in Nat \ {0}
    BY Products
  <1>5. v \in Nat /\ v < c
    BY <1>3, NextDigit
  <1>6. a * u = c * w + a * t
    BY <1>2, <1>3, Products
  <1>7. x = c * w + v
    <2>. DEFINE y == a * u
                z == c * w
                k == a * t
    <2>1. y \in Nat /\ z \in Nat /\ k \in Nat
      BY <1>1, <1>2, <1>3, <1>4, Products
    <2>2. x = y + r /\ y = z + k /\ v = r + k
      BY <1>1, <1>6
    <2>3. x = z + v
      <3>. HIDE DEF y, z, k, v
      <3>. QED
        BY <1>3, <2>1, <2>2
    <2>. QED
      BY <2>3
  <1>. HIDE DEF c, v
  <1>8. x \div c = w /\ x % c = v
    BY <1>2, <1>4, <1>5, <1>7, ModUnique
  <1>. QED
    BY <1>8 DEF c, v, w, t, u, r

\* The chunks of a key as digits of one number.
LEMMA ChunkDigit ==
    ASSUME NEW key \in Nat, NEW d \in Nat, NEW y, y = key \div 2 ^ (QuotientBits + BitsPerSlot)
    PROVE  /\ y \in Nat /\ y \div 2 ^ (BitsPerSlot * d) \in Nat
           /\ chunk(key, d) = (y \div 2 ^ (BitsPerSlot * d)) % 2 ^ BitsPerSlot
  <1>1. BitsPerSlot \in Nat /\ QuotientBits \in Nat /\ BitsPerSlot * d \in Nat
        /\ BitsPerSlot * (d + 1) = BitsPerSlot + BitsPerSlot * d
    BY Exponents, GQFAssumption
  <1>. DEFINE D == BitsPerSlot * d
              A == 2 ^ (QuotientBits + BitsPerSlot)
              E == 2 ^ D
              C == 2 ^ (QuotientBits + BitsPerSlot * (d + 1))
  <1>2. D \in Nat /\ QuotientBits + BitsPerSlot * (d + 1) = (QuotientBits + BitsPerSlot) + D
    <2>1. D \in Nat /\ BitsPerSlot * (d + 1) = BitsPerSlot + D
      BY <1>1
    <2>. DEFINE F == BitsPerSlot * (d + 1)
    <2>2. F = BitsPerSlot + D
      BY <2>1
    <2>. HIDE DEF D, F
    <2>3. QuotientBits + F = (QuotientBits + BitsPerSlot) + D
      BY <1>1, <2>1, <2>2
    <2>. QED
      BY <2>1, <2>3 DEF F
  <1>3. C = A * E
    <2>1. QuotientBits + BitsPerSlot \in Nat
      BY <1>1
    <2>2. 2 ^ ((QuotientBits + BitsPerSlot) + D) = A * E
      <3>. HIDE DEF D
      <3>. QED
        BY <1>2, <2>1, PowerSum DEF A, E
    <2>. QED
      BY <1>2, <2>2
  <1>4. A \in Nat \ {0} /\ E \in Nat \ {0}
    BY <1>1, <1>2, PowerOfTwo
  <1>5. y = key \div A /\ chunk(key, d) = (key \div C) % 2 ^ BitsPerSlot
    BY DEF chunk
  <1>. HIDE DEF A, C, E
  <1>6. y \in Nat /\ y \div E = key \div C
    <2>1. y \in Nat
      BY <1>4, <1>5, DivFacts
    <2>2. (key \div A) \div E = key \div (A * E)
      BY <1>4, DivTwice
    <2>. QED
      BY <1>3, <1>5, <2>1, <2>2
  <1>7. y \div E \in Nat
    BY <1>4, <1>6, DivFacts
  <1>. QED
    BY <1>5, <1>6, <1>7 DEF E, D

\* e digits of y from the d-th on.
DigitsOf(y, d, e) == (y \div 2 ^ (BitsPerSlot * d)) % 2 ^ (BitsPerSlot * e)

\* The first digit and the rest; no digits; all digits.
LEMMA DigitsStep ==
    ASSUME NEW y \in Nat, NEW d \in Nat, NEW e \in Nat
    PROVE  /\ DigitsOf(y, d, e + 1)
                = ((y \div 2 ^ (BitsPerSlot * d)) % 2 ^ BitsPerSlot) + 2 ^ BitsPerSlot * DigitsOf(y, d + 1, e)
           /\ DigitsOf(y, d, 0) = 0
           /\ DigitsOf(y, 0, e) = y % 2 ^ (BitsPerSlot * e)
  <1>. DEFINE D == BitsPerSlot * d
              E == BitsPerSlot * e
              P == 2 ^ BitsPerSlot
              A == 2 ^ D
              F == 2 ^ E
              z == y \div A
  <1>1. BitsPerSlot \in Nat /\ D \in Nat /\ E \in Nat
        /\ BitsPerSlot * (d + 1) = BitsPerSlot + D /\ BitsPerSlot * (e + 1) = BitsPerSlot + E
    BY Exponents, GQFAssumption
  <1>2. D + BitsPerSlot = BitsPerSlot + D
    <2>. HIDE DEF D
    <2>. QED
      BY <1>1
  <1>3. 2 ^ (BitsPerSlot * (d + 1)) = A * P /\ 2 ^ (BitsPerSlot * (e + 1)) = P * F
    <2>1. 2 ^ (D + BitsPerSlot) = A * P /\ 2 ^ (BitsPerSlot + E) = P * F
      <3>. HIDE DEF D, E
      <3>. QED
        BY <1>1, PowerSum DEF A, P, F
    <2>. QED
      BY <1>1, <1>2, <2>1
  <1>4. A \in Nat \ {0} /\ P \in Nat \ {0} /\ F \in Nat \ {0}
    BY <1>1, PowerOfTwo
  <1>5. /\ DigitsOf(y, d, e + 1) = z % (P * F)
        /\ DigitsOf(y, d + 1, e) = (y \div (A * P)) % F
    BY <1>3 DEF DigitsOf
  <1>6. DigitsOf(y, d, e + 1) = (z % P) + P * DigitsOf(y, d + 1, e)
    <2>. HIDE DEF A, P, F
    <2>1. z \in Nat
      BY <1>4, DivFacts
    <2>2. z \div P = y \div (A * P)
      BY <1>4, DivTwice
    <2>. HIDE DEF z
    <2>3. z % (P * F) = (z % P) + P * ((z \div P) % F)
      BY <1>4, <2>1, DivTwice
    <2>. QED
      BY <1>5, <2>2, <2>3
  <1>7. DigitsOf(y, d, 0) = 0
    <2>1. BitsPerSlot * 0 = 0 /\ z \in Nat
      BY <1>1, <1>4, DivFacts
    <2>2. DigitsOf(y, d, 0) = z % 1
      BY <2>1, PowerSmall DEF DigitsOf
    <2>. HIDE DEF z
    <2>. QED
      BY <2>1, <2>2
  <1>8. DigitsOf(y, 0, e) = y % 2 ^ (BitsPerSlot * e)
    <2>1. BitsPerSlot * 0 = 0 /\ y \div 1 = y
      BY <1>1
    <2>. QED
      BY <2>1, PowerSmall DEF DigitsOf
  <1>. QED
    BY <1>6, <1>7, <1>8

\* An item with the chunks of a key has the key's extension.
LEMMA CarriesExtends ==
    ASSUME NEW qf, NEW U, NEW h, Shaped(qf, U, h), Fits(U), NEW j \in U, NEW key \in Nat, Carries(qf, j, key)
    PROVE  Extends(qf, key, j)
  <1>. DEFINE info == get_slot_info(qf, j)
              l == info.ext_len
              c == j + 1 + l
              y == key \div 2 ^ (QuotientBits + BitsPerSlot)
  <1>1. j \in Slots /\ j \in Nat /\ qf.extensions \in SUBSET Slots /\ qf.extensions \in SUBSET U
    BY HomedTypes DEF Shaped
  <1>2. /\ l \in Nat /\ c \in Nat /\ info.ext = number(qf, j + 1, c)
        /\ \A k \in Nat : j + 1 <= k /\ k < c => is_extension(qf, k)
    <2>. HIDE DEF info
    <2>1. info = get_slot_info(qf, j)
      BY DEF info
    <2>. QED
      BY <1>1, <2>1, InfoPlaces
  <1>3. y \in Nat
    BY ChunkDigit
  <1>. HIDE DEF info, y
  <1>4. ASSUME NEW d \in Nat, d < l
        PROVE  get_slot(qf, j + 1 + d) = (y \div 2 ^ (BitsPerSlot * d)) % 2 ^ BitsPerSlot
    <2>. DEFINE s == j + 1 + d
    <2>1. s \in Nat /\ j < s /\ s < c /\ s - j - 1 = d
      BY <1>1, <1>2, <1>4
    <2>2. ChunkTo(qf, j, s)
      <3>1. ASSUME NEW k \in Nat, j < k, k <= s PROVE k \in qf.extensions \ qf.runends
        <4>. HIDE DEF s, c
        <4>1. j + 1 <= k /\ k < c
          BY <1>1, <1>2, <2>1, <3>1
        <4>. QED
          BY <1>2, <4>1 DEF is_extension
      <3>. QED
        BY <2>1, <3>1 DEF ChunkTo
    <2>3. s \in U
      BY <1>1, <2>1, <2>2 DEF ChunkTo
    <2>. HIDE DEF s
    <2>4. get_slot(qf, s) = qf.slots[s]
      BY <2>3, SlotRead
    <2>5. qf.slots[s] = chunk(key, d)
      BY <2>1, <2>2 DEF Carries
    <2>6. chunk(key, d) = (y \div 2 ^ (BitsPerSlot * d)) % 2 ^ BitsPerSlot
      BY ChunkDigit DEF y
    <2>. QED
      BY <2>4, <2>5, <2>6 DEF s
  <1>5. PICK n : /\ IsNumber(qf, j + 1, c, n)
                 /\ info.ext = n[j + 1]
    <2>. DEFINE N == CHOOSE n : IsNumber(qf, j + 1, c, n)
    <2>1. \E n : IsNumber(qf, j + 1, c, n)
      <3>1. j + 1 \in Nat /\ j + 1 <= c
        BY <1>1, <1>2
      <3>. HIDE DEF c
      <3>. QED
        BY <1>2, <3>1, NumberExists
    <2>2. IsNumber(qf, j + 1, c, N)
      BY <2>1
    <2>3. number(qf, j + 1, c) = N[j + 1]
      BY NumberDef
    <2>. QED
      BY <1>2, <2>2, <2>3
  <1>6. ASSUME NEW i \in j + 1 .. c
        PROVE  n[i] = IF i = c THEN 0 ELSE get_slot(qf, i) + 2 ^ BitsPerSlot * n[i + 1]
    BY <1>5 DEF IsNumber, Digits
  <1>. DEFINE Bad == {e \in 0 .. l : n[c - e] # DigitsOf(y, l - e, e)}
  <1>7. Bad = {}
    <2>1. SUFFICES ASSUME Bad # {} PROVE FALSE
      OBVIOUS
    <2>2. PICK e \in Bad : \A k \in Bad : e <= k
      <3>1. Bad \in SUBSET Nat
        BY <1>2
      <3>. HIDE DEF Bad
      <3>. QED
        BY <2>1, <3>1, SmallestNat
    <2>3. e \in 0 .. l /\ e \in Nat /\ e <= l
      BY <1>2, <2>2
    <2>4. CASE e = 0
      <3>1. c - e = c /\ c \in j + 1 .. c /\ l - e = l
        BY <1>1, <1>2, <2>4
      <3>2. n[c] = 0
        BY <1>6, <3>1
      <3>3. DigitsOf(y, l, 0) = 0
        BY <1>2, <1>3, DigitsStep
      <3>. QED
        BY <2>2, <2>4, <3>1, <3>2, <3>3
    <2>5. CASE e # 0
      <3>. DEFINE p == e - 1
                  d == l - e
      <3>1. /\ p \in Nat /\ p \in 0 .. l /\ p < e /\ p + 1 = e
            /\ d \in Nat /\ d < l /\ l - p = d + 1
            /\ c - e = j + 1 + d /\ c - p = j + 1 + d + 1
            /\ j + 1 + d \in j + 1 .. c /\ j + 1 + d # c
        BY <1>1, <1>2, <2>3, <2>5
      <3>2. n[c - p] = DigitsOf(y, l - p, p)
        BY <2>2, <3>1
      <3>3. n[c - e] = get_slot(qf, j + 1 + d) + 2 ^ BitsPerSlot * n[c - p]
        BY <1>6, <3>1
      <3>4. get_slot(qf, j + 1 + d) = (y \div 2 ^ (BitsPerSlot * d)) % 2 ^ BitsPerSlot
        BY <1>4, <3>1
      <3>5. DigitsOf(y, d, p + 1)
              = ((y \div 2 ^ (BitsPerSlot * d)) % 2 ^ BitsPerSlot) + 2 ^ BitsPerSlot * DigitsOf(y, d + 1, p)
        BY <1>3, <3>1, DigitsStep
      <3>6. n[c - e] = DigitsOf(y, d, p + 1)
        BY <3>1, <3>2, <3>3, <3>4, <3>5
      <3>. QED
        BY <2>2, <3>1, <3>6
    <2>. QED
      BY <2>4, <2>5
  <1>8. info.ext = hash_ext(key, l)
    <2>1. l \in 0 .. l /\ c - l = j + 1 /\ l - l = 0
      BY <1>1, <1>2
    <2>2. n[j + 1] = DigitsOf(y, 0, l)
      BY <1>7, <2>1
    <2>3. DigitsOf(y, 0, l) = y % 2 ^ (BitsPerSlot * l)
      BY <1>2, <1>3, DigitsStep
    <2>. QED
      BY <1>5, <2>2, <2>3 DEF hash_ext, y
  <1>. QED
    BY <1>8 DEF Extends, info

(***************************************************************************)
(* In a tidy filter a query finds every key that the row of its            *)
(* fingerprint has, and counts it once or twice.                           *)
(***************************************************************************)
THEOREM FiledFound ==
    ASSUME NEW qf, NEW U, NEW h, NEW K \in SUBSET Nat, NEW rows, Tidied(qf, U, h, K, rows), NEW key \in K,
           NEW x \in DOMAIN rows[key], rows[key][x] = key,
           NEW r, r = Lookup(qf, key)
    PROVE  r.found /\ r.count \in {1, 2}
  <1>1. Shaped(qf, U, h) /\ Fits(U) /\ Counted(qf) /\ Filed(qf, U, h, key, rows[key])
    BY DEF Tidied
  <1>2. PICK n, e : /\ Lists(e, n, Minirun(qf, U, h, key)) /\ DOMAIN rows[key] = 0 .. n - 1
                    /\ \A m \in 0 .. n - 1 : Carries(qf, e[m], rows[key][m])
    BY <1>1 DEF Filed
  <1>3. e[x] \in Minirun(qf, U, h, key) /\ e[x] \in U /\ Carries(qf, e[x], key)
    <2>1. e[x] \in Minirun(qf, U, h, key) /\ Carries(qf, e[x], key)
      BY <1>2 DEF Lists
    <2>. QED
      BY <2>1 DEF Minirun, Items
  <1>4. key \in Nat
    OBVIOUS
  <1>5. Extends(qf, key, e[x])
    BY <1>1, <1>3, <1>4, CarriesExtends
  <1>6. Matching(qf, U, h, key) # {}
    BY <1>3, <1>5 DEF Matching
  <1>7. Homed(qf, U, h) /\ Stored(qf, U, h) /\ ChunksFirst(qf) /\ \A j \in U : j < XnSlots
    BY <1>1 DEF Shaped, Fits
  <1>8. r.found /\ r.index \in Matching(qf, U, h, key) /\ r.count = get_slot_info(qf, r.index).count
    BY <1>6, <1>7, LookupExact
  <1>9. r.index \in U
    BY <1>8 DEF Matching, Minirun, Items
  <1>10. r.count \in {1, 2}
    <2>. DEFINE info == get_slot_info(qf, r.index)
    <2>1. info.count = IF info.count_len = 0 THEN 1 ELSE 2
      BY <1>1, <1>9, CountOf
    <2>. QED
      BY <1>8, <2>1
  <1>. QED
    BY <1>8, <1>10

\* An item of another fingerprint leaves a row filed.
LEMMA OthersFiled ==
    ASSUME NEW qf, NEW U, NEW h, NEW at, NEW u, NEW q, NEW value, NEW new, NEW g,
           PutIn(qf, U, h, at, u, q, value, new, g), Fits(U \cup {u}), new.extensions = {},
           NEW hash, ~(q = bucket(hash) /\ value = remainder(hash)),
           NEW row, Filed(qf, U, h, hash, row)
    PROVE  Filed(new, U \cup {u}, g, hash, row)
  <1>1. PICK n, e : /\ Lists(e, n, Minirun(qf, U, h, hash)) /\ DOMAIN row = 0 .. n - 1
                    /\ \A r \in 0 .. n - 1 : Carries(qf, e[r], row[r])
    BY DEF Filed
  <1>2. \A r \in 0 .. n - 1 : ~NewChunk(qf, e[r], at, new)
    BY DEF NewChunk
  <1>3. \A r \in 0 .. n - 1 : /\ Carries(qf, e[r], row[r])
                              /\ NewChunk(qf, e[r], at, new) => value = chunk(row[r], at - e[r] - 1)
    BY <1>1, <1>2
  <1>4. ~(at \notin new.extensions /\ q = bucket(hash) /\ value = remainder(hash))
    OBVIOUS
  <1>. QED
    BY <1>1, <1>3, <1>4, FiledMoved

\* While nothing is extended, the row of an item that enters in front of its
\* minirun gets a key more, and the other rows stay filed.
LEMMA EnteredTidies ==
    ASSUME NEW qf, NEW U, NEW h, NEW K \in SUBSET Nat, NEW rows, Tidied(qf, U, h, K, rows),
           NEW hash \in Nat, NEW new, Entered(qf, U, h, hash, new), NEW rows2,
           \A k \in K : minirun_id(k) # minirun_id(hash) => rows2[k] = rows[k],
           \A k \in K : minirun_id(k) = minirun_id(hash) =>
               \A n, e : Lists(e, n, Minirun(qf, U, h, k)) => DOMAIN rows2[k] = 0 .. n
    PROVE  Tidy(new, K, rows2)
  <1>1. Shaped(qf, U, h) /\ Fits(U) /\ Sorted(qf, U, h) /\ Counted(qf) /\ \A k \in K : Filed(qf, U, h, k, rows[k])
    BY DEF Tidied
  <1>. DEFINE q == bucket(hash)
              value == remainder(hash)
  <1>2. PICK at, u, g : /\ PutIn(qf, U, h, at, u, q, value, new, g)
                        /\ Fits(U \cup {u}) /\ new.extensions = {}
                        /\ Splits(qf, U, h, q, at, value)
    BY DEF Entered
  <1>3. at \in Nat /\ Shaped(new, U \cup {u}, g) /\ Moved(qf, U, h, at, u, q, value, new, g)
    BY <1>2 DEF PutIn, Moved
  <1>4. at \notin new.extensions
    BY <1>2
  <1>5. ASSUME NEW i PROVE ~NewChunk(qf, i, at, new)
    BY <1>4 DEF NewChunk
  <1>6. Sorted(new, U \cup {u}, g)
    <2>1. ASSUME NEW i \in U \ qf.extensions, h[i] = q
          PROVE  IF i < at THEN qf.slots[i] <= value ELSE value <= qf.slots[i]
      <3>1. IF i < at THEN qf.slots[i] < value ELSE value <= qf.slots[i]
        BY <1>2, <2>1 DEF Splits
      <3>2. qf.slots[i] \in Nat /\ value \in Nat
        BY <1>1, SlotRead, SlotTypes
      <3>. HIDE DEF value, q
      <3>. QED
        BY <3>1, <3>2
    <2>. HIDE DEF value, q
    <2>2. at \notin new.extensions =>
             \A i \in U \ qf.extensions : h[i] = q =>
                IF i < at THEN qf.slots[i] <= value ELSE value <= qf.slots[i]
      BY <2>1
    <2>. QED
      BY <1>1, <1>2, <2>2, SortedMoved
  <1>7. Counted(new)
    BY <1>2 DEF Counted
  <1>8. ASSUME NEW k \in K PROVE Filed(new, U \cup {u}, g, k, rows2[k])
    <2>1. k \in Nat
      OBVIOUS
    <2>2. PICK n, e : /\ Lists(e, n, Minirun(qf, U, h, k)) /\ DOMAIN rows[k] = 0 .. n - 1
                      /\ \A r \in 0 .. n - 1 : Carries(qf, e[r], rows[k][r])
      BY <1>1 DEF Filed
    <2>3. CASE minirun_id(k) # minirun_id(hash)
      <3>1. ~(q = bucket(k) /\ value = remainder(k)) /\ Filed(qf, U, h, k, rows[k])
        BY <1>1, <2>1, <2>3, SameFingerprint
      <3>2. rows2[k] = rows[k]
        BY <2>3
      <3>. DEFINE row == rows[k]
      <3>. HIDE DEF q, value, row
      <3>3. Filed(new, U \cup {u}, g, k, row)
        BY <1>2, <3>1, OthersFiled DEF row
      <3>. QED
        BY <3>2, <3>3 DEF row
    <2>4. CASE minirun_id(k) = minirun_id(hash)
      <3>1. q = bucket(k) /\ value = remainder(k)
        BY <2>1, <2>4, SameFingerprint
      <3>2. DOMAIN rows2[k] = 0 .. n
        BY <2>2, <2>4
      <3>3. ASSUME NEW j \in Minirun(qf, U, h, k) PROVE at <= j
        <4>1. j \in U \ qf.extensions /\ h[j] = q /\ get_slot(qf, j) = value /\ j \in U
          BY <3>1 DEF Minirun, Items
        <4>2. qf.slots[j] = value
          BY <1>1, <4>1, SlotRead
        <4>3. IF j < at THEN qf.slots[j] < value ELSE value <= qf.slots[j]
          BY <1>2, <4>1 DEF Splits
        <4>4. j \in Nat /\ value \in Nat
          BY <1>1, <4>1, HomedTypes, SlotTypes DEF Shaped
        <4>. HIDE DEF value, q
        <4>. QED
          BY <1>3, <4>2, <4>3, <4>4
      <3>. DEFINE row == rows2[k]
      <3>. HIDE DEF q, value, row
      <3>4. DOMAIN row = 0 .. n
        BY <3>2 DEF row
      <3>5. Filed(new, U \cup {u}, g, k, row)
        BY <1>2, <2>2, <3>1, <3>3, <3>4, FiledFronted
      <3>. QED
        BY <3>5 DEF row
    <2>. QED
      BY <2>3, <2>4
  <1>9. Tidied(new, U \cup {u}, g, K, rows2)
    BY <1>2, <1>3, <1>6, <1>7, <1>8 DEF Tidied
  <1>. QED
    BY <1>9 DEF Tidy

\* In a tidy filter the remainders of every run ascend.
LEMMA TidyLaidOut ==
    ASSUME NEW qf, NEW K, NEW rows, Tidy(qf, K, rows)
    PROVE  /\ Kept(qf)
           /\ RunsMatchBuckets(qf) /\ NothingOutside(qf) /\ RunsSorted(qf) /\ SlotsCounted(qf)
  <1>1. PICK U, h : Tidied(qf, U, h, K, rows)
    BY DEF Tidy
  <1>2. Shaped(qf, U, h) /\ Fits(U) /\ Sorted(qf, U, h)
    BY <1>1 DEF Tidied
  <1>3. Homed(qf, U, h) /\ ChunksFirst(qf) /\ qf.noccupied_slots = Cardinality(U)
    BY <1>2 DEF Shaped
  <1>4. RunsMatchBuckets(qf) /\ NothingOutside(qf) /\ SlotsCounted(qf)
    BY <1>3, LayoutIsRead DEF SlotsCounted
  <1>5. ASSUME NEW b \in qf.occupieds, NEW i \in RunSlots(qf, b) \ qf.extensions,
               NEW j \in RunSlots(qf, b) \ qf.extensions, i < j
        PROVE  qf.slots[i] <= qf.slots[j]
    <2>1. i \in U /\ h[i] = b /\ j \in U /\ h[j] = b /\ i \notin qf.extensions /\ j \notin qf.extensions
      BY <1>3, RunSlotsAre
    <2>. QED
      BY <1>2, <1>5, <2>1 DEF Sorted
  <1>6. RunsSorted(qf)
    BY <1>3, <1>5 DEF RunsSorted, ChunksFirst
  <1>. QED
    BY <1>2, <1>4, <1>6 DEF Kept

-----------------------------------------------------------------------------
(***************************************************************************)
(* The walk arrives                                                        *)
(***************************************************************************)
\* In a sorted run the walk's next item of at least a remainder has it, if one
\* of the minirun is still to come.
LEMMA NextHolds ==
    ASSUME NEW qf, NEW U, NEW h, Shaped(qf, U, h), Fits(U), Sorted(qf, U, h), NEW hash \in Nat,
           NEW i \in Items(qf, U, h, bucket(hash)), NEW x \in Minirun(qf, U, h, hash), i <= x,
           NEW j, j = NextAtLeast(qf, remainder(hash), i)
    PROVE  HoldsRem(qf, remainder(hash), j) /\ j \in Minirun(qf, U, h, hash) /\ j <= x
  <1>1. qf \in Filters /\ Homed(qf, U, h) /\ U \in SUBSET Nat
    BY HomedTypes DEF Shaped
  <1>2. remainder(hash) \in Nat /\ \A y \in Slots : get_slot(qf, y) \in Nat
    BY <1>1, SlotTypes
  <1>3. /\ j \in Items(qf, U, h, bucket(hash)) /\ j \in Nat /\ i <= j /\ j <= x
        /\ get_slot(qf, j) >= remainder(hash)
        /\ get_slot(qf, j) = remainder(hash) => j \in Minirun(qf, U, h, hash)
    <2>1. remainder(hash) \in Int /\ \A y \in Slots : get_slot(qf, y) \in Int
      BY <1>2
    <2>. QED
      BY <1>1, <2>1, NextAtLeastIs
  <1>4. /\ j \in U /\ x \in U /\ x \in Nat /\ h[j] = h[x] /\ j \notin qf.extensions /\ x \notin qf.extensions
        /\ get_slot(qf, x) = remainder(hash) /\ j < XnSlots
    BY <1>1, <1>3 DEF Minirun, Items, Fits
  <1>5. get_slot(qf, j) = qf.slots[j] /\ get_slot(qf, x) = qf.slots[x] /\ qf.slots[j] \in Nat /\ qf.slots[x] \in Nat
    BY <1>4, SlotRead
  <1>6. qf.slots[j] <= qf.slots[x]
    <2>1. CASE j = x
      BY <1>5, <2>1
    <2>2. CASE j # x
      <3>1. j < x
        BY <1>3, <1>4, <2>2
      <3>. QED
        BY <1>4, <3>1 DEF Sorted
    <2>. QED
      BY <2>1, <2>2
  <1>7. get_slot(qf, j) = remainder(hash)
    BY <1>2, <1>3, <1>4, <1>5, <1>6
  <1>. QED
    BY <1>3, <1>4, <1>7 DEF HoldsRem

\* The walk stays on the items of the minirun up to the rank of one of them.
LEMMA WalkHolds ==
    ASSUME NEW qf, NEW U, NEW h, Shaped(qf, U, h), Fits(U), Sorted(qf, U, h), NEW hash \in Nat,
           NEW x \in Minirun(qf, U, h, hash), NEW g, IsWalk(qf, hash, PastEnd, g), NEW m \in Nat,
           m <= CountIn(Minirun(qf, U, h, hash), 0, x - 1)
    PROVE  HoldsRem(qf, remainder(hash), g[m])
  <1>. DEFINE T == Minirun(qf, U, h, hash)
              b == bucket(hash)
              rem == remainder(hash)
              rank == CountIn(T, 0, x - 1)
              Wrong == {k \in Nat : k <= m /\ ~HoldsRem(qf, rem, g[k])}
  <1>1. /\ qf \in Filters /\ Homed(qf, U, h) /\ Stored(qf, U, h) /\ ChunksFirst(qf) /\ U \in SUBSET Nat
        /\ x \in U /\ x \in Nat /\ x \in Items(qf, U, h, b) /\ h[x] = b /\ T \in SUBSET Nat
        /\ x < PastEnd /\ PastEnd \in Nat
    <2>1. qf \in Filters /\ Homed(qf, U, h) /\ Stored(qf, U, h) /\ ChunksFirst(qf)
      BY DEF Shaped
    <2>2. U \in SUBSET Nat /\ \A i \in U : i < PastEnd
      BY <2>1, HomedTypes
    <2>. QED
      BY <2>1, <2>2, Sizes DEF Minirun, Items
  <1>2. m <= PastEnd /\ m <= rank /\ rank \in Nat
    <2>. DEFINE y == x - 1
    <2>1. y \in Int /\ 0 <= y + 1 /\ y + 1 < PastEnd
      BY <1>1
    <2>. HIDE DEF y, T
    <2>2. CountIn(T, 0, y) \in 0 .. y - 0 + 1
      BY <1>1, <2>1, CountType
    <2>3. rank = CountIn(T, 0, y)
      BY DEF y
    <2>4. m <= rank
      BY DEF T
    <2>. HIDE DEF rank
    <2>. QED
      BY <1>1, <2>1, <2>2, <2>3, <2>4
  <1>3. ASSUME NEW k \in Nat, k <= m PROVE g[k] = WalkStep(qf, hash, g, k)
    <2>1. k \in 0 .. PastEnd
      BY <1>1, <1>2, <1>3
    <2>. QED
      BY <2>1 DEF IsWalk
  <1>4. HoldsRem(qf, rem, g[0])
    <2>. DEFINE s == run_start(qf, b)
    <2>1. b \in Homes(U, h)
      BY <1>1 DEF Homes
    <2>2. s \in U /\ s \in Nat /\ h[s] = b /\ s \notin qf.extensions /\ \A i \in U : h[i] = b => s <= i
      BY <1>1, <2>1, RunStartIs
    <2>3. s \in Items(qf, U, h, b) /\ s <= x
      BY <1>1, <2>2 DEF Items
    <2>4. g[0] = NextAtLeast(qf, rem, s)
      BY <1>3 DEF WalkStep
    <2>. HIDE DEF s
    <2>. QED
      BY <2>3, <2>4, NextHolds
  <1>5. ASSUME NEW k \in Nat, k + 1 <= m, HoldsRem(qf, rem, g[k]) PROVE HoldsRem(qf, rem, g[k + 1])
    <2>. DEFINE i == g[k]
                info == get_slot_info(qf, i)
                n == skip_extensions(qf, i + 1)
    <2>1. k <= m /\ k < rank /\ k <= rank
      <3>. HIDE DEF rank
      <3>. QED
        BY <1>2, <1>5
    <2>2. i \in T /\ i <= x /\ CountIn(T, 0, i - 1) = k
      <3>. HIDE DEF i
      <3>1. k <= CountIn(Minirun(qf, U, h, hash), 0, x - 1) /\ HoldsRem(qf, remainder(hash), g[k])
        BY <1>5, <2>1
      <3>2. g[k] \in Minirun(qf, U, h, hash) /\ g[k] <= x /\ CountIn(Minirun(qf, U, h, hash), 0, g[k] - 1) = k
        BY <1>1, <3>1, WalkFinds
      <3>. QED
        BY <3>2 DEF i
    <2>3. i \in Items(qf, U, h, b) /\ i \in U /\ i \in Nat /\ h[i] = b /\ i # x /\ i < x
      <3>1. i # x
        BY <1>2, <2>1, <2>2
      <3>. QED
        BY <1>1, <2>2, <3>1 DEF Minirun, Items
    <2>4. i \notin RunEnds(qf)
      <3>1. RunEnds(qf) = LastItems(U, h, qf.extensions) /\ x \notin qf.extensions
        BY <1>1, HomedTypes DEF Items
      <3>. QED
        BY <1>1, <2>3, <3>1 DEF LastItems
    <2>5. i + 1 + info.ext_len + info.count_len = n
      BY <1>1, <2>3, InfoIs
    <2>6. n \in Items(qf, U, h, b) /\ n <= x
      BY <1>1, <2>3, <2>4, NextItem
    <2>7. g[k + 1] = NextAtLeast(qf, rem, n)
      <3>1. k + 1 # 0 /\ (k + 1) - 1 = k
        OBVIOUS
      <3>2. g[k + 1] = WalkStep(qf, hash, g, k + 1)
        BY <1>3, <1>5
      <3>3. ~is_runend(qf, i)
        BY <2>4 DEF is_runend, RunEnds
      <3>. QED
        BY <1>5, <2>5, <3>1, <3>2, <3>3 DEF WalkStep
    <2>. HIDE DEF n
    <2>. QED
      BY <2>6, <2>7, NextHolds
  <1>6. SUFFICES ASSUME Wrong # {} PROVE FALSE
    OBVIOUS
  <1>7. PICK k \in Wrong : \A y \in Wrong : k <= y
    <2>1. Wrong \in SUBSET Nat
      OBVIOUS
    <2>. HIDE DEF Wrong
    <2>. QED
      BY <1>6, <2>1, SmallestNat
  <1>8. k \in Nat /\ k <= m /\ ~HoldsRem(qf, rem, g[k]) /\ k # 0
    BY <1>4, <1>7
  <1>. DEFINE p == k - 1
  <1>9. p \in Nat /\ p + 1 = k /\ p <= m /\ ~(k <= p)
    BY <1>8
  <1>. HIDE DEF p
  <1>10. HoldsRem(qf, rem, g[p])
    BY <1>7, <1>9
  <1>. QED
    BY <1>5, <1>8, <1>9, <1>10

(***************************************************************************)
(* In sorted runs qf_adapt_using_ll_table, given a rank up to the one a    *)
(* query answered, adapts the item of that rank.                           *)
(***************************************************************************)
THEOREM WalkArrives ==
    ASSUME NEW qf, NEW U, NEW h, Shaped(qf, U, h), Fits(U), Sorted(qf, U, h), NEW orig, NEW hash \in Nat,
           NEW x \in Minirun(qf, U, h, hash), NEW m, m = CountIn(Minirun(qf, U, h, hash), 0, x - 1)
    PROVE  qf_adapt_using_ll_table(qf, orig, hash, m) = qf_adapt(qf, x, orig, hash)
  <1>. DEFINE T == Minirun(qf, U, h, hash)
              g == CHOOSE w : IsWalk(qf, hash, PastEnd, w)
  <1>1. /\ qf \in Filters /\ Homed(qf, U, h) /\ Stored(qf, U, h) /\ ChunksFirst(qf)
        /\ x \in U /\ h[x] = bucket(hash) /\ T \in SUBSET Nat
    <2>1. qf \in Filters /\ Homed(qf, U, h) /\ Stored(qf, U, h) /\ ChunksFirst(qf)
      BY DEF Shaped
    <2>2. U \in SUBSET Nat
      BY <2>1, HomedTypes
    <2>. QED
      BY <2>1, <2>2 DEF Minirun, Items
  <1>2. m \in Nat
    <2>. DEFINE y == x - 1
    <2>1. x \in Nat /\ y \in Int /\ 0 <= y + 1
      BY <1>1
    <2>. HIDE DEF y, T
    <2>2. CountIn(T, 0, y) \in 0 .. y - 0 + 1
      BY <1>1, <2>1, CountType
    <2>. QED
      BY <2>1, <2>2 DEF y, T
  <1>3. IsWalk(qf, hash, PastEnd, g)
    BY WalkExists, Sizes
  <1>4. qf_adapt_using_ll_table(qf, orig, hash, m)
          = IF bucket(hash) \in qf.occupieds /\ HoldsRem(qf, remainder(hash), g[m])
            THEN qf_adapt(qf, g[m], orig, hash) ELSE qf
    BY WalkDef
  <1>. HIDE DEF g
  <1>5. m <= CountIn(Minirun(qf, U, h, hash), 0, x - 1)
    BY <1>2
  <1>6. HoldsRem(qf, remainder(hash), g[m])
    BY <1>2, <1>3, <1>5, WalkHolds
  <1>7. g[m] \in T /\ CountIn(T, 0, g[m] - 1) = m
    BY <1>1, <1>2, <1>3, <1>5, <1>6, WalkFinds
  <1>8. g[m] = x
    <2>. DEFINE z == g[m]
    <2>1. z \in T /\ z \in Nat /\ x \in T /\ x \in Nat /\ CountIn(T, 0, z - 1) = CountIn(T, 0, x - 1)
      BY <1>1, <1>7
    <2>. HIDE DEF z, T
    <2>2. \A a, c \in T : a < c => CountIn(T, 0, a - 1) < CountIn(T, 0, c - 1)
      <3>1. SUFFICES ASSUME NEW a \in T, NEW c \in T, a < c
                     PROVE  CountIn(T, 0, a - 1) < CountIn(T, 0, c - 1)
        OBVIOUS
      <3>. DEFINE y == a - 1
                  w == c - 1
      <3>2. a \in Nat /\ c \in Nat /\ y \in Int /\ w \in Int /\ 0 <= y + 1 /\ y < a /\ a <= w /\ a - 1 = y
        BY <1>1, <3>1
      <3>. HIDE DEF y, w
      <3>3. CountIn(T, 0, y) < CountIn(T, 0, a)
        BY <1>1, <3>2, CountGrows
      <3>4. CountIn(T, 0, w) = CountIn(T, 0, a) + CountIn(T, a + 1, w)
        <4>1. 0 \in Nat /\ a \in Int /\ 0 <= a + 1
          BY <3>2
        <4>. QED
          BY <1>1, <3>2, <4>1, CountSplit
      <3>5. CountIn(T, 0, y) \in Nat /\ CountIn(T, 0, a) \in Nat /\ CountIn(T, a + 1, w) \in Nat
        <4>1. 0 \in Nat /\ 0 <= a + 1 /\ a + 1 \in Nat /\ a + 1 <= w + 1 /\ a \in Int
          BY <3>2
        <4>. QED
          BY <1>1, <3>2, <4>1, CountType
      <3>. QED
        BY <3>3, <3>4, <3>5 DEF y, w
    <2>3. CountIn(T, 0, z - 1) \in Nat
      BY <1>2, <1>7 DEF z
    <2>. QED
      BY <2>1, <2>2, <2>3 DEF z
  <1>9. bucket(hash) \in qf.occupieds
    BY <1>1, HomedTypes DEF Homes
  <1>. QED
    BY <1>4, <1>6, <1>8, <1>9

-----------------------------------------------------------------------------
(***************************************************************************)
(* Counter slots                                                           *)
(***************************************************************************)
\* The counter slots of a filter.
Counters(qf) == qf.extensions \intersect qf.runends

\* A slot put in is one more in use, and one more counter slot if it is marked as
\* one.
LEMMA CountersPut ==
    ASSUME NEW qf, NEW U, NEW h, NEW at, NEW u, NEW q, NEW value, NEW new, NEW g,
           PutIn(qf, U, h, at, u, q, value, new, g)
    PROVE  /\ IsFiniteSet(Counters(qf)) /\ IsFiniteSet(Counters(new))
           /\ Cardinality(Counters(new)) = Cardinality(Counters(qf)) + (IF at \in Counters(new) THEN 1 ELSE 0)
           /\ new.noccupied_slots = qf.noccupied_slots + 1
  <1>. DEFINE C == Counters(qf)
              D == Counters(new)
              E == D \ {at}
              F == [i \in C |-> Up(at, u, i)]
  <1>1. /\ Shaped(qf, U, h) /\ Shaped(new, U \cup {u}, g) /\ Moved(qf, U, h, at, u, q, value, new, g)
        /\ U \in SUBSET Nat /\ at \in Nat /\ u \notin U /\ FreeFrom(U, at, u)
    BY MarkOrigin DEF PutIn
  <1>2. U \in SUBSET Slots /\ IsFiniteSet(U) /\ IsFiniteSet(U \cup {u}) /\ C \in SUBSET U /\ D \in SUBSET (U \cup {u})
    <2>1. Homed(qf, U, h) /\ Homed(new, U \cup {u}, g)
      BY <1>1 DEF Shaped
    <2>2. U \in SUBSET Slots
      BY <2>1, HomedTypes
    <2>3. IsFiniteSet(Slots)
      BY FS_Interval, Sizes
    <2>4. IsFiniteSet(U)
      BY <2>2, <2>3, FS_Subset
    <2>5. C \in SUBSET U /\ D \in SUBSET (U \cup {u})
      BY <2>1 DEF Homed, Counters
    <2>. QED
      BY <2>2, <2>4, <2>5, FS_AddElement
  <1>3. IsFiniteSet(C) /\ IsFiniteSet(D) /\ IsFiniteSet(E) /\ Cardinality(E) \in Nat
    BY <1>2, FS_Subset, FS_CardinalityType
  <1>4. \A i \in C : Up(at, u, i) \in E
    BY <1>1, <1>2, UpOrder DEF Moved, Carried, Counters
  <1>5. \A j \in E : \E i \in C : j = Up(at, u, i)
    <2>1. SUFFICES ASSUME NEW j \in E PROVE \E i \in C : j = Up(at, u, i)
      OBVIOUS
    <2>2. PICK i \in U : j = Up(at, u, i)
      BY <1>1, <1>2 DEF Moved
    <2>3. Carried(qf, h, i, new, g, Up(at, u, i))
      BY <1>1 DEF Moved
    <2>. QED
      BY <2>2, <2>3 DEF Carried, Counters
  <1>6. \A i, j \in C : Up(at, u, i) = Up(at, u, j) => i = j
    <2>1. \A i, j \in U : i = j <=> Up(at, u, i) = Up(at, u, j)
      BY <1>1, UpOrder
    <2>. QED
      BY <1>2, <2>1
  <1>7. F \in Bijection(C, E)
    <2>. HIDE DEF C, E
    <2>1. F \in [C -> E]
      BY <1>4
    <2>2. \A i, j \in C : F[i] = F[j] => i = j
      BY <1>6
    <2>3. \A j \in E : \E i \in C : F[i] = j
      BY <1>5
    <2>. HIDE DEF F
    <2>. QED
      BY <2>1, <2>2, <2>3 DEF Bijection, Injection, Surjection, IsInjective
  <1>8. Cardinality(C) = Cardinality(E)
    <2>1. ExistsBijection(C, E)
      BY <1>7 DEF ExistsBijection
    <2>. HIDE DEF C, E, F
    <2>. QED
      BY <1>3, <2>1, FS_Bijection
  <1>9. Cardinality(D) = Cardinality(C) + (IF at \in D THEN 1 ELSE 0)
    <2>1. CASE at \in D
      <3>1. D = E \cup {at} /\ at \notin E
        BY <2>1
      <3>. HIDE DEF C, D, E
      <3>2. Cardinality(E \cup {at}) = Cardinality(E) + 1
        BY <1>3, <3>1, FS_AddElement
      <3>. QED
        BY <1>8, <2>1, <3>1, <3>2
    <2>2. CASE at \notin D
      <3>1. D = E
        BY <2>2
      <3>. HIDE DEF C, D, E
      <3>. QED
        BY <1>3, <1>8, <2>2, <3>1
    <2>. QED
      BY <2>1, <2>2
  <1>10. Cardinality(U \cup {u}) = Cardinality(U) + 1
    BY <1>1, <1>2, FS_AddElement
  <1>11. new.noccupied_slots = qf.noccupied_slots + 1
    BY <1>1, <1>10 DEF Shaped
  <1>. QED
    BY <1>3, <1>9, <1>11

\* The first charge of an item is one counter slot more.
LEMMA ChargeCounts ==
    ASSUME NEW qf, NEW U, NEW h, NEW hash, NEW index, NEW at, NEW u, NEW one, NEW g,
           ChargedBy(qf, U, h, hash, index, at, u, one, g),
           NEW new, new = increment_counter(qf, index, hash, 1)
    PROVE  /\ IsFiniteSet(Counters(qf)) /\ Cardinality(Counters(new)) = Cardinality(Counters(qf)) + 1
           /\ new.noccupied_slots = qf.noccupied_slots + 1
  <1>1. PutIn(qf, U, h, at, u, bucket(hash), 2, one, g) /\ at \in Counters(one) /\ one \in Filters
    BY DEF ChargedBy, PutIn, Shaped, Counters
  <1>2. new = [one EXCEPT !.nelts = @ + 1]
    BY DEF ChargedBy
  <1>3. Counters(new) = Counters(one) /\ new.noccupied_slots = one.noccupied_slots
    BY <1>1, <1>2 DEF Filters, Counters
  <1>. QED
    BY <1>1, <1>3, CountersPut

\* A filter with c counter slots and at least n slots in use.
Counts(qf, c, n) == Cardinality(Counters(qf)) = c /\ qf.noccupied_slots \in Nat /\ n <= qf.noccupied_slots

\* A chunk put in is no counter slot.
LEMMA ChunkCounts ==
    ASSUME NEW qf, NEW b \in Nat, NEW at \in Nat, Growing(qf, b, at), NEW value \in SlotValues,
           NEW new, new = Appended(qf, b, at, value), NEW c, NEW n \in Nat, Counts(qf, c, n)
    PROVE  Growing(new, b, at + 1) /\ Counts(new, c, n)
  <1>1. Growing(new, b, at + 1)
    BY ChunkAppended
  <1>2. CASE ~HasSpace(qf, at)
    BY <1>1, <1>2 DEF Appended
  <1>3. CASE HasSpace(qf, at)
    <2>. DEFINE u == find_first_empty_slot(qf, at)
                moved == make_space(qf, b, at, u, value)
                ends == {}
    <2>1. PICK U, h : /\ Shaped(qf, U, h) /\ Fits(U)
                      /\ \/ Behind(qf, U, h, b, at) /\ at - 1 \notin qf.extensions \intersect qf.runends
                         \/ \A k \in Nat : at <= k /\ k < XnSlots => k \in U
      BY DEF Growing
    <2>2. Homed(qf, U, h) /\ Stored(qf, U, h) /\ qf \in Filters
      BY <2>1 DEF Shaped
    <2>3. Behind(qf, U, h, b, at) /\ at - 1 \notin qf.extensions \intersect qf.runends
      <3>1. u < XnSlots
        BY <1>3 DEF HasSpace
      <3>2. FreeFrom(U, at, u)
        BY <2>2, <3>1, SpaceFound
      <3>3. u \in Nat /\ u \notin U /\ at <= u
        BY <3>2 DEF FreeFrom
      <3>. HIDE DEF u
      <3>. QED
        BY <2>1, <3>1, <3>3
    <2>4. moved \in Filters
      <3>1. moved = make_space(qf, b, at, u, value) /\ u = find_first_empty_slot(qf, at)
        OBVIOUS
      <3>. HIDE DEF u, moved
      <3>. QED
        BY <1>3, <2>1, <2>2, <3>1, SpaceMade
    <2>5. new = Marked(moved, at, {})
      <3>1. new = [moved EXCEPT !.extensions = @ \cup {at}, !.noccupied_slots = @ + 1]
        BY <1>3 DEF Appended, Grown
      <3>. HIDE DEF moved
      <3>2. moved.runends \cup {} = moved.runends
        OBVIOUS
      <3>. QED
        BY <2>4, <3>1, <3>2 DEF Marked, Filters
    <2>6. ends \in SUBSET {at} /\ at \notin ends /\ at \notin qf.extensions
      BY <2>3 DEF Behind
    <2>7. new = Marked(make_space(qf, b, at, u, value), at, ends) /\ u = find_first_empty_slot(qf, at)
      BY <2>5
    <2>. HIDE DEF u, moved, ends
    <2>8. Markable(qf, U, h, b, at, ends)
      BY <1>3, <2>1, <2>3, <2>6 DEF Markable
    <2>9. IsMarked(qf, U, h, b, at, ends, value, u, new)
      BY <2>7, <2>8, MarkedFields
    <2>10. /\ PutIn(qf, U, h, at, u, b, value, new, PutHomes(U, h, b, u))
           /\ at \in new.extensions /\ (at \in new.runends <=> at \in ends)
      BY <2>1, <2>6, <2>9, MarkedPut
    <2>11. at \notin Counters(new)
      BY <2>6, <2>10 DEF Counters
    <2>12. /\ Cardinality(Counters(new)) = Cardinality(Counters(qf)) + 0
           /\ new.noccupied_slots = qf.noccupied_slots + 1 /\ IsFiniteSet(Counters(qf))
      BY <2>10, <2>11, CountersPut
    <2>13. Cardinality(Counters(qf)) \in Nat
      BY <2>12, FS_CardinalityType
    <2>. QED
      BY <1>1, <2>12, <2>13 DEF Counts
  <1>. QED
    BY <1>2, <1>3

\* A counter slot turned into a chunk is one less.
LEMMA OverwriteCounts ==
    ASSUME NEW qf, NEW U, NEW h, Shaped(qf, U, h), Fits(U), NEW b \in Nat, NEW index \in Items(qf, U, h, b),
           NEW info, info = get_slot_info(qf, index), info.count_len = 1,
           NEW at, at = index + info.ext_len + 1, NEW value \in SlotValues,
           NEW new, new = Overwritten(qf, at, value), NEW c, NEW n \in Nat, Counts(qf, c, n)
    PROVE  Growing(new, b, at + 1) /\ Counts(new, c - 1, n)
  <1>1. /\ Growing(new, b, at + 1) /\ Shaped(new, U, h)
        /\ at \in qf.extensions \intersect qf.runends
        /\ new.extensions = qf.extensions /\ new.runends = qf.runends \ {at}
    <2>1. /\ Shaped(qf, U, h) /\ Fits(U) /\ b \in Nat /\ index \in Items(qf, U, h, b)
          /\ info = get_slot_info(qf, index) /\ info.count_len = 1
          /\ at = index + info.ext_len + 1 /\ value \in SlotValues /\ new = Overwritten(qf, at, value)
      OBVIOUS
    <2>2. /\ Shaped(new, U, h) /\ Behind(new, U, h, b, at + 1)
          /\ at \in Nat /\ at \in qf.extensions \intersect qf.runends /\ index < at
          /\ new.extensions = qf.extensions /\ new.runends = qf.runends \ {at}
          /\ new.slots = [qf.slots EXCEPT ![at] = value]
      BY <2>1, OverwrittenFields
    <2>3. Growing(new, b, at + 1)
      BY <2>1, CounterOverwritten
    <2>. QED
      BY <2>2, <2>3
  <1>2. Counters(new) = Counters(qf) \ {at} /\ at \in Counters(qf)
    BY <1>1 DEF Counters
  <1>3. IsFiniteSet(Counters(qf))
    <2>1. Counters(qf) \in SUBSET Slots /\ IsFiniteSet(Slots)
      BY FS_Interval, Sizes DEF Shaped, Filters, Counters
    <2>. QED
      BY <2>1, FS_Subset
  <1>4. Cardinality(Counters(new)) = Cardinality(Counters(qf)) - 1
    BY <1>2, <1>3, FS_RemoveElement
  <1>5. new.noccupied_slots = qf.noccupied_slots
    BY <1>1 DEF Shaped
  <1>. QED
    BY <1>1, <1>4, <1>5 DEF Counts

(***************************************************************************)
(* Adapting an item uses up its counter and no other, and adds none, also  *)
(* if it runs out of slots on the way: then it has used up the counter if  *)
(* there was space from the counter on.                                    *)
(***************************************************************************)
THEOREM AdaptCounts ==
    ASSUME NEW qf, NEW U, NEW h, Shaped(qf, U, h), Fits(U), NEW b \in Nat, NEW x \in Items(qf, U, h, b),
           NEW info, info = get_slot_info(qf, x), info.count_len \in {0, 1},
           info.count_len = 1 => HasSpace(qf, x + info.ext_len + 1),
           NEW key \in Nat, NEW other \in Nat, NEW new, new = adapt(qf, x, b, key, other)
    PROVE  Counts(new, Cardinality(Counters(qf)) - info.count_len, qf.noccupied_slots)
  <1>. DEFINE n == Rounds(info, key, other)
              at(i) == x + info.ext_len + i
              value(i) == chunk(key, info.ext_len + i - 1)
              g == CHOOSE f : IsAppend(qf, x, info, b, key, n, f)
              c == Cardinality(Counters(qf)) - info.count_len
              Good(i) == Growing(g[i], b, at(i + 1)) /\ Counts(g[i], c, qf.noccupied_slots)
  <1>1. /\ qf \in Filters /\ Homed(qf, U, h) /\ Stored(qf, U, h) /\ ChunksFirst(qf)
        /\ U \in SUBSET Nat /\ x \in U /\ x \in Nat /\ h[x] = b /\ x \notin qf.extensions
        /\ qf.noccupied_slots \in Nat
    <2>1. qf \in Filters /\ Homed(qf, U, h) /\ Stored(qf, U, h) /\ ChunksFirst(qf)
      BY DEF Shaped
    <2>2. U \in SUBSET Nat
      BY <2>1, HomedTypes
    <2>. QED
      BY <2>1, <2>2 DEF Items, Filters
  <1>2. /\ info.ext_len \in Nat
        /\ x + 1 + info.ext_len + info.count_len = skip_extensions(qf, x + 1)
        /\ \A k \in Nat : x < k /\ k < x + 1 + info.ext_len => is_extension(qf, k)
    BY <1>1, InfoIs
  <1>3. n \in Nat /\ n # 0
    BY <1>2, RoundsType
  <1>4. IsAppend(qf, x, info, b, key, n, g)
    <2>. HIDE DEF n
    <2>1. \E f : IsAppend(qf, x, info, b, key, n, f)
      BY <1>3, AppendExists
    <2>. QED
      BY <2>1
  <1>5. new = g[n]
    <2>1. ~(info.count_len > 1)
      OBVIOUS
    <2>2. new = append_chunks(qf, x, info, b, key, other)
      BY <2>1 DEF adapt
    <2>3. n = Rounds(info, key, other) /\ g = CHOOSE f : IsAppend(qf, x, info, b, key, n, f)
      OBVIOUS
    <2>. HIDE DEF n, g, Good
    <2>. QED
      BY <2>2, <2>3, AppendDef
  <1>. HIDE DEF g, n
  <1>6. ASSUME NEW i \in 0 .. n PROVE g[i] = AppendStep(qf, x, info, b, key, g, i)
    BY <1>4 DEF IsAppend
  <1>7. ASSUME NEW i \in Nat, i # 0
        PROVE  at(i) \in Nat /\ at(i) + 1 = at(i + 1) /\ value(i) \in SlotValues
    <2>1. at(i) \in Nat /\ at(i) + 1 = at(i + 1) /\ info.ext_len + i - 1 \in Nat
      BY <1>1, <1>2, <1>7
    <2>. QED
      BY <2>1, ChunkType
  <1>8. Counts(qf, Cardinality(Counters(qf)), qf.noccupied_slots)
    BY <1>1 DEF Counts
  <1>9. Good(1)
    <2>1. 1 \in 0 .. n /\ 0 \in 0 .. n
      BY <1>3
    <2>2. g[0] = qf /\ g[1 - 1] = qf
      <3>1. g[0] = qf
        BY <1>6, <2>1 DEF AppendStep
      <3>. QED
        BY <3>1
    <2>3. /\ at(1) \in Nat /\ at(1) + 1 = at(2) /\ at(1 + 1) = at(2) /\ at(1) # 0
          /\ at(1) = x + info.ext_len + 1 /\ at(1) = x + 1 + info.ext_len /\ x < at(1)
      BY <1>1, <1>2
    <2>4. value(1) \in SlotValues
      BY <1>7
    <2>5. CASE info.count_len = 1
      <3>1. HasSpace(qf, at(1))
        BY <2>5
      <3>2. g[1] = Overwritten(qf, at(1), value(1))
        BY <1>6, <2>1, <2>2, <2>5, <3>1 DEF AppendStep
      <3>. HIDE DEF at, value
      <3>3. Growing(g[1], b, at(1) + 1) /\ Counts(g[1], Cardinality(Counters(qf)) - 1, qf.noccupied_slots)
        BY <1>1, <1>8, <2>3, <2>4, <2>5, <3>2, OverwriteCounts
      <3>. QED
        BY <2>3, <2>5, <3>3
    <2>6. CASE info.count_len = 0
      <3>1. at(1) = skip_extensions(qf, x + 1)
        BY <1>2, <2>3, <2>6
      <3>2. at(1) \notin qf.extensions
        <4>1. /\ qf.extensions \in SUBSET Slots /\ x + 1 \in Nat /\ x + 1 <= PastEnd
          <5>1. x < PastEnd /\ PastEnd \in Nat /\ qf.extensions \in SUBSET Slots
            BY <1>1, HomedTypes
          <5>. QED
            BY <1>1, <5>1
        <4>. HIDE DEF at
        <4>. QED
          BY <3>1, <4>1, SkipIs
      <3>3. at(1) - 1 \in U /\ h[at(1) - 1] = b
        <4>1. at(1) - 1 \in Nat /\ x <= at(1) - 1 /\ at(1) - 1 < at(1)
          BY <1>1, <2>3
        <4>. HIDE DEF at
        <4>. QED
          BY <1>1, <3>1, <4>1, ItemSlots
      <3>4. at(1) - 1 \notin qf.extensions \intersect qf.runends
        <4>1. at(1) - 1 \in Nat /\ (at(1) - 1 = x \/ (x < at(1) - 1 /\ at(1) - 1 < x + 1 + info.ext_len))
          BY <1>1, <1>2, <2>3
        <4>. HIDE DEF at
        <4>. QED
          BY <1>1, <1>2, <4>1 DEF is_extension
      <3>5. Growing(qf, b, at(1))
        <4>. HIDE DEF at
        <4>1. Behind(qf, U, h, b, at(1))
          BY <2>3, <3>2, <3>3 DEF Behind
        <4>. QED
          BY <3>4, <4>1 DEF Growing
      <3>6. g[1] = Appended(qf, b, at(1), value(1))
        BY <1>6, <2>1, <2>2, <2>6 DEF AppendStep, Appended
      <3>. HIDE DEF at, value
      <3>7. Growing(g[1], b, at(1) + 1) /\ Counts(g[1], Cardinality(Counters(qf)), qf.noccupied_slots)
        <4>1. /\ Growing(qf, b, at(1)) /\ at(1) \in Nat /\ value(1) \in SlotValues /\ b \in Nat
              /\ g[1] = Appended(qf, b, at(1), value(1)) /\ qf.noccupied_slots \in Nat
              /\ Counts(qf, Cardinality(Counters(qf)), qf.noccupied_slots)
          BY <1>1, <1>8, <2>3, <2>4, <3>5, <3>6
        <4>. HIDE DEF Good, c
        <4>. QED
          BY <4>1, ChunkCounts
      <3>8. Cardinality(Counters(qf)) - 0 = Cardinality(Counters(qf))
        <4>1. Counters(qf) \in SUBSET Slots /\ IsFiniteSet(Slots)
          BY <1>1, FS_Interval, Sizes DEF Filters, Counters
        <4>2. Cardinality(Counters(qf)) \in Nat
          BY <4>1, FS_Subset, FS_CardinalityType
        <4>. QED
          BY <4>2
      <3>. QED
        BY <2>3, <2>6, <3>7, <3>8
    <2>. HIDE DEF Good
    <2>. QED
      BY <2>5, <2>6
  <1>10. ASSUME NEW i \in 1 .. n, i # 1, Good(i - 1) PROVE Good(i)
    <2>1. i \in 0 .. n /\ i \in Nat /\ i # 0 /\ i - 1 \in Nat /\ (i - 1) + 1 = i
      BY <1>3, <1>10
    <2>2. value(i) \in SlotValues /\ at(i) \in Nat /\ at(i) + 1 = at(i + 1)
      BY <1>7, <2>1
    <2>3. g[i] = Appended(g[i - 1], b, at(i), value(i))
      BY <1>6, <1>10, <2>1 DEF AppendStep, Appended
    <2>4. Growing(g[i - 1], b, at(i)) /\ Counts(g[i - 1], c, qf.noccupied_slots)
      BY <1>10, <2>1
    <2>. HIDE DEF at, value, c
    <2>5. Growing(g[i], b, at(i) + 1) /\ Counts(g[i], c, qf.noccupied_slots)
      BY <1>1, <2>2, <2>3, <2>4, ChunkCounts
    <2>. QED
      BY <2>2, <2>5
  <1>11. Good(n)
    <2>. DEFINE Bad == {i \in 1 .. n : ~Good(i)}
    <2>1. SUFFICES ASSUME Bad # {} PROVE FALSE
      <3>1. n \in 1 .. n
        BY <1>3
      <3>. HIDE DEF Good
      <3>. QED
        BY <3>1
    <2>. HIDE DEF Good
    <2>2. PICK i \in Bad : \A j \in Bad : i <= j
      <3>1. Bad \in SUBSET Nat
        OBVIOUS
      <3>. HIDE DEF Bad
      <3>. QED
        BY <2>1, <3>1, SmallestNat
    <2>3. i \in 1 .. n /\ ~Good(i) /\ i # 1
      BY <1>9, <2>2
    <2>4. i - 1 \in 1 .. n /\ ~(i <= i - 1)
      BY <1>3, <2>3
    <2>5. Good(i - 1)
      BY <2>2, <2>4
    <2>. QED
      BY <1>10, <2>3, <2>4, <2>5
  <1>. QED
    BY <1>5, <1>11

-----------------------------------------------------------------------------
(***************************************************************************)
(* What the counters add up to                                             *)
(***************************************************************************)
\* A collection of subsets of a finite set has a minimal one.
LEMMA SmallestSubset ==
    ASSUME NEW S, IsFiniteSet(S), NEW C \in SUBSET SUBSET S, C # {}
    PROVE  \E m \in C : \A t \in SUBSET m : t # m => t \notin C
  <1>. DEFINE R == StrictSubsetOrdering(S)
  <1>1. IsWellFoundedOn(R, SUBSET S)
    BY FS_StrictSubsetOrderingWellFounded, FS_FiniteSubsetsOfFinite
  <1>2. PICK m \in C : \A t \in C : <<t, m>> \notin R
    BY <1>1, WFMin
  <1>3. ASSUME NEW t \in SUBSET m, t # m, t \in C
        PROVE  FALSE
    <2>1. <<t, m>> \in (SUBSET S) \X (SUBSET S)
      BY <1>3
    <2>2. <<t, m>> \in R
      BY <1>3, <2>1 DEF StrictSubsetOrdering
    <2>. QED
      BY <1>2, <1>3, <2>2
  <1>. QED
    BY <1>2, <1>3

\* The item whose count is added next, and the charges to an item.
Taken(s) == CHOOSE x \in s : TRUE
Charges(qf, i) == get_slot_info(qf, i).count - 1

\* g adds up the charges to every subset of the items S.
AddsUp(g, qf, S) ==
    g = [s \in SUBSET S |-> IF s = {} THEN 0 ELSE Charges(qf, Taken(s)) + g[s \ {Taken(s)}]]

\* The sum is a recursive function of sets, applied to S.
LEMMA ChargesDef ==
    ASSUME NEW qf, NEW S
    PROVE  MapThenSumSet(LAMBDA i : get_slot_info(qf, i).count - 1, S) = (CHOOSE g : AddsUp(g, qf, S))[S]
  BY DEF MapThenSumSet, MapThenFoldSet, AddsUp, Taken, Charges

\* Where items count once or twice, their charges are as many as count twice.
LEMMA ChargesCounted ==
    ASSUME NEW qf, NEW S, IsFiniteSet(S), \A i \in S : Charges(qf, i) \in {0, 1}
    PROVE  MapThenSumSet(LAMBDA i : get_slot_info(qf, i).count - 1, S)
             = Cardinality({i \in S : Charges(qf, i) = 1})
  <1>. DEFINE Twice(s) == {i \in s : Charges(qf, i) = 1}
              f == [s \in SUBSET S |-> Cardinality(Twice(s))]
              g == CHOOSE w : AddsUp(w, qf, S)
  <1>1. ASSUME NEW s \in SUBSET S, s # {}
        PROVE  /\ Taken(s) \in s /\ s \ {Taken(s)} \in SUBSET S /\ s \ {Taken(s)} \in SUBSET s
               /\ s \ {Taken(s)} # s
               /\ Cardinality(Twice(s)) = Charges(qf, Taken(s)) + Cardinality(Twice(s \ {Taken(s)}))
    <2>. DEFINE x == Taken(s)
                t == s \ {x}
    <2>1. x \in s
      BY <1>1 DEF Taken
    <2>. HIDE DEF x
    <2>2. IsFiniteSet(Twice(t)) /\ Cardinality(Twice(t)) \in Nat
      <3>1. Twice(t) \in SUBSET S
        OBVIOUS
      <3>. HIDE DEF t, Twice
      <3>. QED
        BY <3>1, FS_Subset, FS_CardinalityType
    <2>3. CASE Charges(qf, x) = 1
      <3>1. Twice(s) = Twice(t) \cup {x} /\ x \notin Twice(t)
        BY <2>1, <2>3
      <3>. HIDE DEF t, Twice
      <3>2. Cardinality(Twice(s)) = Cardinality(Twice(t)) + 1
        BY <2>2, <3>1, FS_AddElement
      <3>3. Cardinality(Twice(s)) = Charges(qf, x) + Cardinality(Twice(t))
        BY <2>2, <2>3, <3>2
      <3>. QED
        BY <2>1, <3>3 DEF t, x
    <2>4. CASE Charges(qf, x) = 0
      <3>1. Twice(s) = Twice(t)
        BY <2>4
      <3>. HIDE DEF t, Twice
      <3>2. Cardinality(Twice(s)) = Charges(qf, x) + Cardinality(Twice(t))
        BY <2>2, <2>4, <3>1
      <3>. QED
        BY <2>1, <3>2 DEF t, x
    <2>5. Charges(qf, x) \in {0, 1}
      BY <2>1
    <2>. QED
      BY <2>3, <2>4, <2>5
  <1>2. Cardinality(Twice({})) = 0
    <2>1. Twice({}) = {}
      OBVIOUS
    <2>. HIDE DEF Twice
    <2>. QED
      BY <2>1, FS_EmptySet
  <1>. HIDE DEF Twice
  <1>3. AddsUp(f, qf, S)
    <2>1. ASSUME NEW s \in SUBSET S
          PROVE  Cardinality(Twice(s)) = IF s = {} THEN 0 ELSE Charges(qf, Taken(s)) + f[s \ {Taken(s)}]
      <3>1. CASE s = {}
        BY <1>2, <3>1
      <3>2. CASE s # {}
        BY <1>1, <3>2
      <3>. QED
        BY <3>1, <3>2
    <2>2. f = [s \in SUBSET S |-> Cardinality(Twice(s))]
      OBVIOUS
    <2>. HIDE DEF f
    <2>3. [s \in SUBSET S |-> Cardinality(Twice(s))]
             = [s \in SUBSET S |-> IF s = {} THEN 0 ELSE Charges(qf, Taken(s)) + f[s \ {Taken(s)}]]
      BY <2>1
    <2>. QED
      BY <2>2, <2>3 DEF AddsUp
  <1>4. AddsUp(g, qf, S)
    <2>. HIDE DEF f
    <2>. QED
      BY <1>3
  <1>5. ASSUME NEW s \in SUBSET S
        PROVE  g[s] = IF s = {} THEN 0 ELSE Charges(qf, Taken(s)) + g[s \ {Taken(s)}]
    <2>. HIDE DEF g
    <2>. QED
      BY <1>4 DEF AddsUp
  <1>. HIDE DEF g
  <1>6. \A s \in SUBSET S : g[s] = Cardinality(Twice(s))
    <2>. DEFINE C == {s \in SUBSET S : g[s] # Cardinality(Twice(s))}
    <2>1. SUFFICES ASSUME C # {} PROVE FALSE
      OBVIOUS
    <2>2. PICK m \in C : \A t \in SUBSET m : t # m => t \notin C
      <3>1. C \in SUBSET SUBSET S
        OBVIOUS
      <3>. HIDE DEF C
      <3>. QED
        BY <2>1, <3>1, SmallestSubset
    <2>3. m \in SUBSET S /\ g[m] # Cardinality(Twice(m))
      OBVIOUS
    <2>4. CASE m = {}
      BY <1>2, <1>5, <2>3, <2>4
    <2>5. CASE m # {}
      <3>1. g[m \ {Taken(m)}] = Cardinality(Twice(m \ {Taken(m)}))
        BY <1>1, <2>2, <2>3, <2>5
      <3>. QED
        BY <1>1, <1>5, <2>3, <2>5, <3>1
    <2>. QED
      BY <2>4, <2>5
  <1>7. g[S] = Cardinality(Twice(S))
    BY <1>6
  <1>8. MapThenSumSet(LAMBDA i : get_slot_info(qf, i).count - 1, S) = g[S]
    BY ChargesDef DEF g
  <1>. QED
    BY <1>7, <1>8 DEF Twice

\* The item that a counter slot belongs to.
LEMMA CounterOwner ==
    ASSUME NEW qf, NEW U, NEW h, Shaped(qf, U, h), Fits(U), Counted(qf), NEW c \in Counters(qf)
    PROVE  \E i \in U \ qf.extensions :
              c = i + 1 + get_slot_info(qf, i).ext_len /\ get_slot_info(qf, i).count_len = 1
  <1>1. /\ qf \in Filters /\ Homed(qf, U, h) /\ ChunksFirst(qf) /\ c \in qf.extensions /\ c \in qf.runends
        /\ \A y \in qf.extensions : y \in U /\ y \in Nat /\ y - 1 \in U /\ y - 1 \in Nat
        /\ U \in SUBSET Nat /\ PastEnd \in Nat /\ \A y \in U : y < PastEnd
    <2>1. qf \in Filters /\ Homed(qf, U, h) /\ ChunksFirst(qf) /\ c \in qf.extensions /\ c \in qf.runends
      BY DEF Shaped, Counters
    <2>2. U \in SUBSET Nat /\ PastEnd \in Nat /\ \A y \in U : y < PastEnd
      BY <2>1, HomedTypes
    <2>3. \A y \in qf.extensions : y \in U /\ y - 1 \in U
      BY <2>1 DEF Homed
    <2>. QED
      BY <2>1, <2>2, <2>3
  <1>. DEFINE Run == {y \in Nat : y <= c /\ \A k \in Nat : y <= k /\ k <= c => k \in qf.extensions}
  <1>2. PICK y \in Run : \A z \in Run : y <= z
    <2>1. c \in Nat
      BY <1>1
    <2>2. \A k \in Nat : c <= k /\ k <= c => k = c
      BY <2>1
    <2>3. c \in Run
      BY <1>1, <2>1, <2>2
    <2>4. Run \in SUBSET Nat /\ Run # {}
      BY <2>3
    <2>. HIDE DEF Run
    <2>. QED
      BY <2>4, SmallestNat
  <1>. DEFINE i == y - 1
  <1>3. /\ y \in Nat /\ y <= c /\ c \in Nat /\ y \in qf.extensions
        /\ \A k \in Nat : y <= k /\ k <= c => k \in qf.extensions
    BY <1>1, <1>2
  <1>4. i \in U /\ i \in Nat /\ i + 1 = y /\ i < c
    BY <1>1, <1>3
  <1>5. i \notin qf.extensions
    <2>1. SUFFICES ASSUME i \in qf.extensions PROVE FALSE
      OBVIOUS
    <2>2. \A k \in Nat : i <= k /\ k <= c => k = i \/ y <= k
      BY <1>3, <1>4
    <2>3. i <= c
      BY <1>3, <1>4
    <2>4. i \in Run
      BY <1>3, <1>4, <2>1, <2>2, <2>3
    <2>5. ~(y <= i)
      BY <1>3
    <2>. QED
      BY <1>2, <2>4, <2>5
  <1>. DEFINE info == get_slot_info(qf, i)
              n == skip_extensions(qf, i + 1)
  <1>6. /\ info.ext_len \in Nat /\ info.count_len \in {0, 1}
        /\ i + 1 + info.ext_len + info.count_len = n
        /\ \A k \in Nat : i < k /\ k < i + 1 + info.ext_len => is_extension(qf, k)
    <2>1. info.count_len \in {0, 1}
      BY <1>4, CountOf
    <2>2. info.ext_len \in Nat /\ i + 1 + info.ext_len + info.count_len = n
          /\ \A k \in Nat : i < k /\ k < i + 1 + info.ext_len => is_extension(qf, k)
      BY <1>1, <1>4, InfoIs
    <2>. QED
      BY <2>1, <2>2
  <1>7. c < n
    <2>1. n \notin qf.extensions /\ i + 1 <= n /\ n \in Nat
      <3>1. qf.extensions \in SUBSET Slots /\ i + 1 \in Nat /\ i + 1 <= PastEnd
        BY <1>1, <1>4 DEF Filters
      <3>. HIDE DEF i
      <3>. QED
        BY <3>1, SkipIs
    <2>. HIDE DEF n
    <2>. QED
      BY <1>3, <1>4, <2>1
  <1>8. ~(c < i + 1 + info.ext_len)
    <2>1. SUFFICES ASSUME c < i + 1 + info.ext_len PROVE FALSE
      OBVIOUS
    <2>2. is_extension(qf, c)
      BY <1>3, <1>4, <1>6, <2>1
    <2>. QED
      BY <1>1, <2>2 DEF is_extension
  <1>9. c = i + 1 + info.ext_len /\ info.count_len = 1
    <2>. HIDE DEF info, n
    <2>. QED
      BY <1>3, <1>4, <1>6, <1>7, <1>8
  <1>. QED
    BY <1>4, <1>5, <1>9

(***************************************************************************)
(* While counters are single slots that say 2, the charges to all items    *)
(* are as many as there are counter slots.                                 *)
(***************************************************************************)
THEOREM ChargesAreCounters ==
    ASSUME NEW qf, NEW U, NEW h, Shaped(qf, U, h), Fits(U), Counted(qf)
    PROVE  MapThenSumSet(LAMBDA i : get_slot_info(qf, i).count - 1, U \ qf.extensions)
             = Cardinality(Counters(qf))
  <1>. DEFINE S == U \ qf.extensions
              T == {i \in S : Charges(qf, i) = 1}
              C == Counters(qf)
              slot(i) == i + 1 + get_slot_info(qf, i).ext_len
              F == [i \in T |-> slot(i)]
  <1>1. /\ qf \in Filters /\ Homed(qf, U, h) /\ ChunksFirst(qf) /\ U \in SUBSET Nat
        /\ IsFiniteSet(U) /\ IsFiniteSet(S) /\ IsFiniteSet(T) /\ IsFiniteSet(C)
    <2>1. qf \in Filters /\ Homed(qf, U, h) /\ ChunksFirst(qf)
      BY DEF Shaped
    <2>2. U \in SUBSET Slots /\ U \in SUBSET Nat
      BY <2>1, HomedTypes
    <2>3. IsFiniteSet(Slots) /\ C \in SUBSET Slots
      BY <2>1, FS_Interval, Sizes DEF Filters, Counters
    <2>4. IsFiniteSet(U) /\ S \in SUBSET U /\ T \in SUBSET U
      BY <2>2, <2>3, FS_Subset
    <2>. HIDE DEF S, T
    <2>. QED
      BY <2>1, <2>2, <2>3, <2>4, FS_Subset
  <1>2. ASSUME NEW i \in S
        PROVE  /\ get_slot_info(qf, i).ext_len \in Nat /\ get_slot_info(qf, i).count_len \in {0, 1}
               /\ Charges(qf, i) = get_slot_info(qf, i).count_len
    BY CountOf DEF Charges
  <1>3. ASSUME NEW i \in S
        PROVE  /\ i \in Nat /\ i < slot(i)
               /\ \A k \in Nat : i < k /\ k < slot(i) => is_extension(qf, k)
               /\ get_slot_info(qf, i).count_len = 1 => slot(i) \in C
    <2>. DEFINE info == get_slot_info(qf, i)
                n == skip_extensions(qf, i + 1)
    <2>1. /\ info.ext_len \in Nat /\ i + 1 + info.ext_len + info.count_len = n
          /\ \A k \in Nat : i < k /\ k < i + 1 + info.ext_len => is_extension(qf, k)
          /\ \A k \in Nat : i + 1 + info.ext_len <= k /\ k < n => is_counter(qf, k)
      BY <1>1, InfoIs
    <2>2. i \in Nat
      BY <1>1
    <2>. HIDE DEF info, n
    <2>3. i < i + 1 + info.ext_len
      BY <2>1, <2>2
    <2>4. info.count_len = 1 => is_counter(qf, i + 1 + info.ext_len)
      BY <2>1, <2>2
    <2>. QED
      BY <2>1, <2>2, <2>3, <2>4 DEF info, is_counter, Counters
  <1>4. \A i \in T : slot(i) \in C
    BY <1>2, <1>3
  <1>5. \A c \in C : \E i \in T : slot(i) = c
    <2>1. SUFFICES ASSUME NEW c \in C PROVE \E i \in T : slot(i) = c
      OBVIOUS
    <2>2. PICK i \in S : c = slot(i) /\ get_slot_info(qf, i).count_len = 1
      BY CounterOwner
    <2>3. Charges(qf, i) = 1
      BY <1>2, <2>2
    <2>. QED
      BY <2>2, <2>3
  <1>6. \A i, j \in T : slot(i) = slot(j) => i = j
    <2>1. ASSUME NEW i \in S, NEW j \in S, slot(i) = slot(j), i < j PROVE FALSE
      <3>1. j \in Nat /\ i < j /\ j < slot(i)
        BY <1>3, <2>1
      <3>2. is_extension(qf, j)
        BY <1>3, <3>1
      <3>. QED
        BY <3>2 DEF is_extension
    <2>2. \A i \in S : i \in Nat
      BY <1>1
    <2>. HIDE DEF slot
    <2>. QED
      BY <2>1, <2>2
  <1>7. Cardinality(T) = Cardinality(C)
    <2>. HIDE DEF T, C, slot
    <2>1. F \in [T -> C]
      BY <1>4
    <2>2. \A i, j \in T : F[i] = F[j] => i = j
      BY <1>6
    <2>3. \A c \in C : \E i \in T : F[i] = c
      BY <1>5
    <2>. HIDE DEF F
    <2>4. F \in Bijection(T, C)
      BY <2>1, <2>2, <2>3 DEF Bijection, Injection, Surjection, IsInjective
    <2>5. ExistsBijection(T, C)
      BY <2>4 DEF ExistsBijection
    <2>. QED
      BY <1>1, <2>5, FS_Bijection
  <1>8. MapThenSumSet(LAMBDA i : get_slot_info(qf, i).count - 1, S) = Cardinality(T)
    <2>1. \A i \in S : Charges(qf, i) \in {0, 1}
      BY <1>2
    <2>. HIDE DEF S
    <2>. QED
      BY <1>1, <2>1, ChargesCounted
  <1>. QED
    BY <1>7, <1>8


-----------------------------------------------------------------------------
(***************************************************************************)
(* Items read as records                                                   *)
(***************************************************************************)
\* The item in slot i, with the first max chunks that it may have.
ItemAt(qf, i, max) ==
    LET info == get_slot_info(qf, i)
    IN [ext_len |-> info.ext_len, count |-> info.count,
        ext |-> [j \in 1 .. max |-> IF j <= info.ext_len THEN get_slot(qf, i + j) ELSE 0]]

\* Behind slot i are n chunks, then c counter slots, and then no more of its item.
Spans(qf, i, n, c) ==
    /\ n \in Nat /\ c \in {0, 1}
    /\ \A s \in Nat : i < s /\ s <= i + n => s \in qf.extensions \ qf.runends
    /\ c = 1 => i + n + 1 \in qf.extensions \intersect qf.runends
    /\ i + n + c + 1 \notin qf.extensions

\* That is what get_slot_info reads ...
LEMMA SpanRead ==
    ASSUME NEW qf, NEW U, NEW h, Shaped(qf, U, h), Fits(U), Counted(qf), NEW i \in U,
           NEW info, info = get_slot_info(qf, i)
    PROVE  Spans(qf, i, info.ext_len, info.count_len) /\ info.count = 1 + info.count_len
  <1>1. Homed(qf, U, h) /\ ChunksFirst(qf) /\ qf \in Filters /\ qf.extensions \in SUBSET Slots
    BY DEF Shaped, Filters
  <1>2. i \in Nat /\ i \in Slots
    BY <1>1, HomedTypes
  <1>3. /\ info.ext_len \in Nat /\ info.count_len \in {0, 1}
        /\ info.count = IF info.count_len = 0 THEN 1 ELSE 2
    BY CountOf
  <1>. DEFINE n == info.ext_len
              c == info.count_len
              m == skip_extensions(qf, i + 1)
  <1>4. /\ i + 1 + n + c = m
        /\ \A k \in Nat : i < k /\ k < i + 1 + n => is_extension(qf, k)
        /\ \A k \in Nat : i + 1 + n <= k /\ k < m => is_counter(qf, k)
    BY <1>1, InfoIs
  <1>5. m \notin qf.extensions
    <2>1. i + 1 \in Nat /\ i + 1 <= PastEnd
      BY <1>2, Sizes
    <2>. QED
      BY <1>1, <2>1, SkipIs
  <1>. HIDE DEF m
  <1>6. ASSUME NEW s \in Nat, i < s, s <= i + n PROVE s \in qf.extensions \ qf.runends
    <2>1. s < i + 1 + n
      BY <1>2, <1>3, <1>6
    <2>. QED
      BY <1>4, <1>6, <2>1 DEF is_extension
  <1>7. ASSUME c = 1 PROVE i + n + 1 \in qf.extensions \intersect qf.runends
    <2>1. i + n + 1 \in Nat /\ i + 1 + n <= i + n + 1 /\ i + n + 1 < m
      BY <1>2, <1>3, <1>4, <1>7
    <2>. QED
      BY <1>4, <2>1 DEF is_counter
  <1>8. i + n + c + 1 = m
    BY <1>2, <1>3, <1>4
  <1>9. info.count = 1 + c
    BY <1>3
  <1>10. i + n + c + 1 \notin qf.extensions
    BY <1>5, <1>8
  <1>. QED
    BY <1>3, <1>6, <1>7, <1>9, <1>10 DEF Spans

\* ... and only one such reading is right.
LEMMA SpanUnique ==
    ASSUME NEW qf, NEW i \in Nat, NEW n, NEW c, Spans(qf, i, n, c), NEW m, NEW d, Spans(qf, i, m, d)
    PROVE  n = m /\ c = d
  <1>1. n \in Nat /\ m \in Nat /\ c \in {0, 1} /\ d \in {0, 1}
    BY DEF Spans
  <1>2. ASSUME NEW a, NEW b, NEW k, NEW l, Spans(qf, i, a, k), Spans(qf, i, b, l), a < b PROVE FALSE
    <2>1. a \in Nat /\ b \in Nat /\ k \in {0, 1}
      BY <1>2 DEF Spans
    <2>2. i + a + 1 \in Nat /\ i < i + a + 1 /\ i + a + 1 <= i + b
      BY <1>2, <2>1
    <2>3. i + a + 1 \in qf.extensions \ qf.runends
      BY <1>2, <2>2 DEF Spans
    <2>4. CASE k = 0
      <3>1. i + a + k + 1 = i + a + 1
        BY <2>1, <2>4
      <3>. QED
        BY <1>2, <2>3, <3>1 DEF Spans
    <2>5. CASE k = 1
      BY <1>2, <2>3, <2>5 DEF Spans
    <2>. QED
      BY <2>1, <2>4, <2>5
  <1>3. n = m
    <2>1. ~(n < m) /\ ~(m < n)
      BY <1>2
    <2>. QED
      BY <1>1, <2>1
  <1>4. ASSUME c = 1, d = 0 PROVE FALSE
    <2>1. i + n + 1 \in qf.extensions /\ i + m + d + 1 \notin qf.extensions
      BY <1>4 DEF Spans
    <2>2. i + n + 1 = i + m + d + 1
      BY <1>1, <1>3, <1>4
    <2>. QED
      BY <2>1, <2>2
  <1>5. ASSUME c = 0, d = 1 PROVE FALSE
    <2>1. i + m + 1 \in qf.extensions /\ i + n + c + 1 \notin qf.extensions
      BY <1>5 DEF Spans
    <2>2. i + m + 1 = i + n + c + 1
      BY <1>1, <1>3, <1>5
    <2>. QED
      BY <2>1, <2>2
  <1>. QED
    BY <1>1, <1>3, <1>4, <1>5

\* y is an item of n chunks, which the slots behind i hold, that counts 1 + c.
Holds(qf, i, n, c, max, y) ==
    y = [ext_len |-> n, count |-> 1 + c,
         ext |-> [j \in 1 .. max |-> IF j <= n THEN qf.slots[i + j] ELSE 0]]

\* An item is read off its span.
LEMMA ItemRead ==
    ASSUME NEW qf, NEW U, NEW h, Shaped(qf, U, h), Fits(U), Counted(qf), NEW i \in U,
           NEW n, NEW c, Spans(qf, i, n, c), NEW max, max \in Nat
    PROVE  /\ Holds(qf, i, n, c, max, ItemAt(qf, i, max))
           /\ get_slot_info(qf, i).ext_len = n /\ get_slot_info(qf, i).count_len = c
  <1>. DEFINE info == get_slot_info(qf, i)
  <1>1. i \in Nat
    BY HomedTypes DEF Shaped
  <1>2. Spans(qf, i, info.ext_len, info.count_len) /\ info.count = 1 + info.count_len
    BY SpanRead
  <1>. HIDE DEF info
  <1>3. info.ext_len = n /\ info.count_len = c /\ info.count = 1 + c
    BY <1>1, <1>2, SpanUnique
  <1>4. ASSUME NEW j \in 1 .. max, j <= n PROVE get_slot(qf, i + j) = qf.slots[i + j]
    <2>1. n \in Nat /\ j \in Nat /\ i + j \in Nat /\ i < i + j /\ i + j <= i + n
      BY <1>1, <1>4 DEF Spans
    <2>2. i + j \in qf.extensions
      BY <2>1 DEF Spans
    <2>3. i + j \in U
      BY <2>2, ChunkFacts
    <2>. QED
      BY <2>3, SlotRead
  <1>5. [j \in 1 .. max |-> IF j <= n THEN get_slot(qf, i + j) ELSE 0]
          = [j \in 1 .. max |-> IF j <= n THEN qf.slots[i + j] ELSE 0]
    BY <1>4
  <1>6. ItemAt(qf, i, max) = [ext_len |-> info.ext_len, count |-> info.count,
           ext |-> [j \in 1 .. max |-> IF j <= info.ext_len THEN get_slot(qf, i + j) ELSE 0]]
    BY DEF ItemAt, info
  <1>7. Holds(qf, i, n, c, max, ItemAt(qf, i, max))
    BY <1>3, <1>5, <1>6 DEF Holds
  <1>. QED
    BY <1>3, <1>7 DEF info

\* The slots of an item move together ...
LEMMA SpanUp ==
    ASSUME NEW qf, NEW U, NEW h, NEW at, NEW u, NEW q, NEW value, NEW new, NEW g,
           PutIn(qf, U, h, at, u, q, value, new, g), NEW j \in U,
           NEW n, NEW c, Spans(qf, j, n, c),
           NEW d \in 0 .. n + c
    PROVE  /\ j + d \in U /\ Up(at, u, j + d) = Up(at, u, j) + d
           /\ Carried(qf, h, j + d, new, g, Up(at, u, j) + d)
           /\ j < at => j + n + c < at /\ Up(at, u, j) = j
  <1>1. /\ U \in SUBSET Nat /\ at \in Nat /\ FreeFrom(U, at, u) /\ qf.extensions \in SUBSET U
        /\ at \notin qf.extensions
    <2>1. U \in SUBSET Nat /\ at \in Nat /\ FreeFrom(U, at, u) /\ qf.extensions \in SUBSET U
      BY MarkOrigin
    <2>2. at \notin qf.extensions
      BY DEF PutIn, Moved
    <2>. QED
      BY <2>1, <2>2
  <1>2. n \in Nat /\ c \in {0, 1} /\ n + c \in Nat /\ j \in Nat
    BY <1>1 DEF Spans
  <1>3. \A s \in Nat : j < s /\ s <= j + (n + c) => s \in qf.extensions
    <2>1. SUFFICES ASSUME NEW s \in Nat, j < s, s <= j + (n + c) PROVE s \in qf.extensions
      OBVIOUS
    <2>2. s <= j + n \/ (c = 1 /\ s = j + n + 1)
      BY <1>2, <2>1
    <2>. QED
      BY <2>1, <2>2 DEF Spans
  <1>4. ASSUME NEW x \in 0 .. n + c
        PROVE  /\ j + x \in U /\ Up(at, u, j + x) = Up(at, u, j) + x
               /\ j < at => j + (n + c) < at /\ Up(at, u, j + x) = j + x
    <2>. DEFINE m == n + c
    <2>1. m \in Nat /\ x \in Nat /\ x <= m
      BY <1>2
    <2>2. \A s \in Nat : j < s /\ s <= j + m => s \in qf.extensions
      BY <1>3
    <2>. HIDE DEF m
    <2>3. u \in Nat /\ u \notin U /\ at <= u
      BY <1>1 DEF FreeFrom
    <2>4. \A s \in Nat : j <= s /\ s <= j + m => s \in U
      BY <1>1, <1>2, <2>2
    <2>5. ~(j <= u /\ u <= j + m)
      BY <2>3, <2>4
    <2>6. ~(j < at /\ at <= j + m)
      BY <1>1, <2>2
    <2>7. j + x \in U
      BY <1>2, <2>1, <2>4
    <2>8. Up(at, u, j + x) = Up(at, u, j) + x /\ (j < at => j + m < at /\ Up(at, u, j + x) = j + x)
      BY <1>1, <1>2, <2>1, <2>3, <2>5, <2>6 DEF Up
    <2>. QED
      BY <2>7, <2>8 DEF m
  <1>5. j + d \in U /\ Up(at, u, j + d) = Up(at, u, j) + d
    BY <1>4
  <1>6. j < at => j + n + c < at /\ Up(at, u, j) = j
    <2>1. 0 \in 0 .. n + c
      BY <1>2
    <2>. QED
      BY <1>2, <1>4, <2>1
  <1>7. \A i \in U : Carried(qf, h, i, new, g, Up(at, u, i))
    BY DEF PutIn, Moved
  <1>8. Carried(qf, h, j + d, new, g, Up(at, u, j) + d)
    BY <1>5, <1>7
  <1>. QED
    BY <1>5, <1>6, <1>8

\* ... and the item reads as before, unless what is put in is a mark behind it.
LEMMA ItemMoved ==
    ASSUME NEW qf, NEW U, NEW h, NEW at, NEW u, NEW q, NEW value, NEW new, NEW g,
           PutIn(qf, U, h, at, u, q, value, new, g), Fits(U \cup {u}), Counted(qf), Counted(new),
           NEW j \in U, NEW max \in Nat,
           ~(at \in new.extensions /\ j < at /\ \A k \in Nat : j < k /\ k < at => k \in qf.extensions)
    PROVE  ItemAt(new, Up(at, u, j), max) = ItemAt(qf, j, max)
  <1>. DEFINE a == Up(at, u, j)
              n == get_slot_info(qf, j).ext_len
              c == get_slot_info(qf, j).count_len
  <1>1. /\ U \in SUBSET Nat /\ at \in Nat /\ u \in Nat /\ FreeFrom(U, at, u) /\ qf.extensions \in SUBSET U
        /\ \A k \in new.extensions : k # at =>
              \E y \in qf.extensions : /\ y \in U /\ y \in Nat /\ y - 1 \in U /\ y - 1 \in Nat
                                       /\ Up(at, u, y) = k /\ Up(at, u, y - 1) = k - 1
    BY MarkOrigin
  <1>2. Shaped(qf, U, h) /\ Shaped(new, U \cup {u}, g) /\ Fits(U)
    BY DEF PutIn, Fits
  <1>3. Spans(qf, j, n, c)
    BY <1>2, SpanRead
  <1>4. a \in Nat /\ a \in U \cup {u} /\ j \in Nat /\ (a < at => j < at)
    <2>1. a \in U \cup {u}
      BY DEF PutIn, Moved
    <2>2. a \in Nat /\ (at <= j => at < a)
      BY <1>1, UpOrder
    <2>3. j \in Nat
      BY <1>1
    <2>. HIDE DEF a
    <2>. QED
      BY <1>1, <2>1, <2>2, <2>3
  <1>5. ASSUME NEW d \in 0 .. n + c
        PROVE  /\ j + d \in U /\ Up(at, u, j + d) = a + d
               /\ Carried(qf, h, j + d, new, g, a + d)
               /\ j < at => j + n + c < at /\ a = j
    BY <1>3, SpanUp
  <1>6. n \in Nat /\ c \in {0, 1} /\ n + c \in 0 .. n + c
    <2>1. n \in Nat /\ c \in {0, 1}
      BY <1>3 DEF Spans
    <2>. QED
      BY <2>1
  <1>. HIDE DEF a, n, c
  <1>7. ASSUME NEW s \in Nat, a < s, s <= a + n PROVE s \in new.extensions \ new.runends
    <2>. DEFINE d == s - a
    <2>1. d \in 0 .. n + c /\ a + d = s /\ j + d \in Nat /\ j < j + d /\ j + d <= j + n
      BY <1>4, <1>6, <1>7
    <2>2. j + d \in qf.extensions \ qf.runends
      BY <1>3, <2>1 DEF Spans
    <2>3. Carried(qf, h, j + d, new, g, a + d)
      BY <1>5, <2>1
    <2>. QED
      BY <2>1, <2>2, <2>3 DEF Carried
  <1>8. ASSUME c = 1 PROVE a + n + 1 \in new.extensions \intersect new.runends
    <2>1. n + 1 \in 0 .. n + c /\ a + (n + 1) = a + n + 1 /\ j + (n + 1) = j + n + 1
      BY <1>4, <1>6, <1>8
    <2>2. j + n + 1 \in qf.extensions \intersect qf.runends
      BY <1>3, <1>8 DEF Spans
    <2>3. Carried(qf, h, j + (n + 1), new, g, a + (n + 1))
      BY <1>5, <2>1
    <2>. QED
      BY <2>1, <2>2, <2>3 DEF Carried
  <1>9. a + n + c + 1 \notin new.extensions
    <2>1. SUFFICES ASSUME a + n + c + 1 \in new.extensions PROVE FALSE
      OBVIOUS
    <2>2. a + n + c + 1 # at
      <3>1. SUFFICES ASSUME a + n + c + 1 = at PROVE FALSE
        OBVIOUS
      <3>2. j < at /\ a = j
        BY <1>1, <1>4, <1>5, <1>6, <3>1
      <3>3. ASSUME NEW k \in Nat, j < k, k < at PROVE k \in qf.extensions
        <4>1. k <= j + n \/ (c = 1 /\ k = j + n + 1)
          BY <1>1, <1>4, <1>6, <3>1, <3>2, <3>3
        <4>. QED
          BY <1>3, <3>3, <4>1 DEF Spans
      <3>. QED
        BY <2>1, <3>1, <3>2, <3>3
    <2>3. PICK y \in qf.extensions : /\ y \in U /\ y \in Nat /\ y - 1 \in U /\ y - 1 \in Nat
                                     /\ Up(at, u, y - 1) = (a + n + c + 1) - 1
      BY <1>1, <2>1, <2>2
    <2>4. j + (n + c) \in U /\ Up(at, u, j + (n + c)) = a + (n + c)
      BY <1>5, <1>6
    <2>5. (a + n + c + 1) - 1 = a + (n + c)
      BY <1>4, <1>6
    <2>6. y - 1 = j + (n + c)
      <3>1. U \in SUBSET Nat /\ at \in Nat /\ FreeFrom(U, at, u)
        BY <1>1
      <3>2. \A i, k \in U : /\ i < k <=> Up(at, u, i) < Up(at, u, k)
                            /\ i = k <=> Up(at, u, i) = Up(at, u, k)
        BY <3>1, UpOrder
      <3>. QED
        BY <2>3, <2>4, <2>5, <3>2
    <2>7. y = j + n + c + 1
      BY <1>4, <1>6, <2>3, <2>6
    <2>. QED
      BY <1>3, <2>3, <2>7 DEF Spans
  <1>10. Spans(new, a, n, c)
    BY <1>6, <1>7, <1>8, <1>9 DEF Spans
  <1>11. Holds(qf, j, n, c, max, ItemAt(qf, j, max))
    BY <1>2, <1>3, ItemRead
  <1>12. Holds(new, a, n, c, max, ItemAt(new, a, max))
    BY <1>2, <1>4, <1>10, ItemRead
  <1>13. ASSUME NEW i \in 1 .. max, i <= n PROVE new.slots[a + i] = qf.slots[j + i]
    <2>1. i \in 0 .. n + c
      BY <1>6, <1>13
    <2>. QED
      BY <1>5, <2>1 DEF Carried
  <1>14. [i \in 1 .. max |-> IF i <= n THEN qf.slots[j + i] ELSE 0]
           = [i \in 1 .. max |-> IF i <= n THEN new.slots[a + i] ELSE 0]
    BY <1>13
  <1>. QED
    BY <1>11, <1>12, <1>14 DEF Holds, a

\* The item y with a count of 2.
Twice(y) == [ext_len |-> y.ext_len, count |-> 2, ext |-> y.ext]

\* The item y with the chunk value behind its chunks, which takes the place of
\* its counter.
Longer(y, value, max) ==
    [ext_len |-> y.ext_len + 1, count |-> 1,
     ext |-> [j \in 1 .. max |-> IF j = y.ext_len + 1 THEN value ELSE y.ext[j]]]

\* With value put in at slot at, the item of slot x has one more chunk, or its first
\* counter.
Grew(qf, U, at, u, value, new, x, max) ==
    /\ Up(at, u, x) = x /\ x \in U \cup {u}
    /\ at \in new.runends => ItemAt(new, x, max) = Twice(ItemAt(qf, x, max))
    /\ at \notin new.runends => ItemAt(new, x, max) = Longer(ItemAt(qf, x, max), value, max)

\* What is put in directly behind the chunks of an item without a counter is its
\* counter or its next chunk.
LEMMA ItemGrows ==
    ASSUME NEW qf, NEW U, NEW h, NEW at, NEW u, NEW q, NEW value, NEW new, NEW g,
           PutIn(qf, U, h, at, u, q, value, new, g), Fits(U \cup {u}), Counted(qf), Counted(new),
           NEW x \in U, NEW max \in Nat, NEW info, info = get_slot_info(qf, x), info.count_len = 0,
           at = x + info.ext_len + 1, at \in new.extensions
    PROVE  Grew(qf, U, at, u, value, new, x, max)
  <1>. DEFINE n == info.ext_len
  <1>1. at + 1 \notin new.extensions /\ U \in SUBSET Nat /\ x \in Nat
    BY MarkOrigin
  <1>2. Shaped(qf, U, h) /\ Shaped(new, U \cup {u}, g) /\ Fits(U) /\ new.slots[at] = value
    BY DEF PutIn, Fits, Moved
  <1>3. Spans(qf, x, n, 0)
    BY <1>2, SpanRead
  <1>4. n \in Nat
    BY <1>3 DEF Spans
  <1>. HIDE DEF n
  <1>5. at = x + n + 1 /\ x < at
    BY <1>1, <1>4 DEF n
  <1>6. ASSUME NEW d \in 0 .. n + 0
        PROVE  x + d \in U /\ Carried(qf, h, x + d, new, g, x + d) /\ Up(at, u, x) = x
    BY <1>3, <1>5, SpanUp
  <1>7. Up(at, u, x) = x
    <2>1. 0 \in 0 .. n + 0
      BY <1>4
    <2>. QED
      BY <1>6, <2>1
  <1>8. ASSUME NEW s \in Nat, x < s, s <= x + n
        PROVE  s \in new.extensions \ new.runends /\ new.slots[s] = qf.slots[s]
    <2>. DEFINE d == s - x
    <2>1. d \in 0 .. n + 0 /\ x + d = s
      BY <1>1, <1>4, <1>8
    <2>2. Carried(qf, h, x + d, new, g, x + d)
      BY <1>6, <2>1
    <2>3. s \in qf.extensions \ qf.runends
      BY <1>3, <1>8 DEF Spans
    <2>. QED
      BY <2>1, <2>2, <2>3 DEF Carried
  <1>9. Holds(qf, x, n, 0, max, ItemAt(qf, x, max))
    BY <1>2, <1>3, ItemRead
  <1>10. ASSUME NEW j \in 1 .. max, j <= n PROVE new.slots[x + j] = qf.slots[x + j]
    <2>1. x + j \in Nat /\ x < x + j /\ x + j <= x + n
      BY <1>1, <1>4, <1>10
    <2>. QED
      BY <1>8, <2>1
  <1>11. ASSUME at \in new.runends PROVE ItemAt(new, x, max) = Twice(ItemAt(qf, x, max))
    <2>1. x + n + 1 + 1 = at + 1
      BY <1>5
    <2>2. Spans(new, x, n, 1)
      BY <1>1, <1>4, <1>5, <1>8, <1>11, <2>1 DEF Spans
    <2>3. Holds(new, x, n, 1, max, ItemAt(new, x, max))
      BY <1>2, <2>2, ItemRead
    <2>4. [j \in 1 .. max |-> IF j <= n THEN qf.slots[x + j] ELSE 0]
            = [j \in 1 .. max |-> IF j <= n THEN new.slots[x + j] ELSE 0]
      BY <1>10
    <2>. QED
      BY <1>9, <2>3, <2>4 DEF Holds, Twice
  <1>12. ASSUME at \notin new.runends PROVE ItemAt(new, x, max) = Longer(ItemAt(qf, x, max), value, max)
    <2>1. x + (n + 1) + 0 + 1 = at + 1 /\ n + 1 \in Nat
      BY <1>1, <1>4, <1>5
    <2>2. ASSUME NEW s \in Nat, x < s, s <= x + (n + 1) PROVE s \in new.extensions \ new.runends
      <3>1. s = at \/ s <= x + n
        BY <1>1, <1>4, <1>5, <2>2
      <3>. QED
        BY <1>8, <1>12, <2>2, <3>1
    <2>3. Spans(new, x, n + 1, 0)
      BY <1>1, <2>1, <2>2 DEF Spans
    <2>4. Holds(new, x, n + 1, 0, max, ItemAt(new, x, max))
      BY <1>2, <2>3, ItemRead
    <2>. DEFINE y == ItemAt(qf, x, max)
    <2>5. y.ext_len = n /\ y.ext = [j \in 1 .. max |-> IF j <= n THEN qf.slots[x + j] ELSE 0]
      BY <1>9 DEF Holds
    <2>. HIDE DEF y
    <2>6. ASSUME NEW j \in 1 .. max
          PROVE  (IF j <= n + 1 THEN new.slots[x + j] ELSE 0) = (IF j = n + 1 THEN value ELSE y.ext[j])
      <3>1. CASE j = n + 1
        BY <1>1, <1>2, <1>4, <1>5, <3>1
      <3>2. CASE j # n + 1
        <4>1. j <= n + 1 <=> j <= n
          BY <1>4, <3>2
        <4>2. y.ext[j] = IF j <= n THEN qf.slots[x + j] ELSE 0
          BY <2>5
        <4>. QED
          BY <1>10, <3>2, <4>1, <4>2
      <3>. QED
        BY <3>1, <3>2
    <2>7. [j \in 1 .. max |-> IF j <= n + 1 THEN new.slots[x + j] ELSE 0]
            = [j \in 1 .. max |-> IF j = n + 1 THEN value ELSE y.ext[j]]
      BY <2>6
    <2>. QED
      BY <2>4, <2>5, <2>7 DEF Holds, Longer, y
  <1>. QED
    BY <1>7, <1>11, <1>12 DEF Grew

\* c has the items of every minirun of K, by rank.
Viewed(qf, U, h, K, c, max) ==
    \A k \in K : \E n, e :
        /\ Lists(e, n, Minirun(qf, U, h, k))
        /\ DOMAIN c[k] = 1 .. n
        /\ \A r \in 0 .. n - 1 : c[k][r + 1] = ItemAt(qf, e[r], max)

\* It has all but the item x, whose rank in the minirun of fingerprint f is m.
Around(qf, U, h, K, c, max, x, f, m) ==
    \A k \in K : \E n, e :
        /\ Lists(e, n, Minirun(qf, U, h, k))
        /\ DOMAIN c[k] = 1 .. n
        /\ \A r \in 0 .. n - 1 : /\ e[r] = x <=> minirun_id(k) = f /\ r = m
                                 /\ e[r] # x => c[k][r + 1] = ItemAt(qf, e[r], max)

\* c with y for the item of rank m of f.
With(K, c, f, m, y) ==
    [k \in K |-> [i \in DOMAIN c[k] |-> IF minirun_id(k) = f /\ i = m + 1 THEN y ELSE c[k][i]]]

\* Where all items are known, so are all but one.
LEMMA ViewedAround ==
    ASSUME NEW qf, NEW U, NEW h, Shaped(qf, U, h), NEW K \in SUBSET Nat, NEW c, NEW max,
           Viewed(qf, U, h, K, c, max),
           NEW hash \in Nat, NEW x \in Minirun(qf, U, h, hash),
           NEW m, m = CountIn(Minirun(qf, U, h, hash), 0, x - 1)
    PROVE  Around(qf, U, h, K, c, max, x, minirun_id(hash), m)
  <1>1. ASSUME NEW k \in K
        PROVE  \E n, e :
                  /\ Lists(e, n, Minirun(qf, U, h, k))
                  /\ DOMAIN c[k] = 1 .. n
                  /\ \A r \in 0 .. n - 1 : /\ e[r] = x <=> minirun_id(k) = minirun_id(hash) /\ r = m
                                           /\ e[r] # x => c[k][r + 1] = ItemAt(qf, e[r], max)
    <2>1. PICK n, e : /\ Lists(e, n, Minirun(qf, U, h, k))
                      /\ DOMAIN c[k] = 1 .. n
                      /\ \A r \in 0 .. n - 1 : c[k][r + 1] = ItemAt(qf, e[r], max)
      BY DEF Viewed
    <2>2. k \in Nat /\ Minirun(qf, U, h, k) \in SUBSET Nat
      BY MinirunType
    <2>3. ASSUME NEW r \in 0 .. n - 1, e[r] = x PROVE minirun_id(k) = minirun_id(hash) /\ r = m
      <3>1. e[r] \in Minirun(qf, U, h, k)
        BY <2>1 DEF Lists
      <3>2. minirun_id(k) = minirun_id(hash)
        BY <2>2, <2>3, <3>1, MinirunOwner
      <3>3. Minirun(qf, U, h, k) = Minirun(qf, U, h, hash)
        BY <2>2, <3>2, MinirunOwner
      <3>4. CountIn(Minirun(qf, U, h, k), 0, e[r] - 1) = r
        BY <2>1, <2>2, ListRank
      <3>. QED
        BY <2>3, <3>2, <3>3, <3>4
    <2>4. ASSUME NEW r \in 0 .. n - 1, minirun_id(k) = minirun_id(hash), r = m PROVE e[r] = x
      <3>1. Minirun(qf, U, h, k) = Minirun(qf, U, h, hash)
        BY <2>2, <2>4, MinirunOwner
      <3>2. x \in Minirun(qf, U, h, k)
        BY <3>1
      <3>3. e[CountIn(Minirun(qf, U, h, k), 0, x - 1)] = x
        BY <2>1, <2>2, <3>2, RankListed
      <3>. QED
        BY <2>4, <3>1, <3>3
    <2>. QED
      BY <2>1, <2>3, <2>4
  <1>. QED
    BY <1>1 DEF Around

\* The one that is missing completes the others.
LEMMA AroundViewed ==
    ASSUME NEW qf, NEW U, NEW h, NEW K, NEW c, NEW max, NEW x, NEW f, NEW m \in Nat,
           Around(qf, U, h, K, c, max, x, f, m)
    PROVE  Viewed(qf, U, h, K, With(K, c, f, m, ItemAt(qf, x, max)), max)
  <1>. DEFINE y == ItemAt(qf, x, max)
              d == With(K, c, f, m, y)
  <1>1. ASSUME NEW k \in K
        PROVE  \E n, e : /\ Lists(e, n, Minirun(qf, U, h, k))
                         /\ DOMAIN d[k] = 1 .. n
                         /\ \A r \in 0 .. n - 1 : d[k][r + 1] = ItemAt(qf, e[r], max)
    <2>1. PICK n, e : /\ Lists(e, n, Minirun(qf, U, h, k))
                      /\ DOMAIN c[k] = 1 .. n
                      /\ \A r \in 0 .. n - 1 : /\ e[r] = x <=> minirun_id(k) = f /\ r = m
                                               /\ e[r] # x => c[k][r + 1] = ItemAt(qf, e[r], max)
      BY DEF Around
    <2>2. d[k] = [i \in 1 .. n |-> IF minirun_id(k) = f /\ i = m + 1 THEN y ELSE c[k][i]]
      BY <2>1 DEF With
    <2>. HIDE DEF d
    <2>3. ASSUME NEW r \in 0 .. n - 1 PROVE d[k][r + 1] = ItemAt(qf, e[r], max)
      <3>1. n \in Nat
        BY <2>1 DEF Lists
      <3>2. r + 1 \in 1 .. n
        BY <3>1
      <3>3. d[k][r + 1] = IF minirun_id(k) = f /\ r + 1 = m + 1 THEN y ELSE c[k][r + 1]
        BY <2>2, <3>2
      <3>4. CASE e[r] = x
        BY <2>1, <3>3, <3>4
      <3>5. CASE e[r] # x
        <4>1. ~(minirun_id(k) = f /\ r + 1 = m + 1)
          <5>1. r + 1 = m + 1 <=> r = m
            OBVIOUS
          <5>. QED
            BY <2>1, <3>5, <5>1
        <4>. QED
          BY <2>1, <3>3, <3>5, <4>1
      <3>. QED
        BY <3>4, <3>5
    <2>. QED
      BY <2>1, <2>2, <2>3
  <1>. QED
    BY <1>1 DEF Viewed

\* A mark put in behind x leaves the other items as they were, in their order.
LEMMA AroundMoved ==
    ASSUME NEW qf, NEW U, NEW h, NEW at, NEW u, NEW q, NEW value, NEW new, NEW g,
           PutIn(qf, U, h, at, u, q, value, new, g), Fits(U \cup {u}), Counted(qf), Counted(new),
           at \in new.extensions, NEW x \in U, ChunksFrom(qf, x, at),
           NEW K, NEW c, NEW max \in Nat, NEW f, NEW m, Around(qf, U, h, K, c, max, x, f, m)
    PROVE  Around(new, U \cup {u}, g, K, c, max, x, f, m)
  <1>1. /\ U \in SUBSET Nat /\ at \in Nat /\ FreeFrom(U, at, u) /\ Shaped(qf, U, h)
    BY MarkOrigin DEF PutIn
  <1>2. Up(at, u, x) = x /\ \A i \in U : i = x <=> Up(at, u, i) = Up(at, u, x)
    <2>1. x \in Nat /\ x < at
      BY DEF ChunksFrom
    <2>2. /\ \A i \in U : /\ Up(at, u, i) \in Nat /\ Up(at, u, i) # at
                          /\ i < at => Up(at, u, i) = i
                          /\ at <= i => at < Up(at, u, i)
          /\ \A i, j \in U : /\ i < j <=> Up(at, u, i) < Up(at, u, j)
                             /\ i = j <=> Up(at, u, i) = Up(at, u, j)
      BY <1>1, UpOrder
    <2>. QED
      BY <2>1, <2>2
  <1>3. ASSUME NEW k \in K
        PROVE  \E n, e :
                  /\ Lists(e, n, Minirun(new, U \cup {u}, g, k))
                  /\ DOMAIN c[k] = 1 .. n
                  /\ \A r \in 0 .. n - 1 : /\ e[r] = x <=> minirun_id(k) = f /\ r = m
                                           /\ e[r] # x => c[k][r + 1] = ItemAt(new, e[r], max)
    <2>1. PICK n, e : /\ Lists(e, n, Minirun(qf, U, h, k))
                      /\ DOMAIN c[k] = 1 .. n
                      /\ \A r \in 0 .. n - 1 : /\ e[r] = x <=> minirun_id(k) = f /\ r = m
                                               /\ e[r] # x => c[k][r + 1] = ItemAt(qf, e[r], max)
      BY DEF Around
    <2>. DEFINE T == Minirun(qf, U, h, k)
                T2 == Minirun(new, U \cup {u}, g, k)
                d == [r \in 0 .. n - 1 |-> Up(at, u, e[r])]
    <2>2. \A i : i \in T2 <=> \E j \in T : i = Up(at, u, j)
      <3>1. ASSUME NEW i PROVE i \in Minirun(new, U \cup {u}, g, k) <=>
                                  \/ \E j \in Minirun(qf, U, h, k) : i = Up(at, u, j)
                                  \/ i = at /\ at \notin new.extensions /\ q = bucket(k) /\ value = remainder(k)
        BY MinirunMoved
      <3>. QED
        BY <3>1
    <2>3. T \in SUBSET U
      BY <1>1, MinirunType
    <2>4. Lists(d, n, T2)
      <3>1. Lists(e, n, T)
        BY <2>1
      <3>. HIDE DEF T, T2
      <3>. QED
        BY <1>1, <2>2, <2>3, <3>1, ListMoved
    <2>5. ASSUME NEW r \in 0 .. n - 1
          PROVE  /\ d[r] = x <=> minirun_id(k) = f /\ r = m
                 /\ d[r] # x => c[k][r + 1] = ItemAt(new, d[r], max)
      <3>1. d[r] = Up(at, u, e[r])
        OBVIOUS
      <3>. HIDE DEF d
      <3>2. e[r] \in U /\ e[r] \in Nat /\ e[r] \notin qf.extensions
        BY <1>1, <2>1, ListedItems
      <3>3. d[r] = x <=> e[r] = x
        BY <1>2, <3>1, <3>2
      <3>4. ASSUME e[r] # x PROVE ItemAt(new, d[r], max) = ItemAt(qf, e[r], max)
        <4>1. ASSUME e[r] < at, \A j \in Nat : e[r] < j /\ j < at => j \in qf.extensions PROVE FALSE
          BY <1>1, <3>2, <3>4, <4>1, OneOwner
        <4>. QED
          BY <3>1, <3>2, <4>1, ItemMoved
      <3>. QED
        BY <2>1, <3>3, <3>4
    <2>. HIDE DEF d
    <2>. QED
      BY <2>1, <2>4, <2>5
  <1>. QED
    BY <1>3 DEF Around

\* A counter turned into a chunk is a longer item; the others are as they were.
LEMMA ItemOverwritten ==
    ASSUME NEW qf, NEW U, NEW h, Shaped(qf, U, h), Fits(U), Counted(qf),
           NEW b \in Nat, NEW x \in Items(qf, U, h, b), NEW max \in Nat,
           NEW info, info = get_slot_info(qf, x), info.count_len = 1,
           NEW at, at = x + info.ext_len + 1, NEW value \in SlotValues,
           NEW new, new = Overwritten(qf, at, value)
    PROVE  /\ Shaped(new, U, h) /\ Counted(new) /\ new.noccupied_slots = qf.noccupied_slots
           /\ Behind(new, U, h, b, at + 1) /\ ChunksFrom(new, x, at + 1)
           /\ ItemAt(new, x, max) = Longer(ItemAt(qf, x, max), value, max)
           /\ \A hash : Minirun(new, U, h, hash) = Minirun(qf, U, h, hash)
           /\ \A j \in U \ qf.extensions : j # x => ItemAt(new, j, max) = ItemAt(qf, j, max)
  <1>1. /\ Homed(qf, U, h) /\ ChunksFirst(qf) /\ qf \in Filters
        /\ x \in U /\ x \notin qf.extensions
    BY DEF Shaped, Items
  <1>2. /\ Shaped(new, U, h) /\ Behind(new, U, h, b, at + 1)
        /\ at \in Nat /\ at \in qf.extensions \intersect qf.runends /\ x < at
        /\ new.extensions = qf.extensions /\ new.runends = qf.runends \ {at}
        /\ new.slots = [qf.slots EXCEPT ![at] = value]
    BY <1>1, OverwrittenFields
  <1>3. x \in Nat /\ U \in SUBSET Nat /\ U \in SUBSET Slots
    BY <1>1, HomedTypes
  <1>4. /\ \A i \in Slots : i # at => new.slots[i] = qf.slots[i]
        /\ new.slots[at] = value
    <2>1. at \in Slots /\ qf.slots \in [Slots -> SlotValues]
      BY <1>1, <1>2 DEF Filters
    <2>. QED
      BY <1>2, <2>1
  <1>5. at + 1 \notin qf.extensions
    BY <1>2 DEF Counted
  <1>6. Counted(new)
    <2>1. ASSUME NEW s \in new.extensions \intersect new.runends PROVE new.slots[s] = 2 /\ s + 1 \notin new.extensions
      <3>1. s \in qf.extensions \intersect qf.runends /\ s # at /\ s \in Slots
        BY <1>1, <1>2, <2>1 DEF Filters
      <3>. QED
        BY <1>2, <1>4, <3>1 DEF Counted
    <2>. QED
      BY <2>1 DEF Counted
  <1>7. \A hash : Minirun(new, U, h, hash) = Minirun(qf, U, h, hash)
    <2>1. ASSUME NEW hash PROVE Items(new, U, h, bucket(hash)) = Items(qf, U, h, bucket(hash))
      BY <1>2 DEF Items
    <2>2. ASSUME NEW hash, NEW i \in Items(qf, U, h, bucket(hash)) PROVE get_slot(new, i) = get_slot(qf, i)
      <3>1. i # at /\ i \in Slots
        BY <1>2, <1>3, <2>2 DEF Items
      <3>. QED
        BY <1>4, <3>1 DEF get_slot
    <2>. QED
      BY <2>1, <2>2 DEF Minirun
  <1>8. new.noccupied_slots = qf.noccupied_slots
    BY <1>1 DEF Overwritten, Filters
  <1>. DEFINE n == info.ext_len
  <1>9. Spans(qf, x, n, 1)
    BY <1>1, SpanRead
  <1>10. n \in Nat
    BY <1>9 DEF Spans
  <1>. HIDE DEF n
  <1>11. at = x + n + 1
    BY DEF n
  <1>12. \A s \in Nat : x < s /\ s < at => s \in qf.extensions \ qf.runends
    <2>1. \A s \in Nat : s < at <=> s <= x + n
      BY <1>3, <1>10, <1>11
    <2>. QED
      BY <1>9, <2>1 DEF Spans
  <1>13. ChunksFrom(qf, x, at)
    BY <1>1, <1>2, <1>3, <1>12 DEF ChunksFrom
  <1>14. ASSUME NEW j \in Nat, x < j, j < at + 1 PROVE j \in new.extensions \ new.runends
    <2>1. j = at \/ (j < at /\ j # at)
      BY <1>2, <1>14
    <2>. QED
      BY <1>2, <1>12, <1>14, <2>1
  <1>15. ChunksFrom(new, x, at + 1)
    <2>2. x < at + 1
      BY <1>2, <1>3
    <2>. QED
      BY <1>1, <1>2, <1>3, <1>14, <2>2 DEF ChunksFrom
  <1>16. ItemAt(new, x, max) = Longer(ItemAt(qf, x, max), value, max)
    <2>1. x + (n + 1) + 0 + 1 = at + 1 /\ n + 1 \in Nat /\ x + (n + 1) = at
      BY <1>3, <1>10, <1>11
    <2>2. ASSUME NEW s \in Nat, x < s, s <= x + (n + 1) PROVE s \in new.extensions \ new.runends
      <3>1. s < at + 1
        BY <1>2, <2>1, <2>2
      <3>. QED
        BY <1>14, <2>2, <3>1
    <2>3. Spans(new, x, n + 1, 0)
      BY <1>2, <1>5, <2>1, <2>2 DEF Spans
    <2>4. Holds(new, x, n + 1, 0, max, ItemAt(new, x, max))
      BY <1>1, <1>2, <1>6, <2>3, ItemRead
    <2>5. Holds(qf, x, n, 1, max, ItemAt(qf, x, max))
      BY <1>1, <1>9, ItemRead
    <2>. DEFINE y == ItemAt(qf, x, max)
    <2>6. y.ext_len = n /\ y.ext = [j \in 1 .. max |-> IF j <= n THEN qf.slots[x + j] ELSE 0]
      BY <2>5 DEF Holds
    <2>. HIDE DEF y
    <2>7. ASSUME NEW j \in 1 .. max
          PROVE  (IF j <= n + 1 THEN new.slots[x + j] ELSE 0) = (IF j = n + 1 THEN value ELSE y.ext[j])
      <3>1. CASE j = n + 1
        BY <1>4, <2>1, <3>1
      <3>2. CASE j # n + 1
        <4>1. j <= n + 1 <=> j <= n
          BY <1>10, <3>2
        <4>2. y.ext[j] = IF j <= n THEN qf.slots[x + j] ELSE 0
          BY <2>6
        <4>3. ASSUME j <= n PROVE new.slots[x + j] = qf.slots[x + j]
          <5>1. x + j \in Nat /\ x < x + j /\ x + j < at
            BY <1>3, <1>10, <1>11, <4>3
          <5>2. x + j \in Slots /\ x + j # at
            BY <1>1, <1>12, <5>1 DEF Filters
          <5>. QED
            BY <1>4, <5>2
        <4>. QED
          BY <3>2, <4>1, <4>2, <4>3
      <3>. QED
        BY <3>1, <3>2
    <2>8. [j \in 1 .. max |-> IF j <= n + 1 THEN new.slots[x + j] ELSE 0]
            = [j \in 1 .. max |-> IF j = n + 1 THEN value ELSE y.ext[j]]
      BY <2>7
    <2>. QED
      BY <2>4, <2>6, <2>8 DEF Holds, Longer, y
  <1>17. ASSUME NEW j \in U \ qf.extensions, j # x PROVE ItemAt(new, j, max) = ItemAt(qf, j, max)
    <2>. DEFINE l == get_slot_info(qf, j).ext_len
                c == get_slot_info(qf, j).count_len
    <2>1. Spans(qf, j, l, c)
      BY SpanRead
    <2>2. j \in Nat /\ l \in Nat /\ c \in {0, 1}
      BY <1>3, <2>1 DEF Spans
    <2>. HIDE DEF l, c
    <2>3. \A s \in Nat : j < s /\ s <= j + l + c => s \in qf.extensions
      <3>1. SUFFICES ASSUME NEW s \in Nat, j < s, s <= j + l + c PROVE s \in qf.extensions
        OBVIOUS
      <3>2. s <= j + l \/ (c = 1 /\ s = j + l + 1)
        BY <2>2, <3>1
      <3>. QED
        BY <2>1, <3>1, <3>2 DEF Spans
    <2>4. ~(j < at /\ at <= j + l + c)
      <3>1. SUFFICES ASSUME j < at, at <= j + l + c PROVE FALSE
        OBVIOUS
      <3>2. \A k \in Nat : j < k /\ k < at => k \in qf.extensions
        BY <1>2, <2>2, <2>3, <3>1
      <3>. QED
        BY <1>2, <1>13, <1>17, <2>2, <3>1, <3>2, OneOwner
    <2>5. Spans(new, j, l, c)
      <3>1. \A s \in Nat : j < s /\ s <= j + l => s \in new.extensions \ new.runends
        BY <1>2, <2>1 DEF Spans
      <3>2. c = 1 => j + l + 1 \in new.extensions \intersect new.runends
        <4>1. c = 1 => j < j + l + 1 /\ j + l + 1 <= j + l + c
          BY <2>2
        <4>2. c = 1 => j + l + 1 # at
          BY <2>4, <4>1
        <4>. QED
          BY <1>2, <2>1, <4>2 DEF Spans
      <3>. QED
        BY <1>2, <2>1, <3>1, <3>2 DEF Spans
    <2>6. Holds(qf, j, l, c, max, ItemAt(qf, j, max))
      BY <2>1, ItemRead
    <2>7. Holds(new, j, l, c, max, ItemAt(new, j, max))
      BY <1>2, <1>6, <2>5, ItemRead
    <2>8. ASSUME NEW i \in 1 .. max, i <= l PROVE new.slots[j + i] = qf.slots[j + i]
      <3>1. j + i \in Nat /\ j < j + i /\ j + i <= j + l /\ j + i <= j + l + c
        BY <2>2, <2>8
      <3>2. j + i \in Slots /\ j + i # at
        BY <1>1, <2>3, <2>4, <3>1 DEF Filters
      <3>. QED
        BY <1>4, <3>2
    <2>9. [i \in 1 .. max |-> IF i <= l THEN qf.slots[j + i] ELSE 0]
            = [i \in 1 .. max |-> IF i <= l THEN new.slots[j + i] ELSE 0]
      BY <2>8
    <2>. QED
      BY <2>6, <2>7, <2>9 DEF Holds
  <1>. QED
    BY <1>2, <1>6, <1>7, <1>8, <1>15, <1>16, <1>17

\* q is in shape, has item y in slot x, whose next chunk goes to at, and the items
\* c but for that one.
Lengthened(q, b, x, at, K, c, max, f, m, y, used) ==
    \E U, h :
        /\ Shaped(q, U, h) /\ Fits(U) /\ Counted(q) /\ x \in U
        /\ Behind(q, U, h, b, at) /\ ChunksFrom(q, x, at)
        /\ Around(q, U, h, K, c, max, x, f, m)
        /\ ItemAt(q, x, max) = y /\ q.noccupied_slots = used

\* The counter of the item x becomes its next chunk.
LEMMA OverwriteLengthens ==
    ASSUME NEW qf, NEW U, NEW h, Shaped(qf, U, h), Fits(U), Counted(qf),
           NEW b \in Nat, NEW x \in Items(qf, U, h, b), NEW max \in Nat,
           NEW info, info = get_slot_info(qf, x), info.count_len = 1,
           NEW at, at = x + info.ext_len + 1, NEW value \in SlotValues,
           NEW K, NEW c, NEW f, NEW m, Around(qf, U, h, K, c, max, x, f, m),
           NEW new, new = Overwritten(qf, at, value)
    PROVE  Lengthened(new, b, x, at + 1, K, c, max, f, m, Longer(ItemAt(qf, x, max), value, max),
                      qf.noccupied_slots)
  <1>1. /\ Shaped(new, U, h) /\ Counted(new) /\ new.noccupied_slots = qf.noccupied_slots
        /\ Behind(new, U, h, b, at + 1) /\ ChunksFrom(new, x, at + 1)
        /\ ItemAt(new, x, max) = Longer(ItemAt(qf, x, max), value, max)
        /\ \A hash : Minirun(new, U, h, hash) = Minirun(qf, U, h, hash)
        /\ \A j \in U \ qf.extensions : j # x => ItemAt(new, j, max) = ItemAt(qf, j, max)
    BY ItemOverwritten
  <1>2. x \in U
    BY DEF Items
  <1>3. ASSUME NEW k \in K
        PROVE  \E n, e :
                  /\ Lists(e, n, Minirun(new, U, h, k))
                  /\ DOMAIN c[k] = 1 .. n
                  /\ \A r \in 0 .. n - 1 : /\ e[r] = x <=> minirun_id(k) = f /\ r = m
                                           /\ e[r] # x => c[k][r + 1] = ItemAt(new, e[r], max)
    <2>1. PICK n, e : /\ Lists(e, n, Minirun(qf, U, h, k))
                      /\ DOMAIN c[k] = 1 .. n
                      /\ \A r \in 0 .. n - 1 : /\ e[r] = x <=> minirun_id(k) = f /\ r = m
                                               /\ e[r] # x => c[k][r + 1] = ItemAt(qf, e[r], max)
      BY DEF Around
    <2>2. \A r \in 0 .. n - 1 : e[r] \in U \ qf.extensions
      BY <2>1, ListedItems
    <2>. QED
      BY <1>1, <2>1, <2>2
  <1>4. Around(new, U, h, K, c, max, x, f, m)
    BY <1>3 DEF Around
  <1>. QED
    BY <1>1, <1>2, <1>4 DEF Lengthened

\* Where there is room a chunk makes the item longer.
LEMMA LengthensOne ==
    ASSUME NEW qf, NEW b \in Nat, NEW x, NEW at \in Nat, NEW K, NEW c, NEW max \in Nat, NEW f, NEW m,
           NEW y, NEW used, Lengthened(qf, b, x, at, K, c, max, f, m, y, used), HasSpace(qf, at),
           NEW value \in SlotValues, NEW new, new = Appended(qf, b, at, value)
    PROVE  Lengthened(new, b, x, at + 1, K, c, max, f, m, Longer(y, value, max), used + 1)
  <1>. DEFINE u == find_first_empty_slot(qf, at)
              moved == make_space(qf, b, at, u, value)
              ends == {}
  <1>1. PICK U, h :
           /\ Shaped(qf, U, h) /\ Fits(U) /\ Counted(qf) /\ x \in U
           /\ Behind(qf, U, h, b, at) /\ ChunksFrom(qf, x, at)
           /\ Around(qf, U, h, K, c, max, x, f, m)
           /\ ItemAt(qf, x, max) = y /\ qf.noccupied_slots = used
    BY DEF Lengthened
  <1>. DEFINE g == PutHomes(U, h, b, u)
  <1>2. Shaped(qf, U, h) /\ Fits(U) /\ Homed(qf, U, h) /\ Stored(qf, U, h) /\ qf \in Filters
    BY <1>1 DEF Shaped
  <1>3. x \in Nat /\ x < at /\ at - 1 \notin qf.extensions \intersect qf.runends /\ at \notin qf.extensions
    <2>1. x \in Nat /\ x < at
      BY <1>1 DEF ChunksFrom
    <2>2. at - 1 \in Nat /\ (at - 1 = x \/ (x < at - 1 /\ at - 1 < at))
      BY <2>1
    <2>. QED
      BY <1>1, <2>1, <2>2 DEF ChunksFrom, Behind
  <1>4. moved \in Filters
    <2>1. moved = make_space(qf, b, at, u, value) /\ u = find_first_empty_slot(qf, at)
      OBVIOUS
    <2>. HIDE DEF u, moved
    <2>. QED
      BY <1>2, <2>1, SpaceMade
  <1>5. new = Marked(moved, at, {})
    <2>1. new = [moved EXCEPT !.extensions = @ \cup {at}, !.noccupied_slots = @ + 1]
      BY DEF Appended, Grown
    <2>. HIDE DEF moved
    <2>2. moved.runends \cup {} = moved.runends
      OBVIOUS
    <2>. QED
      BY <1>4, <2>1, <2>2 DEF Marked, Filters
  <1>6. ends \in SUBSET {at} /\ at \notin ends /\ ends = {}
    OBVIOUS
  <1>7. new = Marked(make_space(qf, b, at, u, value), at, ends) /\ u = find_first_empty_slot(qf, at)
    BY <1>5
  <1>. HIDE DEF u, moved, ends, g
  <1>8. Markable(qf, U, h, b, at, ends)
    BY <1>1, <1>2, <1>3, <1>6 DEF Markable
  <1>9. IsMarked(qf, U, h, b, at, ends, value, u, new)
    BY <1>7, <1>8, MarkedFields
  <1>10. /\ PutIn(qf, U, h, at, u, b, value, new, PutHomes(U, h, b, u))
         /\ at \in new.extensions /\ (at \in new.runends <=> at \in ends)
    BY <1>2, <1>3, <1>6, <1>9, MarkedPut
  <1>11. /\ PutIn(qf, U, h, at, u, b, value, new, g) /\ Fits(U \cup {u})
         /\ Behind(new, U \cup {u}, g, b, at + 1) /\ at \notin new.runends
    BY <1>6, <1>9, <1>10 DEF IsMarked, g
  <1>12. Counted(new)
    BY <1>1, <1>3, <1>11, CountedMoved
  <1>13. Around(new, U \cup {u}, g, K, c, max, x, f, m)
    BY <1>1, <1>10, <1>11, <1>12, AroundMoved
  <1>14. new.noccupied_slots = used + 1
    BY <1>1, <1>11, CountersPut
  <1>. DEFINE n == at - x - 1
              info == get_slot_info(qf, x)
  <1>15. n \in Nat /\ x + n + 1 = at /\ x + n < at /\ x + n + 0 + 1 = at
    BY <1>3
  <1>. HIDE DEF n
  <1>16. Spans(qf, x, n, 0)
    <2>1. \A s \in Nat : x < s /\ s <= x + n => s < at
      BY <1>3, <1>15
    <2>. QED
      BY <1>1, <1>3, <1>15, <2>1 DEF Spans, ChunksFrom
  <1>17. info.ext_len = n /\ info.count_len = 0
    BY <1>1, <1>16, ItemRead
  <1>18. ItemAt(new, x, max) = Longer(y, value, max) /\ x \in U \cup {u}
    <2>1. at = x + info.ext_len + 1
      BY <1>15, <1>17
    <2>2. info = get_slot_info(qf, x)
      OBVIOUS
    <2>. HIDE DEF info
    <2>3. Grew(qf, U, at, u, value, new, x, max)
      BY <1>1, <1>10, <1>11, <1>12, <1>17, <2>1, <2>2, ItemGrows
    <2>. QED
      BY <1>1, <1>10, <1>11, <1>12, <2>3 DEF Grew
  <1>19. ChunksFrom(new, x, at + 1)
    <2>1. /\ u \in Nat /\ at <= u
          /\ new.extensions = ShiftBits(qf.extensions, at, u) \cup {at}
          /\ new.runends = ShiftBits(qf.runends, at, u) \cup ends
      BY <1>9 DEF IsMarked
    <2>2. qf.extensions \in SUBSET Nat /\ qf.runends \in SUBSET Nat
      BY <1>2, ChunkFacts
    <2>3. ASSUME NEW j \in Nat, j < at
          PROVE  (j \in new.extensions <=> j \in qf.extensions) /\ (j \in new.runends <=> j \in qf.runends)
      <3>1. /\ j \in ShiftBits(qf.extensions, at, u) <=> j \in qf.extensions
            /\ j \in ShiftBits(qf.runends, at, u) <=> j \in qf.runends
        BY <2>1, <2>2, <2>3, BitsBefore
      <3>2. j # at
        BY <2>3
      <3>. QED
        BY <1>6, <2>1, <3>1, <3>2
    <2>4. ASSUME NEW j \in Nat, x < j, j < at + 1 PROVE j \in new.extensions \ new.runends
      <3>1. CASE j = at
        BY <1>10, <1>11, <3>1
      <3>2. CASE j # at
        <4>1. j < at
          BY <2>4, <3>2
        <4>. QED
          BY <1>1, <2>3, <2>4, <4>1 DEF ChunksFrom
      <3>. QED
        BY <3>1, <3>2
    <2>5. x \notin new.extensions
      BY <1>1, <1>3, <2>3 DEF ChunksFrom
    <2>6. x < at + 1
      BY <1>3
    <2>. QED
      BY <1>3, <2>4, <2>5, <2>6 DEF ChunksFrom
  <1>20. Shaped(new, U \cup {u}, g)
    BY <1>11 DEF PutIn
  <1>. QED
    BY <1>11, <1>12, <1>13, <1>14, <1>18, <1>19, <1>20 DEF Lengthened

\* The item y with k chunks of key behind its chunks, the first in the place of
\* its counter.
Long(y, key, k, max) ==
    [ext_len |-> y.ext_len + k, count |-> 1,
     ext |-> [j \in 1 .. max |-> IF y.ext_len < j /\ j <= y.ext_len + k THEN chunk(key, j - 1) ELSE y.ext[j]]]

\* It grows by one chunk at a time.
LEMMA LongSteps ==
    ASSUME NEW y, y.ext_len \in Nat, NEW max \in Nat, NEW key, NEW k \in Nat
    PROVE  /\ Longer(Long(y, key, k, max), chunk(key, y.ext_len + k), max) = Long(y, key, k + 1, max)
           /\ Longer(y, chunk(key, y.ext_len), max) = Long(y, key, 1, max)
  <1>. DEFINE n == y.ext_len
              z == Long(y, key, k, max)
  <1>1. n \in Nat /\ n + k + 1 = n + (k + 1) /\ (n + k + 1) - 1 = n + k /\ (n + 1) - 1 = n
    OBVIOUS
  <1>2. /\ z.ext_len = n + k
        /\ z.ext = [j \in 1 .. max |-> IF n < j /\ j <= n + k THEN chunk(key, j - 1) ELSE y.ext[j]]
    BY DEF Long
  <1>3. ASSUME NEW j \in 1 .. max
        PROVE  (IF j = n + k + 1 THEN chunk(key, n + k) ELSE z.ext[j])
                 = (IF n < j /\ j <= n + (k + 1) THEN chunk(key, j - 1) ELSE y.ext[j])
    <2>1. z.ext[j] = IF n < j /\ j <= n + k THEN chunk(key, j - 1) ELSE y.ext[j]
      BY <1>2
    <2>. HIDE DEF z, n
    <2>2. CASE j = n + k + 1
      <3>1. n < j /\ j <= n + (k + 1)
        BY <1>1, <2>2
      <3>2. chunk(key, j - 1) = chunk(key, n + k)
        BY <1>1, <2>2
      <3>. QED
        BY <2>2, <3>1, <3>2
    <2>3. CASE j # n + k + 1
      <3>1. j <= n + (k + 1) <=> j <= n + k
        BY <1>1, <2>3
      <3>. QED
        BY <2>1, <2>3, <3>1
    <2>. QED
      BY <2>2, <2>3
  <1>4. Longer(z, chunk(key, n + k), max) = Long(y, key, k + 1, max)
    <2>1. [j \in 1 .. max |-> IF j = n + k + 1 THEN chunk(key, n + k) ELSE z.ext[j]]
            = [j \in 1 .. max |-> IF n < j /\ j <= n + (k + 1) THEN chunk(key, j - 1) ELSE y.ext[j]]
      BY <1>3
    <2>2. Long(y, key, k + 1, max)
            = [ext_len |-> n + (k + 1), count |-> 1,
               ext |-> [j \in 1 .. max |-> IF n < j /\ j <= n + (k + 1) THEN chunk(key, j - 1) ELSE y.ext[j]]]
      BY DEF Long
    <2>. HIDE DEF z
    <2>3. Longer(z, chunk(key, n + k), max)
            = [ext_len |-> n + k + 1, count |-> 1,
               ext |-> [j \in 1 .. max |-> IF j = n + k + 1 THEN chunk(key, n + k) ELSE z.ext[j]]]
      BY <1>2 DEF Longer
    <2>. QED
      BY <1>1, <2>1, <2>2, <2>3
  <1>5. ASSUME NEW j \in 1 .. max
        PROVE  (IF j = n + 1 THEN chunk(key, n) ELSE y.ext[j])
                 = (IF n < j /\ j <= n + 1 THEN chunk(key, j - 1) ELSE y.ext[j])
    <2>. HIDE DEF n
    <2>1. CASE j = n + 1
      <3>1. n < j /\ j <= n + 1 /\ chunk(key, j - 1) = chunk(key, n)
        BY <1>1, <2>1
      <3>. QED
        BY <2>1, <3>1
    <2>2. CASE j # n + 1
      <3>1. ~(n < j /\ j <= n + 1)
        BY <1>1, <2>2
      <3>. QED
        BY <2>2, <3>1
    <2>. QED
      BY <2>1, <2>2
  <1>6. Longer(y, chunk(key, n), max) = Long(y, key, 1, max)
    <2>1. [j \in 1 .. max |-> IF j = n + 1 THEN chunk(key, n) ELSE y.ext[j]]
            = [j \in 1 .. max |-> IF n < j /\ j <= n + 1 THEN chunk(key, j - 1) ELSE y.ext[j]]
      BY <1>5
    <2>. QED
      BY <2>1 DEF Longer, Long
  <1>. QED
    BY <1>4, <1>6

\* An item that has no counter ends where the next chunk goes.
LEMMA ItemEnd ==
    ASSUME NEW qf, NEW U, NEW h, Shaped(qf, U, h), Fits(U), Counted(qf), NEW b, NEW x \in Items(qf, U, h, b),
           NEW info, info = get_slot_info(qf, x), info.count_len = 0, NEW at, at = x + info.ext_len + 1
    PROVE  Behind(qf, U, h, b, at) /\ ChunksFrom(qf, x, at)
  <1>1. /\ Homed(qf, U, h) /\ ChunksFirst(qf) /\ qf \in Filters
        /\ U \in SUBSET Nat /\ x \in U /\ x \in Nat /\ h[x] = b /\ x \notin qf.extensions
    <2>1. qf \in Filters /\ Homed(qf, U, h) /\ ChunksFirst(qf)
      BY DEF Shaped
    <2>2. U \in SUBSET Nat
      BY <2>1, HomedTypes
    <2>. QED
      BY <2>1, <2>2 DEF Items
  <1>2. /\ info.ext_len \in Nat
        /\ x + 1 + info.ext_len + info.count_len = skip_extensions(qf, x + 1)
        /\ \A k \in Nat : x < k /\ k < x + 1 + info.ext_len => is_extension(qf, k)
    BY <1>1, InfoIs
  <1>3. at \in Nat /\ at # 0 /\ at = x + 1 + info.ext_len /\ x < at /\ at = skip_extensions(qf, x + 1)
    BY <1>1, <1>2
  <1>4. at \notin qf.extensions
    <2>1. /\ qf.extensions \in SUBSET Slots /\ x + 1 \in Nat /\ x + 1 <= PastEnd
      <3>1. x < PastEnd /\ PastEnd \in Nat /\ qf.extensions \in SUBSET Slots
        BY <1>1, HomedTypes
      <3>. QED
        BY <1>1, <3>1
    <2>. QED
      BY <1>3, <2>1, SkipIs
  <1>5. at - 1 \in U /\ h[at - 1] = b
    <2>1. at - 1 \in Nat /\ x <= at - 1 /\ at - 1 < at
      BY <1>1, <1>3
    <2>. QED
      BY <1>1, <1>3, <2>1, ItemSlots
  <1>6. ChunksFrom(qf, x, at)
    BY <1>1, <1>2, <1>3 DEF ChunksFrom, is_extension
  <1>. QED
    BY <1>3, <1>4, <1>5, <1>6 DEF Behind

\* Without space at at there is none behind it.
LEMMA NoSpaceBehind ==
    ASSUME NEW qf, NEW b, NEW x, NEW at \in Nat, NEW K, NEW c, NEW max, NEW f, NEW m, NEW y, NEW used,
           Lengthened(qf, b, x, at, K, c, max, f, m, y, used), ~HasSpace(qf, at),
           NEW s \in Nat, at <= s
    PROVE  ~HasSpace(qf, s)
  <1>1. SUFFICES ASSUME HasSpace(qf, s) PROVE FALSE
    OBVIOUS
  <1>2. PICK U, h : Shaped(qf, U, h)
    BY DEF Lengthened
  <1>3. Homed(qf, U, h) /\ Stored(qf, U, h)
    BY <1>2 DEF Shaped
  <1>. DEFINE u == find_first_empty_slot(qf, s)
  <1>4. u < XnSlots
    BY <1>1 DEF HasSpace
  <1>5. FreeFrom(U, s, u)
    BY <1>3, <1>4, SpaceFound
  <1>6. u \in Nat /\ u \notin U /\ s <= u
    BY <1>5 DEF FreeFrom
  <1>. HIDE DEF u
  <1>7. at <= u
    BY <1>6
  <1>. QED
    BY <1>3, <1>4, <1>6, <1>7, RoomFound

\* q is in shape, has the item y in slot x, the items c but for that one, and
\* used slots in use.
Showing(q, x, K, c, max, f, m, y, used) ==
    \E U, h :
        /\ Shaped(q, U, h) /\ Fits(U) /\ Counted(q) /\ x \in U
        /\ Around(q, U, h, K, c, max, x, f, m)
        /\ ItemAt(q, x, max) = y /\ q.noccupied_slots = used

\* It shows the item y with some of the next n chunks of key behind it.
ShowingLong(q, x, K, c, max, f, m, y, key, n, used, less) ==
    \E k \in 1 .. n : Showing(q, x, K, c, max, f, m, Long(y, key, k, max), used + k - less)

(***************************************************************************)
(* Adapting an item makes it longer by chunks of the key, in place of its  *)
(* counter, as many as it takes to tell the keys apart or, if the slots    *)
(* run out, fewer.  Every other item stays as it was, in its order.        *)
(***************************************************************************)
THEOREM AdaptShows ==
    ASSUME NEW qf, NEW U, NEW h, Shaped(qf, U, h), Fits(U), Counted(qf),
           NEW b \in Nat, NEW x \in Items(qf, U, h, b), NEW max \in Nat,
           NEW info, info = get_slot_info(qf, x), HasSpace(qf, x + info.ext_len + 1),
           NEW K, NEW c, NEW f, NEW m, Around(qf, U, h, K, c, max, x, f, m),
           NEW key \in Nat, NEW other \in Nat, NEW new, new = adapt(qf, x, b, key, other)
    PROVE  ShowingLong(new, x, K, c, max, f, m, ItemAt(qf, x, max), key, Rounds(info, key, other),
                       qf.noccupied_slots, info.count_len)
  <1>. DEFINE n == Rounds(info, key, other)
              at(i) == x + info.ext_len + i
              value(i) == chunk(key, info.ext_len + i - 1)
              g == CHOOSE e : IsAppend(qf, x, info, b, key, n, e)
              y == ItemAt(qf, x, max)
              used(k) == qf.noccupied_slots + k - info.count_len
              Got(i, k) == Lengthened(g[i], b, x, at(k + 1), K, c, max, f, m, Long(y, key, k, max), used(k))
              Good(i) == \E k \in 1 .. i : Got(i, k) /\ (k = i \/ ~HasSpace(g[i], at(k + 1)))
  <1>1. /\ Homed(qf, U, h) /\ U \in SUBSET Nat /\ x \in U /\ x \in Nat /\ qf.noccupied_slots \in Nat
        /\ qf \in Filters
    <2>1. qf \in Filters /\ Homed(qf, U, h)
      BY DEF Shaped
    <2>2. U \in SUBSET Nat
      BY <2>1, HomedTypes
    <2>. QED
      BY <2>1, <2>2 DEF Items, Filters
  <1>2. Spans(qf, x, info.ext_len, info.count_len)
    BY <1>1, SpanRead
  <1>3. info.ext_len \in Nat /\ info.count_len \in {0, 1}
    BY <1>2 DEF Spans
  <1>4. y.ext_len = info.ext_len
    BY DEF ItemAt
  <1>5. n \in Nat /\ n # 0
    BY <1>3, RoundsType
  <1>6. IsAppend(qf, x, info, b, key, n, g)
    <2>. HIDE DEF n
    <2>1. \E e : IsAppend(qf, x, info, b, key, n, e)
      BY <1>5, AppendExists
    <2>. QED
      BY <2>1
  <1>7. new = g[n]
    <2>1. ~(info.count_len > 1)
      BY <1>3
    <2>2. new = append_chunks(qf, x, info, b, key, other)
      BY <2>1 DEF adapt
    <2>3. n = Rounds(info, key, other) /\ g = CHOOSE e : IsAppend(qf, x, info, b, key, n, e)
      OBVIOUS
    <2>. HIDE DEF n, g, Good, Got
    <2>. QED
      BY <2>2, <2>3, AppendDef
  <1>. HIDE DEF g, n, y
  <1>8. ASSUME NEW i \in 0 .. n PROVE g[i] = AppendStep(qf, x, info, b, key, g, i)
    BY <1>6 DEF IsAppend
  <1>9. ASSUME NEW i \in Nat, i # 0
        PROVE  at(i) \in Nat /\ at(i) + 1 = at(i + 1) /\ value(i) \in SlotValues
    <2>1. at(i) \in Nat /\ at(i) + 1 = at(i + 1) /\ info.ext_len + i - 1 \in Nat
      BY <1>1, <1>3, <1>9
    <2>. QED
      BY <2>1, ChunkType
  <1>10. Good(1)
    <2>1. 1 \in 0 .. n /\ 0 \in 0 .. n /\ 1 \in 1 .. 1
      BY <1>5
    <2>2. g[0] = qf /\ g[1 - 1] = qf
      <3>1. g[0] = qf
        BY <1>8, <2>1 DEF AppendStep
      <3>. QED
        BY <3>1
    <2>3. /\ at(1) \in Nat /\ at(1) + 1 = at(1 + 1) /\ at(1) = x + info.ext_len + 1
          /\ HasSpace(qf, at(1))
      BY <1>1, <1>3
    <2>4. value(1) \in SlotValues /\ value(1) = chunk(key, y.ext_len)
      BY <1>3, <1>4, <1>9
    <2>5. Longer(y, value(1), max) = Long(y, key, 1, max)
      <3>1. y.ext_len \in Nat
        BY <1>3, <1>4
      <3>. HIDE DEF value
      <3>. QED
        BY <2>4, <3>1, LongSteps
    <2>6. CASE info.count_len = 1
      <3>1. g[1] = Overwritten(qf, at(1), value(1))
        BY <1>8, <2>1, <2>2, <2>3, <2>6 DEF AppendStep
      <3>2. used(1) = qf.noccupied_slots
        BY <1>1, <2>6
      <3>. HIDE DEF at, value, used, Good
      <3>3. Lengthened(g[1], b, x, at(1) + 1, K, c, max, f, m, Longer(y, value(1), max), qf.noccupied_slots)
        BY <1>1, <2>3, <2>4, <2>6, <3>1, OverwriteLengthens DEF y
      <3>4. Got(1, 1)
        BY <2>3, <2>5, <3>2, <3>3
      <3>. HIDE DEF Got
      <3>. QED
        BY <2>1, <3>4 DEF Good
    <2>7. CASE info.count_len = 0
      <3>1. g[1] = Appended(qf, b, at(1), value(1))
        BY <1>8, <2>1, <2>2, <2>7 DEF AppendStep, Appended
      <3>2. used(1) = qf.noccupied_slots + 1
        BY <1>1, <2>7
      <3>. HIDE DEF at, value, used, Good
      <3>3. Behind(qf, U, h, b, at(1)) /\ ChunksFrom(qf, x, at(1))
        BY <2>3, <2>7, ItemEnd
      <3>4. Lengthened(qf, b, x, at(1), K, c, max, f, m, y, qf.noccupied_slots)
        BY <1>1, <3>3 DEF Lengthened, y
      <3>5. Lengthened(g[1], b, x, at(1) + 1, K, c, max, f, m, Longer(y, value(1), max), qf.noccupied_slots + 1)
        BY <2>3, <2>4, <3>1, <3>4, LengthensOne
      <3>6. Got(1, 1)
        BY <2>3, <2>5, <3>2, <3>5
      <3>. HIDE DEF Got
      <3>. QED
        BY <2>1, <3>6 DEF Good
    <2>. HIDE DEF Good
    <2>. QED
      BY <1>3, <2>6, <2>7
  <1>11. ASSUME NEW i \in 1 .. n, i # 1, Good(i - 1) PROVE Good(i)
    <2>1. i \in 0 .. n /\ i \in Nat /\ i # 0 /\ i - 1 \in Nat /\ (i - 1) + 1 = i /\ i \in 1 .. i
      BY <1>5, <1>11
    <2>2. value(i) \in SlotValues /\ at(i) \in Nat /\ at(i) + 1 = at(i + 1)
      BY <1>9, <2>1
    <2>3. g[i] = Appended(g[i - 1], b, at(i), value(i))
      BY <1>8, <1>11, <2>1 DEF AppendStep, Appended
    <2>4. PICK k \in 1 .. i - 1 : Got(i - 1, k) /\ (k = i - 1 \/ ~HasSpace(g[i - 1], at(k + 1)))
      BY <1>11
    <2>5. k \in Nat /\ k \in 1 .. i /\ k + 1 \in Nat /\ k + 1 # 0 /\ k + 1 <= i
      BY <2>1
    <2>6. at(k + 1) \in Nat /\ at(k + 1) <= at(i)
      BY <1>1, <1>3, <2>1, <2>5
    <2>7. CASE HasSpace(g[i - 1], at(k + 1))
      <3>1. k = i - 1 /\ k + 1 = i
        BY <2>1, <2>4, <2>7
      <3>2. used(k) + 1 = used(i)
        BY <1>1, <1>3, <2>1, <3>1
      <3>3. value(i) = chunk(key, y.ext_len + k) /\ y.ext_len \in Nat
        BY <1>3, <1>4, <2>1, <3>1
      <3>4. Longer(Long(y, key, k, max), value(i), max) = Long(y, key, k + 1, max)
        <4>. HIDE DEF value
        <4>. QED
          BY <2>5, <3>3, LongSteps
      <3>5. Lengthened(g[i - 1], b, x, at(i), K, c, max, f, m, Long(y, key, k, max), used(k))
        BY <2>4, <3>1
      <3>6. HasSpace(g[i - 1], at(i))
        BY <2>7, <3>1
      <3>. HIDE DEF at, value, used, Good
      <3>7. Lengthened(g[i], b, x, at(i) + 1, K, c, max, f, m,
                       Longer(Long(y, key, k, max), value(i), max), used(k) + 1)
        BY <2>2, <2>3, <3>5, <3>6, LengthensOne
      <3>8. Got(i, i)
        BY <2>2, <3>1, <3>2, <3>4, <3>7
      <3>. HIDE DEF Got
      <3>. QED
        BY <2>1, <3>8 DEF Good
    <2>8. CASE ~HasSpace(g[i - 1], at(k + 1))
      <3>. HIDE DEF at, value, used, Good
      <3>1. Lengthened(g[i - 1], b, x, at(k + 1), K, c, max, f, m, Long(y, key, k, max), used(k))
        BY <2>4
      <3>2. ~HasSpace(g[i - 1], at(i))
        BY <2>2, <2>6, <2>8, <3>1, NoSpaceBehind
      <3>3. g[i] = g[i - 1]
        BY <2>3, <3>2 DEF Appended
      <3>4. Got(i, k) /\ ~HasSpace(g[i], at(k + 1))
        BY <2>8, <3>1, <3>3
      <3>. HIDE DEF Got
      <3>. QED
        BY <2>5, <3>4 DEF Good
    <2>. QED
      BY <2>7, <2>8
  <1>12. Good(n)
    <2>. DEFINE Bad == {i \in 1 .. n : ~Good(i)}
    <2>1. SUFFICES ASSUME Bad # {} PROVE FALSE
      <3>1. n \in 1 .. n
        BY <1>5
      <3>. HIDE DEF Good
      <3>. QED
        BY <3>1
    <2>. HIDE DEF Good
    <2>2. PICK i \in Bad : \A j \in Bad : i <= j
      <3>1. Bad \in SUBSET Nat
        OBVIOUS
      <3>. HIDE DEF Bad
      <3>. QED
        BY <2>1, <3>1, SmallestNat
    <2>3. i \in 1 .. n /\ ~Good(i) /\ i # 1
      BY <1>10, <2>2
    <2>4. i - 1 \in 1 .. n /\ ~(i <= i - 1)
      BY <1>5, <2>3
    <2>5. Good(i - 1)
      BY <2>2, <2>4
    <2>. QED
      BY <1>11, <2>3, <2>4, <2>5
  <1>13. PICK k \in 1 .. n : Lengthened(new, b, x, at(k + 1), K, c, max, f, m, Long(y, key, k, max), used(k))
    BY <1>7, <1>12
  <1>14. Showing(new, x, K, c, max, f, m, Long(y, key, k, max), used(k))
    BY <1>13 DEF Lengthened, Showing
  <1>. HIDE DEF n, y, at, g
  <1>15. ShowingLong(new, x, K, c, max, f, m, y, key, n, qf.noccupied_slots, info.count_len)
    BY <1>14 DEF ShowingLong
  <1>. QED
    BY <1>15 DEF n, y

\* Items are read off the slots, the extensions and the runends.
LEMMA ItemSame ==
    ASSUME NEW qf, NEW U, NEW h, Shaped(qf, U, h), Fits(U), Counted(qf), NEW i \in U, NEW max \in Nat,
           NEW new, NEW V, NEW g, Shaped(new, V, g), Fits(V), Counted(new), i \in V,
           new.slots = qf.slots, new.extensions = qf.extensions, new.runends = qf.runends
    PROVE  ItemAt(new, i, max) = ItemAt(qf, i, max)
  <1>. DEFINE n == get_slot_info(qf, i).ext_len
              c == get_slot_info(qf, i).count_len
  <1>1. Spans(qf, i, n, c)
    BY SpanRead
  <1>. HIDE DEF n, c
  <1>2. Spans(new, i, n, c)
    BY <1>1 DEF Spans
  <1>3. Holds(qf, i, n, c, max, ItemAt(qf, i, max))
    BY <1>1, ItemRead
  <1>4. Holds(new, i, n, c, max, ItemAt(new, i, max))
    BY <1>2, ItemRead
  <1>. QED
    BY <1>3, <1>4 DEF Holds

\* Counting an element more changes no item.
LEMMA ShowingSame ==
    ASSUME NEW qf, NEW x, NEW K, NEW c, NEW max \in Nat, NEW f, NEW m, NEW y, NEW used,
           Showing(qf, x, K, c, max, f, m, y, used),
           NEW n \in Nat, NEW new, new = [qf EXCEPT !.nelts = @ + n]
    PROVE  Showing(new, x, K, c, max, f, m, y, used)
  <1>1. PICK U, h :
           /\ Shaped(qf, U, h) /\ Fits(U) /\ Counted(qf) /\ x \in U
           /\ Around(qf, U, h, K, c, max, x, f, m)
           /\ ItemAt(qf, x, max) = y /\ qf.noccupied_slots = used
    BY DEF Showing
  <1>2. qf \in Filters
    BY <1>1 DEF Shaped
  <1>3. new = Updated(qf, qf.slots, qf.occupieds, qf.runends, qf.extensions,
                      qf.noccupied_slots, qf.nelts + n, qf.ndistinct_elts)
    BY <1>2 DEF Filters, Updated
  <1>4. /\ new \in Filters /\ new.occupieds = qf.occupieds /\ new.runends = qf.runends
        /\ new.extensions = qf.extensions /\ new.offset = qf.offset
        /\ new.noccupied_slots = qf.noccupied_slots /\ new.slots = qf.slots
    <2>1. /\ qf.slots \in [Slots -> SlotValues] /\ qf.occupieds \in SUBSET Buckets /\ qf.runends \in SUBSET Slots
          /\ qf.extensions \in SUBSET Slots /\ qf.noccupied_slots \in Nat
          /\ qf.nelts + n \in Nat /\ qf.ndistinct_elts \in Nat
      BY <1>2 DEF Filters
    <2>. QED
      BY <1>2, <1>3, <2>1, UpdatedFields
  <1>5. ChunksFirst(new) /\ RunEnds(new) = RunEnds(qf) /\ new.runends \in SUBSET qf.runends
    BY <1>1, <1>4 DEF Shaped, ChunksFirst, is_counter, is_extension, RunEnds
  <1>6. Shaped(new, U, h) /\ Counted(new)
    <2>1. Shaped(new, U, h)
      BY <1>1, <1>2, <1>4, <1>5, SameShape
    <2>. QED
      BY <1>1, <1>4, <2>1 DEF Counted
  <1>7. \A hash : Minirun(new, U, h, hash) = Minirun(qf, U, h, hash)
    BY <1>4 DEF Minirun, Items, get_slot
  <1>8. \A i \in U : ItemAt(new, i, max) = ItemAt(qf, i, max)
    BY <1>1, <1>4, <1>6, ItemSame
  <1>9. ASSUME NEW k \in K
        PROVE  \E l, e :
                  /\ Lists(e, l, Minirun(new, U, h, k))
                  /\ DOMAIN c[k] = 1 .. l
                  /\ \A r \in 0 .. l - 1 : /\ e[r] = x <=> minirun_id(k) = f /\ r = m
                                           /\ e[r] # x => c[k][r + 1] = ItemAt(new, e[r], max)
    <2>1. PICK l, e : /\ Lists(e, l, Minirun(qf, U, h, k))
                      /\ DOMAIN c[k] = 1 .. l
                      /\ \A r \in 0 .. l - 1 : /\ e[r] = x <=> minirun_id(k) = f /\ r = m
                                               /\ e[r] # x => c[k][r + 1] = ItemAt(qf, e[r], max)
      BY <1>1 DEF Around
    <2>2. \A r \in 0 .. l - 1 : e[r] \in U
      BY <1>1, <2>1, ListedItems
    <2>. QED
      BY <1>7, <1>8, <2>1, <2>2
  <1>10. Around(new, U, h, K, c, max, x, f, m)
    BY <1>9 DEF Around
  <1>. QED
    BY <1>1, <1>4, <1>6, <1>8, <1>10 DEF Showing

(***************************************************************************)
(* The first charge to an item gives it a count of 2 and one slot more.    *)
(* Every other item stays as it was, in its order.                         *)
(***************************************************************************)
THEOREM ChargeShows ==
    ASSUME NEW qf, NEW U, NEW h, Shaped(qf, U, h), Fits(U), Counted(qf), BitsPerSlot > 1,
           NEW hash \in Nat, NEW x \in Items(qf, U, h, bucket(hash)), Room(U, bucket(hash), 2),
           get_slot_info(qf, x).count_len = 0, NEW max \in Nat,
           NEW K, NEW c, NEW f, NEW m, Around(qf, U, h, K, c, max, x, f, m)
    PROVE  Showing(increment_counter(qf, x, hash, 1), x, K, c, max, f, m, Twice(ItemAt(qf, x, max)),
                   qf.noccupied_slots + 1)
  <1>. DEFINE info == get_slot_info(qf, x)
  <1>1. PICK at, u, one, g : ChargedBy(qf, U, h, hash, x, at, u, one, g)
    BY ChargePuts
  <1>2. /\ PutIn(qf, U, h, at, u, bucket(hash), 2, one, g) /\ Fits(U \cup {u})
        /\ at \in one.extensions /\ at \in one.runends /\ at - 1 \notin qf.extensions \intersect qf.runends
        /\ at = x + info.ext_len + 1
        /\ increment_counter(qf, x, hash, 1) = [one EXCEPT !.nelts = @ + 1]
    BY <1>1 DEF ChargedBy
  <1>3. x \in U
    BY DEF Items
  <1>4. Counted(one)
    BY <1>2, CountedMoved
  <1>5. Behind(qf, U, h, bucket(hash), at) /\ ChunksFrom(qf, x, at)
    <2>1. info = get_slot_info(qf, x) /\ info.count_len = 0
      OBVIOUS
    <2>. HIDE DEF info
    <2>. QED
      BY <1>2, <2>1, ItemEnd
  <1>6. Around(one, U \cup {u}, g, K, c, max, x, f, m)
    BY <1>2, <1>3, <1>4, <1>5, AroundMoved
  <1>7. ItemAt(one, x, max) = Twice(ItemAt(qf, x, max)) /\ x \in U \cup {u}
    <2>. DEFINE b == bucket(hash)
                value == 2
    <2>1. /\ PutIn(qf, U, h, at, u, b, value, one, g) /\ Fits(U \cup {u}) /\ Counted(qf) /\ Counted(one)
          /\ x \in U /\ max \in Nat /\ info = get_slot_info(qf, x) /\ info.count_len = 0
          /\ at = x + info.ext_len + 1 /\ at \in one.extensions
      BY <1>2, <1>3, <1>4
    <2>. HIDE DEF info, b, value
    <2>2. Grew(qf, U, at, u, value, one, x, max)
      BY <2>1, ItemGrows
    <2>. QED
      BY <1>2, <2>2 DEF Grew
  <1>8. one.noccupied_slots = qf.noccupied_slots + 1
    BY <1>2, CountersPut
  <1>9. Shaped(one, U \cup {u}, g)
    BY <1>2 DEF PutIn
  <1>10. Showing(one, x, K, c, max, f, m, Twice(ItemAt(qf, x, max)), qf.noccupied_slots + 1)
    BY <1>2, <1>4, <1>6, <1>7, <1>8, <1>9 DEF Showing
  <1>. QED
    BY <1>2, <1>10, ShowingSame

\* A fingerprint is its own fingerprint.
LEMMA FingerprintSelf ==
    ASSUME NEW x \in Nat, NEW y, y = minirun_id(x)
    PROVE  y \in Nat /\ bucket(y) = bucket(x) /\ remainder(y) = remainder(x)
  <1>. DEFINE R == 2 ^ (QuotientBits + BitsPerSlot)
  <1>1. R \in Nat \ {0}
    BY GQFAssumption, PowerOfTwo
  <1>2. y \in 0 .. R - 1
    BY <1>1, DivFacts DEF minirun_id
  <1>3. minirun_id(y) = y % R
    BY DEF minirun_id
  <1>. HIDE DEF R
  <1>4. y \in Nat /\ y < R
    BY <1>1, <1>2
  <1>5. y % R = y
    <2>1. R * 0 = 0 /\ 0 \in Nat /\ y = 0 + y
      BY <1>1, <1>4
    <2>2. y = R * 0 + y
      BY <2>1
    <2>. QED
      BY <1>1, <1>4, <2>2, ModUnique
  <1>. QED
    BY <1>3, <1>4, <1>5, SameFingerprint

\* A list has as many elements as its set.
LEMMA ListedCount ==
    ASSUME NEW T \in SUBSET Nat, NEW e, NEW n, Lists(e, n, T)
    PROVE  IsFiniteSet(T) /\ Cardinality(T) = n
  <1>1. n \in Nat
    BY DEF Lists
  <1>2. CASE n = 0
    <2>1. T = {}
      <3>1. \A r \in 0 .. n - 1 : FALSE
        BY <1>2
      <3>. QED
        BY <3>1 DEF Lists
    <2>. QED
      BY <1>2, <2>1, FS_EmptySet
  <1>3. CASE n # 0
    <2>. DEFINE l == n - 1
                x == e[l]
    <2>1. l \in 0 .. n - 1 /\ l + 1 = n
      BY <1>1, <1>3
    <2>2. x \in T /\ x \in Nat
      BY <2>1 DEF Lists
    <2>3. \A y \in T : y <= x
      <3>1. SUFFICES ASSUME NEW y \in T PROVE y <= x
        OBVIOUS
      <3>2. PICK r \in 0 .. n - 1 : e[r] = y
        BY DEF Lists
      <3>3. r = l \/ r < l
        BY <1>1, <3>2
      <3>4. r < l => e[r] < e[l]
        BY <2>1, <3>2 DEF Lists
      <3>5. y \in Nat
        OBVIOUS
      <3>. HIDE DEF l
      <3>. QED
        BY <2>2, <3>2, <3>3, <3>4, <3>5
    <2>4. CountIn(T, 0, x - 1) = l
      BY <2>1, ListRank
    <2>. HIDE DEF l, x
    <2>5. CountIn(T, x, x) = 1
      BY <2>2, CountOne
    <2>6. CountIn(T, 0, x) = CountIn(T, 0, x - 1) + CountIn(T, (x - 1) + 1, x)
      <3>1. x - 1 \in Int /\ 0 <= (x - 1) + 1 /\ x - 1 <= x /\ 0 \in Nat /\ x \in Int
        BY <2>2
      <3>. QED
        BY <3>1, CountSplit
    <2>7. (x - 1) + 1 = x
      BY <2>2
    <2>8. CountIn(T, 0, x) = n
      BY <2>1, <2>4, <2>5, <2>6, <2>7
    <2>9. Between(T, 0, x) = T
      <3>1. \A y \in T : 0 <= y /\ y <= x
        BY <2>3
      <3>. QED
        BY <3>1 DEF Between
    <2>10. IsFiniteSet(Between(T, 0, x))
      <3>1. 0 <= x + 1 /\ x \in Int /\ 0 \in Nat
        BY <2>2
      <3>. QED
        BY <3>1, CountType
    <2>. QED
      BY <2>8, <2>9, <2>10 DEF CountIn
  <1>. QED
    BY <1>2, <1>3

\* The ascending sequence of a set is its list.
LEMMA AscendingListed ==
    ASSUME NEW T \in SUBSET Nat, NEW e, NEW n, Lists(e, n, T)
    PROVE  Ascending(T) = [i \in 1 .. n |-> e[i - 1]]
  <1>1. IsFiniteSet(T) /\ Cardinality(T) = n /\ n \in Nat
    BY ListedCount DEF Lists
  <1>2. ASSUME NEW i \in 1 .. n PROVE Select(T, i) = e[i - 1]
    <2>. DEFINE r == i - 1
                x == e[r]
    <2>1. r \in 0 .. n - 1 /\ r + 1 = i
      BY <1>1
    <2>2. x \in T /\ x \in Nat
      BY <2>1 DEF Lists
    <2>3. CountIn(T, 0, x - 1) = r
      BY <2>1, ListRank
    <2>. HIDE DEF r, x
    <2>4. {j \in T : j < x} = Between(T, 0, x - 1)
      <3>1. \A j \in T : j < x <=> 0 <= j /\ j <= x - 1
        BY <2>2
      <3>. QED
        BY <3>1 DEF Between
    <2>5. i = Cardinality({j \in T : j < x}) + 1
      BY <2>1, <2>3, <2>4 DEF CountIn
    <2>6. Select(T, i) = x
      BY <1>1, <2>2, <2>5, SelectIs
    <2>. QED
      BY <2>6 DEF r, x
  <1>. QED
    BY <1>1, <1>2 DEF Ascending

(***************************************************************************)
(* GQFLayout reads a minirun off the bits in its order.                    *)
(***************************************************************************)
THEOREM SlotsListed ==
    ASSUME NEW qf, NEW U, NEW h, Shaped(qf, U, h), NEW hash \in Nat, NEW f, f = minirun_id(hash),
           NEW n, NEW e, Lists(e, n, Minirun(qf, U, h, hash))
    PROVE  MinirunSlots(qf, f) = [i \in 1 .. n |-> e[i - 1]]
  <1>. DEFINE T == Minirun(qf, U, h, hash)
  <1>1. Homed(qf, U, h)
    BY DEF Shaped
  <1>2. bucket(f) = bucket(hash) /\ remainder(f) = remainder(hash)
    BY FingerprintSelf
  <1>3. T \in SUBSET Nat
    BY MinirunType
  <1>4. CASE bucket(hash) \in qf.occupieds
    <2>1. RunSlots(qf, bucket(hash)) = {s \in U : h[s] = bucket(hash)}
      BY <1>1, <1>4, RunSlotsAre
    <2>2. {i \in RunSlots(qf, bucket(f)) \ qf.extensions : get_slot(qf, i) = remainder(f)} = T
      BY <1>2, <2>1 DEF Minirun, Items
    <2>3. MinirunSlots(qf, f) = Ascending(T)
      BY <1>2, <1>4, <2>2 DEF MinirunSlots
    <2>. HIDE DEF T
    <2>4. Lists(e, n, T)
      BY DEF T
    <2>. QED
      BY <1>3, <2>3, <2>4, AscendingListed
  <1>5. CASE bucket(hash) \notin qf.occupieds
    <2>1. T = {}
      BY <1>1, <1>5 DEF Minirun, Items, Homed, Homes
    <2>2. n = 0
      BY <2>1, ListEmpty
    <2>3. MinirunSlots(qf, f) = <<>>
      BY <1>2, <1>5 DEF MinirunSlots
    <2>4. [i \in 1 .. 0 |-> e[i - 1]] = <<>>
      OBVIOUS
    <2>. QED
      BY <2>2, <2>3, <2>4
  <1>. QED
    BY <1>4, <1>5

\* What is listed of a minirun that nothing is added to.
Shoved(at, u, e, n) == [r \in 0 .. n - 1 |-> Up(at, u, e[r])]

\* Moving the slots of a minirun moves its list.
LEMMA ListShoved ==
    ASSUME NEW U \in SUBSET Nat, NEW at \in Nat, NEW u, FreeFrom(U, at, u), NEW T \in SUBSET U,
           NEW T2, \A i : i \in T2 <=> \E j \in T : i = Up(at, u, j),
           NEW e, NEW n, Lists(e, n, T)
    PROVE  Lists(Shoved(at, u, e, n), n, T2)
  BY ListMoved DEF Shoved

\* An insertion adds one item to the miniruns of its fingerprint's keys, and none
\* to others.
LEMMA EnteredLists ==
    ASSUME NEW qf, NEW U, NEW h, NEW hash \in Nat, NEW at, NEW u, NEW new, NEW g,
           PutIn(qf, U, h, at, u, bucket(hash), remainder(hash), new, g),
           Fits(U \cup {u}), new.extensions = {}, Splits(qf, U, h, bucket(hash), at, remainder(hash)),
           NEW k \in Nat, NEW n, NEW e, Lists(e, n, Minirun(qf, U, h, k))
    PROVE  \E d : Lists(d, IF minirun_id(k) = minirun_id(hash) THEN n + 1 ELSE n,
                        Minirun(new, U \cup {u}, g, k))
  <1>1. U \in SUBSET Nat /\ at \in Nat /\ FreeFrom(U, at, u) /\ Shaped(qf, U, h) /\ Fits(U)
    <2>1. U \in SUBSET Nat /\ at \in Nat /\ FreeFrom(U, at, u)
      BY MarkOrigin
    <2>. QED
      BY <2>1 DEF PutIn, Fits
  <1>. DEFINE T == Minirun(qf, U, h, k)
              T2 == Minirun(new, U \cup {u}, g, k)
  <1>2. T \in SUBSET U /\ Lists(e, n, T)
    BY <1>1, MinirunType
  <1>3. ASSUME NEW i
        PROVE  i \in T2 <=> \/ \E j \in T : i = Up(at, u, j)
                            \/ i = at /\ bucket(hash) = bucket(k) /\ remainder(hash) = remainder(k)
    <2>1. i \in Minirun(new, U \cup {u}, g, k) <=>
              \/ \E j \in Minirun(qf, U, h, k) : i = Up(at, u, j)
              \/ i = at /\ at \notin new.extensions /\ bucket(hash) = bucket(k) /\ remainder(hash) = remainder(k)
      BY MinirunMoved
    <2>. QED
      BY <2>1
  <1>4. minirun_id(k) = minirun_id(hash) <=> bucket(hash) = bucket(k) /\ remainder(hash) = remainder(k)
    BY SameFingerprint
  <1>5. CASE minirun_id(k) = minirun_id(hash)
    <2>1. ASSUME NEW j \in T PROVE at <= j
      <3>1. j \in U \ qf.extensions /\ h[j] = bucket(hash) /\ get_slot(qf, j) = remainder(hash) /\ j \in Nat
        BY <1>1, <1>4, <1>5, <2>1 DEF Minirun, Items
      <3>2. qf.slots[j] = remainder(hash) /\ qf.slots[j] \in Nat
        BY <1>1, <3>1, SlotRead
      <3>3. ~(qf.slots[j] < remainder(hash))
        BY <3>2
      <3>. QED
        BY <1>1, <3>1, <3>3 DEF Splits
    <2>2. \A i : i \in T2 <=> i = at \/ \E j \in T : i = Up(at, u, j)
      BY <1>3, <1>4, <1>5
    <2>. HIDE DEF T, T2
    <2>3. Lists(Fronted(at, u, e, n), n + 1, T2)
      BY <1>1, <1>2, <2>1, <2>2, ListFronted
    <2>. QED
      BY <1>5, <2>3 DEF T2
  <1>6. CASE minirun_id(k) # minirun_id(hash)
    <2>1. \A i : i \in T2 <=> \E j \in T : i = Up(at, u, j)
      BY <1>3, <1>4, <1>6
    <2>. HIDE DEF T, T2
    <2>2. Lists(Shoved(at, u, e, n), n, T2)
      BY <1>1, <1>2, <2>1, ListShoved
    <2>. QED
      BY <1>6, <2>2 DEF T2
  <1>. QED
    BY <1>5, <1>6

\* An item of a filter in which nothing is extended.
Plain(max) == [ext_len |-> 0, count |-> 1, ext |-> [j \in 1 .. max |-> 0]]

\* So all of them look.
LEMMA ItemPlain ==
    ASSUME NEW qf, NEW U, NEW h, Shaped(qf, U, h), Fits(U), qf.extensions = {}, NEW i \in U, NEW max \in Nat
    PROVE  ItemAt(qf, i, max) = Plain(max)
  <1>1. Counted(qf) /\ i \in Nat
    BY HomedTypes DEF Shaped, Counted
  <1>2. Spans(qf, i, 0, 0)
    BY <1>1 DEF Spans
  <1>3. Holds(qf, i, 0, 0, max, ItemAt(qf, i, max))
    BY <1>1, <1>2, ItemRead
  <1>4. [j \in 1 .. max |-> IF j <= 0 THEN qf.slots[i + j] ELSE 0] = [j \in 1 .. max |-> 0]
    <2>1. \A j \in 1 .. max : ~(j <= 0)
      OBVIOUS
    <2>. QED
      BY <2>1
  <1>. QED
    BY <1>3, <1>4 DEF Holds, Plain

-----------------------------------------------------------------------------
(***************************************************************************)
(* Chunks tell hashes apart                                                *)
(***************************************************************************)
\* A number is one multiple and one remainder.
LEMMA OneRemainder ==
    ASSUME NEW n \in Nat \ {0}, NEW q \in Nat, NEW r \in Nat, r < n,
           NEW p \in Nat, NEW t \in Nat, t < n, r + n * q = t + n * p
    PROVE  r = t /\ q = p
  <1>1. n * q \in Nat /\ n * p \in Nat
    BY Products
  <1>2. PICK s \in Nat : s = n * q + r /\ s = n * p + t
    <2>. DEFINE v == n * q
                w == n * p
    <2>1. v \in Nat /\ w \in Nat /\ r + v = t + w
      BY <1>1
    <2>. HIDE DEF v, w
    <2>2. v + r \in Nat /\ v + r = w + t
      BY <2>1
    <2>. QED
      BY <2>2 DEF v, w
  <1>3. s \div n = q /\ s % n = r
    BY <1>2, ModUnique
  <1>4. s \div n = p /\ s % n = t
    BY <1>2, ModUnique
  <1>. QED
    BY <1>3, <1>4

\* The d-th digit of y.
DigitOf(y, d) == (y \div 2 ^ (BitsPerSlot * d)) % 2 ^ BitsPerSlot

\* The first digit and the rest determine each other.
LEMMA DigitSplit ==
    ASSUME NEW y \in Nat, NEW z \in Nat, NEW d \in Nat, NEW e \in Nat
    PROVE  DigitsOf(y, d, e + 1) = DigitsOf(z, d, e + 1)
             <=> DigitOf(y, d) = DigitOf(z, d) /\ DigitsOf(y, d + 1, e) = DigitsOf(z, d + 1, e)
  <1>. DEFINE P == 2 ^ BitsPerSlot
              a == DigitOf(y, d)
              b == DigitOf(z, d)
              Y == DigitsOf(y, d + 1, e)
              Z == DigitsOf(z, d + 1, e)
  <1>1. P \in Nat \ {0}
    BY GQFAssumption, PowerOfTwo
  <1>2. ASSUME NEW x \in Nat, NEW i \in Nat, NEW k \in Nat
        PROVE  (x \div 2 ^ (BitsPerSlot * i)) % 2 ^ (BitsPerSlot * k) \in Nat
    <2>1. BitsPerSlot * i \in Nat /\ BitsPerSlot * k \in Nat
      BY Exponents
    <2>2. 2 ^ (BitsPerSlot * i) \in Nat \ {0} /\ 2 ^ (BitsPerSlot * k) \in Nat \ {0}
      BY <2>1, PowerOfTwo
    <2>. DEFINE A == 2 ^ (BitsPerSlot * i)
                B == 2 ^ (BitsPerSlot * k)
    <2>. HIDE DEF A, B
    <2>3. A \in Nat \ {0} /\ B \in Nat \ {0}
      BY <2>2 DEF A, B
    <2>4. x \div A \in Nat
      BY <2>3, DivFacts
    <2>5. (x \div A) % B \in 0 .. B - 1
      BY <2>3, <2>4, DivFacts
    <2>6. (x \div A) % B \in Nat
      BY <2>3, <2>5
    <2>. QED
      BY <2>6 DEF A, B
  <1>3. Y \in Nat /\ Z \in Nat
    <2>1. d + 1 \in Nat
      OBVIOUS
    <2>. DEFINE i == d + 1
    <2>2. i \in Nat /\ Y = DigitsOf(y, i, e) /\ Z = DigitsOf(z, i, e)
      BY <2>1
    <2>. HIDE DEF i, Y, Z
    <2>. QED
      BY <1>2, <2>2 DEF DigitsOf
  <1>4. ASSUME NEW x \in Nat
        PROVE  DigitOf(x, d) \in 0 .. P - 1
    <2>1. 2 ^ (BitsPerSlot * d) \in Nat \ {0}
      BY Exponents, PowerOfTwo
    <2>. DEFINE A == 2 ^ (BitsPerSlot * d)
    <2>. HIDE DEF P
    <2>2. x \div A \in Nat
      BY <2>1, DivFacts
    <2>3. (x \div A) % P \in 0 .. P - 1
      BY <1>1, <2>2, DivFacts
    <2>. QED
      BY <2>3 DEF DigitOf, P
  <1>5. a \in Nat /\ b \in Nat /\ a < P /\ b < P
    <2>1. a \in 0 .. P - 1 /\ b \in 0 .. P - 1
      BY <1>4
    <2>. HIDE DEF P
    <2>. QED
      BY <1>1, <2>1
  <1>6. DigitsOf(y, d, e + 1) = a + P * Y /\ DigitsOf(z, d, e + 1) = b + P * Z
    BY DigitsStep DEF DigitOf
  <1>. HIDE DEF P, Y, Z, a, b
  <1>7. ASSUME a + P * Y = b + P * Z PROVE a = b /\ Y = Z
    BY <1>1, <1>3, <1>5, <1>7, OneRemainder
  <1>. QED
    BY <1>6, <1>7 DEF Y, Z, a, b

\* Hashes have the same extension of a length exactly if they have the same
\* chunks up to it.
LEMMA SameExt ==
    ASSUME NEW key \in Nat, NEW other \in Nat, NEW l \in Nat
    PROVE  hash_ext(key, l) = hash_ext(other, l) <=> \A d \in 0 .. l - 1 : chunk(key, d) = chunk(other, d)
  <1>. DEFINE y == key \div 2 ^ (QuotientBits + BitsPerSlot)
              z == other \div 2 ^ (QuotientBits + BitsPerSlot)
              Same(d) == DigitsOf(y, d, l - d) = DigitsOf(z, d, l - d)
  <1>1. /\ y \in Nat /\ z \in Nat
        /\ \A d \in Nat : /\ chunk(key, d) = (y \div 2 ^ (BitsPerSlot * d)) % 2 ^ BitsPerSlot
                          /\ chunk(other, d) = (z \div 2 ^ (BitsPerSlot * d)) % 2 ^ BitsPerSlot
    <2>1. y \in Nat /\ z \in Nat
      BY ChunkDigit
    <2>2. ASSUME NEW d \in Nat
          PROVE  /\ chunk(key, d) = (y \div 2 ^ (BitsPerSlot * d)) % 2 ^ BitsPerSlot
                 /\ chunk(other, d) = (z \div 2 ^ (BitsPerSlot * d)) % 2 ^ BitsPerSlot
      BY ChunkDigit
    <2>. QED
      BY <2>1, <2>2
  <1>2. hash_ext(key, l) = hash_ext(other, l) <=> Same(0)
    <2>1. hash_ext(key, l) = y % 2 ^ (BitsPerSlot * l) /\ hash_ext(other, l) = z % 2 ^ (BitsPerSlot * l)
      BY DEF hash_ext
    <2>2. l - 0 = l
      OBVIOUS
    <2>3. DigitsOf(y, 0, l) = y % 2 ^ (BitsPerSlot * l) /\ DigitsOf(z, 0, l) = z % 2 ^ (BitsPerSlot * l)
      <3>1. 0 \in Nat
        OBVIOUS
      <3>. HIDE DEF y, z
      <3>. QED
        BY <1>1, <3>1, DigitsStep
    <2>. QED
      BY <2>1, <2>2, <2>3
  <1>. HIDE DEF y, z
  <1>3. Same(l)
    <2>1. l - l = 0
      OBVIOUS
    <2>2. DigitsOf(y, l, 0) = 0 /\ DigitsOf(z, l, 0) = 0
      BY <1>1, DigitsStep
    <2>. QED
      BY <2>1, <2>2
  <1>4. ASSUME NEW d \in 0 .. l - 1
        PROVE  Same(d) <=> chunk(key, d) = chunk(other, d) /\ Same(d + 1)
    <2>1. d \in Nat /\ l - (d + 1) \in Nat /\ (l - (d + 1)) + 1 = l - d
      OBVIOUS
    <2>. DEFINE e == l - (d + 1)
    <2>2. e \in Nat /\ e + 1 = l - d
      BY <2>1
    <2>. HIDE DEF e
    <2>3. chunk(key, d) = DigitOf(y, d) /\ chunk(other, d) = DigitOf(z, d)
      BY <1>1, <2>1 DEF DigitOf
    <2>. HIDE DEF Same
    <2>4. DigitsOf(y, d, e + 1) = DigitsOf(z, d, e + 1)
            <=> DigitOf(y, d) = DigitOf(z, d) /\ DigitsOf(y, d + 1, e) = DigitsOf(z, d + 1, e)
      <3>. DEFINE Split(p, q, i, j) == DigitsOf(p, i, j + 1) = DigitsOf(q, i, j + 1)
                     <=> DigitOf(p, i) = DigitOf(q, i) /\ DigitsOf(p, i + 1, j) = DigitsOf(q, i + 1, j)
      <3>1. \A p, q, i, j \in Nat : Split(p, q, i, j)
        BY DigitSplit
      <3>. HIDE DEF Split
      <3>2. Split(y, z, d, e)
        BY <1>1, <2>1, <2>2, <3>1
      <3>. QED
        BY <3>2 DEF Split
    <2>. QED
      BY <2>2, <2>3, <2>4 DEF e, Same
  <1>. HIDE DEF Same
  <1>5. ASSUME Same(0) PROVE \A d \in 0 .. l - 1 : chunk(key, d) = chunk(other, d)
    <2>. DEFINE Bad == {d \in 0 .. l : ~Same(d)}
    <2>1. Bad = {}
      <3>1. SUFFICES ASSUME Bad # {} PROVE FALSE
        OBVIOUS
      <3>2. PICK d \in Bad : \A k \in Bad : d <= k
        <4>1. Bad \in SUBSET Nat
          OBVIOUS
        <4>. HIDE DEF Bad
        <4>. QED
          BY <3>1, <4>1, SmallestNat
      <3>3. d \in 0 .. l /\ ~Same(d) /\ d # 0
        BY <1>5, <3>2
      <3>4. d - 1 \in 0 .. l - 1 /\ d - 1 \in 0 .. l /\ ~(d <= d - 1) /\ (d - 1) + 1 = d
        BY <3>3
      <3>5. Same(d - 1)
        BY <3>2, <3>4
      <3>6. Same((d - 1) + 1)
        BY <1>4, <3>4, <3>5
      <3>. QED
        BY <3>3, <3>4, <3>6
    <2>2. ASSUME NEW d \in 0 .. l - 1 PROVE Same(d)
      <3>1. d \in 0 .. l
        OBVIOUS
      <3>. QED
        BY <2>1, <3>1
    <2>. QED
      BY <1>4, <2>2
  <1>6. ASSUME \A d \in 0 .. l - 1 : chunk(key, d) = chunk(other, d) PROVE Same(0)
    <2>. DEFINE Bad == {e \in 0 .. l : ~Same(l - e)}
    <2>1. Bad = {}
      <3>1. SUFFICES ASSUME Bad # {} PROVE FALSE
        OBVIOUS
      <3>2. PICK e \in Bad : \A k \in Bad : e <= k
        <4>1. Bad \in SUBSET Nat
          OBVIOUS
        <4>. HIDE DEF Bad
        <4>. QED
          BY <3>1, <4>1, SmallestNat
      <3>3. e \in 0 .. l /\ ~Same(l - e)
        BY <3>2
      <3>4. e # 0
        <4>1. l - 0 = l
          OBVIOUS
        <4>. QED
          BY <1>3, <3>3, <4>1
      <3>5. /\ e - 1 \in 0 .. l /\ ~(e <= e - 1) /\ l - (e - 1) = (l - e) + 1
            /\ l - e \in 0 .. l - 1
        BY <3>3, <3>4
      <3>6. Same(l - (e - 1))
        BY <3>2, <3>5
      <3>7. Same((l - e) + 1) /\ chunk(key, l - e) = chunk(other, l - e)
        BY <1>6, <3>5, <3>6
      <3>8. Same(l - e)
        BY <1>4, <3>5, <3>7
      <3>. QED
        BY <3>3, <3>8
    <2>2. l \in 0 .. l /\ l - l = 0
      OBVIOUS
    <2>. QED
      BY <2>1, <2>2
  <1>. QED
    BY <1>2, <1>5, <1>6

\* The chunks that a hash has above its fingerprint.
HashChunks == (HashBits - QuotientBits - 1) \div BitsPerSlot

\* There is one at least, and they are those that begin within the hash.
LEMMA ChunksOfHash ==
    /\ HashChunks \in Nat \ {0}
    /\ \A l \in Nat : HashChunks <= l <=> QuotientBits + BitsPerSlot * (l + 1) >= HashBits
  <1>. DEFINE n == BitsPerSlot
              s == HashBits - QuotientBits - 1
              M == s \div n
              r == s % n
              p == n * M
  <1>1. n \in Nat \ {0} /\ QuotientBits \in Nat /\ HashBits \in Nat /\ s \in Nat /\ n <= s
    BY GQFAssumption
  <1>2. M \in Nat /\ r \in 0 .. n - 1 /\ s = p + r
    <2>. HIDE DEF n, s
    <2>. QED
      BY <1>1, DivFacts
  <1>3. HashChunks = M
    BY DEF HashChunks
  <1>4. p \in Nat /\ \A m \in Nat : /\ n * m \in Nat /\ n * (m + 1) = n + n * m
                                    /\ M <= m => p <= n * m
                                    /\ m <= M => n * m <= p
    <2>. HIDE DEF M
    <2>. QED
      BY <1>2, Exponents
  <1>. HIDE DEF M, r, p
  <1>5. M # 0
    <2>1. CASE M = 0
      <3>1. p = 0
        BY <1>1, <2>1 DEF p
      <3>2. FALSE
        <4>. HIDE DEF n, s
        <4>. QED
          BY <1>1, <1>2, <3>1
      <3>. QED
        BY <3>2
    <2>. QED
      BY <2>1
  <1>6. ASSUME NEW l \in Nat
        PROVE  M <= l <=> QuotientBits + n * (l + 1) >= HashBits
    <2>. DEFINE a == n * l
                b == n * (l + 1)
    <2>1. a \in Nat /\ b \in Nat /\ b = n + a
      BY <1>4
    <2>2. CASE M <= l
      <3>1. p <= a
        BY <1>4, <2>2
      <3>. HIDE DEF a, b, n
      <3>2. QuotientBits + b >= HashBits
        BY <1>1, <1>2, <1>4, <2>1, <3>1
      <3>. QED
        BY <2>2, <3>2 DEF b
    <2>3. CASE ~(M <= l)
      <3>1. l + 1 \in Nat /\ l + 1 <= M
        BY <1>2, <2>3
      <3>2. b <= p
        BY <1>4, <3>1
      <3>. HIDE DEF a, b, n
      <3>3. ~(QuotientBits + b >= HashBits)
        BY <1>1, <1>2, <1>4, <2>1, <3>2
      <3>. QED
        BY <2>3, <3>3 DEF b
    <2>. QED
      BY <2>2, <2>3
  <1>. QED
    BY <1>2, <1>3, <1>5, <1>6

\* Below 2 ^ (a + b), nothing is above the first a bits but b more.
LEMMA HighBits ==
    ASSUME NEW x \in Nat, NEW a \in Nat, NEW b \in Nat, NEW c \in Nat, c <= a + b, x < 2 ^ c
    PROVE  (x \div 2 ^ a) % 2 ^ b = x \div 2 ^ a
  <1>. DEFINE A == 2 ^ a
              B == 2 ^ b
              C == 2 ^ c
              D == 2 ^ (a + b)
              y == x \div A
              w == y \div B
              v == y % B
  <1>1. A \in Nat \ {0} /\ B \in Nat \ {0} /\ C \in Nat \ {0} /\ D \in Nat \ {0} /\ C <= D /\ D = A * B
    BY PowerOfTwo, PowerGrows, PowerSum
  <1>2. x < D
    <2>. HIDE DEF C, D
    <2>. QED
      BY <1>1 DEF C
  <1>. HIDE DEF A, B, C, D
  <1>3. y \in Nat /\ w \in Nat /\ v \in 0 .. B - 1 /\ y = B * w + v
    <2>1. y \in Nat
      BY <1>1, DivFacts
    <2>. HIDE DEF y
    <2>. QED
      BY <1>1, <2>1, DivFacts
  <1>4. w = x \div D
    BY <1>1, DivTwice
  <1>5. w = 0
    <2>1. D * 0 + x = x /\ D * 0 = 0
      BY <1>1
    <2>2. x \div D = 0
      BY <1>1, <1>2, <2>1, ModUnique
    <2>. QED
      BY <1>4, <2>2
  <1>6. B * w = 0
    BY <1>1, <1>5
  <1>. DEFINE p == B * w
  <1>7. p = 0 /\ y = p + v
    BY <1>3, <1>6
  <1>. HIDE DEF y, w, v, p
  <1>8. y = v
    BY <1>1, <1>3, <1>7
  <1>. QED
    BY <1>8 DEF y, v, A, B

\* A hash is its fingerprint and its chunks.
LEMMA HashesDiffer ==
    ASSUME NEW key \in Nat, key < 2 ^ HashBits, NEW other \in Nat, other < 2 ^ HashBits,
           minirun_id(key) = minirun_id(other),
           \A d \in 0 .. HashChunks - 1 : chunk(key, d) = chunk(other, d)
    PROVE  key = other
  <1>. DEFINE a == QuotientBits + BitsPerSlot
              b == BitsPerSlot * HashChunks
              A == 2 ^ a
  <1>1. a \in Nat /\ b \in Nat /\ HashBits \in Nat /\ HashBits <= a + b
    <2>1. HashChunks \in Nat /\ QuotientBits + BitsPerSlot * (HashChunks + 1) >= HashBits
      BY ChunksOfHash
    <2>2. QuotientBits \in Nat /\ BitsPerSlot \in Nat /\ HashBits \in Nat
      BY GQFAssumption
    <2>3. b \in Nat /\ BitsPerSlot * (HashChunks + 1) = BitsPerSlot + b
      BY <2>1, Exponents
    <2>. HIDE DEF b
    <2>. QED
      BY <2>1, <2>2, <2>3
  <1>2. A \in Nat \ {0}
    BY <1>1, PowerOfTwo
  <1>3. hash_ext(key, HashChunks) = hash_ext(other, HashChunks)
    BY ChunksOfHash, SameExt
  <1>4. hash_ext(key, HashChunks) = key \div A /\ hash_ext(other, HashChunks) = other \div A
    <2>1. ASSUME NEW x \in Nat, x < 2 ^ HashBits PROVE (x \div 2 ^ a) % 2 ^ b = x \div 2 ^ a
      <3>. HIDE DEF a, b
      <3>. QED
        BY <1>1, <2>1, HighBits
    <2>. QED
      BY <2>1 DEF hash_ext
  <1>5. key % A = other % A
    BY DEF minirun_id
  <1>6. key \div A = other \div A
    BY <1>3, <1>4
  <1>. HIDE DEF A
  <1>7. key = A * (key \div A) + (key % A) /\ other = A * (other \div A) + (other % A)
    BY <1>2, DivFacts
  <1>. QED
    BY <1>5, <1>6, <1>7

\* Where extending stops: at the first chunk that tells the keys apart.
FirstApart(key, other, l, n) ==
    /\ n \in l + 1 .. HashChunks
    /\ chunk(key, n - 1) # chunk(other, n - 1)
    /\ \A j \in l + 1 .. n - 1 : chunk(key, j - 1) = chunk(other, j - 1)

(***************************************************************************)
(* The loop of an adaptation, which compares extensions under a mask,      *)
(* stops at the first chunk that tells two hashes of one fingerprint and   *)
(* extension apart, and there is one within the hash.                      *)
(***************************************************************************)
THEOREM RoundsIs ==
    ASSUME NEW key \in Nat, key < 2 ^ HashBits, NEW other \in Nat, other < 2 ^ HashBits,
           minirun_id(key) = minirun_id(other), key # other,
           NEW info, info.ext_len \in Nat,
           \A d \in 0 .. info.ext_len - 1 : chunk(key, d) = chunk(other, d)
    PROVE  FirstApart(key, other, info.ext_len, info.ext_len + Rounds(info, key, other))
  <1>. DEFINE l == info.ext_len
              Bad == {d \in 0 .. HashChunks - 1 : chunk(key, d) # chunk(other, d)}
  <1>0. HashChunks \in Nat
    BY ChunksOfHash
  <1>1. Bad # {}
    BY HashesDiffer
  <1>2. PICK d \in Bad : \A k \in Bad : d <= k
    <2>1. Bad \in SUBSET Nat
      BY <1>0
    <2>. HIDE DEF Bad
    <2>. QED
      BY <1>1, <2>1, SmallestNat
  <1>3. /\ d \in Nat /\ d < HashChunks /\ chunk(key, d) # chunk(other, d) /\ l <= d
        /\ \A e \in 0 .. d - 1 : chunk(key, e) = chunk(other, e)
    <2>1. d \in 0 .. HashChunks - 1 /\ chunk(key, d) # chunk(other, d)
      BY <1>2
    <2>2. ~(d \in 0 .. l - 1)
      BY <2>1
    <2>3. ASSUME NEW e \in 0 .. d - 1, chunk(key, e) # chunk(other, e) PROVE FALSE
      <3>1. e \in Bad /\ ~(d <= e)
        BY <1>0, <2>1, <2>3
      <3>. QED
        BY <1>2, <3>1
    <2>. QED
      BY <1>0, <2>1, <2>2, <2>3
  <1>. HIDE DEF Bad
  <1>4. Rounds(info, key, other) = d - l + 1
    <2>. DEFINE i0 == d - l + 1
                S == {i \in 1 .. HashBits :
                        \/ chunk(key, l + i - 1) # chunk(other, l + i - 1)
                        \/ QuotientBits + BitsPerSlot * (l + i + 1) >= HashBits}
    <2>1. HashBits \in Nat /\ i0 \in Nat /\ 1 <= i0 /\ l + i0 - 1 = d
      BY <1>3, GQFAssumption
    <2>2. i0 <= HashBits
      <3>1. d \in Nat /\ QuotientBits \in Nat /\ BitsPerSlot * (d + 1) \in Nat /\ d + 1 <= BitsPerSlot * (d + 1)
        BY <1>3, Exponents, GQFAssumption
      <3>2. ~(QuotientBits + BitsPerSlot * (d + 1) >= HashBits)
        BY <1>0, <1>3, ChunksOfHash
      <3>. DEFINE p == BitsPerSlot * (d + 1)
      <3>. HIDE DEF p
      <3>3. d + 1 <= p /\ p \in Nat /\ ~(QuotientBits + p >= HashBits)
        BY <3>1, <3>2 DEF p
      <3>. QED
        BY <2>1, <3>1, <3>3
    <2>3. i0 \in S
      BY <1>3, <2>1, <2>2
    <2>4. ASSUME NEW i \in S PROVE i0 <= i
      <3>1. i \in Nat /\ 1 <= i
        OBVIOUS
      <3>2. CASE chunk(key, l + i - 1) # chunk(other, l + i - 1)
        <4>1. ~(l + i - 1 \in 0 .. d - 1)
          BY <1>3, <3>2
        <4>. QED
          BY <1>3, <3>1, <4>1
      <3>3. CASE QuotientBits + BitsPerSlot * (l + i + 1) >= HashBits
        <4>1. l + i \in Nat
          BY <3>1
        <4>2. HashChunks <= l + i
          BY <3>3, <4>1, ChunksOfHash
        <4>. QED
          BY <1>0, <1>3, <3>1, <4>2
      <3>. QED
        BY <3>2, <3>3
    <2>5. S \in SUBSET Int
      BY <2>1
    <2>6. Rounds(info, key, other) = Min(S)
      BY DEF Rounds
    <2>. HIDE DEF S, i0
    <2>7. Min(S) = i0
      BY <2>3, <2>4, <2>5, MinIs
    <2>. QED
      BY <2>6, <2>7 DEF i0
  <1>5. l + (d - l + 1) = d + 1
    BY <1>3
  <1>6. FirstApart(key, other, l, d + 1)
    <2>1. d + 1 \in l + 1 .. HashChunks /\ (d + 1) - 1 = d
      BY <1>0, <1>3
    <2>2. ASSUME NEW j \in l + 1 .. (d + 1) - 1 PROVE chunk(key, j - 1) = chunk(other, j - 1)
      <3>1. j - 1 \in 0 .. d - 1
        BY <1>3
      <3>. QED
        BY <1>3, <3>1
    <2>. QED
      BY <1>3, <2>1, <2>2 DEF FirstApart
  <1>. QED
    BY <1>4, <1>5, <1>6

\* Whether a hash has the item's chunks is read off the item.
LEMMA MatchesExtends ==
    ASSUME NEW qf, NEW U, NEW h, Shaped(qf, U, h), Fits(U), Counted(qf), NEW j \in U,
           NEW key \in Nat, Carries(qf, j, key), NEW hash \in Nat, NEW max \in Nat,
           NEW y, y = ItemAt(qf, j, max), y.ext_len <= max
    PROVE  /\ y.ext_len \in Nat
           /\ Extends(qf, hash, j) <=> \A d \in 0 .. y.ext_len - 1 : chunk(hash, d) = chunk(key, d)
           /\ \A d \in 1 .. y.ext_len : d \in 1 .. max /\ y.ext[d] = chunk(key, d - 1)
  <1>. DEFINE info == get_slot_info(qf, j)
              l == info.ext_len
              c == info.count_len
  <1>1. j \in Nat /\ U \in SUBSET Nat /\ qf.extensions \in SUBSET U
    BY HomedTypes DEF Shaped
  <1>2. Spans(qf, j, l, c)
    BY SpanRead
  <1>3. Holds(qf, j, l, c, max, y)
    <2>. HIDE DEF l, c
    <2>. QED
      BY <1>2, ItemRead
  <1>4. l \in Nat /\ y.ext_len = l /\ l <= max
    BY <1>2, <1>3 DEF Spans, Holds
  <1>5. Extends(qf, key, j)
    BY CarriesExtends
  <1>6. Extends(qf, hash, j) <=> hash_ext(hash, l) = hash_ext(key, l)
    BY <1>5 DEF Extends
  <1>7. Extends(qf, hash, j) <=> \A d \in 0 .. l - 1 : chunk(hash, d) = chunk(key, d)
    <2>. HIDE DEF l
    <2>. QED
      BY <1>4, <1>6, SameExt
  <1>8. ASSUME NEW d \in 1 .. l PROVE d \in 1 .. max /\ y.ext[d] = chunk(key, d - 1)
    <2>. HIDE DEF l, c
    <2>. DEFINE s == j + d
    <2>1. d \in 1 .. max /\ s \in Nat /\ j < s /\ s <= j + l /\ s - j - 1 = d - 1
      BY <1>1, <1>4
    <2>2. y.ext[d] = qf.slots[s]
      BY <1>3, <1>4, <2>1 DEF Holds
    <2>3. ChunkTo(qf, j, s)
      <3>1. ASSUME NEW k \in Nat, j < k, k <= s PROVE k \in qf.extensions \ qf.runends
        <4>1. k <= j + l
          BY <1>1, <1>4, <2>1, <3>1
        <4>. QED
          BY <1>2, <3>1, <4>1 DEF Spans
      <3>. QED
        BY <2>1, <3>1 DEF ChunkTo
    <2>4. qf.slots[s] = chunk(key, s - j - 1)
      BY <2>1, <2>3 DEF Carries
    <2>. QED
      BY <2>1, <2>2, <2>4
  <1>. QED
    BY <1>4, <1>7, <1>8
=============================================================================
