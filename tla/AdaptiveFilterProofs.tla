------------------------ MODULE AdaptiveFilterProofs ------------------------
(***************************************************************************)
(* AdaptiveFilter keeps its promises for every set of keys, every policy,  *)
(* every reverse map and every size.                                       *)
(*                                                                         *)
(* The inductive invariant is TypeOK /\ RankTie.  NoFalseNegative alone is *)
(* not inductive: adapting extends an item with the chunks of the key the  *)
(* reverse map holds at its rank, so nothing is lost only because RankTie  *)
(* says that this is a key the item matched before.                        *)
(***************************************************************************)
EXTENDS AdaptiveFilter, TLAPS, SequenceTheorems

IInv == TypeOK /\ RankTie

\* A sequence with an element put in front.
LEMMA PrependFacts ==
    ASSUME NEW S, NEW s \in Seq(S), NEW e \in S
    PROVE  /\ <<e>> \o s \in Seq(S)
           /\ Len(<<e>> \o s) = Len(s) + 1
           /\ (<<e>> \o s)[1] = e
           /\ \A i \in 1 .. Len(s) : (<<e>> \o s)[i + 1] = s[i]
  <1>1. <<e>> \in Seq(S) /\ Len(<<e>>) = 1 /\ <<e>>[1] = e
    OBVIOUS
  <1>2. /\ <<e>> \o s \in Seq(S)
        /\ Len(<<e>> \o s) = 1 + Len(s)
        /\ \A i \in 1 .. Len(<<e>>) + Len(s) :
              (<<e>> \o s)[i] = IF i <= Len(<<e>>) THEN <<e>>[i] ELSE s[i - Len(<<e>>)]
    BY <1>1, ConcatProperties
  <1>3. Len(s) \in Nat
    BY LenProperties
  <1>. QED
    BY <1>1, <1>2, <1>3

\* A new item is an item, and no key fails to match it.
LEMMA NewItemFacts ==
    /\ NewItem \in Items
    /\ NewItem.ext_len = 0
    /\ \A k \in Keys : Matches(NewItem, k)
  BY AFAssumption DEF NewItem, Items, Matches

\* A charged item is an item that matches the same keys.
LEMMA ChargedFacts ==
    ASSUME NEW item \in Items, item.count = 1
    PROVE  /\ Charged(item) \in Items
           /\ \A k \in Keys : Matches(Charged(item), k) <=> Matches(item, k)
  BY DEF Charged, Items, Matches

\* Extending an item up to length n yields an item, one that the key whose
\* chunks were appended still matches and that no new key matches.
LEMMA ExtendedFacts ==
    ASSUME NEW item \in Items, NEW orig \in Keys, NEW n \in item.ext_len + 1 .. MaxExt
    PROVE  /\ Extended(item, orig, n) \in Items
           /\ Matches(item, orig) => Matches(Extended(item, orig, n), orig)
           /\ \A k \in Keys : Matches(Extended(item, orig, n), k) => Matches(item, k)
  <1>1. /\ MaxExt \in Nat
        /\ item.ext_len \in 0 .. MaxExt
        /\ item.ext \in [1 .. MaxExt -> Chunks]
        /\ ChunkOf[orig] \in [1 .. MaxExt -> Chunks]
        /\ n \in 0 .. MaxExt
    BY AFAssumption DEF Items
  <1>2. Extended(item, orig, n) \in Items
    BY <1>1 DEF Extended, Items
  <1>3. \A j \in 1 .. n : Extended(item, orig, n).ext[j]
            = IF item.ext_len < j THEN ChunkOf[orig][j] ELSE item.ext[j]
    BY <1>1 DEF Extended
  <1>4. Extended(item, orig, n).ext_len = n
    BY DEF Extended
  <1>5. Matches(item, orig) => Matches(Extended(item, orig, n), orig)
    BY <1>1, <1>3, <1>4 DEF Matches
  <1>6. \A k \in Keys : Matches(Extended(item, orig, n), k) => Matches(item, k)
    BY <1>1, <1>3, <1>4 DEF Matches
  <1>. QED
    BY <1>2, <1>5, <1>6

-----------------------------------------------------------------------------
\* What the three actions that change an item have in common: position i of
\* fingerprint f gets another item.
LEMMA ReplaceFacts ==
    ASSUME TypeOK, NEW f \in Fps, NEW i \in DOMAIN miniruns[f], NEW e \in Items,
           miniruns' = [miniruns EXCEPT ![f][i] = e]
    PROVE  /\ miniruns' \in [Fps -> Seq(Items)]
           /\ \A g \in Fps : DOMAIN miniruns'[g] = DOMAIN miniruns[g]
           /\ \A g \in Fps : Len(miniruns'[g]) = Len(miniruns[g])
           /\ \A g \in Fps : \A j \in DOMAIN miniruns[g] :
                  miniruns'[g][j] = IF g = f /\ j = i THEN e ELSE miniruns[g][j]
  <1>1. miniruns \in [Fps -> Seq(Items)]
    BY DEF TypeOK
  <1>2. miniruns' = [miniruns EXCEPT ![f] = [miniruns[f] EXCEPT ![i] = e]]
    OBVIOUS
  <1>3. /\ [miniruns[f] EXCEPT ![i] = e] \in Seq(Items)
        /\ Len([miniruns[f] EXCEPT ![i] = e]) = Len(miniruns[f])
        /\ DOMAIN [miniruns[f] EXCEPT ![i] = e] = DOMAIN miniruns[f]
    BY <1>1, ExceptSeq
  <1>. QED
    BY <1>1, <1>2, <1>3

\* An insertion makes the minirun and the keys of its fingerprint one longer,
\* and the inserted key is one of those keys.
LEMMA InsertFacts ==
    ASSUME TypeOK, NEW k \in Keys, Insert(k)
    PROVE  LET f == FpOf[k] IN
           /\ f \in Fps
           /\ <<NewItem>> \o miniruns[f] \in Seq(Items)
           /\ Len(<<NewItem>> \o miniruns[f]) = Len(miniruns[f]) + 1
           /\ (<<NewItem>> \o miniruns[f])[1] = NewItem
           /\ \A i \in 1 .. Len(miniruns[f]) :
                  (<<NewItem>> \o miniruns[f])[i + 1] = miniruns[f][i]
           /\ \E t \in Seq(Keys) :
                  /\ reverseMap' = [reverseMap EXCEPT ![f] = t]
                  /\ Len(t) = Len(reverseMap[f]) + 1
                  /\ \E i \in 1 .. Len(t) : t[i] = k
                  /\ \A i \in 1 .. Len(t) : t[i] = k \/ \E j \in 1 .. Len(reverseMap[f]) : t[i] = reverseMap[f][j]
                  /\ \A j \in 1 .. Len(reverseMap[f]) : \E i \in 1 .. Len(t) : t[i] = reverseMap[f][j]
  <1>. DEFINE f == FpOf[k]
              m == miniruns[f]
              r == reverseMap[f]
              p == <<k>> \o r
              q == Append(r, k)
  <1>1. f \in Fps /\ m \in Seq(Items) /\ r \in Seq(Keys)
    BY AFAssumption DEF TypeOK
  <1>2. /\ <<NewItem>> \o m \in Seq(Items)
        /\ Len(<<NewItem>> \o m) = Len(m) + 1
        /\ (<<NewItem>> \o m)[1] = NewItem
        /\ \A i \in 1 .. Len(m) : (<<NewItem>> \o m)[i + 1] = m[i]
    BY <1>1, NewItemFacts, PrependFacts
  <1>3. /\ p \in Seq(Keys) /\ Len(p) = Len(r) + 1 /\ p[1] = k
        /\ \A i \in 1 .. Len(r) : p[i + 1] = r[i]
    BY <1>1, PrependFacts
  <1>4. /\ q \in Seq(Keys) /\ Len(q) = Len(r) + 1 /\ q[Len(r) + 1] = k
        /\ \A i \in 1 .. Len(r) : q[i] = r[i]
    BY <1>1, AppendProperties
  <1>5. Len(r) \in Nat
    BY <1>1, LenProperties
  <1>6. \/ reverseMap' = [reverseMap EXCEPT ![f] = p]
        \/ reverseMap' = [reverseMap EXCEPT ![f] = q]
    BY DEF Insert
  <1>7. /\ \E i \in 1 .. Len(p) : p[i] = k
        /\ \A i \in 1 .. Len(p) : p[i] = k \/ \E j \in 1 .. Len(r) : p[i] = r[j]
        /\ \A j \in 1 .. Len(r) : \E i \in 1 .. Len(p) : p[i] = r[j]
    <2>1. \A i \in 1 .. Len(p) : i = 1 \/ (i - 1 \in 1 .. Len(r) /\ p[i] = r[i - 1])
      BY <1>3, <1>5
    <2>2. \A j \in 1 .. Len(r) : j + 1 \in 1 .. Len(p) /\ p[j + 1] = r[j]
      BY <1>3, <1>5
    <2>3. 1 \in 1 .. Len(p)
      BY <1>3, <1>5
    <2>. HIDE DEF p
    <2>. QED
      BY <1>3, <2>1, <2>2, <2>3
  <1>8. /\ \E i \in 1 .. Len(q) : q[i] = k
        /\ \A i \in 1 .. Len(q) : q[i] = k \/ \E j \in 1 .. Len(r) : q[i] = r[j]
        /\ \A j \in 1 .. Len(r) : \E i \in 1 .. Len(q) : q[i] = r[j]
    <2>1. \A i \in 1 .. Len(q) : i = Len(r) + 1 \/ (i \in 1 .. Len(r) /\ q[i] = r[i])
      BY <1>4, <1>5
    <2>2. \A j \in 1 .. Len(r) : j \in 1 .. Len(q) /\ q[j] = r[j]
      BY <1>4, <1>5
    <2>3. Len(r) + 1 \in 1 .. Len(q)
      BY <1>4, <1>5
    <2>. HIDE DEF q
    <2>. QED
      BY <1>4, <2>1, <2>2, <2>3
  <1>. HIDE DEF p, q
  <1>. DEFINE IsNext(t) ==
                /\ reverseMap' = [reverseMap EXCEPT ![f] = t]
                /\ Len(t) = Len(r) + 1
                /\ \E i \in 1 .. Len(t) : t[i] = k
                /\ \A i \in 1 .. Len(t) : t[i] = k \/ \E j \in 1 .. Len(r) : t[i] = r[j]
                /\ \A j \in 1 .. Len(r) : \E i \in 1 .. Len(t) : t[i] = r[j]
  <1>9. IsNext(p) \/ IsNext(q)
    BY <1>3, <1>4, <1>6, <1>7, <1>8
  <1>10. \E t \in Seq(Keys) : IsNext(t)
    BY <1>3, <1>4, <1>9
  <1>. QED
    BY <1>1, <1>2, <1>10

\* A charge, an adaptation and an adaptation cut short replace one item by
\* another one: the keys it matches are keys it matched before, and the key of
\* its rank is among them if it was.
LEMMA ChangedItem ==
    ASSUME TypeOK, NEW k \in Keys, NEW i \in DOMAIN miniruns[FpOf[k]],
           \/ Charge(k, i)
           \/ \E n \in 1 .. MaxExt : Adapt(k, i, n)
           \/ \E n \in 1 .. MaxExt : \E m \in 1 .. n - 1 : AdaptNoSpace(k, i, n, m)
    PROVE  \E e \in Items :
              /\ miniruns' = [miniruns EXCEPT ![FpOf[k]][i] = e]
              /\ \A l \in Keys : Matches(e, l) => Matches(miniruns[FpOf[k]][i], l)
              /\ i \in DOMAIN reverseMap[FpOf[k]] /\ Matches(miniruns[FpOf[k]][i], reverseMap[FpOf[k]][i])
                    => Matches(e, reverseMap[FpOf[k]][i])
  <1>. DEFINE f == FpOf[k]
              item == miniruns[f][i]
              orig == reverseMap[f][i]
  <1>1. f \in Fps /\ miniruns[f] \in Seq(Items) /\ item \in Items
    BY AFAssumption, ElementOfSeq DEF TypeOK
  <1>2. i \in DOMAIN reverseMap[f] => orig \in Keys
    BY <1>1, ElementOfSeq DEF TypeOK
  <1>3. ASSUME Charge(k, i) PROVE item.count = 1 /\ miniruns' = [miniruns EXCEPT ![f][i] = Charged(item)]
    BY <1>1, <1>3, AFAssumption DEF Charge, Items
  <1>4. CASE Charge(k, i)
    BY <1>1, <1>2, <1>3, <1>4, ChargedFacts
  <1>5. ASSUME NEW n \in item.ext_len + 1 .. MaxExt, i \in DOMAIN reverseMap[f],
               miniruns' = [miniruns EXCEPT ![f][i] = Extended(item, orig, n)]
        PROVE  \E e \in Items :
                  /\ miniruns' = [miniruns EXCEPT ![f][i] = e]
                  /\ \A l \in Keys : Matches(e, l) => Matches(item, l)
                  /\ Matches(item, orig) => Matches(e, orig)
    <2>. DEFINE e == Extended(item, orig, n)
    <2>1. /\ e \in Items
          /\ Matches(item, orig) => Matches(e, orig)
          /\ \A l \in Keys : Matches(e, l) => Matches(item, l)
      BY <1>1, <1>2, <1>5, ExtendedFacts
    <2>. QED
      BY <1>5, <2>1
  <1>6. ASSUME NEW n \in 1 .. MaxExt, Adapt(k, i, n)
        PROVE  /\ n \in item.ext_len + 1 .. MaxExt
               /\ i \in DOMAIN reverseMap[f]
               /\ miniruns' = [miniruns EXCEPT ![f][i] = Extended(item, orig, n)]
    BY <1>6 DEF Adapt, Separates
  <1>7. ASSUME NEW n \in 1 .. MaxExt, NEW m \in 1 .. n - 1, AdaptNoSpace(k, i, n, m)
        PROVE  /\ m \in item.ext_len + 1 .. MaxExt
               /\ i \in DOMAIN reverseMap[f]
               /\ miniruns' = [miniruns EXCEPT ![f][i] = Extended(item, orig, m)]
    BY <1>1, <1>7, AFAssumption DEF AdaptNoSpace, Separates, Items
  <1>. QED
    BY <1>4, <1>5, <1>6, <1>7

\* Every action keeps the types.
LEMMA TypeStep == TypeOK /\ [Next]_vars => TypeOK'
  <1>. SUFFICES ASSUME TypeOK, [Next]_vars PROVE TypeOK'
    OBVIOUS
  <1>1. ASSUME NEW k \in Keys, Insert(k) PROVE TypeOK'
    <2>. DEFINE f == FpOf[k]
    <2>1. PICK t \in Seq(Keys) : reverseMap' = [reverseMap EXCEPT ![f] = t]
      BY <1>1, InsertFacts
    <2>2. <<NewItem>> \o miniruns[f] \in Seq(Items)
      BY <1>1, InsertFacts
    <2>3. miniruns' \in [Fps -> Seq(Items)] /\ reverseMap' \in [Fps -> Seq(Keys)]
      BY <1>1, <2>1, <2>2, AFAssumption DEF Insert, TypeOK
    <2>. QED
      BY <1>1, <2>3 DEF Insert, TypeOK
  <1>2. CASE EndLoad
    BY <1>2 DEF EndLoad, TypeOK
  <1>3. ASSUME NEW k \in Keys, NEW i \in DOMAIN miniruns[FpOf[k]],
               \/ Charge(k, i)
               \/ \E n \in 1 .. MaxExt : Adapt(k, i, n)
               \/ \E n \in 1 .. MaxExt : \E m \in 1 .. n - 1 : AdaptNoSpace(k, i, n, m)
        PROVE  TypeOK'
    <2>. DEFINE f == FpOf[k]
                item == miniruns[f][i]
    <2>1. f \in Fps /\ item \in Items /\ miniruns[f] \in Seq(Items)
      BY AFAssumption, ElementOfSeq DEF TypeOK
    <2>2. \E e \in Items : miniruns' = [miniruns EXCEPT ![f][i] = e]
      BY <1>3, <2>1, ChangedItem
    <2>3. miniruns' \in [Fps -> Seq(Items)]
      BY <2>1, <2>2, ReplaceFacts
    <2>4. used' \in Int
      <3>1. used \in Int /\ item.ext_len \in Int /\ CounterSlots(item) \in Int /\ MaxExt \in Nat
        BY <2>1, AFAssumption DEF TypeOK, Items, CounterSlots
      <3>2. \/ used' = used + 1
            \/ \E n \in 1 .. MaxExt : used' = used + (n - item.ext_len) - CounterSlots(item)
            \/ \E n \in 1 .. MaxExt : \E m \in 1 .. n - 1 :
                   used' = used + (m - item.ext_len) - CounterSlots(item)
        BY <1>3 DEF Charge, Adapt, AdaptNoSpace
      <3>. QED
        BY <3>1, <3>2
    <2>. QED
      BY <1>3, <2>3, <2>4 DEF Charge, Adapt, AdaptNoSpace, TypeOK
  <1>4. CASE UNCHANGED vars
    BY <1>4 DEF vars, TypeOK
  <1>. QED
    BY <1>1, <1>2, <1>3, <1>4 DEF Next

\* The types of the state are right in every behaviour of the filter.
THEOREM TypeCorrect == Spec => []TypeOK
  <1>1. Init => TypeOK
    BY AFAssumption DEF Init, TypeOK
  <1>. QED
    BY <1>1, TypeStep, PTL DEF Spec

-----------------------------------------------------------------------------
\* Init establishes the tie between items and keys: there are neither.
LEMMA RankTieInit == Init => RankTie
  BY AFAssumption DEF Init, RankTie, RanksAgree, ItemsMatchTheirKeys, KeysHaveARank, LoadIsUnextended

\* While the filter is loaded every item matches every key, so the tie holds
\* however the reverse map orders the keys of a fingerprint.
LEMMA RankTieInsert == ASSUME IInv, NEW k \in Keys, Insert(k) PROVE RankTie'
  <1>. DEFINE f == FpOf[k]
              s == <<NewItem>> \o miniruns[f]
  <1>1. /\ TypeOK /\ RankTie /\ phase = "load" /\ phase' = "load"
        /\ miniruns' = [miniruns EXCEPT ![f] = s]
        /\ db' = db \union {k}
    BY DEF IInv, Insert
  <1>2. /\ f \in Fps
        /\ s \in Seq(Items)
        /\ Len(s) = Len(miniruns[f]) + 1
        /\ s[1] = NewItem
        /\ \A i \in 1 .. Len(miniruns[f]) : s[i + 1] = miniruns[f][i]
    BY <1>1, InsertFacts
  <1>3. PICK t \in Seq(Keys) :
            /\ reverseMap' = [reverseMap EXCEPT ![f] = t]
            /\ Len(t) = Len(reverseMap[f]) + 1
            /\ \E i \in 1 .. Len(t) : t[i] = k
            /\ \A i \in 1 .. Len(t) : t[i] = k \/ \E j \in 1 .. Len(reverseMap[f]) : t[i] = reverseMap[f][j]
            /\ \A j \in 1 .. Len(reverseMap[f]) : \E i \in 1 .. Len(t) : t[i] = reverseMap[f][j]
    BY <1>1, InsertFacts
  <1>. HIDE DEF s
  <1>4. /\ miniruns \in [Fps -> Seq(Items)] /\ reverseMap \in [Fps -> Seq(Keys)]
        /\ Len(miniruns[f]) \in Nat /\ DOMAIN miniruns[f] = 1 .. Len(miniruns[f])
        /\ DOMAIN reverseMap[f] = 1 .. Len(reverseMap[f])
        /\ DOMAIN s = 1 .. Len(s) /\ DOMAIN t = 1 .. Len(t)
    BY <1>1, <1>2, <1>3, LenProperties DEF TypeOK
  <1>5. /\ miniruns'[f] = s /\ reverseMap'[f] = t
        /\ \A g \in Fps : g # f => miniruns'[g] = miniruns[g] /\ reverseMap'[g] = reverseMap[g]
    BY <1>1, <1>2, <1>3, <1>4
  <1>6. RanksAgree'
    BY <1>1, <1>2, <1>3, <1>5 DEF RankTie, RanksAgree
  <1>7. LoadIsUnextended'
    <2>1. \A i \in DOMAIN s : s[i].ext_len = 0
      <3>1. \A i \in DOMAIN s : i = 1 \/ (i - 1 \in DOMAIN miniruns[f] /\ s[i] = miniruns[f][i - 1])
        BY <1>2, <1>4
      <3>. QED
        BY <1>1, <1>2, <3>1, NewItemFacts DEF RankTie, LoadIsUnextended
    <2>. QED
      BY <1>1, <1>5, <2>1 DEF RankTie, LoadIsUnextended
  <1>8. ItemsMatchTheirKeys'
    <2>1. \A g \in Fps : \A i \in DOMAIN reverseMap'[g] : FpOf[reverseMap'[g][i]] = g
      <3>1. \A j \in 1 .. Len(reverseMap[f]) : FpOf[reverseMap[f][j]] = f
        BY <1>1, <1>2, <1>4 DEF RankTie, ItemsMatchTheirKeys
      <3>2. ASSUME NEW i \in 1 .. Len(t) PROVE FpOf[t[i]] = f
        <4>1. t[i] = k \/ \E j \in 1 .. Len(reverseMap[f]) : t[i] = reverseMap[f][j]
          BY <1>3
        <4>. QED
          BY <3>1, <4>1
      <3>3. \A g \in Fps : g # f => \A i \in DOMAIN reverseMap'[g] : FpOf[reverseMap'[g][i]] = g
        BY <1>1, <1>5 DEF RankTie, ItemsMatchTheirKeys
      <3>. QED
        BY <1>4, <1>5, <3>2, <3>3
    <2>2. \A g \in Fps : \A i \in DOMAIN reverseMap'[g] : i \in DOMAIN miniruns'[g]
      <3>1. \A g \in Fps : DOMAIN reverseMap'[g] = 1 .. Len(reverseMap'[g]) /\ DOMAIN miniruns'[g] = 1 .. Len(miniruns'[g])
        BY <1>4, <1>5, LenProperties
      <3>. QED
        BY <1>6, <3>1 DEF RanksAgree
    <2>3. \A g \in Fps : \A i \in DOMAIN reverseMap'[g] : miniruns'[g][i].ext_len = 0
      BY <1>1, <1>7, <2>2 DEF LoadIsUnextended
    <2>4. \A g \in Fps : \A i \in DOMAIN reverseMap'[g] : Matches(miniruns'[g][i], reverseMap'[g][i])
      BY <2>3 DEF Matches
    <2>. QED
      BY <2>1, <2>4 DEF ItemsMatchTheirKeys, Matches
  <1>9. KeysHaveARank'
    <2>1. \E i \in DOMAIN reverseMap'[f] : reverseMap'[f][i] = k
      BY <1>3, <1>4, <1>5
    <2>2. ASSUME NEW l \in db PROVE \E i \in DOMAIN reverseMap'[FpOf[l]] : reverseMap'[FpOf[l]][i] = l
      <3>1. PICK j \in DOMAIN reverseMap[FpOf[l]] : reverseMap[FpOf[l]][j] = l
        BY <1>1 DEF RankTie, KeysHaveARank
      <3>2. FpOf[l] \in Fps
        BY <1>1, AFAssumption DEF TypeOK
      <3>3. CASE FpOf[l] = f
        <4>1. j \in 1 .. Len(reverseMap[f]) /\ reverseMap[f][j] = l
          BY <1>4, <3>1, <3>3
        <4>2. \E i \in 1 .. Len(t) : t[i] = l
          BY <1>3, <4>1
        <4>. QED
          BY <1>4, <1>5, <3>3, <4>2
      <3>4. CASE FpOf[l] # f
        BY <1>5, <3>1, <3>2, <3>4
      <3>. QED
        BY <3>3, <3>4
    <2>. QED
      BY <1>1, <2>1, <2>2 DEF KeysHaveARank
  <1>. QED
    BY <1>6, <1>7, <1>8, <1>9 DEF RankTie

\* A charge or an adaptation keeps the tie: the key at the item's rank still
\* matches it, and no other item and no key moves.
LEMMA RankTieChange ==
    ASSUME IInv, NEW k \in Keys, NEW i \in DOMAIN miniruns[FpOf[k]],
           \/ Charge(k, i)
           \/ \E n \in 1 .. MaxExt : Adapt(k, i, n)
           \/ \E n \in 1 .. MaxExt : \E m \in 1 .. n - 1 : AdaptNoSpace(k, i, n, m)
    PROVE  RankTie'
  <1>. DEFINE f == FpOf[k]
  <1>1. /\ TypeOK /\ RankTie /\ f \in Fps
        /\ UNCHANGED <<reverseMap, db, phase>> /\ phase = "query"
    BY AFAssumption DEF IInv, TypeOK, Charge, Adapt, AdaptNoSpace, FalsePositive
  <1>2. PICK e \in Items :
           /\ miniruns' = [miniruns EXCEPT ![f][i] = e]
           /\ i \in DOMAIN reverseMap[f] /\ Matches(miniruns[f][i], reverseMap[f][i])
                 => Matches(e, reverseMap[f][i])
    BY <1>1, ChangedItem
  <1>3. /\ \A g \in Fps : Len(miniruns'[g]) = Len(miniruns[g])
        /\ \A g \in Fps : \A j \in DOMAIN miniruns[g] :
               miniruns'[g][j] = IF g = f /\ j = i THEN e ELSE miniruns[g][j]
    BY <1>1, <1>2, ReplaceFacts
  <1>4. \A g \in Fps : DOMAIN reverseMap[g] = DOMAIN miniruns[g]
    <2>1. \A g \in Fps : miniruns[g] \in Seq(Items) /\ reverseMap[g] \in Seq(Keys)
      BY <1>1 DEF TypeOK
    <2>. QED
      BY <1>1, <2>1, LenProperties DEF RankTie, RanksAgree
  <1>5. RanksAgree'
    BY <1>1, <1>3 DEF RankTie, RanksAgree
  <1>6. ItemsMatchTheirKeys'
    <2>. SUFFICES ASSUME NEW g \in Fps, NEW j \in DOMAIN reverseMap[g]
                  PROVE  FpOf[reverseMap[g][j]] = g /\ Matches(miniruns'[g][j], reverseMap[g][j])
      BY <1>1 DEF ItemsMatchTheirKeys, Matches
    <2>1. FpOf[reverseMap[g][j]] = g /\ Matches(miniruns[g][j], reverseMap[g][j])
      BY <1>1 DEF RankTie, ItemsMatchTheirKeys
    <2>2. CASE g = f /\ j = i
      BY <1>2, <1>3, <1>4, <2>1, <2>2
    <2>3. CASE ~(g = f /\ j = i)
      BY <1>3, <1>4, <2>1, <2>3
    <2>. QED
      BY <2>2, <2>3
  <1>7. KeysHaveARank' /\ LoadIsUnextended'
    BY <1>1 DEF RankTie, KeysHaveARank, LoadIsUnextended
  <1>. QED
    BY <1>5, <1>6, <1>7 DEF RankTie

-----------------------------------------------------------------------------
\* The tie between the items of a minirun and the keys of the reverse map is
\* never lost, whichever variant adapts and whichever database holds the map.
THEOREM TieCorrect == Spec => [](TypeOK /\ RankTie)
  <1>1. Init => IInv
    BY AFAssumption, RankTieInit DEF Init, TypeOK, IInv
  <1>2. IInv /\ [Next]_vars => IInv'
    <2>. SUFFICES ASSUME IInv, [Next]_vars PROVE RankTie'
      BY TypeStep DEF IInv
    <2>1. CASE \E k \in Keys : Insert(k)
      BY <2>1, RankTieInsert
    <2>2. CASE EndLoad
      BY <2>2 DEF IInv, EndLoad, RankTie, RanksAgree, ItemsMatchTheirKeys, KeysHaveARank,
                  LoadIsUnextended, Matches
    <2>3. CASE \E k \in Keys : \E i \in DOMAIN miniruns[FpOf[k]] :
                  \/ Charge(k, i)
                  \/ \E n \in 1 .. MaxExt : Adapt(k, i, n)
                  \/ \E n \in 1 .. MaxExt : \E m \in 1 .. n - 1 : AdaptNoSpace(k, i, n, m)
      BY <2>3, RankTieChange
    <2>4. CASE UNCHANGED vars
      BY <2>4 DEF IInv, vars, RankTie, RanksAgree, ItemsMatchTheirKeys, KeysHaveARank,
                  LoadIsUnextended, Matches
    <2>. QED
      BY <2>1, <2>2, <2>3, <2>4 DEF Next
  <1>3. IInv => TypeOK /\ RankTie
    BY DEF IInv
  <1>. QED
    BY <1>1, <1>2, <1>3, PTL DEF Spec

\* No key ever inserted is reported absent, in any behaviour of the filter.
THEOREM NoFalseNegatives == Spec => []NoFalseNegative
  <1>1. TypeOK /\ RankTie => NoFalseNegative
    <2>. SUFFICES ASSUME TypeOK, RankTie, NEW k \in db PROVE Positive(k)
      BY DEF NoFalseNegative
    <2>1. FpOf[k] \in Fps /\ k \in Keys
      BY AFAssumption DEF TypeOK
    <2>2. PICK i \in DOMAIN reverseMap[FpOf[k]] : reverseMap[FpOf[k]][i] = k
      BY DEF RankTie, KeysHaveARank
    <2>3. Matches(miniruns[FpOf[k]][i], k)
      BY <2>1, <2>2 DEF RankTie, ItemsMatchTheirKeys
    <2>4. i \in DOMAIN miniruns[FpOf[k]]
      <3>1. miniruns[FpOf[k]] \in Seq(Items) /\ reverseMap[FpOf[k]] \in Seq(Keys)
        BY <2>1 DEF TypeOK
      <3>. QED
        BY <2>1, <2>2, <3>1, LenProperties DEF RankTie, RanksAgree
    <2>. QED
      BY <2>3, <2>4 DEF Positive
  <1>. QED
    BY <1>1, TieCorrect, PTL

\* A key rejected once loading is over is rejected for good.
THEOREM AdaptingIsMonotone == Spec => StaysNegative
  <1>1. TypeOK /\ [Next]_vars => [phase = "query" => \A k \in Keys : Positive(k)' => Positive(k)]_vars
    <2>. SUFFICES ASSUME TypeOK, [Next]_vars, phase = "query", vars' # vars,
                         NEW l \in Keys, Positive(l)'
                  PROVE  Positive(l)
      OBVIOUS
    <2>0. PICK k \in Keys : \E i \in DOMAIN miniruns[FpOf[k]] :
              \/ Charge(k, i)
              \/ \E n \in 1 .. MaxExt : Adapt(k, i, n)
              \/ \E n \in 1 .. MaxExt : \E m \in 1 .. n - 1 : AdaptNoSpace(k, i, n, m)
      BY DEF Next, Insert, EndLoad
    <2>1. PICK i \in DOMAIN miniruns[FpOf[k]] :
              \/ Charge(k, i)
              \/ \E n \in 1 .. MaxExt : Adapt(k, i, n)
              \/ \E n \in 1 .. MaxExt : \E m \in 1 .. n - 1 : AdaptNoSpace(k, i, n, m)
      BY <2>0
    <2>2. PICK e \in Items :
              /\ miniruns' = [miniruns EXCEPT ![FpOf[k]][i] = e]
              /\ \A j \in Keys : Matches(e, j) => Matches(miniruns[FpOf[k]][i], j)
      BY <2>1, ChangedItem
    <2>3. FpOf[k] \in Fps /\ FpOf[l] \in Fps
      BY AFAssumption
    <2>4. /\ DOMAIN miniruns'[FpOf[l]] = DOMAIN miniruns[FpOf[l]]
          /\ \A j \in DOMAIN miniruns[FpOf[l]] :
                 miniruns'[FpOf[l]][j] = IF FpOf[l] = FpOf[k] /\ j = i THEN e ELSE miniruns[FpOf[l]][j]
      BY <2>2, <2>3, ReplaceFacts
    <2>5. PICK j \in DOMAIN miniruns'[FpOf[l]] : Matches(miniruns'[FpOf[l]][j], l)
      BY DEF Positive, Matches
    <2>. QED
      BY <2>2, <2>4, <2>5 DEF Positive
  <1>. QED
    BY <1>1, TypeCorrect, PTL DEF Spec, StaysNegative

\* The slots in use pass the load limit only by adapting, and the full point
\* by fewer slots than one hash has chunks.
THEOREM SpaceIsBounded == Spec => []SpaceBound
  <1>1. Init => SpaceBound
    BY AFAssumption DEF Init, SpaceBound
  <1>2. TypeOK /\ SpaceBound /\ [Next]_vars => SpaceBound'
    <2>. SUFFICES ASSUME TypeOK, SpaceBound, [Next]_vars, Policy # "HybridSkiQF"
                  PROVE  used' <= LoadLimit \/ used' < FullPoint + MaxExt
      BY DEF SpaceBound
    <2>1. used \in Int /\ LoadLimit \in Nat /\ FullPoint \in Nat /\ MaxExt \in Nat \ {0}
      BY AFAssumption DEF TypeOK
    <2>2. ASSUME NEW k \in Keys, Insert(k) PROVE used < LoadLimit /\ used' = used + 1
      BY <2>2 DEF Insert
    <2>3. ASSUME NEW k \in Keys, NEW i \in DOMAIN miniruns[FpOf[k]],
                 \/ Charge(k, i)
                 \/ \E n \in 1 .. MaxExt : Adapt(k, i, n)
                 \/ \E n \in 1 .. MaxExt : \E m \in 1 .. n - 1 : AdaptNoSpace(k, i, n, m)
          PROVE  used < FullPoint /\ \E d \in Int : d <= MaxExt /\ used' = used + d
      <3>. DEFINE item == miniruns[FpOf[k]][i]
      <3>1. item.ext_len \in Nat /\ CounterSlots(item) \in Nat
        <4>1. FpOf[k] \in Fps /\ miniruns[FpOf[k]] \in Seq(Items)
          BY AFAssumption DEF TypeOK
        <4>2. item \in Items
          BY <4>1, ElementOfSeq
        <4>. QED
          BY <2>1, <4>2 DEF Items, CounterSlots
      <3>2. used < FullPoint
        BY <2>3 DEF Charge, Adapt, AdaptNoSpace, MayAdapt, MayCharge
      <3>3. \/ used' = used + 1
            \/ \E n \in 1 .. MaxExt : used' = used + (n - item.ext_len) - CounterSlots(item)
            \/ \E n \in 1 .. MaxExt : \E m \in 1 .. n - 1 :
                   used' = used + (m - item.ext_len) - CounterSlots(item)
        BY <2>3 DEF Charge, Adapt, AdaptNoSpace
      <3>. HIDE DEF item
      <3>4. CASE used' = used + 1
        BY <2>1, <3>2, <3>4
      <3>5. ASSUME NEW n \in 1 .. MaxExt, used' = used + (n - item.ext_len) - CounterSlots(item)
            PROVE  \E d \in Int : d <= MaxExt /\ used' = used + d
        <4>. DEFINE d == (n - item.ext_len) - CounterSlots(item)
        <4>1. n \in Int /\ n <= MaxExt
          BY <2>1
        <4>2. d \in Int /\ d <= MaxExt
          BY <2>1, <3>1, <4>1
        <4>. QED
          BY <3>5, <4>2
      <3>. QED
        BY <2>1, <3>2, <3>3, <3>4, <3>5
    <2>4. CASE used' = used
      BY <2>4 DEF SpaceBound
    <2>. QED
      BY <2>1, <2>2, <2>3, <2>4 DEF Next, EndLoad, vars
  <1>. QED
    BY <1>1, <1>2, TypeCorrect, PTL DEF Spec
=============================================================================
