------------------------ MODULE HashMapRemovalProofs ------------------------
(***************************************************************************)
(* The map with its removals, for any keys, hash, capacity and conditions: *)
(* every history of puts, doublings, sweeps and removals keeps the entries *)
(* in their buckets and the keys unique, and the size wrong by exactly the *)
(* removals that are not counted.                                          *)
(***************************************************************************)
EXTENDS HashMapRemoval, HashMapProofs

(* The cells of the lists, as bucket and position. *)
Cells == {c \in BucketIds \X Nat : c[2] \in 1 .. Len(buckets[c[1]])}

KeyAt(c) == buckets[c[1]][c[2]].key

(* What a removal does, of one key or by condition: it takes the entries in *)
(* the cells G out of their lists and leaves the others as they are.        *)
Thinned(G) ==
  /\ pc = "idle"
  /\ UNCHANGED <<capacity, pc, i, at, old_capacity, limit>>
  /\ G \subseteq Cells
  /\ buckets' \in [BucketIds -> Seq(Entry)]
  /\ \A b \in BucketIds : \A m \in 1 .. Len(buckets'[b]) :
       \E n \in 1 .. Len(buckets[b]) : <<b, n>> \notin G /\ buckets'[b][m] = buckets[b][n]
  /\ \A b \in BucketIds : \A n \in 1 .. Len(buckets[b]) :
       <<b, n>> \notin G => \E m \in 1 .. Len(buckets'[b]) : buckets'[b][m] = buckets[b][n]
  /\ \A b \in BucketIds : \A m, l \in 1 .. Len(buckets'[b]) :
       buckets'[b][m].key = buckets'[b][l].key => m = l

(* The keys that are held afterwards are those that were, but the ones in   *)
(* the cells taken, of which there are as many as cells.                    *)
LEMMA ThinnedKeys ==
  ASSUME TypeOK, UniqueKeys, IsFiniteSet(HeldKeys), NEW G, Thinned(G)
  PROVE  /\ HeldKeys' = HeldKeys \ {KeyAt(c) : c \in G}
         /\ {KeyAt(c) : c \in G} \subseteq HeldKeys
         /\ IsFiniteSet(G) /\ IsFiniteSet(HeldKeys')
         /\ Cardinality(HeldKeys') = Cardinality(HeldKeys) - Cardinality(G)
<1> DEFINE Gone == {KeyAt(c) : c \in G}
<1>1. BucketIds' = BucketIds /\ buckets \in [BucketIds -> Seq(Entry)]
  BY DEF TypeOK, Thinned, BucketIds
<1>2. ASSUME NEW c \in G
      PROVE  /\ c = <<c[1], c[2]>> /\ c[1] \in BucketIds /\ c[2] \in 1 .. Len(buckets[c[1]])
             /\ KeyAt(c) \in Keys
  <2>1. c \in BucketIds \X Nat /\ c[2] \in 1 .. Len(buckets[c[1]])
    BY <1>2 DEF Thinned, Cells
  <2>2. c = <<c[1], c[2]>> /\ c[1] \in BucketIds  BY <2>1
  <2>3. buckets[c[1]] \in Seq(Entry)  BY <1>1, <2>2
  <2>4. buckets[c[1]][c[2]] \in Entry  BY <2>1, <2>3
  <2> QED  BY <2>1, <2>2, <2>4 DEF KeyAt, Entry
<1>3. Gone \subseteq HeldKeys
  BY <1>2 DEF KeyAt, HeldKeys, Held, HasKey
<1>4. ASSUME NEW c \in G, NEW d \in G, KeyAt(c) = KeyAt(d) PROVE c = d
  <2>1. /\ c = <<c[1], c[2]>> /\ c[1] \in BucketIds /\ c[2] \in 1 .. Len(buckets[c[1]])
        /\ d = <<d[1], d[2]>> /\ d[1] \in BucketIds /\ d[2] \in 1 .. Len(buckets[d[1]])
    BY <1>2
  <2>2. c[1] = d[1] /\ c[2] = d[2]
    BY <1>4, <2>1 DEF KeyAt, UniqueKeys
  <2> QED  BY <2>1, <2>2
<1>5. HeldKeys' = HeldKeys \ Gone
  <2>1. ASSUME NEW k \in HeldKeys' PROVE k \in HeldKeys \ Gone
    <3>1. k \in Keys  BY <2>1 DEF HeldKeys
    <3>2. PICK b \in BucketIds : \E m \in 1 .. Len(buckets'[b]) : buckets'[b][m].key = k
      BY <1>1, <2>1 DEF HeldKeys, Held, HasKey
    <3>3. PICK n \in 1 .. Len(buckets[b]) : <<b, n>> \notin G /\ buckets[b][n].key = k
      <4>1. PICK m \in 1 .. Len(buckets'[b]) : buckets'[b][m].key = k  BY <3>2
      <4>2. PICK n \in 1 .. Len(buckets[b]) : <<b, n>> \notin G /\ buckets'[b][m] = buckets[b][n]
        <5>1. \A c \in BucketIds : \A l \in 1 .. Len(buckets'[c]) :
                \E n \in 1 .. Len(buckets[c]) : <<c, n>> \notin G /\ buckets'[c][l] = buckets[c][n]
          BY DEF Thinned
        <5> QED  BY <5>1
      <4> QED  BY <4>1, <4>2
    <3>4. k \in HeldKeys  BY <3>1, <3>3 DEF HeldKeys, Held, HasKey
    <3>5. ASSUME NEW c \in G, KeyAt(c) = k PROVE FALSE
      <4>1. /\ c = <<c[1], c[2]>> /\ c[1] \in BucketIds /\ c[2] \in 1 .. Len(buckets[c[1]])
        BY <1>2
      <4>2. c[1] = b /\ c[2] = n
        BY <3>3, <3>5, <4>1 DEF KeyAt, UniqueKeys
      <4> QED  BY <3>3, <4>1, <4>2
    <3> QED  BY <3>4, <3>5
  <2>2. ASSUME NEW k \in HeldKeys, k \notin Gone PROVE k \in HeldKeys'
    <3>1. PICK b \in BucketIds : \E n \in 1 .. Len(buckets[b]) : buckets[b][n].key = k
      BY <2>2 DEF HeldKeys, Held, HasKey
    <3>2. PICK n \in 1 .. Len(buckets[b]) : buckets[b][n].key = k
      BY <3>1
    <3>3. <<b, n>> \notin G
      <4>1. KeyAt(<<b, n>>) = k  BY <3>2 DEF KeyAt
      <4> QED  BY <2>2, <4>1
    <3>4. \E m \in 1 .. Len(buckets'[b]) : buckets'[b][m] = buckets[b][n]
      BY <3>3 DEF Thinned
    <3> QED  BY <1>1, <2>2, <3>2, <3>4 DEF HeldKeys, Held, HasKey
  <2> QED  BY <2>1, <2>2
<1> DEFINE key == [c \in G |-> KeyAt(c)]
<1>6. key \in Bijection(G, Gone)
  <2>1. key \in [G -> Gone]  OBVIOUS
  <2>2. \A c, d \in G : key[c] = key[d] => c = d  BY <1>4
  <2>3. \A k \in Gone : \E c \in G : key[c] = k  OBVIOUS
  <2> HIDE DEF key, Gone
  <2> QED  BY <2>1, <2>2, <2>3, Fun_IsBij
<1>7. IsFiniteSet(Gone)  BY <1>3, FS_Subset
<1>8. IsFiniteSet(G) /\ Cardinality(G) = Cardinality(Gone)
  <2>1. ExistsBijection(G, Gone)  BY <1>6 DEF ExistsBijection
  <2>2. ExistsBijection(Gone, G)  BY <2>1, Fun_ExistsBijSymmetric
  <2> HIDE DEF Gone
  <2> QED  BY <1>7, <2>2, FS_Bijection
<1>9. /\ IsFiniteSet(HeldKeys \ Gone)
      /\ Cardinality(HeldKeys \ Gone) = Cardinality(HeldKeys) - Cardinality(Gone)
  <2>1. HeldKeys \intersect Gone = Gone  BY <1>3
  <2> HIDE DEF Gone
  <2> QED  BY <2>1, FS_Difference
<1> QED  BY <1>3, <1>5, <1>8, <1>9

(* The entries that stay are where they were put. *)
LEMMA ThinnedPlaces ==
  ASSUME TypeOK, Placement, UniqueKeys, NEW G, Thinned(G)
  PROVE  /\ Placement' /\ UniqueKeys'
         /\ size' \in Nat => TypeOK'
<1>1. /\ BucketIds' = BucketIds /\ capacity' = capacity /\ pc = "idle" /\ pc' = "idle"
      /\ buckets' \in [BucketIds -> Seq(Entry)]
  BY DEF Thinned, BucketIds
<1>2. \A b \in BucketIds : \A m \in 1 .. Len(buckets'[b]) :
        \E n \in 1 .. Len(buckets[b]) : buckets'[b][m] = buckets[b][n]
  <2>1. \A b \in BucketIds : \A m \in 1 .. Len(buckets'[b]) :
          \E n \in 1 .. Len(buckets[b]) : <<b, n>> \notin G /\ buckets'[b][m] = buckets[b][n]
    BY DEF Thinned
  <2> QED  BY <2>1
<1>3. \A b \in BucketIds : \A n \in 1 .. Len(buckets[b]) : Hash[buckets[b][n].key] % capacity = b
  BY <1>1 DEF Placement, Passed, Index
<1>4. \A b \in BucketIds : \A m \in 1 .. Len(buckets'[b]) : Hash[buckets'[b][m].key] % capacity = b
  BY <1>2, <1>3
<1>5. Placement'
  BY <1>1, <1>4 DEF Placement, Index
<1>6. UniqueKeys'
  <2>1. ASSUME NEW b \in BucketIds, NEW c \in BucketIds,
               NEW m \in 1 .. Len(buckets'[b]), NEW l \in 1 .. Len(buckets'[c]),
               buckets'[b][m].key = buckets'[c][l].key
        PROVE  b = c /\ m = l
    <3>1. b = c  BY <1>4, <2>1
    <3> QED  BY <2>1, <3>1 DEF Thinned
  <2> QED  BY <1>1, <2>1 DEF UniqueKeys
<1>7. ASSUME size' \in Nat PROVE TypeOK'
  <2>1. i' = 0 /\ at' = 0 /\ i' \in BucketIds /\ UNCHANGED <<old_capacity, limit>>
    BY DEF TypeOK, Thinned
  <2>2. buckets'[i'] \in Seq(Entry)  BY <1>1, <2>1
  <2>3. at' \in 0 .. Len(buckets'[i'])  BY <2>1, <2>2
  <2> QED  BY <1>1, <1>7, <2>1, <2>3 DEF TypeOK
<1> QED  BY <1>5, <1>6, <1>7

----------------------------------------------------------------------------
(* remove_from_ (hash_map.h:174-196) unlinks one entry of one list. *)
LEMMA UnlinkThins ==
  ASSUME TypeOK, UniqueKeys, pc = "idle", NEW b \in BucketIds, NEW n \in 1 .. Len(buckets[b]),
         buckets' = [buckets EXCEPT ![b] = RemoveAt(@, n)],
         UNCHANGED <<capacity, pc, i, at, old_capacity, limit>>
  PROVE  Thinned({<<b, n>>})
<1> DEFINE G == {<<b, n>>}
<1>1. buckets \in [BucketIds -> Seq(Entry)] /\ buckets[b] \in Seq(Entry)
      /\ Len(buckets[b]) \in Nat
  BY DEF TypeOK
<1>2. /\ RemoveAt(buckets[b], n) \in Seq(Entry)
      /\ Len(RemoveAt(buckets[b], n)) = Len(buckets[b]) - 1
      /\ \A m \in 1 .. Len(buckets[b]) - 1 :
           RemoveAt(buckets[b], n)[m] = IF m < n THEN buckets[b][m] ELSE buckets[b][m + 1]
  BY <1>1, RemoveAtProperties
<1>3. /\ buckets' \in [BucketIds -> Seq(Entry)]
      /\ buckets'[b] = RemoveAt(buckets[b], n)
      /\ \A c \in BucketIds : c # b => buckets'[c] = buckets[c]
  BY <1>1, <1>2
<1> DEFINE P(m) == IF m < n THEN m ELSE m + 1
<1>4. ASSUME NEW m \in 1 .. Len(buckets'[b])
      PROVE  /\ P(m) \in 1 .. Len(buckets[b]) /\ P(m) # n
             /\ buckets'[b][m] = buckets[b][P(m)]
  <2>1. m \in 1 .. Len(buckets[b]) - 1  BY <1>2, <1>3
  <2>2. buckets'[b][m] = IF m < n THEN buckets[b][m] ELSE buckets[b][m + 1]
    BY <1>2, <1>3, <2>1
  <2> QED  BY <1>1, <2>1, <2>2
<1>5. G \subseteq Cells  BY DEF Cells
<1>6. ASSUME NEW c \in BucketIds, NEW m \in 1 .. Len(buckets'[c])
      PROVE  \E l \in 1 .. Len(buckets[c]) : <<c, l>> \notin G /\ buckets'[c][m] = buckets[c][l]
  <2>1. CASE c = b
    <3>1. P(m) \in 1 .. Len(buckets[c]) /\ P(m) # n /\ buckets'[c][m] = buckets[c][P(m)]
      BY <1>4, <2>1
    <3>2. <<c, P(m)>> \notin G  BY <3>1
    <3> HIDE DEF P
    <3> QED  BY <3>1, <3>2
  <2>2. CASE c # b
    <3>1. m \in 1 .. Len(buckets[c]) /\ buckets'[c][m] = buckets[c][m] /\ <<c, m>> \notin G
      BY <1>3, <2>2
    <3> QED  BY <3>1
  <2> QED  BY <2>1, <2>2
<1>7. ASSUME NEW c \in BucketIds, NEW l \in 1 .. Len(buckets[c]), <<c, l>> \notin G
      PROVE  \E m \in 1 .. Len(buckets'[c]) : buckets'[c][m] = buckets[c][l]
  <2>1. CASE c = b
    <3>1. l # n  BY <1>7, <2>1
    <3>2. CASE l < n
      <4>1. l \in 1 .. Len(buckets[b]) - 1 /\ l \in 1 .. Len(buckets'[b])
        BY <1>1, <1>2, <1>3, <2>1, <3>2
      <4>2. buckets'[b][l] = buckets[b][l]  BY <1>2, <1>3, <3>2, <4>1
      <4> QED  BY <2>1, <4>1, <4>2
    <3>3. CASE l > n
      <4>1. /\ l - 1 \in 1 .. Len(buckets[b]) - 1 /\ l - 1 \in 1 .. Len(buckets'[b])
            /\ ~ (l - 1 < n) /\ (l - 1) + 1 = l
        BY <1>1, <1>2, <1>3, <2>1, <3>3
      <4>2. buckets'[b][l - 1] = buckets[b][l]  BY <1>2, <1>3, <4>1
      <4> QED  BY <2>1, <4>1, <4>2
    <3>4. l < n \/ l > n  BY <1>1, <2>1, <3>1
    <3> QED  BY <3>2, <3>3, <3>4
  <2>2. CASE c # b
    BY <1>3, <2>2
  <2> QED  BY <2>1, <2>2
<1>8. ASSUME NEW c \in BucketIds, NEW m \in 1 .. Len(buckets'[c]), NEW l \in 1 .. Len(buckets'[c]),
             buckets'[c][m].key = buckets'[c][l].key
      PROVE  m = l
  <2>1. CASE c = b
    <3>1. /\ P(m) \in 1 .. Len(buckets[b]) /\ P(l) \in 1 .. Len(buckets[b])
          /\ buckets[b][P(m)].key = buckets[b][P(l)].key
      BY <1>4, <1>8, <2>1
    <3>2. P(m) = P(l)
      <4> HIDE DEF P
      <4> QED  BY <3>1 DEF UniqueKeys
    <3>3. m \in Nat /\ l \in Nat /\ n \in Nat  BY <1>1
    <3> QED  BY <3>2, <3>3
  <2>2. CASE c # b
    BY <1>3, <1>8, <2>2 DEF UniqueKeys
  <2> QED  BY <2>1, <2>2
<1> HIDE DEF G
<1>9. Thinned(G)
  BY <1>3, <1>5, <1>6, <1>7, <1>8 DEF Thinned
<1> QED  BY <1>9 DEF G

----------------------------------------------------------------------------
(* Each loop of remove_if_condition stops at the first entry that does not  *)
(* meet the condition, if there is one. *)
LEMMA FirstStayStops ==
  ASSUME NEW chain \in Seq(Entry), NEW C, NEW n \in Nat
  PROVE  /\ FirstStay(chain, C, n) \in Nat /\ FirstStay(chain, C, n) <= Len(chain) + 1
         /\ n <= Len(chain) + 1 => n <= FirstStay(chain, C, n)
         /\ FirstStay(chain, C, n) <= Len(chain) => chain[FirstStay(chain, C, n)].key \notin C
         /\ \A l \in n .. Len(chain) : l < FirstStay(chain, C, n) => chain[l].key \in C
<1> DEFINE T == {m \in n .. Len(chain) : chain[m].key \notin C} \union {Len(chain) + 1}
           f == FirstStay(chain, C, n)
<1>1. Len(chain) \in Nat  OBVIOUS
<1>2. T \subseteq Nat /\ Len(chain) + 1 \in T  BY <1>1
<1>3. \E m \in T : \A l \in T : m <= l
  <2>1. T # {}  BY <1>2
  <2> HIDE DEF T
  <2> QED  BY <1>2, <2>1, LeastNatural
<1>4. f = CHOOSE m \in T : \A l \in T : m <= l
  BY DEF FirstStay, Min
<1>5. f \in T /\ \A l \in T : f <= l
  <2> HIDE DEF T, f
  <2> QED  BY <1>3, <1>4
<1> HIDE DEF f
<1>6. f \in Nat /\ f <= Len(chain) + 1  BY <1>1, <1>2, <1>5
<1>7. (f \in n .. Len(chain) /\ chain[f].key \notin C) \/ f = Len(chain) + 1  BY <1>5
<1>8. ASSUME NEW l \in n .. Len(chain), l < f PROVE chain[l].key \in C
  <2>1. ~ (f <= l) /\ l \in Nat  BY <1>1, <1>6, <1>8
  <2>2. l \notin T  BY <1>5, <2>1
  <2> QED  BY <1>8, <2>2
<1>9. n <= Len(chain) + 1 => n <= f  BY <1>1, <1>7
<1>10. f <= Len(chain) => chain[f].key \notin C  BY <1>1, <1>7
<1> QED  BY <1>6, <1>8, <1>9, <1>10 DEF f

(* What it leaves of a list is the list without what it unlinked, in order. *)
LEMMA KeptEffect ==
  ASSUME NEW chain \in Seq(Entry), NEW C
  PROVE  \E P \in [1 .. Len(Kept(chain, C)) -> 1 .. Len(chain)] :
           /\ Kept(chain, C) \in Seq(Entry)
           /\ \A m \in 1 .. Len(Kept(chain, C)) :
                P[m] \notin Unlinked(chain, C) /\ Kept(chain, C)[m] = chain[P[m]]
           /\ \A n \in 1 .. Len(chain) :
                n \notin Unlinked(chain, C) => \E m \in 1 .. Len(Kept(chain, C)) : P[m] = n
           /\ \A m, l \in 1 .. Len(Kept(chain, C)) : P[m] = P[l] => m = l
<1> DEFINE h == FirstStay(chain, C, 1)
           t == FirstStay(chain, C, h + 1)
           k == Kept(chain, C)
           U == Unlinked(chain, C)
<1>1. Len(chain) \in Nat /\ DOMAIN chain = 1 .. Len(chain)  OBVIOUS
<1>2. h \in Nat /\ 1 <= h /\ h <= Len(chain) + 1
  <2>1. 1 <= Len(chain) + 1 /\ 1 \in Nat  BY <1>1
  <2> QED  BY <2>1, FirstStayStops
<1>3. t \in Nat /\ t <= Len(chain) + 1 /\ (h <= Len(chain) => h + 1 <= t)
  <2>1. h + 1 \in Nat /\ (h <= Len(chain) => h + 1 <= Len(chain) + 1)  BY <1>1, <1>2
  <2> HIDE DEF h
  <2> QED  BY <2>1, FirstStayStops
<1>4. U = {n \in 1 .. Len(chain) : n < h \/ (h < n /\ n < t)}
  BY <1>1 DEF Unlinked
<1>5. k = IF h > Len(chain) THEN <<>> ELSE <<chain[h]>> \o SubSeq(chain, t, Len(chain))
  BY DEF Kept
<1> HIDE DEF h, t, k, U
<1>6. CASE h > Len(chain)
  <2>1. k = <<>> /\ Len(k) = 0 /\ k \in Seq(Entry)  BY <1>5, <1>6
  <2>2. 1 .. Len(k) = {}  BY <2>1
  <2>3. \A n \in 1 .. Len(chain) : n \in U  BY <1>1, <1>2, <1>4, <1>6
  <2>4. [m \in 1 .. Len(k) |-> 0] \in [1 .. Len(k) -> 1 .. Len(chain)]
    BY <2>2
  <2> QED  BY <2>1, <2>2, <2>3, <2>4 DEF k, U
<1>7. CASE h <= Len(chain)
  <2> DEFINE tail == SubSeq(chain, t, Len(chain))
             P == [m \in 1 .. Len(k) |-> IF m = 1 THEN h ELSE t + m - 2]
  <2>1. chain[h] \in Entry /\ h \in 1 .. Len(chain) /\ h < t  BY <1>1, <1>2, <1>3, <1>7
  <2>2. PICK c \in Nat : c = Len(chain) - t + 1  BY <1>1, <1>3
  <2>3. /\ tail \in Seq(Entry) /\ Len(tail) = c
        /\ \A m \in 1 .. c : tail[m] = chain[t + m - 1]
    <3>1. \A n \in t .. Len(chain) : chain[n] \in Entry
      <4>1. \A n \in t .. Len(chain) : n \in 1 .. Len(chain)  BY <1>1, <1>2, <1>3, <2>1
      <4> QED  BY <4>1
    <3>2. t \in Int /\ Len(chain) \in Int  BY <1>1, <1>3
    <3>3. /\ tail \in Seq(Entry)
          /\ Len(tail) = IF t <= Len(chain) THEN Len(chain) - t + 1 ELSE 0
          /\ \A m \in 1 .. Len(chain) - t + 1 : tail[m] = chain[t + m - 1]
      BY <3>1, <3>2, SubSeqProperties
    <3> HIDE DEF tail
    <3>4. Len(tail) = c  BY <1>1, <1>3, <2>2, <3>3
    <3> QED  BY <2>2, <3>3, <3>4
  <2> HIDE DEF tail
  <2>4. /\ k \in Seq(Entry) /\ Len(k) = c + 1
        /\ \A m \in 1 .. c + 1 : k[m] = IF m = 1 THEN chain[h] ELSE chain[t + m - 2]
    <3>1. k = <<chain[h]>> \o tail
      <4>1. ~ (h > Len(chain))  BY <1>1, <1>2, <1>7
      <4> QED  BY <1>5, <4>1 DEF tail
    <3>2. <<chain[h]>> \in Seq(Entry) /\ Len(<<chain[h]>>) = 1 /\ <<chain[h]>>[1] = chain[h]
      BY <2>1
    <3>3. /\ k \in Seq(Entry) /\ Len(k) = 1 + c
          /\ \A m \in 1 .. 1 + c : k[m] = IF m <= 1 THEN <<chain[h]>>[m] ELSE tail[m - 1]
      BY <2>3, <3>1, <3>2, ConcatProperties
    <3>4. ASSUME NEW m \in 1 .. c + 1
          PROVE  k[m] = IF m = 1 THEN chain[h] ELSE chain[t + m - 2]
      <4>1. m \in 1 .. 1 + c /\ (m <= 1 <=> m = 1)  OBVIOUS
      <4>2. CASE m = 1  BY <3>2, <3>3, <4>1, <4>2
      <4>3. CASE m # 1
        <5>1. m - 1 \in 1 .. c /\ t + (m - 1) - 1 = t + m - 2  BY <1>3, <4>3
        <5> QED  BY <2>3, <3>3, <4>1, <4>3, <5>1
      <4> QED  BY <4>2, <4>3
    <3> QED  BY <3>3, <3>4
  <2>5. ASSUME NEW m \in 1 .. Len(k)
        PROVE  P[m] \in 1 .. Len(chain) /\ P[m] \notin U /\ k[m] = chain[P[m]]
    <3>1. CASE m = 1
      <4>1. P[m] = h  BY <3>1
      <4> QED  BY <1>2, <1>4, <2>1, <2>4, <3>1, <4>1
    <3>2. CASE m # 1
      <4>1. P[m] = t + m - 2  BY <3>2
      <4>2. t + m - 2 \in 1 .. Len(chain) /\ ~ (t + m - 2 < t) /\ ~ (t + m - 2 < h)
        BY <1>1, <1>2, <1>3, <2>1, <2>2, <2>4, <3>2
      <4> QED  BY <1>4, <2>4, <3>2, <4>1, <4>2
    <3> QED  BY <3>1, <3>2
  <2>6. ASSUME NEW n \in 1 .. Len(chain), n \notin U
        PROVE  \E m \in 1 .. Len(k) : P[m] = n
    <3>1. n = h \/ n >= t  BY <1>1, <1>2, <1>3, <1>4, <2>6
    <3>2. CASE n = h
      <4>1. 1 \in 1 .. Len(k)  BY <2>4
      <4> QED  BY <3>2, <4>1
    <3>3. CASE n >= t
      <4>1. n - t + 2 \in 1 .. Len(k) /\ n - t + 2 # 1 /\ t + (n - t + 2) - 2 = n
        BY <1>1, <1>3, <2>2, <2>4, <3>3
      <4> QED  BY <4>1
    <3> QED  BY <3>1, <3>2, <3>3
  <2>7. ASSUME NEW m \in 1 .. Len(k), NEW l \in 1 .. Len(k), P[m] = P[l]
        PROVE  m = l
    BY <1>2, <1>3, <2>1, <2>4, <2>7
  <2>8. P \in [1 .. Len(k) -> 1 .. Len(chain)]  BY <2>5
  <2> HIDE DEF P
  <2> QED  BY <2>4, <2>5, <2>6, <2>7, <2>8 DEF k, U
<1> QED  BY <1>1, <1>2, <1>6, <1>7

(* It unlinks nothing that does not meet the condition, and the entry that  *)
(* is the head afterwards does not; of two entries it unlinks both if both  *)
(* do. *)
LEMMA KeptDecides ==
  ASSUME NEW chain \in Seq(Entry), NEW C
  PROVE  /\ \A n \in 1 .. Len(chain) : n \in Unlinked(chain, C) => chain[n].key \in C
         /\ Kept(chain, C) # <<>> => Kept(chain, C)[1].key \notin C
         /\ Len(chain) <= 2 =>
              \A n \in 1 .. Len(chain) : chain[n].key \in C => n \in Unlinked(chain, C)
<1> DEFINE h == FirstStay(chain, C, 1)
           t == FirstStay(chain, C, h + 1)
           k == Kept(chain, C)
           U == Unlinked(chain, C)
<1>1. Len(chain) \in Nat /\ DOMAIN chain = 1 .. Len(chain)  OBVIOUS
<1>2. /\ h \in Nat /\ 1 <= h /\ h <= Len(chain) + 1
      /\ h <= Len(chain) => chain[h].key \notin C
      /\ \A l \in 1 .. Len(chain) : l < h => chain[l].key \in C
  <2>1. 1 <= Len(chain) + 1 /\ 1 \in Nat  BY <1>1
  <2> QED  BY <2>1, FirstStayStops
<1>3. /\ t \in Nat /\ t <= Len(chain) + 1 /\ (h <= Len(chain) => h + 1 <= t)
      /\ t <= Len(chain) => chain[t].key \notin C
      /\ \A l \in h + 1 .. Len(chain) : l < t => chain[l].key \in C
  <2>1. h + 1 \in Nat /\ (h <= Len(chain) => h + 1 <= Len(chain) + 1)  BY <1>1, <1>2
  <2> HIDE DEF h
  <2> QED  BY <2>1, FirstStayStops
<1>4. U = {n \in 1 .. Len(chain) : n < h \/ (h < n /\ n < t)}
  BY <1>1 DEF Unlinked
<1>5. k = IF h > Len(chain) THEN <<>> ELSE <<chain[h]>> \o SubSeq(chain, t, Len(chain))
  BY DEF Kept
<1> HIDE DEF h, t, k, U
<1>6. ASSUME NEW n \in 1 .. Len(chain), n \in U PROVE chain[n].key \in C
  <2>1. n < h \/ (n \in h + 1 .. Len(chain) /\ n < t)  BY <1>1, <1>2, <1>4, <1>6
  <2> QED  BY <1>2, <1>3, <1>6, <2>1
<1>7. ASSUME k # <<>> PROVE k[1].key \notin C
  <2>1. ~ (h > Len(chain)) /\ h <= Len(chain)  BY <1>1, <1>2, <1>5, <1>7
  <2>2. k = <<chain[h]>> \o SubSeq(chain, t, Len(chain))  BY <1>5, <2>1
  <2>3. \A n \in t .. Len(chain) : chain[n] \in Entry
    <3>1. \A n \in t .. Len(chain) : n \in 1 .. Len(chain)  BY <1>1, <1>2, <1>3, <2>1
    <3> QED  BY <3>1
  <2>4. SubSeq(chain, t, Len(chain)) \in Seq(Entry)
    BY <1>1, <1>3, <2>3, SubSeqProperties
  <2>5. chain[h] \in Entry  BY <1>1, <1>2, <2>1
  <2>6. k[1] = chain[h]
    <3> DEFINE tail == SubSeq(chain, t, Len(chain))
    <3>1. tail \in Seq(Entry) /\ Len(tail) \in Nat  BY <2>4
    <3> HIDE DEF tail
    <3>2. <<chain[h]>> \in Seq(Entry) /\ Len(<<chain[h]>>) = 1 /\ <<chain[h]>>[1] = chain[h]
      BY <2>5
    <3>3. \A m \in 1 .. 1 + Len(tail) :
            (<<chain[h]>> \o tail)[m] = IF m <= 1 THEN <<chain[h]>>[m] ELSE tail[m - 1]
      BY <3>1, <3>2, ConcatProperties
    <3>4. 1 \in 1 .. 1 + Len(tail) /\ 1 <= 1  BY <3>1
    <3> QED  BY <2>2, <3>2, <3>3, <3>4 DEF tail
  <2> QED  BY <1>2, <2>1, <2>6
<1>8. ASSUME Len(chain) <= 2, NEW n \in 1 .. Len(chain), chain[n].key \in C PROVE n \in U
  <2>1. n # h /\ n # t  BY <1>1, <1>2, <1>3, <1>8
  <2>2. n < h \/ n > h  BY <1>1, <1>2, <2>1
  <2>3. n > h => n = 2 /\ h = 1  BY <1>1, <1>2, <1>8
  <2>4. h = 1 /\ n = 2 => 2 <= t /\ t # 2  BY <1>1, <1>3, <1>8, <2>1
  <2>5. n > h => n < t  BY <1>3, <2>3, <2>4
  <2> QED  BY <1>4, <2>2, <2>5
<1> QED  BY <1>6, <1>7, <1>8 DEF k, U

(* The cells remove_if_condition empties. *)
CellsUnlinked(C) == UNION {{b} \X Unlinked(buckets[b], C) : b \in BucketIds}

(* remove_if_condition empties those cells and subtracts their number from  *)
(* the size.                                                                *)
LEMMA RemoveIfThins ==
  ASSUME TypeOK, UniqueKeys, NEW C, RemoveIf(C)
  PROVE  /\ Thinned(CellsUnlinked(C))
         /\ size' = size - Cardinality(CellsUnlinked(C))
         /\ UNCHANGED <<uncounted, dangling>>
<1> DEFINE G == CellsUnlinked(C)
<1>1. /\ buckets \in [BucketIds -> Seq(Entry)] /\ pc = "idle"
      /\ \A b \in BucketIds : buckets'[b] = Kept(buckets[b], C)
      /\ buckets' = [b \in BucketIds |-> Kept(buckets[b], C)]
      /\ UNCHANGED <<capacity, pc, i, at, old_capacity, limit>>
      /\ \A b \in BucketIds : b \in Nat
  BY DEF TypeOK, RemoveIf, BucketIds
<1>2. \A b \in BucketIds : \A n : <<b, n>> \in G <=> n \in Unlinked(buckets[b], C)
  BY DEF CellsUnlinked
<1>3. G \subseteq Cells
  <2>1. ASSUME NEW c \in G PROVE c \in Cells
    <3>1. PICK b \in BucketIds : c \in {b} \X Unlinked(buckets[b], C)
      BY <2>1 DEF CellsUnlinked
    <3>2. c[1] = b /\ c[2] \in Unlinked(buckets[b], C) /\ c = <<c[1], c[2]>>  BY <3>1
    <3>3. c[2] \in 1 .. Len(buckets[b])
      <4>1. DOMAIN buckets[b] = 1 .. Len(buckets[b])  BY <1>1
      <4> QED  BY <3>2, <4>1 DEF Unlinked
    <3>4. c[2] \in Nat
      <4>1. Len(buckets[b]) \in Nat  BY <1>1
      <4> QED  BY <3>3, <4>1
    <3> QED  BY <3>2, <3>3, <3>4 DEF Cells
  <2> QED  BY <2>1
<1> HIDE DEF G
<1>4. ASSUME NEW b \in BucketIds
      PROVE  /\ buckets'[b] \in Seq(Entry)
             /\ \E P \in [1 .. Len(buckets'[b]) -> 1 .. Len(buckets[b])] :
                  /\ \A m \in 1 .. Len(buckets'[b]) :
                       <<b, P[m]>> \notin G /\ buckets'[b][m] = buckets[b][P[m]]
                  /\ \A n \in 1 .. Len(buckets[b]) :
                       <<b, n>> \notin G => \E m \in 1 .. Len(buckets'[b]) : P[m] = n
                  /\ \A m, l \in 1 .. Len(buckets'[b]) : P[m] = P[l] => m = l
  <2>1. PICK chain \in Seq(Entry) : chain = buckets[b]  BY <1>1
  <2>2. PICK P \in [1 .. Len(Kept(chain, C)) -> 1 .. Len(chain)] :
           /\ Kept(chain, C) \in Seq(Entry)
           /\ \A m \in 1 .. Len(Kept(chain, C)) :
                P[m] \notin Unlinked(chain, C) /\ Kept(chain, C)[m] = chain[P[m]]
           /\ \A n \in 1 .. Len(chain) :
                n \notin Unlinked(chain, C) => \E m \in 1 .. Len(Kept(chain, C)) : P[m] = n
           /\ \A m, l \in 1 .. Len(Kept(chain, C)) : P[m] = P[l] => m = l
    BY KeptEffect
  <2>3. buckets'[b] = Kept(chain, C)  BY <1>1, <2>1
  <2>4. \A n : <<b, n>> \in G <=> n \in Unlinked(chain, C)  BY <1>2, <2>1
  <2> QED  BY <2>1, <2>2, <2>3, <2>4
<1>5. buckets' \in [BucketIds -> Seq(Entry)]
  BY <1>1, <1>4
<1>6. ASSUME NEW b \in BucketIds
      PROVE  /\ \A m \in 1 .. Len(buckets'[b]) :
                  \E n \in 1 .. Len(buckets[b]) :
                    <<b, n>> \notin G /\ buckets'[b][m] = buckets[b][n]
             /\ \A n \in 1 .. Len(buckets[b]) :
                  <<b, n>> \notin G => \E m \in 1 .. Len(buckets'[b]) : buckets'[b][m] = buckets[b][n]
             /\ \A m, l \in 1 .. Len(buckets'[b]) :
                  buckets'[b][m].key = buckets'[b][l].key => m = l
  <2>1. PICK P \in [1 .. Len(buckets'[b]) -> 1 .. Len(buckets[b])] :
                  /\ \A m \in 1 .. Len(buckets'[b]) :
                       <<b, P[m]>> \notin G /\ buckets'[b][m] = buckets[b][P[m]]
                  /\ \A n \in 1 .. Len(buckets[b]) :
                       <<b, n>> \notin G => \E m \in 1 .. Len(buckets'[b]) : P[m] = n
                  /\ \A m, l \in 1 .. Len(buckets'[b]) : P[m] = P[l] => m = l
    BY <1>4
  <2>2. \A m \in 1 .. Len(buckets'[b]) : P[m] \in 1 .. Len(buckets[b])  OBVIOUS
  <2>3. ASSUME NEW m \in 1 .. Len(buckets'[b]), NEW l \in 1 .. Len(buckets'[b]),
               buckets'[b][m].key = buckets'[b][l].key
        PROVE  m = l
    <3>1. P[m] \in 1 .. Len(buckets[b]) /\ P[l] \in 1 .. Len(buckets[b])
      BY <2>2, <2>3
    <3>2. buckets'[b][m] = buckets[b][P[m]] /\ buckets'[b][l] = buckets[b][P[l]]
      BY <2>1, <2>3
    <3>3. PICK x, y : x = P[m] /\ y = P[l]  OBVIOUS
    <3>4. /\ b \in BucketIds /\ x \in 1 .. Len(buckets[b]) /\ y \in 1 .. Len(buckets[b])
          /\ buckets[b][x].key = buckets[b][y].key
      BY ONLY <1>6, <2>3, <3>1, <3>2, <3>3
    <3>5. UniqueKeys  OBVIOUS
    <3>6. x = y  BY ONLY <3>4, <3>5, SameEntry
    <3> QED  BY <2>1, <3>3, <3>6
  <2>4. ASSUME NEW m \in 1 .. Len(buckets'[b])
        PROVE  \E n \in 1 .. Len(buckets[b]) :
                 <<b, n>> \notin G /\ buckets'[b][m] = buckets[b][n]
    BY <2>1, <2>2
  <2>5. ASSUME NEW n \in 1 .. Len(buckets[b]), <<b, n>> \notin G
        PROVE  \E m \in 1 .. Len(buckets'[b]) : buckets'[b][m] = buckets[b][n]
    <3>1. PICK m \in 1 .. Len(buckets'[b]) : P[m] = n  BY <2>1, <2>5
    <3> QED  BY <2>1, <3>1
  <2> QED  BY ONLY <2>3, <2>4, <2>5
<1>7. Thinned(G)
  BY <1>1, <1>3, <1>5, <1>6 DEF Thinned
<1> QED  BY <1>7 DEF G, RemoveIf, CellsUnlinked

----------------------------------------------------------------------------
(* The inductive invariant of the map with its removals. *)
RemovalInv ==
  /\ TypeOK /\ Placement /\ UniqueKeys /\ LoadInv
  /\ uncounted \in Nat
  /\ IsFiniteSet(HeldKeys) /\ SizeCountsUncounted

(* A removal of some entries, all counted but those that make uncounted     *)
(* grow, keeps it.                                                          *)
LEMMA ThinnedInv ==
  ASSUME RemovalInv, NEW G, Thinned(G), uncounted' \in Nat,
         size' - uncounted' = (size - uncounted) - Cardinality(G),
         size' \in Int, size' <= size
  PROVE  RemovalInv'
<1>1. /\ TypeOK /\ Placement /\ UniqueKeys /\ LoadInv /\ IsFiniteSet(HeldKeys)
      /\ size = Cardinality(HeldKeys) + uncounted /\ size \in Nat /\ uncounted \in Nat
  BY DEF RemovalInv, SizeCountsUncounted, TypeOK
<1>2. /\ IsFiniteSet(G) /\ IsFiniteSet(HeldKeys')
      /\ Cardinality(HeldKeys') = Cardinality(HeldKeys) - Cardinality(G)
  BY <1>1, ThinnedKeys
<1>3. /\ Cardinality(HeldKeys) \in Nat /\ Cardinality(G) \in Nat
      /\ Cardinality(HeldKeys') \in Nat
  BY <1>1, <1>2, FS_CardinalityType
<1>4. size' = Cardinality(HeldKeys') + uncounted'
  BY <1>1, <1>2, <1>3
<1>5. size' \in Nat  BY <1>3, <1>4
<1>6. Placement' /\ UniqueKeys' /\ TypeOK'  BY <1>1, <1>5, ThinnedPlaces
<1>7. capacity' = capacity  BY DEF Thinned
<1>8. LoadInv'  BY <1>1, <1>7, ShrinkLoad
<1> QED  BY <1>2, <1>4, <1>6, <1>8 DEF RemovalInv, SizeCountsUncounted

(* remove_from_ keeps the invariant: the entry leaves the size, or the      *)
(* head of a list leaves without it and is one more uncounted.              *)
LEMMA RemoveFromInv ==
  ASSUME RemovalInv, NEW k \in Keys, RemoveFrom(k)
  PROVE  RemovalInv'
<1>1. /\ TypeOK /\ UniqueKeys /\ uncounted \in Nat /\ size \in Nat /\ pc = "idle"
      /\ UNCHANGED <<capacity, pc, i, at, old_capacity, limit>>
      /\ buckets \in [BucketIds -> Seq(Entry)]
  BY DEF RemovalInv, RemoveFrom, TypeOK
<1> DEFINE b == Index(k)
<1>2. b \in BucketIds  BY <1>1, IndexInRange
<1> HIDE DEF b
<1>3. buckets[b] \in Seq(Entry) /\ Len(buckets[b]) \in Nat  BY <1>1, <1>2
<1>4. ASSUME NEW n \in 1 .. Len(buckets[b]),
             buckets' = [buckets EXCEPT ![b] = RemoveAt(buckets[b], n)],
             uncounted' \in Nat, size' \in Int, size' <= size,
             size' - uncounted' = (size - uncounted) - 1
      PROVE  RemovalInv'
  <2>1. PICK G : G = {<<b, n>>}  OBVIOUS
  <2>2. Thinned(G)  BY <1>1, <1>2, <1>4, <2>1, UnlinkThins
  <2>3. Cardinality(G) = 1  BY <2>1, FS_Singleton
  <2> QED  BY <1>4, <2>2, <2>3, ThinnedInv
<1>5. CASE RemoveHead(k)
  <2>1. buckets[b] # <<>> /\ buckets' = [buckets EXCEPT ![b] = Tail(@)]
        /\ size' = size - 1 /\ uncounted' = uncounted
    BY <1>5 DEF RemoveHead, b
  <2>2. 1 \in 1 .. Len(buckets[b])  BY <1>3, <2>1, EmptySeq
  <2>3. Tail(buckets[b]) = RemoveAt(buckets[b], 1)
    <3>1. PICK c \in Seq(Entry) : c = buckets[b]  BY <1>3
    <3>2. c # <<>> /\ Len(c) \in Nat \ {0}  BY <2>1, <3>1, EmptySeq
    <3>3. /\ RemoveAt(c, 1) \in Seq(Entry) /\ Len(RemoveAt(c, 1)) = Len(c) - 1
          /\ \A m \in 1 .. Len(c) - 1 : RemoveAt(c, 1)[m] = IF m < 1 THEN c[m] ELSE c[m + 1]
      BY <2>2, <3>1, RemoveAtProperties
    <3>4. /\ Tail(c) \in Seq(Entry) /\ Len(Tail(c)) = Len(c) - 1
          /\ \A m \in 1 .. Len(c) - 1 : Tail(c)[m] = c[m + 1]
      BY <3>2, HeadTailProperties
    <3>5. \A m \in 1 .. Len(c) - 1 : RemoveAt(c, 1)[m] = c[m + 1]
      BY <3>2, <3>3
    <3>6. Tail(c) = RemoveAt(c, 1)
      <4> DEFINE x == Tail(c)
                 y == RemoveAt(c, 1)
      <4>1. x \in Seq(Entry) /\ y \in Seq(Entry) /\ Len(x) = Len(y)
            /\ \A m \in 1 .. Len(x) : x[m] = y[m]
        BY <3>3, <3>4, <3>5
      <4> HIDE DEF x, y
      <4>2. x = y  BY <4>1, SeqEqual
      <4> QED  BY <4>2 DEF x, y
    <3> QED  BY <3>1, <3>6
  <2>4. buckets' = [buckets EXCEPT ![b] = RemoveAt(buckets[b], 1)]
    BY <2>1, <2>3
  <2>5. /\ uncounted' \in Nat /\ size' \in Int /\ size' <= size
        /\ size' - uncounted' = (size - uncounted) - 1
    BY <1>1, <2>1
  <2> QED  BY <1>4, <2>2, <2>4, <2>5, Zenon
<1>6. CASE RemoveBehindHead(k)
  <2>1. PICK n \in 2 .. Len(buckets[b]) :
          /\ buckets' = [buckets EXCEPT ![b] = RemoveAt(buckets[b], n)]
          /\ \/ uncounted' = uncounted + 1 /\ size' = size
             \/ size' = size - 1 /\ uncounted' = uncounted
    BY <1>6 DEF RemoveBehindHead, b
  <2>2. n \in 1 .. Len(buckets[b])  BY <1>3
  <2>3. /\ uncounted' \in Nat /\ size' \in Int /\ size' <= size
        /\ size' - uncounted' = (size - uncounted) - 1
    BY <1>1, <2>1
  <2> QED  BY <1>4, <2>1, <2>2, <2>3, Zenon
<1> QED  BY <1>5, <1>6 DEF RemoveFrom

(* remove_if_condition keeps it: every entry it unlinks leaves the size.    *)
LEMMA RemoveIfInv ==
  ASSUME RemovalInv, NEW C, RemoveIf(C)
  PROVE  RemovalInv'
<1>1. /\ TypeOK /\ UniqueKeys /\ uncounted \in Nat /\ size \in Nat /\ IsFiniteSet(HeldKeys)
  BY DEF RemovalInv, TypeOK
<1>2. /\ Thinned(CellsUnlinked(C)) /\ uncounted' = uncounted
      /\ size' = size - Cardinality(CellsUnlinked(C))
  BY <1>1, RemoveIfThins
<1>3. Cardinality(CellsUnlinked(C)) \in Nat
  BY <1>1, <1>2, ThinnedKeys, FS_CardinalityType
<1>4. size' \in Int /\ size' <= size /\ uncounted' \in Nat
      /\ size' - uncounted' = (size - uncounted) - Cardinality(CellsUnlinked(C))
  BY <1>1, <1>2, <1>3
<1> QED  BY <1>2, <1>4, ThinnedInv

(* Every operation of a map with removals keeps it.                         *)
LEMMA RemovalNextInv ==
  ASSUME RemovalInv, [RemovalNext]_removalVars
  PROVE  RemovalInv'
<1>1. ASSUME [Next]_mapVars, uncounted' = uncounted PROVE RemovalInv'
  <2>1. PICK u \in Nat : u = uncounted  BY DEF RemovalInv
  <2>2. CountedInv(u) /\ LoadInv /\ TypeOK
    BY <2>1 DEF RemovalInv, CountedInv, Counted, SizeCountsUncounted
  <2>3. CountedInv(u)' /\ LoadInv'
    BY <1>1, <2>2, NextInv, NextLoad
  <2> QED  BY <1>1, <2>1, <2>3 DEF RemovalInv, CountedInv, Counted, SizeCountsUncounted
<1>2. CASE UNCHANGED removalVars
  <2>1. UNCHANGED mapVars /\ uncounted' = uncounted  BY <1>2 DEF removalVars
  <2> QED  BY <1>1, <2>1
<1> QED  BY <1>1, <1>2, RemoveFromInv, RemoveIfInv DEF RemovalNext

(* So every reachable state satisfies it.                                   *)
LEMMA RemovalSafe == RemovalSpec => []RemovalInv
<1>1. RemovalInit => RemovalInv
  <2> SUFFICES ASSUME RemovalInit PROVE RemovalInv
    OBVIOUS
  <2>1. CountedInv(0) /\ LoadInv /\ uncounted = 0
    BY InitInv, InitLoad DEF RemovalInit
  <2> QED  BY <2>1 DEF RemovalInv, CountedInv, Counted, SizeCountsUncounted
<1>2. RemovalInv /\ [RemovalNext]_removalVars => RemovalInv'
  BY RemovalNextInv
<1> QED  BY <1>1, <1>2, PTL DEF RemovalSpec

(* The removals leave every entry in its bucket and no key twice, and the   *)
(* cursors of the walks in their lists. *)
THEOREM RemovalSound == RemovalSpec => [](TypeOK /\ Placement /\ UniqueKeys)
<1>1. RemovalInv => TypeOK /\ Placement /\ UniqueKeys
  BY DEF RemovalInv
<1> QED  BY <1>1, RemovalSafe, PTL

(* map->size is wrong by the removals of the last entry of a list behind    *)
(* its head, which are not counted (hash_map.h:187-195), and by nothing     *)
(* else: those at the head are counted (174-181).                           *)
THEOREM SizeCountsUncountedCorrect == RemovalSpec => []SizeCountsUncounted
<1>1. RemovalInv => SizeCountsUncounted
  BY DEF RemovalInv
<1> QED  BY <1>1, RemovalSafe, PTL

(* The load stays bounded with removals too: an uncounted removal makes the *)
(* map grow early, never late.                                              *)
THEOREM RemovalLoadFactor == RemovalSpec => []LoadFactorWhenSmall
<1>1. RemovalInv => LoadFactorWhenSmall
  BY LoadBounded DEF RemovalInv
<1> QED  BY <1>1, RemovalSafe, PTL

(* Whatever the lists, remove_if_condition takes nothing that does not meet *)
(* the condition and leaves no list beginning with what does; where no list *)
(* has a third entry, it takes all that does.                               *)
LEMMA RemoveIfDecides ==
  ASSUME RemovalInv, NEW C, RemoveIf(C)
  PROVE  /\ HeldKeys \ C \subseteq HeldKeys'
         /\ HeldKeys' \subseteq HeldKeys
         /\ \A b \in BucketIds : buckets'[b] # <<>> => buckets'[b][1].key \notin C
         /\ ShortChains => HeldKeys' \intersect C = {}
<1> DEFINE G == CellsUnlinked(C)
<1>1. TypeOK /\ UniqueKeys /\ IsFiniteSet(HeldKeys) /\ Thinned(G)
  BY RemoveIfThins DEF RemovalInv
<1>2. HeldKeys' = HeldKeys \ {KeyAt(c) : c \in G}
  BY <1>1, ThinnedKeys
<1>3. \A b \in BucketIds : buckets[b] \in Seq(Entry) /\ buckets'[b] = Kept(buckets[b], C)
  BY <1>1 DEF TypeOK, RemoveIf
<1>4. ASSUME NEW c \in G PROVE KeyAt(c) \in C
  <2>1. PICK b \in BucketIds : c \in {b} \X Unlinked(buckets[b], C)
    BY <1>4 DEF CellsUnlinked
  <2>2. c[1] = b /\ c[2] \in Unlinked(buckets[b], C)  BY <2>1
  <2>3. DOMAIN buckets[b] = 1 .. Len(buckets[b])  BY <1>3
  <2>4. c[2] \in 1 .. Len(buckets[b])  BY <2>2, <2>3 DEF Unlinked
  <2> QED  BY <1>3, <2>2, <2>4, KeptDecides DEF KeyAt
<1>5. ASSUME ShortChains, NEW k \in HeldKeys, k \in C PROVE k \notin HeldKeys'
  <2>1. PICK b \in BucketIds : \E n \in 1 .. Len(buckets[b]) : buckets[b][n].key = k
    BY <1>5 DEF HeldKeys, Held, HasKey
  <2>2. PICK n \in 1 .. Len(buckets[b]) : buckets[b][n].key = k
    BY <2>1
  <2>3. n \in Unlinked(buckets[b], C)
    <3>1. Len(buckets[b]) <= 2  BY <1>5 DEF ShortChains
    <3> QED  BY <1>3, <1>5, <2>2, <3>1, KeptDecides
  <2>4. <<b, n>> \in G /\ KeyAt(<<b, n>>) = k
    BY <2>2, <2>3 DEF CellsUnlinked, KeyAt
  <2> QED  BY <1>2, <2>4
<1>6. \A b \in BucketIds : buckets'[b] # <<>> => buckets'[b][1].key \notin C
  BY <1>3, KeptDecides
<1> HIDE DEF G
<1>7. HeldKeys \ C \subseteq HeldKeys' /\ HeldKeys' \subseteq HeldKeys
  BY <1>2, <1>4
<1> QED  BY <1>2, <1>5, <1>6, <1>7

(* remove_if_condition keeps every entry the condition spares and leaves    *)
(* no list headed by one it names; where no list is longer than two it      *)
(* removes every one (hash_map.h:72-101).                                   *)
THEOREM ConditionDecidesCorrect == RemovalSpec => ConditionDecides
<1>1. RemovalInv =>
        \A C \in Conditions :
          RemoveIf(C) =>
            /\ HeldKeys \ C \subseteq HeldKeys'
            /\ HeldKeys' \subseteq HeldKeys
            /\ \A b \in BucketIds : buckets[b]' # <<>> => buckets[b]'[1].key \notin C
            /\ ShortChains => HeldKeys' \intersect C = {}
  BY RemoveIfDecides
<1> QED  BY <1>1, RemovalSafe, PTL DEF ConditionDecides
=============================================================================
