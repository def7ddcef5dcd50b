--------------------------- MODULE HashMapProofs ---------------------------
(***************************************************************************)
(* The map of hash_map.h, for any keys, hash and initial capacity:         *)
(* its shape, the bucket of every entry, the uniqueness of keys and the    *)
(* exactness of map->size hold in every reachable state.  None of the four *)
(* is inductive alone; MapInv, their conjunction, is.                      *)
(***************************************************************************)
EXTENDS HashMap, DataLemmas, SequenceTheorems, FiniteSetTheorems, TLAPS

(* The remainder of a hash by the capacity names a bucket of the array.     *)
LEMMA IndexInRange ==
  ASSUME TypeOK, NEW k \in Keys
  PROVE  Index(k) \in BucketIds
<1>1. Hash[k] \in Nat /\ capacity \in Nat \ {0}
  BY ConstantsAssumption DEF TypeOK
<1> QED  BY <1>1 DEF Index, BucketIds

(* What the tail of put_to_ leaves, whichever list the put changed. *)
LEMMA ResizeType ==
  ASSUME TypeOK, pc = "idle",
         NEW stored \in [BucketIds -> Seq(Entry)], NEW n \in Nat,
         Resize(stored, n)
  PROVE  TypeOK'
<1>1. i = 0 /\ at = 0 /\ i' = 0 /\ at' = 0 /\ size' = n /\ limit' \in Nat
  BY DEF TypeOK, Resize
<1>2. CASE ResizeNeeded(n)
  <2>1. capacity' = 2 * capacity /\ old_capacity' = capacity /\ pc' = "double"
    BY <1>2 DEF Resize
  <2>2. capacity \in Nat \ {0} /\ capacity' \in Nat \ {0}
    BY <2>1 DEF TypeOK
  <2>3. buckets' \in [0 .. 2 * capacity - 1 -> Seq(Entry)]
    <3>1. buckets' = [b \in 0 .. 2 * capacity - 1 |->
                        IF b \in BucketIds THEN stored[b] ELSE <<>>]
      BY <1>2 DEF Resize
    <3>2. <<>> \in Seq(Entry)  OBVIOUS
    <3> QED  BY <3>1, <3>2
  <2>4. buckets'[0] \in Seq(Entry)
    BY <2>2, <2>3
  <2>5. at' \in 0 .. Len(buckets'[i'])
    BY <1>1, <2>4
  <2> QED  BY <1>1, <2>1, <2>2, <2>3, <2>5 DEF TypeOK, BucketIds
<1>3. CASE ~ ResizeNeeded(n)
  <2>1. /\ buckets' = stored /\ capacity' = capacity
        /\ old_capacity' = old_capacity /\ pc' = pc
    BY <1>3 DEF Resize
  <2>2. stored[0] \in Seq(Entry)
    BY DEF TypeOK, BucketIds
  <2>3. at' \in 0 .. Len(buckets'[i'])
    BY <1>1, <2>1, <2>2
  <2> QED  BY <1>1, <2>1, <2>3 DEF TypeOK, BucketIds
<1> QED  BY <1>2, <1>3

(* put_to_ (hash_map.h:118-147) keeps the shape of the map.                 *)
LEMMA PutType ==
  ASSUME TypeOK, NEW k \in Keys, NEW v \in Values, PutTo(k, v)
  PROVE  TypeOK'
<1> DEFINE chain == buckets[Index(k)]
<1>1. pc = "idle" /\ size \in Nat /\ buckets \in [BucketIds -> Seq(Entry)]
  BY DEF PutTo, TypeOK
<1>2. Index(k) \in BucketIds /\ chain \in Seq(Entry)
  BY <1>1, IndexInRange
<1>3. CASE PutAtHead(k, v)
  <2>1. chain # <<>>  BY <1>3 DEF PutAtHead
  <2>2. 1 \in 1 .. Len(chain) /\ chain[1] \in Entry
    BY <2>1, <1>2
  <2>3. [chain[1] EXCEPT !.value = v] \in Entry
    BY <2>2 DEF Entry
  <2>4. [chain EXCEPT ![1].value = v] \in Seq(Entry)
    BY <1>2, <2>2, <2>3, ExceptSeq
  <2>5. [buckets EXCEPT ![Index(k)] = [chain EXCEPT ![1].value = v]]
          \in [BucketIds -> Seq(Entry)]
    BY <1>1, <2>4
  <2> QED  BY <1>1, <1>3, <2>5, ResizeType DEF PutAtHead
<1>4. CASE PutBehindHead(k)
  BY <1>1, <1>4, ResizeType DEF PutBehindHead
<1>5. CASE PutNew(k, v)
  <2>1. [key |-> k, value |-> v] \in Entry
    BY DEF Entry
  <2>2. Append(chain, [key |-> k, value |-> v]) \in Seq(Entry)
    BY <1>2, <2>1
  <2>3. [buckets EXCEPT ![Index(k)] = Append(@, [key |-> k, value |-> v])]
          \in [BucketIds -> Seq(Entry)]
    BY <1>1, <2>2
  <2>4. size + 1 \in Nat  BY <1>1
  <2> QED  BY <1>1, <1>5, <2>3, <2>4, ResizeType DEF PutNew
<1> QED  BY <1>3, <1>4, <1>5 DEF PutTo

(* One entry of the doubling moved: the two buckets it touches. *)
LEMMA MoveEffect ==
  ASSUME TypeOK, MoveEntry, Index(buckets[i][at + 1].key) # i
  PROVE  LET e == buckets[i][at + 1]
             j == Index(e.key)
         IN  /\ e \in Entry
             /\ j \in BucketIds
             /\ buckets' \in [BucketIds -> Seq(Entry)]
             /\ buckets'[i] = RemoveAt(buckets[i], at + 1)
             /\ buckets'[j] = <<e>> \o buckets[j]
             /\ \A b \in BucketIds : b # i /\ b # j => buckets'[b] = buckets[b]
<1> DEFINE e == buckets[i][at + 1]
           j == Index(e.key)
<1>1. buckets \in [BucketIds -> Seq(Entry)] /\ i \in BucketIds
  BY DEF TypeOK
<1>2. at + 1 \in 1 .. Len(buckets[i])
  BY <1>1 DEF TypeOK, MoveEntry
<1>3. e \in Entry
  BY <1>1, <1>2
<1>4. j \in BucketIds
  BY <1>3, IndexInRange DEF Entry
<1>5. RemoveAt(buckets[i], at + 1) \in Seq(Entry)
  BY <1>1, <1>2, RemoveAtProperties
<1>6. <<e>> \o buckets[j] \in Seq(Entry)
  BY <1>1, <1>3, <1>4, ConcatProperties
<1>7. buckets' = [buckets EXCEPT ![i] = RemoveAt(@, at + 1), ![j] = <<e>> \o @]
  BY DEF MoveEntry
<1> HIDE DEF e, j
<1>8. j # i  BY DEF e, j
<1>9. buckets' = [buckets EXCEPT ![i] = RemoveAt(buckets[i], at + 1),
                                 ![j] = <<e>> \o buckets[j]]
  BY <1>7, <1>8
<1>10. /\ buckets' \in [BucketIds -> Seq(Entry)]
       /\ buckets'[i] = RemoveAt(buckets[i], at + 1)
       /\ buckets'[j] = <<e>> \o buckets[j]
       /\ \A b \in BucketIds : b # i /\ b # j => buckets'[b] = buckets[b]
  BY <1>1, <1>4, <1>5, <1>6, <1>8, <1>9
<1> QED  BY <1>3, <1>4, <1>10 DEF e, j

(* The entry the sweep drops (compiler.c:32-57): one bucket, one less in    *)
(* the size.                                                                *)
LEMMA DropEffect ==
  ASSUME TypeOK, NEW n \in 1 .. Len(buckets[i]), DropEntry(n)
  PROVE  /\ buckets' \in [BucketIds -> Seq(Entry)]
         /\ buckets'[i] = RemoveAt(buckets[i], n)
         /\ \A b \in BucketIds : b # i => buckets'[b] = buckets[b]
<1>1. buckets \in [BucketIds -> Seq(Entry)] /\ i \in BucketIds
  BY DEF TypeOK
<1>2. RemoveAt(buckets[i], n) \in Seq(Entry)
  BY <1>1, RemoveAtProperties
<1>3. buckets' = [buckets EXCEPT ![i] = RemoveAt(@, n)]
  BY DEF DropEntry
<1> QED  BY <1>1, <1>2, <1>3

(* Moving or skipping one entry of a doubling (202-229) keeps the shape.    *)
LEMMA MoveType ==
  ASSUME TypeOK, MoveEntry
  PROVE  TypeOK'
<1>1. buckets \in [BucketIds -> Seq(Entry)] /\ i \in BucketIds
      /\ pc = "double" /\ at \in Nat /\ at < Len(buckets[i])
      /\ Len(buckets[i]) \in Nat
  BY DEF TypeOK, MoveEntry
<1>2. CASE Index(buckets[i][at + 1].key) # i
  <2>1. buckets' \in [BucketIds -> Seq(Entry)]
        /\ Len(buckets'[i]) = Len(buckets[i]) - 1
    BY <1>1, <1>2, MoveEffect, RemoveAtProperties
  <2>2. at' = at  BY <1>2 DEF MoveEntry
  <2>3. at' \in 0 .. Len(buckets'[i])  BY <1>1, <2>1, <2>2
  <2> QED  BY <1>1, <2>1, <2>3 DEF TypeOK, MoveEntry, BucketIds
<1>3. CASE Index(buckets[i][at + 1].key) = i
  <2>1. at' = at + 1 /\ buckets' = buckets  BY <1>3 DEF MoveEntry
  <2>2. at' \in 0 .. Len(buckets'[i])  BY <1>1, <2>1
  <2> QED  BY <1>1, <2>1, <2>2 DEF TypeOK, MoveEntry, BucketIds
<1> QED  BY <1>2, <1>3

(* Dropping or skipping one entry of a sweep keeps the shape.               *)
LEMMA DropType ==
  ASSUME TypeOK, pc = "sweep", NEW n \in 1 .. Len(buckets[i]), DropEntry(n),
         size \in Nat \ {0}, at < Len(buckets[i])
  PROVE  TypeOK'
<1>1. buckets \in [BucketIds -> Seq(Entry)] /\ i \in BucketIds /\ at \in Nat
  BY DEF TypeOK
<1>2. buckets' \in [BucketIds -> Seq(Entry)]
      /\ Len(buckets'[i]) = Len(buckets[i]) - 1
  BY <1>1, DropEffect, RemoveAtProperties
<1>3. at' = at /\ i' = i /\ size' = size - 1
  BY DEF DropEntry
<1>4. at' \in 0 .. Len(buckets'[i'])
  BY <1>1, <1>2, <1>3
<1>5. size' \in Nat  BY <1>3
<1> QED  BY <1>1, <1>2, <1>4, <1>5 DEF TypeOK, DropEntry, BucketIds

----------------------------------------------------------------------------
(* The state after a put, in terms of the lists the put stored. *)
LEMMA ResizeEffect ==
  ASSUME TypeOK, pc = "idle",
         NEW stored \in [BucketIds -> Seq(Entry)], NEW n \in Nat,
         Resize(stored, n)
  PROVE  /\ \A b \in BucketIds : b \in BucketIds' /\ buckets'[b] = stored[b]
         /\ \A b \in BucketIds' : b \notin BucketIds => b >= capacity /\ buckets'[b] = <<>>
         /\ \/ pc' = "idle" /\ capacity' = capacity
            \/ pc' = "double" /\ old_capacity' = capacity /\ i' = 0 /\ at' = 0
<1>1. capacity \in Nat \ {0} /\ i = 0 /\ at = 0
  BY DEF TypeOK
<1>2. CASE ResizeNeeded(n)
  <2>1. /\ capacity' = 2 * capacity /\ old_capacity' = capacity /\ pc' = "double"
        /\ i' = i /\ at' = at
        /\ buckets' = [b \in 0 .. 2 * capacity - 1 |->
                         IF b \in BucketIds THEN stored[b] ELSE <<>>]
    BY <1>2 DEF Resize
  <2> QED  BY <1>1, <2>1 DEF BucketIds
<1>3. CASE ~ ResizeNeeded(n)
  <2>1. buckets' = stored /\ capacity' = capacity /\ pc' = pc
    BY <1>3 DEF Resize
  <2> QED  BY <2>1 DEF BucketIds
<1> QED  BY <1>2, <1>3

(* The doubling a put may start finds every entry where the capacity it     *)
(* from puts it.                                                            *)
LEMMA ResizePlacement ==
  ASSUME TypeOK, pc = "idle",
         NEW stored \in [BucketIds -> Seq(Entry)], NEW n \in Nat,
         Resize(stored, n),
         \A b \in BucketIds : \A m \in 1 .. Len(stored[b]) :
           Index(stored[b][m].key) = b
  PROVE  Placement'
<1>1. SUFFICES ASSUME NEW b \in BucketIds', NEW m \in 1 .. Len(buckets'[b]),
                      Passed(b, m)'
               PROVE  Hash[buckets'[b][m].key] % capacity' = b
  BY DEF Placement, Index
<1>2. CASE b \in BucketIds
  <2>1. buckets'[b] = stored[b]
    BY <1>2, ResizeEffect
  <2>2. ~ (pc' = "double" /\ old_capacity' = capacity /\ i' = 0 /\ at' = 0)
    BY <1>1, <1>2, <2>1 DEF Passed, BucketIds, TypeOK
  <2>3. capacity' = capacity
    BY <2>2, ResizeEffect
  <2> QED  BY <1>1, <1>2, <2>1, <2>3 DEF Index
<1>3. CASE b \notin BucketIds
  BY <1>1, <1>3, ResizeEffect
<1> QED  BY <1>2, <1>3

(* Two positions with one key are the same position. *)
LEMMA SameEntry ==
  ASSUME UniqueKeys, NEW b \in BucketIds, NEW c \in BucketIds,
         NEW n \in 1 .. Len(buckets[b]), NEW m \in 1 .. Len(buckets[c]),
         buckets[b][n].key = buckets[c][m].key
  PROVE  b = c /\ n = m
BY DEF UniqueKeys

(* Starting a doubling changes no list, so no key becomes double.           *)
LEMMA ResizeUnique ==
  ASSUME TypeOK, pc = "idle",
         NEW stored \in [BucketIds -> Seq(Entry)], NEW n \in Nat,
         Resize(stored, n),
         \A b, c \in BucketIds :
           \A m \in 1 .. Len(stored[b]), l \in 1 .. Len(stored[c]) :
             stored[b][m].key = stored[c][l].key => b = c /\ m = l
  PROVE  UniqueKeys'
<1>1. \A b \in BucketIds' : \A m \in 1 .. Len(buckets'[b]) :
        b \in BucketIds /\ buckets'[b] = stored[b]
  BY ResizeEffect
<1>2. SUFFICES ASSUME NEW b \in BucketIds', NEW c \in BucketIds',
                      NEW m \in 1 .. Len(buckets'[b]), NEW l \in 1 .. Len(buckets'[c]),
                      buckets'[b][m].key = buckets'[c][l].key
               PROVE  b = c /\ m = l
  BY DEF UniqueKeys
<1>3. /\ b \in BucketIds /\ buckets'[b] = stored[b] /\ m \in 1 .. Len(stored[b])
      /\ c \in BucketIds /\ buckets'[c] = stored[c] /\ l \in 1 .. Len(stored[c])
  BY <1>1
<1> QED  BY <1>2, <1>3

(* Starting a doubling holds the keys it found.                             *)
LEMMA ResizeHeld ==
  ASSUME TypeOK, pc = "idle",
         NEW stored \in [BucketIds -> Seq(Entry)], NEW n \in Nat,
         Resize(stored, n)
  PROVE  HeldKeys' = {k \in Keys : \E b \in BucketIds : HasKey(stored[b], k)}
<1>1. \A b \in BucketIds : b \in BucketIds' /\ buckets'[b] = stored[b]
  BY ResizeEffect
<1>2. \A b \in BucketIds' : b \notin BucketIds => buckets'[b] = <<>>
  BY ResizeEffect
<1>3. ASSUME NEW k \in Keys
      PROVE  Held(k)' <=> \E b \in BucketIds : HasKey(stored[b], k)
  BY <1>1, <1>2 DEF Held, HasKey
<1> QED  BY <1>3 DEF HeldKeys

----------------------------------------------------------------------------
(* The inductive invariant: the sweep may decrement size only because it   *)
(* counts the keys, and it counts them because none is stored twice, which *)
(* a put can only ensure where every key is in its own bucket.             *)
Counted(u) == IsFiniteSet(HeldKeys) /\ size = Cardinality(HeldKeys) + u

CountedInv(u) == TypeOK /\ Placement /\ UniqueKeys /\ Counted(u)

MapInv == TypeOK /\ Placement /\ UniqueKeys /\ SizeExact

(* A put that leaves the keys of every list alone. *)
LEMMA PutSameKeys ==
  ASSUME NEW u \in Nat, CountedInv(u), pc = "idle",
         NEW stored \in [BucketIds -> Seq(Entry)],
         Resize(stored, size),
         \A b \in BucketIds :
           /\ Len(stored[b]) = Len(buckets[b])
           /\ \A m \in 1 .. Len(buckets[b]) : stored[b][m].key = buckets[b][m].key
  PROVE  CountedInv(u)'
<1>1. size \in Nat /\ TypeOK
  BY DEF CountedInv, TypeOK
<1>2. TypeOK'
  BY <1>1, ResizeType DEF CountedInv
<1>3. Placement'
  <2>1. \A b \in BucketIds : \A m \in 1 .. Len(stored[b]) :
          Index(stored[b][m].key) = b
    BY DEF CountedInv, Placement, Passed
  <2> QED  BY <1>1, <2>1, ResizePlacement
<1>4. UniqueKeys'
  <2>1. \A b, c \in BucketIds :
          \A m \in 1 .. Len(stored[b]), l \in 1 .. Len(stored[c]) :
            stored[b][m].key = stored[c][l].key => b = c /\ m = l
    BY DEF CountedInv, UniqueKeys
  <2> QED  BY <1>1, <2>1, ResizeUnique
<1>5. Counted(u)'
  <2>1. \A b \in BucketIds, k \in Keys : HasKey(stored[b], k) <=> HasKey(buckets[b], k)
    BY DEF HasKey
  <2>2. {k \in Keys : \E b \in BucketIds : HasKey(stored[b], k)} = HeldKeys
    BY <2>1 DEF HeldKeys, Held
  <2>3. HeldKeys' = HeldKeys
    BY <1>1, <2>2, ResizeHeld
  <2>4. size' = size  BY DEF Resize
  <2> QED  BY <2>3, <2>4 DEF CountedInv, Counted
<1> QED  BY <1>2, <1>3, <1>4, <1>5 DEF CountedInv

(* With every key in its own bucket, a key absent from it is absent. *)
LEMMA AbsentFromItsBucket ==
  ASSUME Placement, pc = "idle", NEW k \in Keys, ~ HasKey(buckets[Index(k)], k)
  PROVE  \A b \in BucketIds : \A m \in 1 .. Len(buckets[b]) : buckets[b][m].key # k
BY DEF Placement, Passed, HasKey

(* A put that appends a new key to its bucket (121-124, 134-136) keeps the  *)
(* inductive invariant: the key was nowhere else.                           *)
LEMMA PutNewInv ==
  ASSUME NEW u \in Nat, CountedInv(u), pc = "idle", NEW k \in Keys, NEW v \in Values, PutNew(k, v)
  PROVE  CountedInv(u)'
<1> DEFINE e == [key |-> k, value |-> v]
           stored == [buckets EXCEPT ![Index(k)] = Append(@, e)]
<1>1. TypeOK /\ size \in Nat /\ size + 1 \in Nat /\ buckets \in [BucketIds -> Seq(Entry)]
  BY DEF CountedInv, TypeOK
<1>2. Index(k) \in BucketIds
  BY <1>1, IndexInRange
<1>3. e \in Entry /\ e.key = k
  BY DEF Entry
<1>4. Resize(stored, size + 1) /\ ~ HasKey(buckets[Index(k)], k)
  BY DEF PutNew
<1>5. \A b \in BucketIds : \A m \in 1 .. Len(buckets[b]) : buckets[b][m].key # k
  BY <1>4, AbsentFromItsBucket DEF CountedInv
<1>6. /\ stored \in [BucketIds -> Seq(Entry)]
      /\ \A b \in BucketIds : b # Index(k) => stored[b] = buckets[b]
      /\ stored[Index(k)] = Append(buckets[Index(k)], e)
  BY <1>1, <1>2, <1>3
<1> HIDE DEF e, stored
<1>7. /\ Len(stored[Index(k)]) = Len(buckets[Index(k)]) + 1
      /\ \A m \in 1 .. Len(buckets[Index(k)]) : stored[Index(k)][m] = buckets[Index(k)][m]
      /\ stored[Index(k)][Len(buckets[Index(k)]) + 1] = e
  BY <1>1, <1>2, <1>3, <1>6, AppendProperties
<1>8. ASSUME NEW b \in BucketIds, NEW m \in 1 .. Len(stored[b])
      PROVE  \/ m \in 1 .. Len(buckets[b]) /\ stored[b][m] = buckets[b][m]
             \/ b = Index(k) /\ m = Len(buckets[Index(k)]) + 1 /\ stored[b][m] = e
  <2>1. CASE b = Index(k)
    <3>1. Len(buckets[b]) \in Nat  BY <1>1
    <3> QED  BY <1>7, <2>1, <3>1
  <2>2. CASE b # Index(k)
    BY <1>6, <2>2
  <2> QED  BY <2>1, <2>2
<1>9. TypeOK'
  BY <1>1, <1>4, <1>6, ResizeType
<1>10. Placement'
  <2>1. \A b \in BucketIds : \A m \in 1 .. Len(stored[b]) :
          Index(stored[b][m].key) = b
    BY <1>3, <1>8 DEF CountedInv, Placement, Passed
  <2> QED  BY <1>1, <1>4, <1>6, <2>1, ResizePlacement
<1>11. UniqueKeys'
  <2>1. ASSUME NEW b \in BucketIds, NEW c \in BucketIds,
               NEW m \in 1 .. Len(stored[b]), NEW l \in 1 .. Len(stored[c]),
               stored[b][m].key = stored[c][l].key
        PROVE  b = c /\ m = l
    <3>1. CASE /\ m \in 1 .. Len(buckets[b]) /\ stored[b][m] = buckets[b][m]
               /\ l \in 1 .. Len(buckets[c]) /\ stored[c][l] = buckets[c][l]
      BY <2>1, <3>1 DEF CountedInv, UniqueKeys
    <3>2. CASE /\ m \in 1 .. Len(buckets[b]) /\ stored[b][m] = buckets[b][m]
               /\ stored[c][l] = e
      BY <1>3, <1>5, <2>1, <3>2
    <3>3. CASE /\ stored[b][m] = e
               /\ l \in 1 .. Len(buckets[c]) /\ stored[c][l] = buckets[c][l]
      BY <1>3, <1>5, <2>1, <3>3
    <3> QED  BY <1>8, <3>1, <3>2, <3>3
  <2> QED  BY <1>1, <1>4, <1>6, <2>1, ResizeUnique
<1>12. Counted(u)'
  <2>1. ASSUME NEW x \in Keys
        PROVE  (\E b \in BucketIds : HasKey(stored[b], x)) <=> x \in HeldKeys \/ x = k
    <3>1. ASSUME NEW b \in BucketIds, NEW m \in 1 .. Len(stored[b]), stored[b][m].key = x
          PROVE  x \in HeldKeys \/ x = k
      BY <1>3, <1>8, <3>1 DEF HeldKeys, Held, HasKey
    <3>2. ASSUME NEW b \in BucketIds, NEW m \in 1 .. Len(buckets[b]), buckets[b][m].key = x
          PROVE  HasKey(stored[b], x)
      <4>1. CASE b = Index(k)
        <5>1. m \in 1 .. Len(stored[b]) /\ stored[b][m] = buckets[b][m]
          BY <1>7, <4>1
        <5> QED  BY <3>2, <5>1 DEF HasKey
      <4>2. CASE b # Index(k)
        BY <1>6, <3>2, <4>2 DEF HasKey
      <4> QED  BY <4>1, <4>2
    <3>3. HasKey(stored[Index(k)], k)
      <4>1. Len(buckets[Index(k)]) \in Nat  BY <1>1, <1>2
      <4> QED  BY <1>3, <1>7, <4>1 DEF HasKey
    <3> QED  BY <1>2, <3>1, <3>2, <3>3 DEF HeldKeys, Held, HasKey
  <2>2. HeldKeys' = HeldKeys \union {k}
    <3>1. HeldKeys' = {x \in Keys : \E b \in BucketIds : HasKey(stored[b], x)}
      BY <1>1, <1>4, <1>6, ResizeHeld
    <3> QED  BY <2>1, <3>1 DEF HeldKeys
  <2>3. k \notin HeldKeys
    BY <1>5 DEF HeldKeys, Held, HasKey
  <2>4. size' = size + 1  BY <1>4 DEF Resize
  <2>5. IsFiniteSet(HeldKeys) /\ size = Cardinality(HeldKeys) + u
    BY DEF CountedInv, Counted
  <2>6. IsFiniteSet(HeldKeys \union {k})
        /\ Cardinality(HeldKeys \union {k}) = Cardinality(HeldKeys) + 1
    BY <2>3, <2>5, FS_AddElement
  <2>7. Cardinality(HeldKeys) \in Nat  BY <2>5, FS_CardinalityType
  <2>8. size' = Cardinality(HeldKeys \union {k}) + u
    BY <2>4, <2>5, <2>6, <2>7
  <2> QED  BY <2>2, <2>6, <2>8 DEF Counted
<1> QED  BY <1>9, <1>10, <1>11, <1>12 DEF CountedInv

(* Every branch of put_to_ keeps the inductive invariant.                   *)
LEMMA PutInv ==
  ASSUME NEW u \in Nat, CountedInv(u), NEW k \in Keys, NEW v \in Values, PutTo(k, v)
  PROVE  CountedInv(u)'
<1>1. pc = "idle" /\ size \in Nat /\ buckets \in [BucketIds -> Seq(Entry)]
  BY DEF PutTo, CountedInv, TypeOK
<1>2. CASE PutAtHead(k, v)
  <2> DEFINE chain == buckets[Index(k)]
             newHead == [chain[1] EXCEPT !.value = v]
             newChain == [chain EXCEPT ![1] = newHead]
             stored == [buckets EXCEPT ![Index(k)] = newChain]
  <2>1. Index(k) \in BucketIds /\ chain \in Seq(Entry)
    BY <1>1, IndexInRange DEF CountedInv
  <2>2. 1 \in 1 .. Len(chain) /\ chain[1] \in Entry
    BY <1>2, <2>1 DEF PutAtHead
  <2>3. newHead \in Entry /\ newHead.key = chain[1].key
    BY <2>2 DEF Entry
  <2>4. /\ newChain \in Seq(Entry)
        /\ Len(newChain) = Len(chain)
        /\ \A m \in 1 .. Len(chain) :
             newChain[m] = IF m = 1 THEN newHead ELSE chain[m]
    <3> HIDE DEF chain, newHead
    <3> QED  BY <2>1, <2>2, <2>3, ExceptSeq
  <2>5. \A m \in 1 .. Len(chain) : newChain[m].key = chain[m].key
    <3> HIDE DEF chain, newHead, newChain
    <3> QED  BY <2>3, <2>4
  <2>6. stored \in [BucketIds -> Seq(Entry)]
    BY <1>1, <2>4
  <2>7. \A b \in BucketIds :
          /\ Len(stored[b]) = Len(buckets[b])
          /\ \A m \in 1 .. Len(buckets[b]) : stored[b][m].key = buckets[b][m].key
    BY <1>1, <2>1, <2>4, <2>5
  <2>8. Resize(stored, size)
    BY <1>2 DEF PutAtHead
  <2> HIDE DEF stored
  <2> QED  BY <1>1, <2>6, <2>7, <2>8, PutSameKeys
<1>3. CASE PutBehindHead(k)
  BY <1>1, <1>3, PutSameKeys DEF PutBehindHead
<1>4. CASE PutNew(k, v)
  BY <1>1, <1>4, PutNewInv
<1> QED  BY <1>2, <1>3, <1>4 DEF PutTo

----------------------------------------------------------------------------
(* One step of double_capacity keeps the inductive invariant: the entry it  *)
(* moves lands in the bucket of the new capacity, behind the walk or ahead. *)
LEMMA MoveInv ==
  ASSUME NEW u \in Nat, CountedInv(u), MoveEntry, Index(buckets[i][at + 1].key) # i
  PROVE  CountedInv(u)'
<1> DEFINE e == buckets[i][at + 1]
           j == Index(e.key)
<1>1. /\ TypeOK /\ buckets \in [BucketIds -> Seq(Entry)] /\ i \in BucketIds
      /\ pc = "double" /\ at \in Nat /\ at + 1 \in 1 .. Len(buckets[i])
      /\ i < old_capacity
  BY DEF CountedInv, TypeOK, MoveEntry
<1>2. /\ capacity' = capacity /\ pc' = pc /\ i' = i /\ at' = at
      /\ old_capacity' = old_capacity /\ size' = size /\ BucketIds' = BucketIds
  BY DEF MoveEntry, BucketIds
<1>3. /\ e \in Entry /\ j \in BucketIds /\ j # i
      /\ buckets'[i] = RemoveAt(buckets[i], at + 1)
      /\ buckets'[j] = <<e>> \o buckets[j]
      /\ \A b \in BucketIds : b # i /\ b # j => buckets'[b] = buckets[b]
  BY <1>1, MoveEffect
<1>4. /\ Len(buckets[i]) \in Nat /\ Len(buckets[j]) \in Nat
      /\ buckets[i] \in Seq(Entry) /\ buckets[j] \in Seq(Entry)
  BY <1>1, <1>3
<1>5. /\ Len(buckets'[i]) = Len(buckets[i]) - 1
      /\ \A m \in 1 .. Len(buckets[i]) - 1 :
           buckets'[i][m] = IF m <= at THEN buckets[i][m] ELSE buckets[i][m + 1]
  <2>1. /\ Len(RemoveAt(buckets[i], at + 1)) = Len(buckets[i]) - 1
        /\ \A m \in 1 .. Len(buckets[i]) - 1 :
             RemoveAt(buckets[i], at + 1)[m]
               = IF m < at + 1 THEN buckets[i][m] ELSE buckets[i][m + 1]
    BY <1>1, <1>4, RemoveAtProperties
  <2>2. \A m \in Nat : m < at + 1 <=> m <= at
    BY <1>1
  <2>3. \A m \in 1 .. Len(buckets[i]) - 1 : m \in Nat  BY <1>1
  <2> HIDE DEF e
  <2> QED  BY ONLY <1>3, <2>1, <2>2, <2>3
<1>6. /\ Len(buckets'[j]) = Len(buckets[j]) + 1
      /\ buckets'[j][1] = e
      /\ \A m \in 1 .. Len(buckets[j]) : buckets'[j][m + 1] = buckets[j][m]
  <2> HIDE DEF e, j
  <2>1. <<e>> \in Seq(Entry) /\ Len(<<e>>) = 1 /\ <<e>>[1] = e
    <3>1. e \in Entry  BY <1>3
    <3> QED  BY ONLY <3>1
  <2>2. /\ Len(<<e>> \o buckets[j]) = 1 + Len(buckets[j])
        /\ \A m \in 1 .. 1 + Len(buckets[j]) :
             (<<e>> \o buckets[j])[m] = IF m <= 1 THEN <<e>>[m] ELSE buckets[j][m - 1]
    <3>1. PICK chain \in Seq(Entry) : chain = buckets[j]  BY <1>4
    <3>2. PICK one \in Seq(Entry) : one = <<e>> /\ Len(one) = 1  BY <2>1
    <3>3. /\ Len(one \o chain) = Len(one) + Len(chain)
          /\ \A m \in 1 .. Len(one) + Len(chain) :
               (one \o chain)[m] = IF m <= Len(one) THEN one[m] ELSE chain[m - Len(one)]
      BY ONLY ConcatProperties
    <3> QED  BY ONLY <3>1, <3>2, <3>3
  <2>3. 1 \in 1 .. 1 + Len(buckets[j])  BY <1>4
  <2>4. ASSUME NEW m \in 1 .. Len(buckets[j])
        PROVE  m + 1 \in 1 .. 1 + Len(buckets[j]) /\ ~ (m + 1 <= 1) /\ (m + 1) - 1 = m
    BY <1>4
  <2>5. Len(buckets[j]) \in Nat /\ 1 + Len(buckets[j]) = Len(buckets[j]) + 1  BY <1>4
  <2>6. buckets'[j] = <<e>> \o buckets[j]  BY <1>3
  <2>7. (<<e>> \o buckets[j])[1] = e  BY ONLY <2>1, <2>2, <2>3
  <2>8. \A m \in 1 .. Len(buckets[j]) : (<<e>> \o buckets[j])[m + 1] = buckets[j][m]
    BY ONLY <2>2, <2>4
  <2>9. Len(<<e>> \o buckets[j]) = Len(buckets[j]) + 1  BY ONLY <2>2, <2>5
  <2> QED  BY ONLY <2>6, <2>7, <2>8, <2>9
<1> HIDE DEF e, j
<1>7. e = buckets[i][at + 1] /\ e.key \in Keys /\ j = Index(e.key)
  BY <1>3 DEF e, j, Entry
<1>8. TypeOK'
  BY MoveType DEF CountedInv
<1> DEFINE FromBucket(b, m) == IF b = j /\ m = 1 THEN i ELSE b
           FromAt(b, m) == IF b = i THEN IF m <= at THEN m ELSE m + 1
                           ELSE IF b = j THEN IF m = 1 THEN at + 1 ELSE m - 1
                           ELSE m
<1>9. ASSUME NEW b \in BucketIds, NEW m \in 1 .. Len(buckets'[b])
      PROVE  /\ FromBucket(b, m) \in BucketIds
             /\ FromAt(b, m) \in 1 .. Len(buckets[FromBucket(b, m)])
             /\ buckets'[b][m] = buckets[FromBucket(b, m)][FromAt(b, m)]
  <2>1. CASE b = i
    <3>1. FromBucket(b, m) = i  BY <1>3, <2>1
    <3>2. FromAt(b, m) = IF m <= at THEN m ELSE m + 1  BY <2>1
    <3>3. m \in 1 .. Len(buckets[i]) - 1  BY <1>5, <2>1
    <3>4. buckets'[i][m] = IF m <= at THEN buckets[i][m] ELSE buckets[i][m + 1]
      BY <1>5, <3>3
    <3>5. CASE m <= at
      <4>1. FromAt(b, m) = m  BY <3>2, <3>5
      <4> HIDE DEF FromAt, FromBucket
      <4> QED  BY <1>1, <2>1, <3>1, <3>3, <3>4, <3>5, <4>1
    <3>6. CASE ~ (m <= at)
      <4>1. FromAt(b, m) = m + 1 /\ m + 1 \in 1 .. Len(buckets[i])  BY <1>1, <3>2, <3>3, <3>6
      <4> HIDE DEF FromAt, FromBucket
      <4> QED  BY <1>1, <2>1, <3>1, <3>4, <3>6, <4>1
    <3> QED  BY <3>5, <3>6
  <2>2. CASE b = j /\ m = 1
    BY <1>1, <1>3, <1>6, <1>7, <2>2
  <2>3. CASE b = j /\ m # 1
    <3>1. FromBucket(b, m) = j /\ FromAt(b, m) = m - 1  BY <1>3, <2>3
    <3>2. m - 1 \in 1 .. Len(buckets[j])  BY <1>4, <1>6, <2>3
    <3>3. buckets'[j][(m - 1) + 1] = buckets[j][m - 1]  BY <1>6, <3>2
    <3>4. (m - 1) + 1 = m  OBVIOUS
    <3> QED  BY <1>3, <2>3, <3>1, <3>2, <3>3, <3>4
  <2>4. CASE b # i /\ b # j
    BY <1>3, <2>4
  <2> QED  BY <2>1, <2>2, <2>3, <2>4
<1>10. ASSUME NEW b \in BucketIds, NEW m \in 1 .. Len(buckets'[b]),
              NEW c \in BucketIds, NEW l \in 1 .. Len(buckets'[c]),
              FromBucket(b, m) = FromBucket(c, l), FromAt(b, m) = FromAt(c, l)
       PROVE  b = c /\ m = l
  BY <1>1, <1>3, <1>10
<1>11. Placement'
  <2>1. SUFFICES ASSUME NEW b \in BucketIds, NEW m \in 1 .. Len(buckets'[b]),
                        Passed(b, m)'
                 PROVE  Hash[buckets'[b][m].key] % capacity = b
    BY <1>2 DEF Placement, Index
  <2>2. CASE b = j /\ m = 1
    BY <1>6, <1>7, <2>2 DEF Index
  <2>3. CASE ~ (b = j /\ m = 1)
    <3>1. Passed(b, FromAt(b, m))
      BY <1>1, <1>2, <1>3, <2>1, <2>3 DEF Passed
    <3>2. FromBucket(b, m) = b  BY <2>3
    <3>3. FromAt(b, m) \in 1 .. Len(buckets[b]) /\ buckets'[b][m] = buckets[b][FromAt(b, m)]
      BY <1>9, <3>2
    <3> HIDE DEF FromBucket, FromAt
    <3> QED  BY <3>1, <3>3 DEF CountedInv, Placement, Index
  <2> QED  BY <2>2, <2>3
<1>12. UniqueKeys'
  <2>1. SUFFICES ASSUME NEW b \in BucketIds, NEW m \in 1 .. Len(buckets'[b]),
                        NEW c \in BucketIds, NEW l \in 1 .. Len(buckets'[c]),
                        buckets'[b][m].key = buckets'[c][l].key
                 PROVE  b = c /\ m = l
    BY <1>2 DEF UniqueKeys
  <2>2. FromBucket(b, m) = FromBucket(c, l) /\ FromAt(b, m) = FromAt(c, l)
    <3>1. /\ FromBucket(b, m) \in BucketIds
          /\ FromAt(b, m) \in 1 .. Len(buckets[FromBucket(b, m)])
          /\ buckets'[b][m] = buckets[FromBucket(b, m)][FromAt(b, m)]
      BY <1>9
    <3>2. /\ FromBucket(c, l) \in BucketIds
          /\ FromAt(c, l) \in 1 .. Len(buckets[FromBucket(c, l)])
          /\ buckets'[c][l] = buckets[FromBucket(c, l)][FromAt(c, l)]
      BY <1>9
    <3> HIDE DEF FromBucket, FromAt
    <3>3. UniqueKeys  BY DEF CountedInv
    <3>4. PICK B1, A1, B2, A2 :
                 /\ B1 = FromBucket(b, m) /\ A1 = FromAt(b, m)
                 /\ B2 = FromBucket(c, l) /\ A2 = FromAt(c, l)
      OBVIOUS
    <3>5. /\ B1 \in BucketIds /\ A1 \in 1 .. Len(buckets[B1])
          /\ B2 \in BucketIds /\ A2 \in 1 .. Len(buckets[B2])
          /\ buckets[B1][A1].key = buckets[B2][A2].key
      BY ONLY <2>1, <3>1, <3>2, <3>4
    <3>6. B1 = B2 /\ A1 = A2  BY ONLY <3>3, <3>5, SameEntry
    <3> QED  BY ONLY <3>4, <3>6
  <2> QED  BY <1>10, <2>2
<1>13. Counted(u)'
  <2>1. ASSUME NEW k \in Keys, Held(k)' PROVE Held(k)
    <3>1. PICK b \in BucketIds : \E m \in 1 .. Len(buckets'[b]) : buckets'[b][m].key = k
      BY <1>2, <2>1 DEF Held, HasKey
    <3>2. PICK m \in 1 .. Len(buckets'[b]) : buckets'[b][m].key = k  BY <3>1
    <3>3. /\ FromBucket(b, m) \in BucketIds
          /\ FromAt(b, m) \in 1 .. Len(buckets[FromBucket(b, m)])
          /\ buckets[FromBucket(b, m)][FromAt(b, m)].key = k
      BY <1>9, <3>2
    <3> HIDE DEF FromBucket, FromAt
    <3> QED  BY ONLY <3>3 DEF Held, HasKey
  <2>2. ASSUME NEW k \in Keys, NEW b \in BucketIds, NEW m \in 1 .. Len(buckets[b]),
               buckets[b][m].key = k
        PROVE  \E c \in BucketIds : \E l \in 1 .. Len(buckets'[c]) : buckets'[c][l].key = k
    <3>1. CASE b = i /\ m <= at
      <4>1. m \in 1 .. Len(buckets[i]) - 1  BY <1>1, <3>1
      <4> QED  BY <1>1, <1>5, <2>2, <3>1, <4>1
    <3>2. CASE b = i /\ m = at + 1
      <4>1. 1 \in 1 .. Len(buckets'[j])  BY <1>4, <1>6
      <4>2. buckets'[j][1].key = k /\ j \in BucketIds
        BY <1>3, <1>6, <1>7, <2>2, <3>2
      <4> QED  BY ONLY <4>1, <4>2
    <3>3. CASE b = i /\ m > at + 1
      <4>1. m - 1 \in 1 .. Len(buckets[i]) - 1 /\ ~ (m - 1 <= at) /\ (m - 1) + 1 = m
        BY <1>1, <1>4, <3>3
      <4>2. buckets'[i][m - 1] = buckets[i][m]  BY <1>5, <4>1
      <4> QED  BY <1>1, <1>5, <2>2, <3>3, <4>1, <4>2
    <3>4. CASE b = j
      <4>1. m + 1 \in 1 .. Len(buckets'[j])  BY <1>4, <1>6, <3>4
      <4> QED  BY <1>3, <1>6, <2>2, <3>4, <4>1
    <3>5. CASE b # i /\ b # j
      BY <1>3, <2>2, <3>5
    <3>6. m <= at \/ m = at + 1 \/ m > at + 1
      <4>1. Len(buckets[b]) \in Nat /\ at \in Nat  BY <1>1
      <4> QED  BY ONLY <4>1
    <3> QED  BY ONLY <3>1, <3>2, <3>3, <3>4, <3>5, <3>6
  <2>3. HeldKeys' = HeldKeys
    BY <1>2, <2>1, <2>2 DEF HeldKeys, Held, HasKey
  <2> QED  BY <1>2, <2>3 DEF CountedInv, Counted
<1> QED  BY <1>8, <1>11, <1>12, <1>13 DEF CountedInv

(* One step of the sweep keeps the inductive invariant.                     *)
LEMMA DropInv ==
  ASSUME NEW u \in Nat, CountedInv(u), pc = "sweep", NEW n \in 1 .. Len(buckets[i]), DropEntry(n),
         at < Len(buckets[i])
  PROVE  CountedInv(u)'
<1>1. /\ TypeOK /\ buckets \in [BucketIds -> Seq(Entry)] /\ i \in BucketIds
      /\ buckets[i] \in Seq(Entry) /\ Len(buckets[i]) \in Nat /\ size \in Nat
  BY DEF CountedInv, TypeOK
<1>2. /\ capacity' = capacity /\ pc' = pc /\ size' = size - 1 /\ BucketIds' = BucketIds
  BY DEF DropEntry, BucketIds
<1>3. /\ buckets'[i] = RemoveAt(buckets[i], n)
      /\ \A b \in BucketIds : b # i => buckets'[b] = buckets[b]
  BY <1>1, DropEffect
<1>4. /\ Len(buckets'[i]) = Len(buckets[i]) - 1
      /\ \A m \in 1 .. Len(buckets[i]) - 1 :
           buckets'[i][m] = IF m < n THEN buckets[i][m] ELSE buckets[i][m + 1]
  BY <1>1, <1>3, RemoveAtProperties
<1>5. buckets[i][n].key \in Keys
  <2>1. buckets[i][n] \in Entry  BY <1>1
  <2> QED  BY <2>1 DEF Entry
<1> DEFINE FromAt(b, m) == IF b = i /\ m >= n THEN m + 1 ELSE m
<1>6. ASSUME NEW b \in BucketIds, NEW m \in 1 .. Len(buckets'[b])
      PROVE  /\ FromAt(b, m) \in 1 .. Len(buckets[b])
             /\ ~ (b = i /\ FromAt(b, m) = n)
             /\ buckets'[b][m] = buckets[b][FromAt(b, m)]
  <2>1. CASE b = i
    <3>1. /\ m \in 1 .. Len(buckets[i]) - 1
          /\ buckets'[i][m] = IF m < n THEN buckets[i][m] ELSE buckets[i][m + 1]
      BY <1>4, <2>1
    <3>2. CASE m < n
      <4>1. FromAt(b, m) = m  BY <1>1, <3>1, <3>2
      <4> HIDE DEF FromAt
      <4> QED  BY <1>1, <2>1, <3>1, <3>2, <4>1
    <3>3. CASE ~ (m < n)
      <4>1. FromAt(b, m) = m + 1  BY <1>1, <2>1, <3>1, <3>3
      <4> HIDE DEF FromAt
      <4> QED  BY <1>1, <2>1, <3>1, <3>3, <4>1
    <3> QED  BY <3>2, <3>3
  <2>2. CASE b # i
    BY <1>3, <2>2
  <2> QED  BY <2>1, <2>2
<1>7. HeldKeys' = HeldKeys \ {buckets[i][n].key}
  <2>1. ASSUME NEW k \in Keys, NEW b \in BucketIds, NEW m \in 1 .. Len(buckets'[b]),
               buckets'[b][m].key = k
        PROVE  Held(k) /\ k # buckets[i][n].key
    <3>1. /\ FromAt(b, m) \in 1 .. Len(buckets[b])
          /\ ~ (b = i /\ FromAt(b, m) = n)
          /\ buckets[b][FromAt(b, m)].key = k
      BY <1>6, <2>1
    <3> HIDE DEF FromAt
    <3> QED  BY <1>1, <3>1 DEF Held, HasKey, CountedInv, UniqueKeys
  <2>2. ASSUME NEW k \in Keys, NEW b \in BucketIds, NEW m \in 1 .. Len(buckets[b]),
               buckets[b][m].key = k, k # buckets[i][n].key
        PROVE  \E l \in 1 .. Len(buckets'[b]) : buckets'[b][l].key = k
    <3>1. CASE b = i /\ m < n
      <4>1. m \in 1 .. Len(buckets[i]) - 1  BY <1>1, <3>1
      <4> QED  BY <1>4, <2>2, <3>1, <4>1
    <3>2. CASE b = i /\ m > n
      <4>1. m - 1 \in 1 .. Len(buckets[i]) - 1 /\ ~ (m - 1 < n) /\ (m - 1) + 1 = m
        BY <1>1, <3>2
      <4>2. buckets'[i][m - 1] = buckets[i][m]  BY <1>4, <4>1
      <4> QED  BY <1>4, <2>2, <3>2, <4>1, <4>2
    <3>3. CASE b # i
      BY <1>3, <2>2, <3>3
    <3>4. ~ (b = i /\ m = n)
      BY <2>2
    <3> QED  BY <3>1, <3>2, <3>3, <3>4
  <2> QED  BY <1>2, <2>1, <2>2 DEF HeldKeys, Held, HasKey
<1>8. buckets[i][n].key \in HeldKeys
  BY <1>1, <1>5 DEF HeldKeys, Held, HasKey
<1>9. Counted(u)' /\ size \in Nat \ {0}
  <2>1. /\ IsFiniteSet(HeldKeys \ {buckets[i][n].key})
        /\ Cardinality(HeldKeys \ {buckets[i][n].key}) = Cardinality(HeldKeys) - 1
    BY <1>8, FS_RemoveElement DEF CountedInv, Counted
  <2>2. Cardinality(HeldKeys \ {buckets[i][n].key}) \in Nat
    BY <2>1, FS_CardinalityType
  <2>3. IsFiniteSet(HeldKeys) /\ size = Cardinality(HeldKeys) + u
    BY DEF CountedInv, Counted
  <2>4. Cardinality(HeldKeys) \in Nat  BY <2>3, FS_CardinalityType
  <2>5. size \in Nat \ {0} /\ size' = Cardinality(HeldKeys \ {buckets[i][n].key}) + u
    BY <1>2, <2>1, <2>2, <2>3, <2>4
  <2> QED  BY <1>7, <2>1, <2>5 DEF Counted
<1>10. TypeOK'
  BY <1>1, <1>9, DropType
<1>11. Placement'
  <2>1. SUFFICES ASSUME NEW b \in BucketIds, NEW m \in 1 .. Len(buckets'[b])
                 PROVE  Hash[buckets'[b][m].key] % capacity = b
    BY <1>2 DEF Placement, Index
  <2>2. /\ FromAt(b, m) \in 1 .. Len(buckets[b])
        /\ buckets'[b][m] = buckets[b][FromAt(b, m)]
    BY <1>6
  <2> HIDE DEF FromAt
  <2> QED  BY <2>2 DEF CountedInv, Placement, Passed, Index
<1>12. UniqueKeys'
  <2>1. SUFFICES ASSUME NEW b \in BucketIds, NEW m \in 1 .. Len(buckets'[b]),
                        NEW c \in BucketIds, NEW l \in 1 .. Len(buckets'[c]),
                        buckets'[b][m].key = buckets'[c][l].key
                 PROVE  b = c /\ m = l
    BY <1>2 DEF UniqueKeys
  <2>2. b = c /\ FromAt(b, m) = FromAt(c, l)
    <3>1. /\ FromAt(b, m) \in 1 .. Len(buckets[b])
          /\ buckets'[b][m] = buckets[b][FromAt(b, m)]
      BY <1>6
    <3>2. /\ FromAt(c, l) \in 1 .. Len(buckets[c])
          /\ buckets'[c][l] = buckets[c][FromAt(c, l)]
      BY <1>6
    <3> HIDE DEF FromAt
    <3>3. UniqueKeys  BY DEF CountedInv
    <3>4. PICK A1, A2 : A1 = FromAt(b, m) /\ A2 = FromAt(c, l)  OBVIOUS
    <3>5. /\ b \in BucketIds /\ A1 \in 1 .. Len(buckets[b])
          /\ c \in BucketIds /\ A2 \in 1 .. Len(buckets[c])
          /\ buckets[b][A1].key = buckets[c][A2].key
      BY ONLY <2>1, <3>1, <3>2, <3>4
    <3>6. b = c /\ A1 = A2  BY ONLY <3>3, <3>5, SameEntry
    <3> QED  BY ONLY <3>4, <3>6
  <2>3. m \in Nat /\ l \in Nat
    BY <1>1, <1>3, <1>4
  <2> QED  BY <2>2, <2>3
<1> QED  BY <1>9, <1>10, <1>11, <1>12 DEF CountedInv

(* The map new_##map returns (106-116) satisfies the inductive invariant.   *)
LEMMA InitInv ==
  Init => CountedInv(0)
<1> SUFFICES ASSUME Init PROVE CountedInv(0)
  OBVIOUS
<1>1. InitialCapacity \in Nat \ {0}
  BY ConstantsAssumption
<1>2. <<>> \in Seq(Entry) /\ Len(<<>>) = 0
  OBVIOUS
<1>3. \A b \in BucketIds : buckets[b] = <<>>
  BY DEF Init, BucketIds
<1>4. TypeOK
  <2>1. buckets \in [BucketIds -> Seq(Entry)]  BY <1>2 DEF Init, BucketIds
  <2>2. i \in BucketIds /\ at \in 0 .. Len(buckets[i])
    BY <1>1, <1>2, <1>3 DEF Init, BucketIds
  <2> QED  BY <1>1, <2>1, <2>2 DEF Init, TypeOK
<1>5. Placement /\ UniqueKeys
  BY <1>2, <1>3 DEF Placement, UniqueKeys
<1>6. Counted(0)
  <2>1. HeldKeys = {}  BY <1>2, <1>3 DEF HeldKeys, Held, HasKey
  <2> QED  BY <2>1, FS_EmptySet DEF Counted, Init
<1> QED  BY <1>4, <1>5, <1>6 DEF CountedInv

(* Every step of either walk, the ones that only move its cursor included,  *)
(* keeps the inductive invariant.                                           *)
LEMMA WalkInv ==
  ASSUME NEW u \in Nat, CountedInv(u), Walk
  PROVE  CountedInv(u)'
<1>1. /\ TypeOK /\ buckets \in [BucketIds -> Seq(Entry)] /\ i \in BucketIds
      /\ Len(buckets[i]) \in Nat /\ at \in Nat /\ at <= Len(buckets[i])
      /\ capacity \in Nat \ {0} /\ old_capacity \in Nat /\ i \in Nat
  BY DEF CountedInv, TypeOK, BucketIds
<1> DEFINE Kept == /\ capacity' = capacity /\ size' = size /\ buckets' = buckets
                   /\ old_capacity' = old_capacity /\ limit' = limit
<1>2. ASSUME Kept, TypeOK', Placement' PROVE CountedInv(u)'
  BY <1>2 DEF CountedInv, UniqueKeys, Counted, HeldKeys, Held, HasKey, BucketIds
<1>3. CASE MoveEntry
  <2>1. CASE Index(buckets[i][at + 1].key) # i
    BY <1>3, <2>1, MoveInv
  <2>2. CASE Index(buckets[i][at + 1].key) = i
    <3>1. Kept /\ at' = at + 1 /\ i' = i /\ pc' = pc /\ pc = "double"
      BY <1>3, <2>2 DEF MoveEntry
    <3>2. Placement'
      <4>1. SUFFICES ASSUME NEW b \in BucketIds, NEW n \in 1 .. Len(buckets[b]), Passed(b, n)'
                     PROVE  Index(buckets[b][n].key) = b
        BY <3>1 DEF Placement, Index, BucketIds
      <4>2. b < i \/ (b = i /\ n <= at + 1) \/ b >= old_capacity
        BY <3>1, <4>1 DEF Passed
      <4>3. CASE b = i /\ n = at + 1  BY <2>2, <4>3
      <4>4. CASE ~ (b = i /\ n = at + 1)
        <5>1. n \in Nat /\ (n <= at + 1 => n <= at \/ n = at + 1)  BY <1>1, <4>1
        <5>2. Passed(b, n)  BY <4>2, <4>4, <5>1 DEF Passed
        <5> QED  BY <4>1, <5>2 DEF CountedInv, Placement
      <4> QED  BY <4>3, <4>4
    <3> QED  BY <1>2, <1>3, <3>1, <3>2, MoveType DEF CountedInv
  <2> QED  BY <2>1, <2>2
<1>4. CASE LeaveDoubledBucket
  <2>1. Kept /\ at' = 0 /\ at = Len(buckets[i]) /\ i < old_capacity /\ pc = "double"
        /\ old_capacity \in 1 .. capacity
    BY <1>4 DEF LeaveDoubledBucket, NextBucket, CountedInv, TypeOK
  <2>2. \/ i' = i + 1 /\ i < old_capacity - 1 /\ pc' = pc
        \/ i' = 0 /\ ~ (i < old_capacity - 1) /\ pc' = "idle"
    BY <1>4 DEF LeaveDoubledBucket, NextBucket
  <2>3. TypeOK'
    BY <1>1, <2>1, <2>2 DEF TypeOK, BucketIds
  <2>4. Placement'
    <3>1. SUFFICES ASSUME NEW b \in BucketIds, NEW n \in 1 .. Len(buckets[b]),
                          Passed(b, n)'
                   PROVE  Hash[buckets[b][n].key] % capacity = b
      BY <2>1 DEF Placement, Index, BucketIds
    <3>2. Passed(b, n)
      <4>1. b \in Nat /\ n <= Len(buckets[b])
        BY <1>1 DEF BucketIds
      <4> QED  BY <1>1, <2>1, <2>2, <3>1, <4>1 DEF Passed
    <3> QED  BY <3>2 DEF CountedInv, Placement, Index
  <2> QED  BY <1>2, <2>1, <2>3, <2>4
<1>5. CASE SweepHead
  <2>1. 1 \in 1 .. Len(buckets[i]) /\ at < Len(buckets[i]) /\ pc = "sweep" /\ at = 0
    BY <1>1, <1>5 DEF SweepHead
  <2>2. CASE DropEntry(1)
    BY <2>1, <2>2, DropInv
  <2>3. CASE at' = 1 /\ UNCHANGED <<capacity, size, buckets, pc, i, old_capacity, limit>>
    <3>1. TypeOK'  BY <1>1, <2>1, <2>3 DEF TypeOK, BucketIds
    <3>2. Placement'  BY <2>1, <2>3 DEF CountedInv, Placement, Passed, Index, BucketIds
    <3> QED  BY <1>2, <2>3, <3>1, <3>2
  <2> QED  BY <1>5, <2>2, <2>3 DEF SweepHead
<1>6. CASE SweepInner
  <2>1. at + 1 \in 1 .. Len(buckets[i]) /\ at < Len(buckets[i]) /\ pc = "sweep"
    BY <1>1, <1>6 DEF SweepInner
  <2>2. CASE DropEntry(at + 1)
    BY <2>1, <2>2, DropInv
  <2>3. CASE at' = at + 1 /\ UNCHANGED <<capacity, size, buckets, pc, i, old_capacity, limit>>
    <3>1. TypeOK'  BY <1>1, <2>1, <2>3 DEF TypeOK, BucketIds
    <3>2. Placement'  BY <2>1, <2>3 DEF CountedInv, Placement, Passed, Index, BucketIds
    <3> QED  BY <1>2, <2>3, <3>1, <3>2
  <2> QED  BY <1>6, <2>2, <2>3 DEF SweepInner
<1>7. CASE LeaveSweptBucket
  <2>1. Kept /\ at' = 0 /\ pc = "sweep"
    BY <1>7 DEF LeaveSweptBucket, NextBucket
  <2>2. \/ i' = i + 1 /\ i < capacity - 1 /\ pc' = pc
        \/ i' = 0 /\ pc' = "idle"
    BY <1>7 DEF LeaveSweptBucket, NextBucket
  <2>3. TypeOK'
    BY <1>1, <2>1, <2>2 DEF TypeOK, BucketIds
  <2>4. Placement'
    BY <2>1, <2>2 DEF CountedInv, Placement, Passed, Index, BucketIds
  <2> QED  BY <1>2, <2>1, <2>3, <2>4
<1> QED  BY <1>3, <1>4, <1>5, <1>6, <1>7 DEF Walk, DoubleStep, SweepStep

(* Entering the sweep (compiler.c:32) changes no list and no key.           *)
LEMMA StartSweepInv ==
  ASSUME NEW u \in Nat, CountedInv(u), NEW n \in Nat, StartSweep(n)
  PROVE  CountedInv(u)'
<1>1. /\ TypeOK /\ pc = "idle" /\ pc' = "sweep" /\ limit' \in Nat
      /\ UNCHANGED <<capacity, size, buckets, i, at, old_capacity>>
  BY DEF StartSweep, CountedInv
<1>2. TypeOK'  BY <1>1 DEF TypeOK, BucketIds
<1>3. Placement'  BY <1>1 DEF CountedInv, Placement, Passed, Index, BucketIds
<1> QED  BY <1>1, <1>2, <1>3
      DEF CountedInv, UniqueKeys, Counted, HeldKeys, Held, HasKey, BucketIds

(* What does not touch the map keeps its invariant. *)
LEMMA StutterInv ==
  ASSUME NEW u \in Nat, CountedInv(u), UNCHANGED mapVars
  PROVE  CountedInv(u)'
BY DEF mapVars, CountedInv, TypeOK, Placement, Passed, Index, UniqueKeys,
       Counted, HeldKeys, Held, HasKey, BucketIds

(* Every step of the map keeps the inductive invariant. *)
LEMMA NextInv ==
  ASSUME NEW u \in Nat, CountedInv(u), [Next]_mapVars
  PROVE  CountedInv(u)'
<1>1. ASSUME NEW k \in Keys, NEW v \in Values, PutTo(k, v) PROVE CountedInv(u)'
  BY <1>1, PutInv
<1>2. ASSUME NEW n \in Values, StartSweep(n) PROVE CountedInv(u)'
  BY <1>2, StartSweepInv, ConstantsAssumption
<1>3. CASE Walk
  BY <1>3, WalkInv
<1>4. CASE UNCHANGED mapVars
  BY <1>4, StutterInv
<1> QED  BY <1>1, <1>2, <1>3, <1>4 DEF Next

(* The map alone: MapInv is the invariant with nothing uncounted.           *)
LEMMA MapInvCounts ==
  MapInv <=> CountedInv(0)
<1>1. ASSUME IsFiniteSet(HeldKeys) PROVE Cardinality(HeldKeys) + 0 = Cardinality(HeldKeys)
  BY <1>1, FS_CardinalityType
<1> QED  BY <1>1 DEF MapInv, CountedInv, Counted, SizeExact

(* Every reachable state of the map, whatever the keys, the hash and the    *)
(* initial capacity, satisfies the inductive invariant.                     *)
THEOREM MapCorrect == Spec => []MapInv
<1>1. Init => CountedInv(0)
  BY InitInv
<1>2. CountedInv(0) /\ [Next]_mapVars => CountedInv(0)'
  BY NextInv
<1> QED  BY <1>1, <1>2, MapInvCounts, PTL DEF Spec

(* The state of the map keeps its shape, and no walk's cursor leaves its    *)
(* bucket (the loops of hash_map.h:202-229 and compiler.c:32-57).           *)
THEOREM TypeCorrect == Spec => []TypeOK
BY MapCorrect, PTL DEF MapInv

(* Every entry is where its hash says, through every doubling.              *)
THEOREM PlacementCorrect == Spec => []Placement
BY MapCorrect, PTL DEF MapInv

(* No key is ever stored twice, so no lookup depends on the bucket order.   *)
THEOREM UniqueKeysCorrect == Spec => []UniqueKeys
BY MapCorrect, PTL DEF MapInv

(* map->size counts the keys at every step of every walk.                   *)
THEOREM SizeCorrect == Spec => []SizeExact
BY MapCorrect, PTL DEF MapInv

----------------------------------------------------------------------------
(* The test at the end of put_to_ (hash_map.h:141-143) looks at the load    *)
(* only while the size is below the mask's bit 2^(SizeofSizeT-2) and the    *)
(* capacity below the other mask's.  The load bound is inductive as soon as *)
(* it is said which way a map came to be large: either the load is below    *)
(* three quarters, or the capacity suffices for every size that counts as   *)
(* small, so that it still does when removals have made the map small again.*)
LoadInv == \/ 4 * size < 3 * capacity
           \/ 4 * (2^(SizeofSizeT - 2) - 1) < 3 * capacity

(* size / capacity in C: zero while the size is below the capacity,         *)
LEMMA DivSmall ==
  ASSUME NEW n \in Nat, NEW c \in Nat \ {0}, n < c
  PROVE  n \div c = 0
OBVIOUS

(* and below 3 (the test of put_to_ on 4 * size / capacity) only where the  *)
(* size is below three times the divisor.                                   *)
LEMMA DivBelowThree ==
  ASSUME NEW n \in Nat, NEW c \in Nat \ {0}, ~ (n \div c >= 3)
  PROVE  n < 3 * c
OBVIOUS

(* A smaller size or a larger array keeps the load under three quarters.    *)
LEMMA LoadScales ==
  ASSUME NEW s \in Int, NEW t \in Nat, NEW c \in Nat, NEW d \in Nat,
         s <= t, c <= d, 4 * t < 3 * c
  PROVE  4 * s < 3 * d
OBVIOUS

(* The tail of put_to_, for the size a put may have made one larger.        *)
LEMMA ResizeLoad ==
  ASSUME TypeOK, LoadInv, NEW stored, NEW n \in Nat, n <= size + 1,
         Resize(stored, n)
  PROVE  LoadInv'
<1> DEFINE B == 2^(SizeofSizeT - 2)
           C == 2^(SizeofSizeT - 1)
<1>1. B \in Nat \ {0} /\ C = 2 * B
  <2>1. SizeofSizeT - 2 \in Nat /\ (SizeofSizeT - 2) + 1 = SizeofSizeT - 1
    BY ConstantsAssumption
  <2> QED  BY <2>1, PowerOfTwo
<1>2. capacity \in Nat \ {0} /\ size \in Nat /\ size' = n
  BY DEF TypeOK, Resize
<1>3. ResizeNeeded(n) <=> /\ (n \div B) % 4 = 0
                          /\ (capacity \div C) % 2 = 0
                          /\ (4 * n) \div capacity >= 3
  BY DEF ResizeNeeded
<1>4. IF ResizeNeeded(n) THEN capacity' = 2 * capacity ELSE capacity' = capacity
  BY DEF Resize
<1>5. LoadInv <=> 4 * size < 3 * capacity \/ 4 * (B - 1) < 3 * capacity
  BY DEF LoadInv
<1>6. LoadInv' <=> 4 * size' < 3 * capacity' \/ 4 * (B - 1) < 3 * capacity'
  BY DEF LoadInv
<1> HIDE DEF B, C
<1>7. CASE 4 * (B - 1) < 3 * capacity
  <2>1. capacity' \in Nat /\ capacity <= capacity'  BY <1>2, <1>4
  <2>2. B - 1 \in Nat /\ B - 1 \in Int /\ B - 1 <= B - 1  BY <1>1
  <2>3. 4 * (B - 1) < 3 * capacity'  BY <1>2, <1>7, <2>1, <2>2, LoadScales
  <2> QED  BY <1>6, <2>3
<1>8. CASE 3 * capacity <= 4 * (B - 1)
  <2>1. 4 * size < 3 * capacity  BY <1>1, <1>2, <1>5, <1>8
  <2>2. n < B /\ capacity < C  BY <1>1, <1>2, <1>8, <2>1
  <2>3. n \div B = 0 /\ capacity \div C = 0
    <3>1. C \in Nat \ {0}  BY <1>1
    <3> QED  BY <1>1, <1>2, <2>2, <3>1, DivSmall
  <2>4. CASE (4 * n) \div capacity >= 3
    <3>1. capacity' = 2 * capacity  BY <1>3, <1>4, <2>3, <2>4
    <3> QED  BY <1>2, <1>6, <2>1, <3>1
  <2>5. CASE ~ ((4 * n) \div capacity >= 3)
    <3>1. capacity' = capacity  BY <1>3, <1>4, <2>5
    <3>2. 4 * n \in Nat  OBVIOUS
    <3>3. 4 * n < 3 * capacity  BY <1>2, <2>5, <3>2, DivBelowThree
    <3> QED  BY <1>2, <1>6, <3>1, <3>3
  <2> QED  BY <2>4, <2>5
<1> QED  BY <1>1, <1>2, <1>7, <1>8

(* What leaves the capacity alone and does not add to the size.             *)
LEMMA ShrinkLoad ==
  ASSUME TypeOK, LoadInv, capacity' = capacity, size' \in Int, size' <= size
  PROVE  LoadInv'
<1>1. size \in Nat /\ capacity \in Nat  BY DEF TypeOK
<1>2. CASE 4 * size < 3 * capacity
  <2>1. capacity <= capacity  BY <1>1
  <2>2. 4 * size' < 3 * capacity  BY <1>1, <1>2, <2>1, LoadScales
  <2> QED  BY <2>2 DEF LoadInv
<1>3. CASE 4 * (2^(SizeofSizeT - 2) - 1) < 3 * capacity
  BY <1>3 DEF LoadInv
<1> QED  BY <1>2, <1>3 DEF LoadInv

(* No operation, and no step of a walk, brings the load over its bound.     *)
LEMMA NextLoad ==
  ASSUME TypeOK, LoadInv, [Next]_mapVars
  PROVE  LoadInv'
<1>1. size \in Nat /\ capacity \in Nat \ {0}  BY DEF TypeOK
<1>2. ASSUME NEW k \in Keys, NEW v \in Values, PutTo(k, v) PROVE LoadInv'
  <2>1. PICK stored : Resize(stored, size) \/ Resize(stored, size + 1)
    BY <1>2 DEF PutTo, PutAtHead, PutBehindHead, PutNew
  <2> QED  BY <1>1, <2>1, ResizeLoad
<1>3. ASSUME NEW n \in Values, StartSweep(n) PROVE LoadInv'
  BY <1>1, <1>3, ShrinkLoad DEF StartSweep
<1>4. CASE Walk
  <2>1. /\ capacity' = capacity
        /\ size' = size \/ size' = size - 1
    BY <1>4 DEF Walk, DoubleStep, MoveEntry, LeaveDoubledBucket, SweepStep,
                SweepHead, SweepInner, LeaveSweptBucket, DropEntry
  <2>2. size' \in Int /\ size' <= size  BY <1>1, <2>1
  <2> QED  BY <2>1, <2>2, ShrinkLoad
<1>5. CASE UNCHANGED mapVars
  BY <1>1, <1>5, ShrinkLoad DEF mapVars
<1> QED  BY <1>2, <1>3, <1>4, <1>5 DEF Next

(* The inductive invariant says what the property does: below               *)
(* 2^(SizeofSizeT-2) keys the second disjunct of LoadInv implies the        *)
(* first.                                                                   *)
LEMMA LoadBounded ==
  ASSUME TypeOK, LoadInv
  PROVE  LoadFactorWhenSmall
<1> DEFINE B == 2^(SizeofSizeT - 2)
<1>1. B \in Nat
  BY ConstantsAssumption, PowerOfTwo
<1>2. size \in Nat /\ capacity \in Nat  BY DEF TypeOK
<1>3. 4 * size < 3 * capacity \/ 4 * (B - 1) < 3 * capacity
  BY DEF LoadInv
<1>4. LoadFactorWhenSmall <=> (pc = "idle" /\ size < B => 4 * size < 3 * capacity)
  BY DEF LoadFactorWhenSmall
<1> HIDE DEF B
<1>5. size < B => 4 * size <= 4 * (B - 1)  BY <1>1, <1>2
<1> QED  BY <1>1, <1>2, <1>3, <1>4, <1>5

(* create_hash_map starts empty, in a non-empty array.                      *)
LEMMA InitLoad ==
  Init => LoadInv
BY ConstantsAssumption DEF Init, LoadInv

(* The load stays under three quarters as long as the map holds fewer than  *)
(* 2^(SizeofSizeT-2) keys, also when it has held more before: put_to_ does  *)
(* what hash_map_test.c:101 says of it up to that size, from every initial  *)
(* capacity, be it a power of two or not.                                   *)
THEOREM LoadFactorCorrect == Spec => []LoadFactorWhenSmall
<1>1. TypeOK /\ LoadInv /\ [Next]_mapVars => LoadInv'
  BY NextLoad
<1>2. TypeOK /\ LoadInv => LoadFactorWhenSmall
  BY LoadBounded
<1> QED  BY <1>1, <1>2, InitLoad, TypeCorrect, PTL DEF Spec

----------------------------------------------------------------------------
(* The map seen through get_from_: what a put, a doubling and each step of  *)
(* the sweep of remove_from_value_condition do to its contents, and that    *)
(* every step is one of the abstract Dictionary or a stutter.               *)

(* An entry of the array, in whichever bucket. *)
Stored(e) == \E b \in BucketIds : \E n \in 1 .. Len(buckets[b]) : buckets[b][n] = e

(* What get_from_ finds for a key is what the entry with the key holds,      *)
(* whichever bucket that is in: no other entry has the key.                 *)
LEMMA ContentsOf ==
  TypeOK /\ UniqueKeys =>
    \A e \in Entry : Stored(e) => e.key \in HeldKeys /\ Contents[e.key] = e.value
<1> SUFFICES ASSUME TypeOK, UniqueKeys, NEW e \in Entry, Stored(e)
             PROVE  e.key \in HeldKeys /\ Contents[e.key] = e.value
  OBVIOUS
<1>1. PICK b \in BucketIds : \E n \in 1 .. Len(buckets[b]) : buckets[b][n] = e
  BY DEF Stored
<1>2. PICK n \in 1 .. Len(buckets[b]) : buckets[b][n] = e
  BY <1>1
<1>3. e.key \in HeldKeys
  BY <1>2 DEF HeldKeys, Held, HasKey, Entry
<1> DEFINE c == CHOOSE x \in BucketIds : HasKey(buckets[x], e.key)
           m == CHOOSE y \in 1 .. Len(buckets[c]) : buckets[c][y].key = e.key
<1>4. c \in BucketIds /\ HasKey(buckets[c], e.key)
  BY <1>2 DEF HasKey
<1> HIDE DEF c
<1>5. m \in 1 .. Len(buckets[c]) /\ buckets[c][m].key = e.key
  BY <1>4 DEF HasKey
<1> HIDE DEF m
<1>6. c = b /\ m = n
  BY <1>2, <1>4, <1>5 DEF UniqueKeys
<1>7. Contents[e.key] = buckets[c][m].value
  BY <1>3 DEF Contents, c, m
<1> QED  BY <1>2, <1>3, <1>6, <1>7

(* Every key stored has one entry, of the shape the map was given.          *)
LEMMA ContentsStored ==
  TypeOK /\ UniqueKeys =>
    \A k \in HeldKeys :
      /\ k \in Keys /\ Contents[k] \in Values
      /\ Stored([key |-> k, value |-> Contents[k]])
<1> SUFFICES ASSUME TypeOK, UniqueKeys, NEW k \in HeldKeys
             PROVE  /\ k \in Keys /\ Contents[k] \in Values
                    /\ Stored([key |-> k, value |-> Contents[k]])
  OBVIOUS
<1>1. PICK b \in BucketIds : HasKey(buckets[b], k)
  BY DEF HeldKeys, Held
<1>2. PICK n \in 1 .. Len(buckets[b]) : buckets[b][n].key = k
  BY <1>1 DEF HasKey
<1>3. buckets[b][n] \in Entry /\ Stored(buckets[b][n])
  BY DEF TypeOK, Stored
<1>4. Contents[k] = buckets[b][n].value
  BY <1>2, <1>3, ContentsOf
<1>5. buckets[b][n] = [key |-> k, value |-> Contents[k]]
  BY <1>2, <1>3, <1>4 DEF Entry
<1> QED  BY <1>2, <1>3, <1>4, <1>5 DEF HeldKeys, Entry

(* A function is the contents of the map when the entries are its graph.    *)
GraphDecides ==
  \A S \in SUBSET Keys : \A g \in [S -> Values] :
    (\A e \in Entry : Stored(e) <=> e.key \in S /\ g[e.key] = e.value)
      => HeldKeys = S /\ Contents = g

(* A function of the keys that agrees with every stored entry is what       *)
(* get_from_ computes.                                                      *)
LEMMA ContentsAre ==
  TypeOK /\ UniqueKeys => GraphDecides
<1> SUFFICES ASSUME TypeOK, UniqueKeys,
                    NEW S \in SUBSET Keys, NEW g \in [S -> Values],
                    \A e \in Entry : Stored(e) <=> e.key \in S /\ g[e.key] = e.value
             PROVE  HeldKeys = S /\ Contents = g
  BY DEF GraphDecides
<1>1. ASSUME NEW k \in HeldKeys PROVE k \in S /\ Contents[k] = g[k]
  <2> DEFINE e == [key |-> k, value |-> Contents[k]]
  <2>1. k \in Keys /\ Contents[k] \in Values /\ Stored(e)
    BY ContentsStored
  <2>2. e \in Entry /\ e.key = k /\ e.value = Contents[k]
    BY <2>1 DEF Entry
  <2> HIDE DEF e
  <2> QED  BY <2>1, <2>2
<1>2. ASSUME NEW k \in S PROVE k \in HeldKeys
  <2> DEFINE e == [key |-> k, value |-> g[k]]
  <2>1. e \in Entry /\ e.key = k /\ e.value = g[k]
    BY DEF Entry
  <2> HIDE DEF e
  <2>2. Stored(e)  BY <2>1
  <2> QED  BY <2>1, <2>2, ContentsOf
<1>3. HeldKeys = S  BY <1>1, <1>2
<1>4. Contents = [k \in HeldKeys |-> Contents[k]]  BY DEF Contents
<1> QED  BY <1>1, <1>3, <1>4

(* The map read through get_from_ is a function from the held keys to the   *)
(* values,                                                                  *)
LEMMA ContentsFunction ==
  TypeOK /\ UniqueKeys => HeldKeys \subseteq Keys /\ Contents \in [HeldKeys -> Values]
<1> SUFFICES ASSUME TypeOK, UniqueKeys
             PROVE  HeldKeys \subseteq Keys /\ Contents \in [HeldKeys -> Values]
  OBVIOUS
<1>1. Contents = [k \in HeldKeys |-> Contents[k]]  BY DEF Contents
<1>2. \A k \in HeldKeys : k \in Keys /\ Contents[k] \in Values  BY ContentsStored
<1> QED  BY <1>1, <1>2

(* and its graph is the set of the entries in the array.                    *)
LEMMA StoredIff ==
  TypeOK /\ UniqueKeys =>
    \A e \in Entry : Stored(e) <=> e.key \in HeldKeys /\ Contents[e.key] = e.value
<1> SUFFICES ASSUME TypeOK, UniqueKeys, NEW e \in Entry,
                    e.key \in HeldKeys, Contents[e.key] = e.value
             PROVE  Stored(e)
  BY ContentsOf
<1>1. Stored([key |-> e.key, value |-> Contents[e.key]])
  BY ContentsStored
<1>2. e = [key |-> e.key, value |-> Contents[e.key]]
  BY DEF Entry
<1> QED  BY <1>1, <1>2

(* What leaves the entries alone leaves the contents. *)
LEMMA SameContents ==
  ASSUME TypeOK, UniqueKeys, TypeOK', UniqueKeys',
         \A e \in Entry : Stored(e)' <=> Stored(e)
  PROVE  HeldKeys' = HeldKeys /\ Contents' = Contents
<1>1. GraphDecides'
  BY ContentsAre, PTL
<1>2. HeldKeys \in SUBSET Keys /\ Contents \in [HeldKeys -> Values]
  BY ContentsFunction
<1>3. \A e \in Entry : Stored(e)' <=> e.key \in HeldKeys /\ Contents[e.key] = e.value
  BY StoredIff
<1> QED  BY <1>1, <1>2, <1>3 DEF GraphDecides

(* What adds an entry of an absent key adds one pair to the contents.       *)
LEMMA MoreContents ==
  ASSUME TypeOK, UniqueKeys, TypeOK', UniqueKeys',
         NEW k \in Keys, NEW v \in Values, k \notin HeldKeys,
         \A e \in Entry : Stored(e)' <=> Stored(e) \/ e = [key |-> k, value |-> v]
  PROVE  /\ HeldKeys' = HeldKeys \union {k}
         /\ Contents' = [x \in HeldKeys \union {k} |-> IF x = k THEN v ELSE Contents[x]]
<1> DEFINE K == HeldKeys \union {k}
           f == [x \in K |-> IF x = k THEN v ELSE Contents[x]]
<1>1. GraphDecides'
  BY ContentsAre, PTL
<1>2. HeldKeys \in SUBSET Keys /\ Contents \in [HeldKeys -> Values]
  BY ContentsFunction
<1>3. K \in SUBSET Keys /\ f \in [K -> Values]
  BY <1>2
<1>4. ASSUME NEW e \in Entry
      PROVE  Stored(e)' <=> e.key \in K /\ f[e.key] = e.value
  <2>1. e = [key |-> k, value |-> v] <=> e.key = k /\ e.value = v
    BY DEF Entry
  <2>2. Stored(e) <=> e.key \in HeldKeys /\ Contents[e.key] = e.value
    BY StoredIff
  <2>3. k \in K /\ f[k] = v
    OBVIOUS
  <2>4. \A x \in HeldKeys : x \in K /\ f[x] = Contents[x]
    OBVIOUS
  <2>5. \A x \in K : x \in HeldKeys \/ x = k
    OBVIOUS
  <2> HIDE DEF K, f
  <2> QED  BY <1>4, <2>1, <2>2, <2>3, <2>4, <2>5
<1> HIDE DEF K, f
<1>5. HeldKeys' = K /\ Contents' = f
  BY <1>1, <1>3, <1>4 DEF GraphDecides
<1> QED  BY <1>5 DEF K, f

(* What unlinks an entry takes its key from the contents. *)
LEMMA LessContents ==
  ASSUME TypeOK, UniqueKeys, TypeOK', UniqueKeys',
         NEW d \in Entry, Stored(d),
         \A e \in Entry : Stored(e)' <=> Stored(e) /\ e # d
  PROVE  /\ HeldKeys' = HeldKeys \ {d.key}
         /\ Contents' = [x \in HeldKeys \ {d.key} |-> Contents[x]]
<1> DEFINE K == HeldKeys \ {d.key}
           f == [x \in K |-> Contents[x]]
<1>1. GraphDecides'
  BY ContentsAre, PTL
<1>2. HeldKeys \in SUBSET Keys /\ Contents \in [HeldKeys -> Values]
  BY ContentsFunction
<1>3. K \in SUBSET Keys /\ f \in [K -> Values]
  BY <1>2
<1>4. ASSUME NEW e \in Entry
      PROVE  Stored(e)' <=> e.key \in K /\ f[e.key] = e.value
  <2>1. e = d <=> e.key = d.key /\ e.value = d.value
    BY DEF Entry
  <2>2. Stored(e) <=> e.key \in HeldKeys /\ Contents[e.key] = e.value
    BY StoredIff
  <2>3. Contents[d.key] = d.value
    BY ContentsOf
  <2>4. \A x \in K : f[x] = Contents[x]
    OBVIOUS
  <2>5. \A x : x \in K <=> x \in HeldKeys /\ x # d.key
    OBVIOUS
  <2> HIDE DEF K, f
  <2> QED  BY <2>1, <2>2, <2>3, <2>4, <2>5
<1> HIDE DEF K, f
<1>5. HeldKeys' = K /\ Contents' = f
  BY <1>1, <1>3, <1>4 DEF GraphDecides
<1> QED  BY <1>5 DEF K, f

(* A key that get_from_ finds is in the map, and it finds its value.        *)
LEMMA FoundHeld ==
  ASSUME TypeOK, UniqueKeys, Placement, pc = "idle", NEW k \in Keys
  PROVE  /\ Found(k) <=> k \in HeldKeys
         /\ Found(k) => GetFrom(k) = Contents[k]
<1>1. Index(k) \in BucketIds  BY IndexInRange
<1>2. Found(k) => k \in HeldKeys
  BY <1>1 DEF Found, HeldKeys, Held
<1>3. k \in HeldKeys => Found(k)
  BY AbsentFromItsBucket DEF Found, HeldKeys, Held, HasKey
<1>4. ASSUME Found(k) PROVE GetFrom(k) = Contents[k]
  <2> DEFINE chain == buckets[Index(k)]
             n == CHOOSE n \in 1 .. Len(chain) :
                    /\ chain[n].key = k
                    /\ \A m \in 1 .. n - 1 : chain[m].key # k
  <2>1. PICK m \in 1 .. Len(chain) : chain[m].key = k
    BY <1>4 DEF Found, HasKey
  <2>2. \A l \in 1 .. Len(chain) : chain[l].key = k => l = m
    BY <1>1, <2>1 DEF UniqueKeys
  <2>3. \A l \in 1 .. m - 1 : chain[l].key # k
    <3>1. Len(chain) \in Nat  BY <1>1 DEF TypeOK
    <3>2. \A l \in 1 .. m - 1 : l \in 1 .. Len(chain) /\ l # m  BY <3>1
    <3> QED  BY <2>2, <3>2
  <2>4. n \in 1 .. Len(chain) /\ chain[n].key = k
    BY <2>1, <2>3
  <2>5. GetFrom(k) = chain[n].value
    BY DEF GetFrom
  <2> HIDE DEF n
  <2>6. n = m  BY <2>2, <2>4
  <2>7. chain[m] \in Entry /\ Stored(chain[m])
    BY <1>1 DEF TypeOK, Stored
  <2> QED  BY <2>1, <2>5, <2>6, <2>7, ContentsOf
<1> QED  BY <1>2, <1>3, <1>4

----------------------------------------------------------------------------
(* The entry that a doubling moves (hash_map.h:215-222) is the only thing   *)
(* it moves: afterwards the same entries are stored.                        *)
LEMMA MoveStored ==
  ASSUME TypeOK, MoveEntry
  PROVE  \A e \in Entry : Stored(e)' <=> Stored(e)
<1>1. /\ buckets \in [BucketIds -> Seq(Entry)] /\ i \in BucketIds /\ at \in Nat
      /\ at + 1 \in 1 .. Len(buckets[i]) /\ Len(buckets[i]) \in Nat
      /\ BucketIds' = BucketIds
  BY DEF TypeOK, MoveEntry, BucketIds
<1>2. CASE Index(buckets[i][at + 1].key) = i
  <2>1. buckets' = buckets  BY <1>2 DEF MoveEntry
  <2> QED  BY <1>1, <2>1 DEF Stored
<1>3. CASE Index(buckets[i][at + 1].key) # i
  <2> DEFINE d == buckets[i][at + 1]
             j == Index(d.key)
  <2>1. /\ d \in Entry /\ j \in BucketIds /\ j # i
        /\ buckets'[i] = RemoveAt(buckets[i], at + 1)
        /\ buckets'[j] = <<d>> \o buckets[j]
        /\ \A b \in BucketIds : b # i /\ b # j => buckets'[b] = buckets[b]
    BY <1>3, MoveEffect
  <2> HIDE DEF j
  <2>2. buckets[i] \in Seq(Entry) /\ buckets[j] \in Seq(Entry) /\ Len(buckets[j]) \in Nat
    BY <1>1, <2>1
  <2>3. /\ Len(buckets'[i]) = Len(buckets[i]) - 1
        /\ \A m \in 1 .. Len(buckets[i]) - 1 :
             buckets'[i][m] = IF m < at + 1 THEN buckets[i][m] ELSE buckets[i][m + 1]
    BY <1>1, <2>1, <2>2, RemoveAtProperties
  <2>4. /\ Len(buckets'[j]) = 1 + Len(buckets[j])
        /\ \A m \in 1 .. 1 + Len(buckets[j]) :
             buckets'[j][m] = IF m <= 1 THEN <<d>>[m] ELSE buckets[j][m - 1]
    <3>1. <<d>> \in Seq(Entry) /\ Len(<<d>>) = 1  BY <2>1
    <3> QED  BY <2>1, <2>2, <3>1, ConcatProperties
  <2>5. buckets'[j][1] = d
    <3>1. 1 \in 1 .. 1 + Len(buckets[j]) /\ 1 <= 1  BY <2>2
    <3>2. <<d>>[1] = d  OBVIOUS
    <3> QED  BY <2>4, <3>1, <3>2
  <2>6. ASSUME NEW e, NEW b \in BucketIds, NEW m \in 1 .. Len(buckets'[b]),
               buckets'[b][m] = e
        PROVE  Stored(e)
    <3>1. CASE b = i
      <4>1. m \in 1 .. Len(buckets[i]) /\ m + 1 \in 1 .. Len(buckets[i])
            /\ m \in 1 .. Len(buckets[i]) - 1
        BY <1>1, <2>3, <3>1
      <4>2. buckets'[i][m] = IF m < at + 1 THEN buckets[i][m] ELSE buckets[i][m + 1]
        BY <2>3, <4>1
      <4> QED  BY <1>1, <2>6, <3>1, <4>1, <4>2 DEF Stored
    <3>2. CASE b = j /\ m = 1
      BY <1>1, <2>5, <2>6, <3>2 DEF Stored
    <3>3. CASE b = j /\ m # 1
      <4>1. m - 1 \in 1 .. Len(buckets[j]) /\ m \in 1 .. 1 + Len(buckets[j]) /\ ~ (m <= 1)
        BY <2>2, <2>4, <3>3
      <4>2. buckets'[j][m] = buckets[j][m - 1]  BY <2>4, <4>1
      <4> QED  BY <2>1, <2>6, <3>3, <4>1, <4>2 DEF Stored
    <3>4. CASE b # i /\ b # j
      BY <2>1, <2>6, <3>4 DEF Stored
    <3> QED  BY <3>1, <3>2, <3>3, <3>4
  <2>7. ASSUME NEW e, NEW b \in BucketIds, NEW m \in 1 .. Len(buckets[b]),
               buckets[b][m] = e
        PROVE  \E c \in BucketIds : \E l \in 1 .. Len(buckets'[c]) : buckets'[c][l] = e
    <3>1. CASE b = i /\ m < at + 1
      <4>1. m \in 1 .. Len(buckets'[i]) /\ m \in 1 .. Len(buckets[i]) - 1
        BY <1>1, <2>3, <3>1
      <4>2. buckets'[i][m] = buckets[i][m]  BY <2>3, <3>1, <4>1
      <4> QED  BY <1>1, <2>7, <3>1, <4>1, <4>2
    <3>2. CASE b = i /\ m = at + 1
      <4>1. 1 \in 1 .. Len(buckets'[j])  BY <2>2, <2>4
      <4> QED  BY <2>1, <2>5, <2>7, <3>2, <4>1
    <3>3. CASE b = i /\ m > at + 1
      <4>1. /\ m - 1 \in 1 .. Len(buckets'[i]) /\ m - 1 \in 1 .. Len(buckets[i]) - 1
            /\ ~ (m - 1 < at + 1) /\ (m - 1) + 1 = m
        BY <1>1, <2>3, <3>3
      <4>2. buckets'[i][m - 1] = buckets[i][m]  BY <2>3, <4>1
      <4> QED  BY <1>1, <2>7, <3>3, <4>1, <4>2
    <3>4. CASE b = j
      <4>1. /\ m + 1 \in 1 .. Len(buckets'[j]) /\ m + 1 \in 1 .. 1 + Len(buckets[j])
            /\ ~ (m + 1 <= 1) /\ (m + 1) - 1 = m
        BY <2>2, <2>4, <3>4
      <4>2. buckets'[j][m + 1] = buckets[j][m]  BY <2>4, <4>1
      <4> QED  BY <2>1, <2>7, <3>4, <4>1, <4>2
    <3>5. CASE b # i /\ b # j
      BY <2>1, <2>7, <3>5
    <3>6. m < at + 1 \/ m = at + 1 \/ m > at + 1  BY <1>1
    <3> QED  BY <3>1, <3>2, <3>3, <3>4, <3>5, <3>6
  <2>8. \A e : Stored(e)' => Stored(e)  BY <1>1, <2>6 DEF Stored
  <2>9. \A e : Stored(e) => Stored(e)'  BY <1>1, <2>7 DEF Stored
  <2> QED  BY <2>8, <2>9
<1> QED  BY <1>2, <1>3

(* Unlinking an entry (compiler.c:47-49) takes that entry and no other.     *)
LEMMA DropStored ==
  ASSUME TypeOK, UniqueKeys, NEW n \in 1 .. Len(buckets[i]), DropEntry(n)
  PROVE  /\ buckets[i][n] \in Entry /\ Stored(buckets[i][n])
         /\ \A e \in Entry : Stored(e)' <=> Stored(e) /\ e # buckets[i][n]
<1> DEFINE d == buckets[i][n]
<1>1. /\ buckets \in [BucketIds -> Seq(Entry)] /\ i \in BucketIds
      /\ Len(buckets[i]) \in Nat /\ buckets[i] \in Seq(Entry)
      /\ BucketIds' = BucketIds
  BY DEF TypeOK, DropEntry, BucketIds
<1>2. d \in Entry /\ Stored(d)
  BY <1>1 DEF Stored
<1>3. \A b \in BucketIds : b # i => buckets'[b] = buckets[b]
  BY DropEffect
<1>4. /\ Len(buckets'[i]) = Len(buckets[i]) - 1
      /\ \A m \in 1 .. Len(buckets[i]) - 1 :
           buckets'[i][m] = IF m < n THEN buckets[i][m] ELSE buckets[i][m + 1]
  <2>1. buckets'[i] = RemoveAt(buckets[i], n)  BY DropEffect
  <2> QED  BY <1>1, <2>1, RemoveAtProperties
<1>5. \A b \in BucketIds : \A m \in 1 .. Len(buckets[b]) :
        buckets[b][m] = d => b = i /\ m = n
  BY <1>1 DEF UniqueKeys
<1>6. ASSUME NEW e, NEW b \in BucketIds, NEW m \in 1 .. Len(buckets'[b]),
             buckets'[b][m] = e
      PROVE  Stored(e) /\ e # d
  <2>1. CASE b = i
    <3>1. m \in 1 .. Len(buckets[i]) /\ m + 1 \in 1 .. Len(buckets[i])
          /\ m \in 1 .. Len(buckets[i]) - 1
      BY <1>1, <1>4, <2>1
    <3>2. buckets'[i][m] = IF m < n THEN buckets[i][m] ELSE buckets[i][m + 1]
      BY <1>4, <3>1
    <3>3. CASE m < n
      <4>1. e = buckets[i][m] /\ m # n  BY <1>6, <2>1, <3>2, <3>3
      <4> QED  BY <1>1, <1>5, <3>1, <4>1 DEF Stored
    <3>4. CASE ~ (m < n)
      <4>1. e = buckets[i][m + 1] /\ m + 1 # n  BY <1>6, <2>1, <3>1, <3>2, <3>4
      <4> QED  BY <1>1, <1>5, <3>1, <4>1 DEF Stored
    <3> QED  BY <3>3, <3>4
  <2>2. CASE b # i
    BY <1>3, <1>5, <1>6, <2>2 DEF Stored
  <2> QED  BY <2>1, <2>2
<1>7. ASSUME NEW e, NEW b \in BucketIds, NEW m \in 1 .. Len(buckets[b]),
             buckets[b][m] = e, e # d
      PROVE  \E c \in BucketIds : \E l \in 1 .. Len(buckets'[c]) : buckets'[c][l] = e
  <2>1. CASE b = i /\ m < n
    <3>1. m \in 1 .. Len(buckets'[i]) /\ m \in 1 .. Len(buckets[i]) - 1
      BY <1>1, <1>4, <2>1
    <3>2. buckets'[i][m] = buckets[i][m]  BY <1>4, <2>1, <3>1
    <3> QED  BY <1>1, <1>7, <2>1, <3>1, <3>2
  <2>2. CASE b = i /\ m > n
    <3>1. /\ m - 1 \in 1 .. Len(buckets'[i]) /\ m - 1 \in 1 .. Len(buckets[i]) - 1
          /\ ~ (m - 1 < n) /\ (m - 1) + 1 = m
      BY <1>1, <1>4, <2>2
    <3>2. buckets'[i][m - 1] = buckets[i][m]  BY <1>4, <3>1
    <3> QED  BY <1>1, <1>7, <2>2, <3>1, <3>2
  <2>3. CASE b # i
    BY <1>3, <1>7, <2>3
  <2>4. b = i => m # n  BY <1>7
  <2> QED  BY <2>1, <2>2, <2>3, <2>4
<1> HIDE DEF d
<1>8. \A e \in Entry : Stored(e)' <=> Stored(e) /\ e # d
  BY <1>1, <1>6, <1>7 DEF Stored
<1> QED  BY <1>2, <1>8 DEF d

(* Appending a new key to its bucket (hash_map.h:121-136) adds one entry,   *)
(* and the doubling it may start none.                                      *)
LEMMA PutNewStored ==
  ASSUME TypeOK, pc = "idle", NEW k \in Keys, NEW v \in Values, PutNew(k, v)
  PROVE  \A e \in Entry : Stored(e)' <=> Stored(e) \/ e = [key |-> k, value |-> v]
<1> DEFINE d == [key |-> k, value |-> v]
           c == Index(k)
           stored == [buckets EXCEPT ![c] = Append(@, d)]
<1>1. /\ buckets \in [BucketIds -> Seq(Entry)] /\ size + 1 \in Nat
      /\ c \in BucketIds /\ d \in Entry
  <2>1. buckets \in [BucketIds -> Seq(Entry)] /\ size + 1 \in Nat  BY DEF TypeOK
  <2>2. d \in Entry  BY DEF Entry
  <2> QED  BY <2>1, <2>2, IndexInRange
<1>2. /\ stored \in [BucketIds -> Seq(Entry)]
      /\ \A b \in BucketIds : b # c => stored[b] = buckets[b]
      /\ stored[c] = Append(buckets[c], d)
  BY <1>1
<1>3. Resize(stored, size + 1)
  BY DEF PutNew
<1> HIDE DEF d, c, stored
<1>4. /\ \A b \in BucketIds : b \in BucketIds' /\ buckets'[b] = stored[b]
      /\ \A b \in BucketIds' : b \notin BucketIds => buckets'[b] = <<>>
  BY <1>1, <1>2, <1>3, ResizeEffect
<1>5. /\ Len(stored[c]) = Len(buckets[c]) + 1
      /\ \A m \in 1 .. Len(buckets[c]) : stored[c][m] = buckets[c][m]
      /\ stored[c][Len(buckets[c]) + 1] = d
      /\ Len(buckets[c]) \in Nat
  BY <1>1, <1>2, AppendProperties
<1>6. ASSUME NEW e, NEW b \in BucketIds', NEW m \in 1 .. Len(buckets'[b]),
             buckets'[b][m] = e
      PROVE  Stored(e) \/ e = d
  <2>1. b \in BucketIds /\ stored[b][m] = e /\ m \in 1 .. Len(stored[b])
    BY <1>4, <1>6
  <2>2. CASE b = c
    <3>1. m \in 1 .. Len(buckets[c]) \/ m = Len(buckets[c]) + 1
      BY <1>5, <2>1, <2>2
    <3> QED  BY <1>1, <1>5, <2>1, <2>2, <3>1 DEF Stored
  <2>3. CASE b # c
    BY <1>2, <2>1, <2>3 DEF Stored
  <2> QED  BY <2>2, <2>3
<1>7. ASSUME NEW e, NEW b \in BucketIds, NEW m \in 1 .. Len(buckets[b]),
             buckets[b][m] = e
      PROVE  \E l \in 1 .. Len(stored[b]) : stored[b][l] = e
  <2>1. CASE b = c
    <3>1. m \in 1 .. Len(stored[c])  BY <1>5, <2>1
    <3> QED  BY <1>5, <1>7, <2>1, <3>1
  <2>2. CASE b # c
    BY <1>2, <1>7, <2>2
  <2> QED  BY <2>1, <2>2
<1>8. Len(buckets[c]) + 1 \in 1 .. Len(stored[c])
  BY <1>5
<1>9. ASSUME NEW e \in Entry, Stored(e)' PROVE Stored(e) \/ e = d
  <2>1. PICK b \in BucketIds' : \E m \in 1 .. Len(buckets'[b]) : buckets'[b][m] = e
    BY <1>9 DEF Stored
  <2> QED  BY <1>6, <2>1
<1>10. ASSUME NEW e \in Entry, Stored(e) PROVE Stored(e)'
  <2>1. PICK b \in BucketIds : \E m \in 1 .. Len(buckets[b]) : buckets[b][m] = e
    BY <1>10 DEF Stored
  <2>2. PICK l \in 1 .. Len(stored[b]) : stored[b][l] = e  BY <1>7, <2>1
  <2> QED  BY <1>4, <2>2 DEF Stored
<1>11. Stored(d)'
  BY <1>1, <1>4, <1>5, <1>8 DEF Stored
<1>12. \A e \in Entry : Stored(e)' <=> Stored(e) \/ e = d
  BY <1>9, <1>10, <1>11
<1> QED  BY <1>12 DEF d

----------------------------------------------------------------------------
(* Where the sweep is, what it has passed is not above its limit.  This is  *)
(* what it needs short chains for: the second loop tests the second entry   *)
(* of the bucket, and unlinks or passes the one behind its cursor           *)
(* (compiler.c:45-56), so the two must be the same.                         *)
Swept ==
  pc = "sweep" =>
    /\ ShortChains
    /\ \A b \in BucketIds : \A n \in 1 .. Len(buckets[b]) :
         b < i \/ (b = i /\ n <= at) => buckets[b][n].value <= limit

(* The entry the second loop looks at is the one it unlinks or passes.      *)
LEMMA InnerLooksBehind ==
  ASSUME TypeOK, Swept, SweepInner
  PROVE  at = 1 /\ Len(buckets[i]) = 2
<1>1. i \in BucketIds /\ Len(buckets[i]) \in Nat /\ at \in 1 .. Len(buckets[i]) - 1
  BY DEF TypeOK, SweepInner
<1>2. Len(buckets[i]) <= 2
  BY <1>1 DEF Swept, SweepInner, ShortChains
<1>3. at \in Nat /\ 1 <= at /\ at <= Len(buckets[i]) - 1 /\ Len(buckets[i]) \in Nat
  BY <1>1
<1>4. at = 1  BY <1>2, <1>3
<1>5. PICK l \in Nat : l = Len(buckets[i])  BY <1>3
<1>6. 1 <= l - 1 /\ l <= 2  BY <1>2, <1>3, <1>5
<1>7. l = 2  BY <1>6
<1> QED  BY <1>4, <1>5, <1>7

(* A sweep that has not passed an entry has left none behind above its      *)
(* limit.                                                                   *)
LEMMA StartSwept ==
  ASSUME TypeOK, ShortChains, NEW n \in Nat, StartSweep(n)
  PROVE  Swept'
<1>1. /\ i' = 0 /\ at' = 0 /\ buckets' = buckets /\ BucketIds' = BucketIds
      /\ \A b \in BucketIds : b \in Nat /\ Len(buckets[b]) \in Nat
  BY DEF StartSweep, TypeOK, BucketIds
<1>2. \A b \in BucketIds : \A m \in 1 .. Len(buckets[b]) :
        ~ (b < 0 \/ (b = 0 /\ m <= 0))
  BY <1>1
<1> QED  BY <1>1, <1>2 DEF Swept, ShortChains

(* An entry the sweep unlinks is not among those it has passed, and makes   *)
(* no list longer.                                                          *)
LEMMA DropSwept ==
  ASSUME TypeOK, Swept, pc = "sweep", at < Len(buckets[i]), DropEntry(at + 1)
  PROVE  Swept'
<1>1. /\ i \in BucketIds /\ Len(buckets[i]) \in Nat /\ at \in Nat
      /\ at + 1 \in 1 .. Len(buckets[i]) /\ buckets[i] \in Seq(Entry)
      /\ BucketIds' = BucketIds /\ i' = i /\ at' = at /\ limit' = limit
  BY DEF TypeOK, DropEntry, BucketIds
<1>2. \A b \in BucketIds : b # i => buckets'[b] = buckets[b]
  BY <1>1, DropEffect
<1>3. /\ Len(buckets'[i]) = Len(buckets[i]) - 1
      /\ \A m \in 1 .. Len(buckets[i]) - 1 :
           buckets'[i][m] = IF m < at + 1 THEN buckets[i][m] ELSE buckets[i][m + 1]
  BY <1>1, DropEffect, RemoveAtProperties
<1>4. ShortChains'
  <2>1. \A b \in BucketIds : Len(buckets[b]) <= 2  BY DEF Swept, ShortChains
  <2>2. Len(buckets'[i]) <= 2  BY <1>1, <1>3, <2>1
  <2> QED  BY <1>1, <1>2, <2>1, <2>2 DEF ShortChains
<1>5. ASSUME NEW b \in BucketIds, NEW m \in 1 .. Len(buckets'[b]),
             b < i \/ (b = i /\ m <= at)
      PROVE  buckets'[b][m].value <= limit
  <2>1. CASE b = i
    <3>1. m <= at
      <4>1. i \in Nat  BY <1>1 DEF BucketIds
      <4> QED  BY <1>5, <2>1, <4>1
    <3>2. m \in 1 .. Len(buckets[i]) - 1 /\ m < at + 1 /\ m \in 1 .. Len(buckets[i])
      BY <1>1, <1>3, <2>1, <3>1
    <3>3. buckets'[i][m] = buckets[i][m]  BY <1>3, <3>2
    <3> QED  BY <1>1, <2>1, <3>1, <3>2, <3>3 DEF Swept
  <2>2. CASE b # i
    BY <1>2, <1>5, <2>2 DEF Swept
  <2> QED  BY <2>1, <2>2
<1> QED  BY <1>1, <1>4, <1>5 DEF Swept

(* Every step of a walk leaves the sweep what it has passed.                *)
LEMMA WalkSwept ==
  ASSUME TypeOK, Swept, Walk
  PROVE  Swept'
<1>1. /\ i \in BucketIds /\ i \in Nat /\ Len(buckets[i]) \in Nat /\ at \in Nat
      /\ \A b \in BucketIds : b \in Nat
  BY DEF TypeOK, BucketIds
<1>2. CASE DoubleStep
  BY <1>2 DEF DoubleStep, MoveEntry, LeaveDoubledBucket, NextBucket, Swept
<1>3. CASE SweepHead
  <2>1. pc = "sweep" /\ at = 0 /\ at + 1 = 1 /\ at < Len(buckets[i])
    BY <1>1, <1>3, EmptySeq DEF SweepHead, TypeOK
  <2>2. CASE buckets[i][1].value > limit
    BY <1>3, <2>1, <2>2, DropSwept DEF SweepHead
  <2>3. CASE ~ (buckets[i][1].value > limit)
    <3>1. at' = 1 /\ UNCHANGED <<capacity, buckets, pc, i, limit>>
      BY <1>3, <2>3 DEF SweepHead
    <3>2. buckets[i][1].value <= limit
      <4>1. 1 \in 1 .. Len(buckets[i])  BY <1>1, <2>1
      <4>2. buckets[i][1] \in Entry  BY <1>1, <4>1 DEF TypeOK
      <4>3. buckets[i][1].value \in Nat  BY <4>2, ConstantsAssumption DEF Entry
      <4>4. limit \in Nat  BY DEF TypeOK
      <4> QED  BY <2>3, <4>3, <4>4
    <3>3. \A n \in 1 .. Len(buckets[i]) : n <= 1 => n = 1  BY <1>1
    <3> QED  BY <1>1, <2>1, <3>1, <3>2, <3>3 DEF Swept, ShortChains, BucketIds
  <2> QED  BY <2>2, <2>3
<1>4. CASE SweepInner
  <2>1. pc = "sweep" /\ at = 1 /\ at + 1 = 2 /\ Len(buckets[i]) = 2 /\ at < Len(buckets[i])
    BY <1>4, InnerLooksBehind DEF SweepInner
  <2>2. CASE buckets[i][2].value > limit
    BY <1>4, <2>1, <2>2, DropSwept DEF SweepInner
  <2>3. CASE ~ (buckets[i][2].value > limit)
    <3>1. at' = 2 /\ UNCHANGED <<capacity, buckets, pc, i, limit>>
      BY <1>4, <2>1, <2>3 DEF SweepInner
    <3>2. buckets[i][2].value <= limit
      <4>1. 2 \in 1 .. Len(buckets[i])  BY <2>1
      <4>2. buckets[i][2] \in Entry  BY <1>1, <4>1 DEF TypeOK
      <4>3. buckets[i][2].value \in Nat  BY <4>2, ConstantsAssumption DEF Entry
      <4>4. limit \in Nat  BY DEF TypeOK
      <4> QED  BY <2>3, <4>3, <4>4
    <3>3. \A n \in 1 .. Len(buckets[i]) : n = 1 \/ n = 2  BY <2>1
    <3>4. \A n \in 1 .. Len(buckets[i]) : buckets[i][n].value <= limit
      BY <1>1, <2>1, <3>2, <3>3 DEF Swept
    <3> QED  BY <1>1, <2>1, <3>1, <3>4 DEF Swept, ShortChains, BucketIds
  <2> QED  BY <2>2, <2>3
<1>5. CASE LeaveSweptBucket
  <2>1. /\ pc = "sweep" /\ at = Len(buckets[i]) /\ at' = 0
        /\ UNCHANGED <<capacity, buckets, limit>>
        /\ i' = i + 1 \/ pc' = "idle"
    BY <1>5 DEF LeaveSweptBucket, NextBucket
  <2>2. CASE pc' = "idle"
    BY <2>2 DEF Swept
  <2>3. CASE i' = i + 1
    <3>1. ASSUME NEW b \in BucketIds, NEW n \in 1 .. Len(buckets[b]),
                 b < i + 1 \/ (b = i + 1 /\ n <= 0)
          PROVE  buckets[b][n].value <= limit
      <4>1. Len(buckets[b]) \in Nat  BY DEF TypeOK
      <4>2. b < i \/ b = i  BY <1>1, <3>1, <4>1
      <4>3. b = i => n <= at  BY <2>1, <4>1
      <4> QED  BY <2>1, <4>2, <4>3 DEF Swept
    <3> QED  BY <2>1, <2>3, <3>1 DEF Swept, ShortChains, BucketIds
  <2> QED  BY <2>1, <2>2, <2>3
<1> QED  BY <1>2, <1>3, <1>4, <1>5 DEF Walk, SweepStep

----------------------------------------------------------------------------
(* What each operation and each step of a walk does to the contents.        *)

(* A step of a doubling changes no contents and no size. *)
LEMMA DoubleContents ==
  ASSUME NEW u \in Nat, CountedInv(u), DoubleStep
  PROVE  /\ HeldKeys' = HeldKeys /\ Contents' = Contents /\ size' = size
         /\ pc = "double" /\ pc' \in {"double", "idle"} /\ limit' = limit
<1>1. TypeOK /\ UniqueKeys /\ TypeOK' /\ UniqueKeys'
  <2>1. CountedInv(u)'  BY WalkInv DEF Walk
  <2> QED  BY <2>1 DEF CountedInv
<1>2. \A e \in Entry : Stored(e)' <=> Stored(e)
  <2>1. CASE MoveEntry
    BY <1>1, <2>1, MoveStored
  <2>2. CASE LeaveDoubledBucket
    BY <2>2 DEF LeaveDoubledBucket, Stored, BucketIds
  <2> QED  BY <2>1, <2>2 DEF DoubleStep
<1>3. HeldKeys' = HeldKeys /\ Contents' = Contents
  BY <1>1, <1>2, SameContents
<1>4. /\ size' = size /\ pc = "double" /\ pc' \in {"double", "idle"} /\ limit' = limit
  BY DEF DoubleStep, MoveEntry, LeaveDoubledBucket, NextBucket
<1> QED  BY <1>3, <1>4

(* What is unlinked leaves the contents, and was above the limit. *)
LEMMA DropContents ==
  ASSUME NEW u \in Nat, CountedInv(u), CountedInv(u)', pc = "sweep",
         NEW n \in 1 .. Len(buckets[i]), DropEntry(n), buckets[i][n].value > limit
  PROVE  /\ pc' = "sweep" /\ limit' = limit /\ size' = size - 1
         /\ \E k \in HeldKeys :
              /\ Contents[k] > limit
              /\ HeldKeys' = HeldKeys \ {k}
              /\ Contents' = [x \in HeldKeys \ {k} |-> Contents[x]]
<1> DEFINE d == buckets[i][n]
<1>1. TypeOK /\ UniqueKeys /\ TypeOK' /\ UniqueKeys'  BY DEF CountedInv
<1>2. d \in Entry /\ Stored(d) /\ \A e \in Entry : Stored(e)' <=> Stored(e) /\ e # d
  BY <1>1, DropStored
<1>3. d.key \in HeldKeys /\ Contents[d.key] = d.value
  BY <1>1, <1>2, ContentsOf
<1>4. /\ HeldKeys' = HeldKeys \ {d.key}
      /\ Contents' = [x \in HeldKeys \ {d.key} |-> Contents[x]]
  BY <1>1, <1>2, LessContents
<1>5. Contents[d.key] > limit  BY <1>3
<1> QED  BY <1>3, <1>4, <1>5 DEF DropEntry

(* When the sweep has passed the last bucket, nothing above its limit is    *)
(* left (the loops of compiler.c:34-57).                                    *)
LEMMA SweptThrough ==
  ASSUME TypeOK, UniqueKeys, Swept, pc = "sweep", at = Len(buckets[i]),
         ~ (i < capacity - 1)
  PROVE  \A k \in HeldKeys : Contents[k] <= limit
<1> SUFFICES ASSUME NEW k \in HeldKeys PROVE Contents[k] <= limit
  OBVIOUS
<1>1. PICK b \in BucketIds : \E n \in 1 .. Len(buckets[b]) :
        buckets[b][n] = [key |-> k, value |-> Contents[k]]
  BY ContentsStored DEF Stored
<1>2. PICK n \in 1 .. Len(buckets[b]) :
        buckets[b][n] = [key |-> k, value |-> Contents[k]]
  BY <1>1
<1>3. b < i \/ b = i
  BY DEF TypeOK, BucketIds
<1>4. b = i => n <= at
  <2>1. Len(buckets[b]) \in Nat  BY DEF TypeOK
  <2> QED  BY <2>1
<1>5. buckets[b][n].value <= limit
  BY <1>3, <1>4 DEF Swept
<1> QED  BY <1>2, <1>5

(* A step of a sweep takes an entry above the limit, or only moves on, and  *)
(* it ends when no such entry is left.                                      *)
LEMMA SweepContents ==
  ASSUME NEW u \in Nat, CountedInv(u), Swept, SweepStep
  PROVE  /\ pc = "sweep" /\ limit' = limit
         /\ \/ /\ pc' = "sweep" /\ size' = size - 1
               /\ \E k \in HeldKeys :
                    /\ Contents[k] > limit
                    /\ HeldKeys' = HeldKeys \ {k}
                    /\ Contents' = [x \in HeldKeys \ {k} |-> Contents[x]]
            \/ /\ HeldKeys' = HeldKeys /\ Contents' = Contents /\ size' = size
               /\ \/ pc' = "sweep"
                  \/ pc' = "idle" /\ \A k \in HeldKeys : Contents[k] <= limit
<1>1. TypeOK /\ UniqueKeys /\ TypeOK' /\ UniqueKeys' /\ CountedInv(u)'
  <2>1. CountedInv(u)'  BY WalkInv DEF Walk
  <2> QED  BY <2>1 DEF CountedInv
<1>2. pc = "sweep" /\ i \in BucketIds /\ Len(buckets[i]) \in Nat
  BY <1>1 DEF TypeOK, SweepStep, SweepHead, SweepInner, LeaveSweptBucket
<1>3. ASSUME UNCHANGED <<capacity, size, buckets, limit>>
      PROVE  /\ HeldKeys' = HeldKeys /\ Contents' = Contents /\ size' = size
             /\ limit' = limit
  <2>1. \A e \in Entry : Stored(e)' <=> Stored(e)
    BY <1>3 DEF Stored, BucketIds
  <2> QED  BY <1>1, <1>3, <2>1, SameContents
<1>4. CASE SweepHead
  <2>1. 1 \in 1 .. Len(buckets[i])
    BY <1>1, <1>2, <1>4, EmptySeq DEF SweepHead, TypeOK
  <2>2. CASE buckets[i][1].value > limit
    BY <1>1, <1>2, <1>4, <2>1, <2>2, DropContents DEF SweepHead
  <2>3. CASE ~ (buckets[i][1].value > limit)
    BY <1>2, <1>3, <1>4, <2>3 DEF SweepHead
  <2> QED  BY <2>2, <2>3
<1>5. CASE SweepInner
  <2>1. at = 1 /\ at + 1 = 2 /\ 2 \in 1 .. Len(buckets[i])
    <3>1. at = 1 /\ Len(buckets[i]) = 2
      BY <1>1, <1>5, InnerLooksBehind
    <3> QED  BY <3>1
  <2>2. CASE buckets[i][2].value > limit
    BY <1>1, <1>2, <1>5, <2>1, <2>2, DropContents DEF SweepInner
  <2>3. CASE ~ (buckets[i][2].value > limit)
    BY <1>2, <1>3, <1>5, <2>3 DEF SweepInner
  <2> QED  BY <2>2, <2>3
<1>6. CASE LeaveSweptBucket
  <2>1. at = Len(buckets[i]) /\ UNCHANGED <<capacity, size, buckets, limit>>
    BY <1>6 DEF LeaveSweptBucket
  <2>2. \/ pc' = "sweep"
        \/ pc' = "idle" /\ ~ (i < capacity - 1)
    BY <1>2, <1>6 DEF LeaveSweptBucket, NextBucket
  <2> QED  BY <1>1, <1>2, <1>3, <2>1, <2>2, SweptThrough
<1> QED  BY <1>4, <1>5, <1>6 DEF SweepStep

(* A put of an absent key. *)
LEMMA PutContents ==
  ASSUME NEW u \in Nat, CountedInv(u), NEW k \in Keys, NEW v \in Values,
         ~ Found(k), PutTo(k, v)
  PROVE  /\ pc = "idle" /\ pc' \in {"idle", "double"} /\ limit' = limit
         /\ size' = size + 1 /\ k \notin HeldKeys
         /\ HeldKeys' = HeldKeys \union {k}
         /\ Contents' = [x \in HeldKeys \union {k} |-> IF x = k THEN v ELSE Contents[x]]
<1>1. TypeOK /\ UniqueKeys /\ Placement /\ TypeOK' /\ UniqueKeys'
  <2>1. CountedInv(u)'  BY PutInv
  <2> QED  BY <2>1 DEF CountedInv
<1>2. pc = "idle" /\ PutNew(k, v)
  <2>1. \A b \in BucketIds : b = Index(k) => buckets[b] \in Seq(Entry)
    BY <1>1 DEF TypeOK
  <2>2. buckets[Index(k)] \in Seq(Entry)
    BY <1>1, <2>1, IndexInRange
  <2>3. ~ PutAtHead(k, v)
    <3>1. buckets[Index(k)] # <<>> => 1 \in 1 .. Len(buckets[Index(k)])
      BY <2>2
    <3> QED  BY <3>1 DEF PutAtHead, Found, HasKey
  <2>4. ~ PutBehindHead(k)
    BY DEF PutBehindHead, Found
  <2> QED  BY <2>3, <2>4 DEF PutTo
<1>3. k \notin HeldKeys
  BY <1>1, <1>2, FoundHeld
<1>4. \A e \in Entry : Stored(e)' <=> Stored(e) \/ e = [key |-> k, value |-> v]
  BY <1>1, <1>2, PutNewStored
<1>5. pc' \in {"idle", "double"} /\ limit' = limit /\ size' = size + 1
  BY <1>2 DEF PutNew, Resize
<1> QED  BY <1>1, <1>2, <1>3, <1>4, <1>5, MoreContents

----------------------------------------------------------------------------
(* The same, as steps of Dictionary. *)

(* The map new_##map returns is the empty dictionary. *)
LEMMA InitDictionary ==
  Init => D!Init
<1> SUFFICES ASSUME Init PROVE D!Init
  OBVIOUS
<1>1. HeldKeys = {}
  BY EmptySeq DEF Init, HeldKeys, Held, HasKey, BucketIds
<1>2. Contents = [k \in {} |-> 0]
  <2>1. Contents = [k \in HeldKeys |-> Contents[k]]  BY DEF Contents
  <2> QED  BY <1>1, <2>1
<1> QED  BY <1>2 DEF Init, D!Init

(* put_to_ of a key that is not there is one step of the dictionary.        *)
LEMMA PutDictionary ==
  ASSUME NEW u \in Nat, CountedInv(u), NEW k \in Keys, NEW v \in Values,
         ~ Found(k), PutTo(k, v)
  PROVE  D!Put(k, v)
<1>1. DOMAIN Contents = HeldKeys  BY DEF Contents
<1>2. /\ pc # "sweep" /\ pc' # "sweep"
      /\ Contents' = [x \in HeldKeys \union {k} |-> IF x = k THEN v ELSE Contents[x]]
  BY PutContents
<1> QED  BY <1>1, <1>2 DEF D!Put

(* Entering the loop of remove_from_value_condition removes nothing yet.    *)
LEMMA StartSweepDictionary ==
  ASSUME NEW u \in Nat, CountedInv(u), NEW n \in Nat, StartSweep(n)
  PROVE  D!BeginRemoval(n) /\ HeldKeys' = HeldKeys /\ Contents' = Contents
<1>1. TypeOK /\ UniqueKeys /\ TypeOK' /\ UniqueKeys'
  <2>1. CountedInv(u)'  BY StartSweepInv
  <2> QED  BY <2>1 DEF CountedInv
<1>2. \A e \in Entry : Stored(e)' <=> Stored(e)
  BY DEF StartSweep, Stored, BucketIds
<1>3. HeldKeys' = HeldKeys /\ Contents' = Contents
  BY <1>1, <1>2, SameContents
<1> QED  BY <1>3 DEF StartSweep, D!BeginRemoval

(* A doubling is not seen, and a sweep is seen to remove what is above its  *)
(* limit until nothing is.                                                  *)
LEMMA WalkDictionary ==
  ASSUME NEW u \in Nat, CountedInv(u), Swept, Walk
  PROVE  [D!Next]_D!dictVars
<1>1. DOMAIN Contents = HeldKeys  BY DEF Contents
<1>2. CASE DoubleStep
  BY <1>2, DoubleContents DEF D!dictVars
<1>3. CASE SweepStep
  <2>1. pc = "sweep" /\ limit' = limit  BY <1>3, SweepContents
  <2>2. ASSUME pc' = "sweep", NEW k \in HeldKeys, Contents[k] > limit,
               Contents' = [x \in HeldKeys \ {k} |-> Contents[x]]
        PROVE  D!Next
    <3>1. D!Remove(k)
      BY <1>1, <2>1, <2>2 DEF D!Remove
    <3> QED  BY <1>1, <3>1 DEF D!Next
  <2>3. ASSUME Contents' = Contents, pc' = "sweep"
        PROVE  UNCHANGED D!dictVars
    BY <2>1, <2>3 DEF D!dictVars
  <2>4. ASSUME Contents' = Contents, pc' = "idle",
               \A k \in HeldKeys : Contents[k] <= limit
        PROVE  D!Next
    BY <1>1, <2>1, <2>4 DEF D!Next, D!EndRemoval
  <2> QED  BY <1>3, <2>2, <2>3, <2>4, SweepContents
<1> QED  BY <1>2, <1>3 DEF Walk
=============================================================================
