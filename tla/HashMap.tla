------------------------------ MODULE HashMap ------------------------------
(***************************************************************************)
(* The chained hash map of src/src/data_structures/hash_map.h, as the      *)
(* compiler uses it for its variables, its node tables and its block       *)
(* index, together with the sweep by value the compiler adds for leaving a *)
(* scope (compiler.c).                                                     *)
(*                                                                         *)
(* A bucket's linked list is a sequence of entries.  The two loops that    *)
(* relink entries one at a time, the doubling of the capacity and the      *)
(* sweep, are walks of one step per iteration: pc says which one is        *)
(* running, i is its bucket, at the position of its cursor in that bucket  *)
(* (0 is the sentinel of the doubling and the head phase of the sweep).    *)
(***************************************************************************)
EXTENDS Hashing, Naturals, Sequences, FiniteSets, SequencesExt

ASSUME ConstantsAssumption ==
  /\ Values \subseteq Nat
  /\ Hash \in [Keys -> Nat]
  /\ InitialCapacity \in Nat \ {0}
  /\ SizeofSizeT \in Nat /\ SizeofSizeT >= 2

VARIABLES
  capacity,      \* map->capacity
  size,          \* map->size
  buckets,       \* map->buckets, each list as a sequence of entries
  pc,            \* "idle", or the walk in progress: "double" or "sweep"
  i,             \* the bucket the walk is at
  at,            \* the position of the walk's cursor in that bucket
  old_capacity,  \* the capacity the doubling started from
  limit          \* the n of the sweep: entries with a larger value go

mapVars == <<capacity, size, buckets, pc, i, at, old_capacity, limit>>

Entry == [key : Keys, value : Values]

BucketIds == 0 .. capacity - 1

Index(k) == Hash[k] % capacity

HasKey(chain, k) == \E n \in 1 .. Len(chain) : chain[n].key = k

Held(k) == \E b \in BucketIds : HasKey(buckets[b], k)

HeldKeys == {k \in Keys : Held(k)}

(* get_from_: the value of the first entry with the key in its own bucket. *)
Found(k) == HasKey(buckets[Index(k)], k)

GetFrom(k) ==
  LET chain == buckets[Index(k)]
      n == CHOOSE n \in 1 .. Len(chain) :
             /\ chain[n].key = k
             /\ \A m \in 1 .. n - 1 : chain[m].key # k
  IN chain[n].value

----------------------------------------------------------------------------
Init ==
  /\ capacity = InitialCapacity
  /\ size = 0
  /\ buckets = [b \in 0 .. InitialCapacity - 1 |-> <<>>]
  /\ pc = "idle"
  /\ i = 0
  /\ at = 0
  /\ old_capacity = InitialCapacity
  /\ limit = 0

(* The definitions named ...Mutant are faults: each is what one definition  *)
(* of this development could wrongly be, and breaks the property that       *)
(* guards against it.  Here: the map grows only once it is full.            *)
ResizeNeededMutant(n) ==
  /\ (n \div 2^(SizeofSizeT - 2)) % 4 = 0
  /\ (capacity \div 2^(SizeofSizeT - 1)) % 2 = 0
  /\ (4 * n) \div capacity > 3

(* The test at the end of put_to_: the two masked shifts are written as the *)
(* division and remainder they compute.                                     *)
ResizeNeeded(n) ==
  /\ (n \div 2^(SizeofSizeT - 2)) % 4 = 0
  /\ (capacity \div 2^(SizeofSizeT - 1)) % 2 = 0
  /\ (4 * n) \div capacity >= 3

(* The tail of put_to_, once the lists are `stored' and the size is n: the  *)
(* new half of the bucket array is zeroed and the doubling walk begins.     *)
Resize(stored, n) ==
  /\ size' = n
  /\ IF ResizeNeeded(n)
       THEN /\ capacity' = 2 * capacity
            /\ buckets' = [b \in 0 .. 2 * capacity - 1 |->
                             IF b \in BucketIds THEN stored[b] ELSE <<>>]
            /\ old_capacity' = capacity
            /\ pc' = "double"
       ELSE /\ buckets' = stored
            /\ UNCHANGED <<capacity, old_capacity, pc>>
  /\ UNCHANGED <<i, at, limit>>

(* put_to_: an equal head takes the value, an equal entry further down is   *)
(* given the key it already has, and an absent key goes to the end.         *)
PutAtHead(k, v) ==
  LET chain == buckets[Index(k)] IN
  /\ chain # <<>>
  /\ chain[1].key = k
  /\ Resize([buckets EXCEPT ![Index(k)] = [chain EXCEPT ![1].value = v]], size)

(* Mutant: only the head is compared with the key. *)
PutBehindHeadMutant(k) ==
  LET chain == buckets[Index(k)] IN
  /\ HasKey(chain, k)
  /\ chain[1].key # k
  /\ Resize([buckets EXCEPT ![Index(k)] = Append(@, [key |-> k, value |-> 0])], size)

PutBehindHead(k) ==
  LET chain == buckets[Index(k)] IN
  /\ HasKey(chain, k)
  /\ chain[1].key # k
  /\ Resize(buckets, size)

PutNew(k, v) ==
  /\ ~ HasKey(buckets[Index(k)], k)
  /\ Resize([buckets EXCEPT ![Index(k)] = Append(@, [key |-> k, value |-> v])],
            size + 1)

PutTo(k, v) ==
  /\ pc = "idle"
  /\ \/ PutAtHead(k, v)
     \/ PutBehindHead(k)
     \/ PutNew(k, v)

----------------------------------------------------------------------------
(* The walk leaves bucket i for the next one, or ends after the last one.   *)
NextBucket(last) ==
  /\ at' = 0
  /\ IF i < last
       THEN i' = i + 1 /\ UNCHANGED pc
       ELSE i' = 0 /\ pc' = "idle"

(* Mutant: the cursor advances past the entry behind the one that moves. *)
MoveEntryMutant ==
  /\ pc = "double"
  /\ at < Len(buckets[i])
  /\ LET e == buckets[i][at + 1]
     IN IF Index(e.key) # i
          THEN /\ buckets' = [buckets EXCEPT ![i] = RemoveAt(@, at + 1),
                                             ![Index(e.key)] = <<e>> \o @]
               /\ at' = IF at + 1 < Len(buckets[i]) THEN at + 1 ELSE at
          ELSE /\ at' = at + 1
               /\ UNCHANGED buckets
  /\ UNCHANGED <<capacity, size, pc, i, old_capacity, limit>>

(* double_..._capacity: the entry after the cursor moves to the front of    *)
(* the bucket its hash now names, or stays and becomes the cursor.          *)
MoveEntry ==
  /\ pc = "double"
  /\ at < Len(buckets[i])
  /\ LET e == buckets[i][at + 1]
     IN IF Index(e.key) # i
          THEN /\ buckets' = [buckets EXCEPT ![i] = RemoveAt(@, at + 1),
                                             ![Index(e.key)] = <<e>> \o @]
               /\ UNCHANGED at
          ELSE /\ at' = at + 1
               /\ UNCHANGED buckets
  /\ UNCHANGED <<capacity, size, pc, i, old_capacity, limit>>

(* Mutant: the walk goes over the new half of the array too. *)
LeaveDoubledBucketMutant ==
  /\ pc = "double"
  /\ at = Len(buckets[i])
  /\ NextBucket(capacity - 1)
  /\ UNCHANGED <<capacity, size, buckets, old_capacity, limit>>

LeaveDoubledBucket ==
  /\ pc = "double"
  /\ at = Len(buckets[i])
  /\ NextBucket(old_capacity - 1)
  /\ UNCHANGED <<capacity, size, buckets, old_capacity, limit>>

DoubleStep == MoveEntry \/ LeaveDoubledBucket

----------------------------------------------------------------------------
(* remove_from_..._if_value_greater_than(map, n) is entered.                *)
StartSweep(n) ==
  /\ pc = "idle"
  /\ pc' = "sweep"
  /\ limit' = n
  /\ UNCHANGED <<capacity, size, buckets, i, at, old_capacity>>

(* Mutant: a removal that does not count. *)
DropEntryMutant(n) ==
  /\ buckets' = [buckets EXCEPT ![i] = RemoveAt(@, n)]
  /\ UNCHANGED <<capacity, size, pc, i, at, old_capacity, limit>>

DropEntry(n) ==
  /\ buckets' = [buckets EXCEPT ![i] = RemoveAt(@, n)]
  /\ size' = size - 1
  /\ UNCHANGED <<capacity, pc, i, at, old_capacity, limit>>

(* Mutant: a head that stays does not become the cursor. *)
SweepHeadMutant ==
  /\ pc = "sweep"
  /\ at = 0
  /\ buckets[i] # <<>>
  /\ IF buckets[i][1].value > limit THEN DropEntry(1) ELSE UNCHANGED mapVars

(* The first loop: heads go as long as their value is above the limit.      *)
SweepHead ==
  /\ pc = "sweep"
  /\ at = 0
  /\ buckets[i] # <<>>
  /\ IF buckets[i][1].value > limit
       THEN DropEntry(1)
       ELSE /\ at' = 1
            /\ UNCHANGED <<capacity, size, buckets, pc, i, old_capacity, limit>>

(* Mutant: the cursor is unlinked, not the entry after it. *)
SweepInnerMutant ==
  /\ pc = "sweep"
  /\ at \in 1 .. Len(buckets[i]) - 1
  /\ IF buckets[i][2].value > limit
       THEN DropEntry(at)
       ELSE /\ at' = at + 1
            /\ UNCHANGED <<capacity, size, buckets, pc, i, old_capacity, limit>>

(* The second loop tests head->next whatever the cursor is, and unlinks the *)
(* entry after the cursor.                                                  *)
SweepInner ==
  /\ pc = "sweep"
  /\ at \in 1 .. Len(buckets[i]) - 1
  /\ IF buckets[i][2].value > limit
       THEN DropEntry(at + 1)
       ELSE /\ at' = at + 1
            /\ UNCHANGED <<capacity, size, buckets, pc, i, old_capacity, limit>>

LeaveSweptBucket ==
  /\ pc = "sweep"
  /\ at = Len(buckets[i])
  /\ NextBucket(capacity - 1)
  /\ UNCHANGED <<capacity, size, buckets, old_capacity, limit>>

SweepStep == SweepHead \/ SweepInner \/ LeaveSweptBucket

----------------------------------------------------------------------------
Walk == DoubleStep \/ SweepStep

Next ==
  \/ \E k \in Keys, v \in Values : PutTo(k, v)
  \/ \E n \in Values : StartSweep(n)
  \/ Walk

(* A walk is a loop of one thread: once begun it is run to its end.         *)
Spec == Init /\ [][Next]_mapVars /\ WF_mapVars(Walk)

----------------------------------------------------------------------------
(* The shape of the state, and where each walk's cursor may be.             *)
TypeOK ==
  /\ capacity \in Nat \ {0}
  /\ size \in Nat
  /\ buckets \in [BucketIds -> Seq(Entry)]
  /\ pc \in {"idle", "double", "sweep"}
  /\ i \in BucketIds
  /\ at \in 0 .. Len(buckets[i])
  /\ pc = "idle" => i = 0 /\ at = 0
  /\ old_capacity \in 1 .. capacity
  /\ pc = "double" => i < old_capacity
  /\ limit \in Nat

(* Every lookup starts at the bucket the hash names, so each entry must be  *)
(* in it; while the capacity doubles, this holds of what the walk has       *)
(* passed: the buckets before i, the entries of i up to the cursor, and the *)
(* new half of the array.                                                   *)
Passed(b, n) ==
  \/ pc # "double"
  \/ b < i
  \/ b = i /\ n <= at
  \/ b >= old_capacity

Placement ==
  \A b \in BucketIds : \A n \in 1 .. Len(buckets[b]) :
    Passed(b, n) => Index(buckets[b][n].key) = b

(* No key is stored twice, in one bucket or in two, so a lookup, a store    *)
(* and a removal of a key all mean the same entry.                          *)
UniqueKeys ==
  \A b, c \in BucketIds :
    \A n \in 1 .. Len(buckets[b]), m \in 1 .. Len(buckets[c]) :
      buckets[b][n].key = buckets[c][m].key => b = c /\ n = m

(* map->size is the number of keys stored, at every step of every walk: the *)
(* compiler hands it out as the index of the next variable.                 *)
SizeExact == IsFiniteSet(HeldKeys) /\ size = Cardinality(HeldKeys)

(* put_to_ keeps the load under three quarters (hash_map_test.c:101) as far *)
(* as the masks of its test let it: below 2^(SizeofSizeT-2) keys, 64 in the *)
(* build.  From there on the map may fill without growing.                  *)
LoadFactorWhenSmall ==
  pc = "idle" /\ size < 2^(SizeofSizeT - 2) => 4 * size < 3 * capacity

(* Every doubling and every sweep ends.                                     *)
WalksEnd == pc # "idle" ~> pc = "idle"

(* The sweep tests head->next in its second loop, so it does what it is for *)
(* only where no list has a third entry.                                    *)
ShortChains == \A b \in BucketIds : Len(buckets[b]) <= 2

Contents ==
  [k \in HeldKeys |->
     LET b == CHOOSE b \in BucketIds : HasKey(buckets[b], k)
         n == CHOOSE n \in 1 .. Len(buckets[b]) : buckets[b][n].key = k
     IN buckets[b][n].value]

(* Where only absent keys are put, as the compiler does (compiler.c:315-319) *)
(* and only short chains are swept, the map is a dictionary: doubling       *)
(* loses, duplicates and changes nothing at any of its steps, and a sweep   *)
(* removes every entry above its limit and no other.                        *)
D == INSTANCE Dictionary
       WITH dict <- Contents,
            removing <- IF pc = "sweep" THEN {limit} ELSE {}

ImplementsDictionary == D!Spec
=============================================================================
