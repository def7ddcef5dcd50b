------------------------------ MODULE HashSet -------------------------------
(***************************************************************************)
(* The chained hash set of hash_set.h, as a record [capacity, size,        *)
(* buckets] and a function for each of its operations; a bucket's list is  *)
(* a sequence of elements.                                                 *)
(***************************************************************************)
EXTENDS Naturals, Sequences, SequencesExt

CONSTANTS
  Keys,             \* the elements
  Hash,             \* hash_function, as a function of the element
  InitialCapacity,  \* 16 in the source
  SizeofSizeT       \* sizeof(size_t)

NewHashSet ==
  [capacity |-> InitialCapacity, size |-> 0,
   buckets |-> [b \in 0 .. InitialCapacity - 1 |-> <<>>]]

SetIndex(S, x) == Hash[x] % S.capacity

SetElements(S) == UNION {ToSet(S.buckets[b]) : b \in DOMAIN S.buckets}

----------------------------------------------------------------------------
Prepend(S, x) == [S EXCEPT !.buckets[SetIndex(S, x)] = <<x>> \o @]

Stay(S, b, x) == [S EXCEPT !.buckets[b] = Append(@, x)]

(* Mutant: the element behind one that moved goes with it out of the list.  *)
DoubleBucketMutant(S, b) ==
  LET chain == S.buckets[b]
      walk[n \in 0 .. Len(chain)] ==
        IF n = 0 THEN [into |-> [S EXCEPT !.buckets[b] = <<>>], passing |-> FALSE]
        ELSE LET x == chain[n]
                 before == walk[n - 1]
             IN IF before.passing THEN [before EXCEPT !.passing = FALSE]
                ELSE IF SetIndex(S, x) = b
                THEN [into |-> Stay(before.into, b, x), passing |-> FALSE]
                ELSE [into |-> Prepend(before.into, x), passing |-> TRUE]
  IN walk[Len(chain)].into

(* One list of the doubling: the element after the cursor stays or moves,   *)
(* and after either the cursor goes on, so the one behind an element that   *)
(* moved is never looked at (hash_set.h:84-86).                             *)
DoubleBucket(S, b) ==
  LET chain == S.buckets[b]
      walk[n \in 0 .. Len(chain)] ==
        IF n = 0 THEN [into |-> [S EXCEPT !.buckets[b] = <<>>], passing |-> FALSE]
        ELSE LET x == chain[n]
                 before == walk[n - 1]
             IN IF before.passing \/ SetIndex(S, x) = b
                THEN [into |-> Stay(before.into, b, x), passing |-> FALSE]
                ELSE [into |-> Prepend(before.into, x), passing |-> TRUE]
  IN walk[Len(chain)].into

DoubleHashSetCapacity(S) ==
  LET doubled[n \in 0 .. S.capacity] ==
        IF n = 0
        THEN [S EXCEPT !.capacity = 2 * @,
                       !.buckets = [b \in 0 .. 2 * S.capacity - 1 |->
                                      IF b < S.capacity THEN @[b] ELSE <<>>]]
        ELSE DoubleBucket(doubled[n - 1], n - 1)
  IN doubled[S.capacity]

(* The test of hash_map.h, with the same masks. *)
SetResizeNeeded(S) ==
  /\ (S.size \div 2^(SizeofSizeT - 2)) % 4 = 0
  /\ (S.capacity \div 2^(SizeofSizeT - 1)) % 2 = 0
  /\ (4 * S.size) \div S.capacity >= 3

Resized(S) == IF SetResizeNeeded(S) THEN DoubleHashSetCapacity(S) ELSE S

(* Mutant: every element but the last one of the list is compared. *)
InSetBucketMutant(S, x) ==
  LET chain == S.buckets[SetIndex(S, x)]
  IN \E n \in 1 .. Len(chain) - 1 : chain[n] = x

(* What the walks of add, remove and contains look for, in one list only.   *)
(* add (hash_set.h:102, 105) and remove (130, 136) ask equals_function,     *)
(* contains (150) compares with !=: here elements that are equal are the    *)
(* same value, as those of a set of int are.  An equal char * at another    *)
(* address, which contains would not find, is no element of the model.      *)
InSetBucket(S, x) == x \in ToSet(S.buckets[SetIndex(S, x)])

(* hash_set_contains_, with that equality for its !=, and the result of     *)
(* add_to.                                                                  *)
HashSetContains(S, x) == InSetBucket(S, x)

AddTells(S, x) == ~ InSetBucket(S, x)

AtHead(S, x) == S.buckets[SetIndex(S, x)] # <<>> /\ S.buckets[SetIndex(S, x)][1] = x

AddToHashSet(S, x) ==
  IF AtHead(S, x) THEN S
  ELSE IF InSetBucket(S, x) THEN Resized(S)
  ELSE Resized([S EXCEPT !.size = @ + 1, !.buckets[SetIndex(S, x)] = Append(@, x)])

RemoveFromHashSet(S, x) ==
  LET b == SetIndex(S, x)
  IN IF InSetBucket(S, x)
     THEN [S EXCEPT !.size = @ - 1,
                    !.buckets[b] = RemoveAt(@, CHOOSE n \in DOMAIN @ :
                                                 @[n] = x /\ \A m \in 1 .. n - 1 : @[m] # x)]
     ELSE S

(* The result of remove_from: true if the element was not found in a list   *)
(* that is not empty.                                                       *)
RemoveTells(S, x) == S.buckets[SetIndex(S, x)] # <<>> /\ ~ InSetBucket(S, x)
=============================================================================
