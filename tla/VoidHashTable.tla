---------------------------- MODULE VoidHashTable ---------------------------
(***************************************************************************)
(* The chained table of void_hash_table.c, as a record [capacity, size,    *)
(* buckets] and a function for each of its operations; a bucket's list is  *)
(* a sequence of entries.  hash & (capacity-1) is the remainder, the       *)
(* capacity being a power of two.                                          *)
(***************************************************************************)
EXTENDS Naturals, Sequences, SequencesExt

CONSTANTS
  Keys,             \* the keys
  Values,           \* the values
  Hash,             \* hash, as a function of the key
  InitialCapacity   \* 16 in the source

NewHashTable ==
  [capacity |-> InitialCapacity, size |-> 0,
   buckets |-> [b \in 0 .. InitialCapacity - 1 |-> <<>>]]

TableIndex(T, k) == Hash[k] % T.capacity

(* The position of the first entry of the key in the list its hash names,   *)
(* or 0: the walk of put_entry, get_value, contains_key and remove_key.     *)
Position(T, k) ==
  LET chain == T.buckets[TableIndex(T, k)]
      places == {n \in DOMAIN chain : chain[n].key = k}
  IN IF places = {} THEN 0 ELSE CHOOSE n \in places : \A m \in places : n <= m

ContainsKey(T, k) == Position(T, k) # 0

GetValue(T, k) == T.buckets[TableIndex(T, k)][Position(T, k)].value

----------------------------------------------------------------------------
(* set_hash_table_capacity: each list is taken off its bucket and its       *)
(* entries are put, in order, before what their new buckets hold, those the *)
(* walk has still to come to included.                                      *)
MoveEntries(T, b) ==
  LET chain == T.buckets[b]
      moved[n \in 0 .. Len(chain)] ==
        IF n = 0 THEN [T EXCEPT !.buckets[b] = <<>>]
        ELSE [moved[n - 1] EXCEPT !.buckets[TableIndex(T, chain[n].key)] = <<chain[n]>> \o @]
  IN moved[Len(chain)]

WithBuckets(T, new_capacity) ==
  [T EXCEPT !.capacity = new_capacity,
            !.buckets = [b \in 0 .. new_capacity - 1 |->
                           IF b < T.capacity THEN @[b] ELSE <<>>]]

(* Mutant: the walk leaves the first list where it is. *)
SetHashTableCapacityMutant(T, new_capacity) ==
  LET walked[n \in 1 .. T.capacity] ==
        IF n = 1 THEN WithBuckets(T, new_capacity) ELSE MoveEntries(walked[n - 1], n - 1)
  IN walked[T.capacity]

SetHashTableCapacity(T, new_capacity) ==
  LET walked[n \in 0 .. T.capacity] ==
        IF n = 0 THEN WithBuckets(T, new_capacity) ELSE MoveEntries(walked[n - 1], n - 1)
  IN walked[T.capacity]

Grown(T) ==
  IF 4 * T.size >= 3 * T.capacity THEN SetHashTableCapacity(T, 2 * T.capacity) ELSE T

(* Mutant: a key that is stored keeps its value. *)
PutEntryMutant(T, k, v) ==
  IF ContainsKey(T, k) THEN T
  ELSE Grown([T EXCEPT !.size = @ + 1,
                       !.buckets[TableIndex(T, k)] = Append(@, [key |-> k, value |-> v])])

PutEntry(T, k, v) ==
  LET b == TableIndex(T, k)
  IN Grown(IF ContainsKey(T, k)
           THEN [T EXCEPT !.buckets[b][Position(T, k)].value = v]
           ELSE [T EXCEPT !.size = @ + 1,
                          !.buckets[b] = Append(@, [key |-> k, value |-> v])])

RemoveKey(T, k) ==
  IF ContainsKey(T, k)
  THEN [T EXCEPT !.size = @ - 1,
                 !.buckets[TableIndex(T, k)] = RemoveAt(@, Position(T, k))]
  ELSE T
=============================================================================
