------------------------------- MODULE Tables -------------------------------
(***************************************************************************)
(* The hash set and the void hash table under the same calls: each call    *)
(* goes to both, so that one can be judged by the other, and the table by  *)
(* what a dictionary is.                                                   *)
(***************************************************************************)
EXTENDS Hashing, Naturals, Sequences, FiniteSets, SequencesExt

INSTANCE HashSet

INSTANCE VoidHashTable

ASSUME SizesAssumption ==
  /\ Hash \in [Keys -> Nat]
  /\ InitialCapacity \in Nat \ {0}
  /\ SizeofSizeT \in Nat /\ SizeofSizeT >= 2

VARIABLES
  set,      \* the hash set
  table,    \* the void hash table
  told,     \* the result of the last call of the set
  exact     \* whether every element of the set has always been where it is looked for

tablesVars == <<set, table, told, exact>>

TablesInit ==
  /\ set = NewHashSet
  /\ table = NewHashTable
  /\ told = FALSE
  /\ exact = TRUE

Placed(S) == \A b \in DOMAIN S.buckets : \A x \in ToSet(S.buckets[b]) : SetIndex(S, x) = b

PutBoth(k, v) ==
  /\ set' = AddToHashSet(set, k)
  /\ table' = PutEntry(table, k, v)
  /\ told' = AddTells(set, k)
  /\ exact' = (exact /\ Placed(set'))

RemoveBoth(k) ==
  /\ set' = RemoveFromHashSet(set, k)
  /\ table' = RemoveKey(table, k)
  /\ told' = RemoveTells(set, k)
  /\ UNCHANGED exact

TablesNext ==
  \/ \E k \in Keys, v \in Values : PutBoth(k, v)
  \/ \E k \in Keys : RemoveBoth(k)

TablesSpec == TablesInit /\ [][TablesNext]_tablesVars

----------------------------------------------------------------------------
TableKeys == {e.key : e \in UNION {ToSet(table.buckets[b]) : b \in DOMAIN table.buckets}}

Cells(lists) == UNION {{b} \X DOMAIN lists[b] : b \in DOMAIN lists}

(* As long as no doubling has passed over an element that had to move, the  *)
(* set holds the keys of the table, in lists of as many buckets (until the  *)
(* masks of its resize test, hash_set.h:115-116, stop its doublings), and   *)
(* asked for an element says what the table says of the key.                *)
SetAgrees ==
  exact =>
    /\ SetElements(set) = TableKeys
    /\ set.size = table.size
    /\ table.capacity <= 2^(SizeofSizeT - 2) => set.capacity = table.capacity
    /\ \A k \in Keys : HashSetContains(set, k) = ContainsKey(table, k)

(* Whatever the doublings pass over (hash_set.h:84), they relink every cell *)
(* once: no element that was added and not removed leaves the set, and the  *)
(* size is the number of its cells.                                         *)
NothingLost ==
  /\ TableKeys \subseteq SetElements(set)
  /\ set.size = Cardinality(Cells(set.buckets))

(* The result of add tells whether the element is new (hash_set.h:121);     *)
(* remove's is true only for an element that is not in the set, and tells   *)
(* nothing otherwise (hash_set.h:129, 143).                                 *)
Answers ==
  [][\A k \in Keys :
       exact => /\ \A v \in Values : PutBoth(k, v) => (told' <=> ~ ContainsKey(table, k))
                /\ RemoveBoth(k) => (told' => ~ ContainsKey(table, k))]_tablesVars

TableContents ==
  [k \in TableKeys |->
     LET b == CHOOSE b \in DOMAIN table.buckets : \E e \in ToSet(table.buckets[b]) : e.key = k
     IN (CHOOSE e \in ToSet(table.buckets[b]) : e.key = k).value]

(* The table is a dictionary that can delete: the change of capacity inside *)
(* a put is not seen from outside, the value put last is the one that       *)
(* counts, and a removal takes its key and no other.                        *)
DT == INSTANCE Dictionary WITH dict <- TableContents, removing <- {}

TableImplementsDictionary ==
  /\ DT!DeletingSpec
  /\ [][\A k \in Keys :
          /\ \A v \in Values : PutBoth(k, v) => k \in TableKeys' /\ TableContents'[k] = v
          /\ RemoveBoth(k) => TableKeys' = TableKeys \ {k}]_tablesVars

(* Its lookup finds exactly what it holds, and its size counts it.          *)
TableFinds ==
  /\ \A k \in Keys : ContainsKey(table, k) <=> k \in TableKeys
  /\ \A k \in TableKeys : GetValue(table, k) = TableContents[k]
  /\ table.size = Cardinality(Cells(table.buckets))
=============================================================================
