--------------------------- MODULE HashMapRemoval ---------------------------
(***************************************************************************)
(* The two removals of hash_map.h that the compiler does not call:         *)
(* remove_from_, of one key, and remove_if_condition.  They are actions    *)
(* beside those of HashMap, on the same state.                             *)
(***************************************************************************)
EXTENDS HashMap

CONSTANT Conditions   \* sets of keys: for each, the condition of being in it

ASSUME ConditionsAssumption == Conditions \subseteq SUBSET Keys

VARIABLES
  uncounted,   \* how many entries were unlinked and not counted
  dangling     \* whether an entry still linked has been freed

removalVars == <<mapVars, uncounted, dangling>>

RemovalInit ==
  /\ Init
  /\ uncounted = 0
  /\ dangling = FALSE

----------------------------------------------------------------------------
(* remove_from_ of the key of the head of a list. *)
RemoveHead(k) ==
  LET chain == buckets[Index(k)] IN
  /\ chain # <<>>
  /\ chain[1].key = k
  /\ buckets' = [buckets EXCEPT ![Index(k)] = Tail(@)]
  /\ size' = size - 1
  /\ UNCHANGED <<uncounted, dangling>>

(* Of a key further down: the list is relinked before the entry to free is  *)
(* read from it, so that entry is the one behind.  Behind the last entry    *)
(* there is none, and the removal is reported, and counted, as no removal;  *)
(* else an entry that stays in the list is freed.                           *)
RemoveBehindHead(k) ==
  LET chain == buckets[Index(k)] IN
  \E n \in 2 .. Len(chain) :
    /\ chain[n].key = k
    /\ buckets' = [buckets EXCEPT ![Index(k)] = RemoveAt(@, n)]
    /\ IF n = Len(chain)
         THEN uncounted' = uncounted + 1 /\ UNCHANGED <<size, dangling>>
         ELSE dangling' = TRUE /\ size' = size - 1 /\ UNCHANGED uncounted

RemoveFrom(k) ==
  /\ pc = "idle"
  /\ RemoveHead(k) \/ RemoveBehindHead(k)
  /\ UNCHANGED <<capacity, pc, i, at, old_capacity, limit>>

----------------------------------------------------------------------------
(* Mutant: each loop takes one entry. *)
FirstStayMutant(chain, C, n) ==
  IF n <= Len(chain) /\ chain[n].key \in C THEN n + 1 ELSE n

(* The first entry of a list, from position n on, that does not meet the    *)
(* condition; the position behind the list if there is none.                *)
FirstStay(chain, C, n) ==
  Min({m \in n .. Len(chain) : chain[m].key \notin C} \union {Len(chain) + 1})

(* The entries remove_if_condition unlinks from a list: the heads go until  *)
(* one stays; the second loop unlinks what follows that one, testing        *)
(* head->next, until head->next stays, and from there on nothing.           *)
Unlinked(chain, C) ==
  LET h == FirstStay(chain, C, 1)
      t == FirstStay(chain, C, h + 1)
  IN {n \in DOMAIN chain : n < h \/ (h < n /\ n < t)}

(* What it leaves of the list. *)
Kept(chain, C) ==
  LET h == FirstStay(chain, C, 1)
      t == FirstStay(chain, C, h + 1)
  IN IF h > Len(chain) THEN <<>> ELSE <<chain[h]>> \o SubSeq(chain, t, Len(chain))

(* Every entry unlinked is counted. *)
RemoveIf(C) ==
  /\ pc = "idle"
  /\ buckets' = [b \in BucketIds |-> Kept(buckets[b], C)]
  /\ size' = size - Cardinality(UNION {{b} \X Unlinked(buckets[b], C) : b \in BucketIds})
  /\ UNCHANGED <<capacity, pc, i, at, old_capacity, limit, uncounted, dangling>>

(* What a walk over a freed entry does is undefined: the model ends there.  *)
RemovalNext ==
  /\ ~ dangling
  /\ \/ Next /\ UNCHANGED <<uncounted, dangling>>
     \/ \E k \in Keys : RemoveFrom(k)
     \/ \E C \in Conditions : RemoveIf(C)

RemovalSpec == RemovalInit /\ [][RemovalNext]_removalVars /\ WF_mapVars(Walk)

----------------------------------------------------------------------------
(* The size is the number of keys stored and of the removals that were not  *)
(* counted, of last entries behind the head (hash_map.h:187-195): no other sequence of puts, doublings,      *)
(* sweeps and removals, of the head of a list, of absent keys or by         *)
(* condition, makes the size and the lists disagree.                        *)
SizeCountsUncounted == size = Cardinality(HeldKeys) + uncounted

(* A removal by condition removes what meets it and nothing else, in lists  *)
(* of at most two entries; whatever the lists, it removes nothing else and  *)
(* no list begins with what meets it (hash_map.h:77, 88).                   *)
ConditionDecides ==
  [][\A C \in Conditions :
       RemoveIf(C) =>
         /\ HeldKeys \ C \subseteq HeldKeys'
         /\ HeldKeys' \subseteq HeldKeys
         /\ \A b \in BucketIds : buckets[b]' # <<>> => buckets[b]'[1].key \notin C
         /\ ShortChains => HeldKeys' \intersect C = {}]_removalVars
=============================================================================
