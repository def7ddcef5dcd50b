----------------------------- MODULE Dictionary -----------------------------
(***************************************************************************)
(* What a hash map promises its callers: a partial function from keys to   *)
(* values that a put extends or changes at one key, and a removal by value *)
(* that ends only when every entry above its limit, and no other, is gone. *)
(***************************************************************************)
EXTENDS Naturals

CONSTANTS Keys, Values

VARIABLES
  dict,      \* the entries, as a function on the keys stored
  removing   \* the limit of the removal in progress, a singleton, or {}

dictVars == <<dict, removing>>

Init ==
  /\ dict = [k \in {} |-> 0]
  /\ removing = {}

Put(k, v) ==
  /\ removing = {}
  /\ dict' = [x \in DOMAIN dict \union {k} |-> IF x = k THEN v ELSE dict[x]]
  /\ UNCHANGED removing

BeginRemoval(n) ==
  /\ removing = {}
  /\ removing' = {n}
  /\ UNCHANGED dict

Remove(k) ==
  /\ \E n \in removing : dict[k] > n
  /\ dict' = [x \in DOMAIN dict \ {k} |-> dict[x]]
  /\ UNCHANGED removing

EndRemoval ==
  /\ \E n \in removing : \A k \in DOMAIN dict : dict[k] <= n
  /\ removing' = {}
  /\ UNCHANGED dict

(* The removal of one key, for the containers that have it. *)
Delete(k) ==
  /\ removing = {}
  /\ dict' = [x \in DOMAIN dict \ {k} |-> dict[x]]
  /\ UNCHANGED removing

Next ==
  \/ \E k \in Keys, v \in Values : Put(k, v)
  \/ \E n \in Values : BeginRemoval(n)
  \/ \E k \in DOMAIN dict : Remove(k)
  \/ EndRemoval

Spec == Init /\ [][Next]_dictVars

DeletingSpec == Init /\ [][Next \/ \E k \in Keys : Delete(k)]_dictVars
=============================================================================
