---------------------------- MODULE MCContainers ----------------------------
(* Small instances of the containers.  A history is one of calls of the     *)
(* map, of the set and the table, or of the list.  The keys are numbers and *)
(* the hash is their value, so that with capacities 2, 4, 8 the lists split *)
(* and collide.                                                             *)
EXTENDS HashMapRemoval, Tables, ArrayList

VARIABLE subject

ASSUME PowerOfTwo == \E n \in 0 .. SizeofSizeT : InitialCapacity = 2^n

vars == <<removalVars, tablesVars, list, subject>>

(* All share bucket 0 of 2; 2 and 6 leave it together for bucket 2 of 4 and *)
(* part at 8; 0, 8 and 16 stay in bucket 0 of 8.                            *)
SplittingHash == [k \in Keys |-> k]

ConditionsOfSome == {{0}, {6, 8}, {0, 2, 16}, Keys}

(* A history goes on up to this many removals that are not counted. *)
MaxUncounted == 1

MCInit ==
  /\ RemovalInit
  /\ TablesInit
  /\ ListInit
  /\ subject \in {"map", "tables", "list"}

MCNext ==
  \/ /\ subject = "map"
     /\ uncounted <= MaxUncounted
     /\ RemovalNext
     /\ UNCHANGED <<tablesVars, list, subject>>
  \/ /\ subject = "tables"
     /\ TablesNext
     /\ UNCHANGED <<removalVars, list, subject>>
  \/ /\ subject = "list"
     /\ ListNext
     /\ UNCHANGED <<removalVars, tablesVars, subject>>

MCSpec == MCInit /\ [][MCNext]_vars /\ WF_mapVars(Walk)
=============================================================================
