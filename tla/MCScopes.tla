------------------------------ MODULE MCScopes ------------------------------
(* Instances of Scopes.  A name is the number its hash is. *)
EXTENDS Scopes

NameHash == [k \in Keys |-> k]
=============================================================================
