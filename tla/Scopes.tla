------------------------------- MODULE Scopes -------------------------------
(***************************************************************************)
(* How compiler.c resolves names: one hash map from names to slots for the *)
(* whole program, a new name taking the map's size as its slot, and at the *)
(* end of a block a sweep of every slot the block declared.  Each step is  *)
(* one use of a name, one brace, or one step of the map's own walks.       *)
(***************************************************************************)
EXTENDS HashMap

CONSTANTS
  SizeMax,    \* SIZE_MAX, the largest size_t
  MaxDepth    \* bound on the nesting of blocks

ASSUME ScopesAssumption == SizeMax \in Nat /\ MaxDepth \in Nat

(* A program has finitely many names, and the numbers of them are size_t,   *)
(* as is the bound of a sweep.                                              *)
ASSUME NamesAssumption ==
  /\ IsFiniteSet(Keys)
  /\ Cardinality(Keys) <= SizeMax
  /\ 0 .. Cardinality(Keys) - 1 \subseteq Values
  /\ SizeMax \in Values

VARIABLES
  scopes,   \* original_index of every compile_scope on the call stack
  status,   \* "ok", or "error" once compile_variable_load has jumped out
  mem       \* slot -> the name last stored there, in program order

vars == <<mapVars, scopes, status, mem>>

ScopesInit ==
  /\ Init
  /\ scopes = <<>>
  /\ status = "ok"
  /\ mem = <<>>

Compiling == status = "ok" /\ pc = "idle"

(* Mutant: a new name is stored in the slot of the one before. *)
SlotMutant(x) == IF Found(x) THEN GetFrom(x) ELSE IF size = 0 THEN 0 ELSE size - 1

Slot(x) == IF Found(x) THEN GetFrom(x) ELSE size

(* The memory once the slot s holds the variable x. *)
Written(s, x) == [t \in DOMAIN mem \union {s} |-> IF t = s THEN x ELSE mem[t]]

(* Mutant: the slot is the size the map will have. *)
AffectationMutant(x) ==
  /\ Compiling
  /\ IF Found(x) THEN UNCHANGED mapVars ELSE PutTo(x, size + 1)
  /\ mem' = Written(Slot(x), x)
  /\ UNCHANGED <<scopes, status>>

(* compile_affectation, after its right-hand side: OSTORE Slot(x). *)
Affectation(x) ==
  /\ Compiling
  /\ IF Found(x) THEN UNCHANGED mapVars ELSE PutTo(x, size)
  /\ mem' = Written(Slot(x), x)
  /\ UNCHANGED <<scopes, status>>

(* compile_variable_load: OLOAD Slot(x), or the error and the long jump. *)
VariableLoad(x) ==
  /\ Compiling
  /\ status' = IF Found(x) THEN "ok" ELSE "error"
  /\ UNCHANGED <<mapVars, scopes, mem>>

(* compile_scope up to its loop. *)
EnterScope ==
  /\ Compiling
  /\ Len(scopes) < MaxDepth
  /\ scopes' = Append(scopes, size)
  /\ UNCHANGED <<mapVars, status, mem>>

(* Mutant: the sweep keeps the first slot of the block. *)
LeaveScopeMutant ==
  /\ Compiling
  /\ scopes # <<>>
  /\ StartSweep(Last(scopes))
  /\ scopes' = Front(scopes)
  /\ UNCHANGED <<status, mem>>

(* The end of compile_scope: original_index - 1 is computed in size_t. *)
LeaveScope ==
  /\ Compiling
  /\ scopes # <<>>
  /\ StartSweep((Last(scopes) + SizeMax) % (SizeMax + 1))
  /\ scopes' = Front(scopes)
  /\ UNCHANGED <<status, mem>>

MapStep == Walk /\ UNCHANGED <<scopes, status, mem>>

ScopesNext ==
  \/ \E x \in Keys : Affectation(x) \/ VariableLoad(x)
  \/ EnterScope
  \/ LeaveScope
  \/ MapStep

ScopesSpec == ScopesInit /\ [][ScopesNext]_vars

(* Two restrictions on the program, which nothing in the compiler sees to:  *)
(* no block closes while three names share a bucket, and none opens before  *)
(* the first variable.                                                      *)
NoTriples == [][LeaveScope => ShortChains]_vars

GlobalFirst == [][EnterScope => size > 0]_vars

(* The programs with the second of them, for TLC, *)
GlobalFirstNext ==
  \/ \E x \in Keys : Affectation(x) \/ VariableLoad(x)
  \/ size > 0 /\ EnterScope
  \/ LeaveScope
  \/ MapStep

GlobalFirstSpec == ScopesInit /\ [][GlobalFirstNext]_vars

(* and with both. *)
ShortChainsNext ==
  \/ \E x \in Keys : Affectation(x) \/ VariableLoad(x)
  \/ size > 0 /\ EnterScope
  \/ ShortChains /\ LeaveScope
  \/ MapStep

ShortChainsSpec == ScopesInit /\ [][ShortChainsNext]_vars

----------------------------------------------------------------------------
(* A name the code would find once the walk in progress is over. *)
Known(x) ==
  /\ x \in HeldKeys
  /\ pc = "sweep" => Contents[x] <= limit

(* Block n of the stack declared the slots from its original_index up to   *)
(* the original_index of the block it encloses.                            *)
Bound(n) == IF n = 0 THEN 0 ELSE scopes[n]

Frames ==
  [n \in 1 .. Len(scopes) + 1 |->
     {x \in HeldKeys :
        /\ Known(x)
        /\ Contents[x] >= Bound(n - 1)
        /\ n <= Len(scopes) => Contents[x] < Bound(n)}]

(* The compiler resolves names as block scoping says: what a block declares *)
(* is known to its end and no further, and every use of an unknown name is  *)
(* the error "Variable %s used but not declared" (compiler.c:245-247).      *)
(* That is so in the programs of NoTriples and GlobalFirst.                 *)
L == INSTANCE LexicalScopes WITH Names <- Keys, frames <- Frames

ImplementsLexicalScopes == L!Spec

(* The slots in use are exactly those below the size, so the slot a new     *)
(* name is given (compiler.c:318) belongs to no name that is still known,   *)
(* in the programs of NoTriples.                                            *)
SlotsDense == pc # "sweep" => {Contents[x] : x \in HeldKeys} = 0 .. size - 1

(* A slot is only ever written under the name it belongs to, from the       *)
(* declaration of the name to the end of its block: no store of another     *)
(* variable reaches a load of this one, in the programs of NoTriples.       *)
OwnSlot == \A x \in HeldKeys : Known(x) => mem[Contents[x]] = x
=============================================================================
