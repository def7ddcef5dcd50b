-------------------------- MODULE BooleanEvaluation -------------------------
(***************************************************************************)
(* What & and | promise: operands are evaluated from left to right, an     *)
(* operand only if the ones before it leave the result open, and the       *)
(* result is the value of the formula.                                     *)
(*                                                                         *)
(* A formula is a function from the paths of its tree, sequences of "l"    *)
(* and "r", to "and", "or" or "leaf".                                      *)
(***************************************************************************)
EXTENDS Naturals, Sequences

VARIABLES
  tree,     \* the formula
  asked,    \* the leaves evaluated so far with their values, in order
  outcome   \* the result, a set of one Boolean, or {} while it is open

evalVars == <<tree, asked, outcome>>

Conjunctions(A, B) == {a /\ b : a \in A, b \in B}
Disjunctions(A, B) == {a \/ b : a \in A, b \in B}

(* The values every node can still take; answers are those of the leaves,   *)
(* sets of one Boolean, or {} for a leaf not evaluated.                     *)
PossibleValues(formula, answers) ==
  LET possible[p \in DOMAIN formula] ==
        IF formula[p] = "leaf" THEN IF answers[p] = {} THEN BOOLEAN ELSE answers[p]
        ELSE IF formula[p] = "and"
        THEN Conjunctions(possible[Append(p, "l")], possible[Append(p, "r")])
        ELSE Disjunctions(possible[Append(p, "l")], possible[Append(p, "r")])
  IN possible

(* The value every node is known to have after its operands from left to    *)
(* right: FALSE on the left decides an &, TRUE an |.                        *)
Decided(formula, answers) ==
  LET decided[p \in DOMAIN formula] ==
        IF formula[p] = "leaf" THEN answers[p]
        ELSE IF decided[Append(p, "l")] \in {{}, {formula[p] = "or"}}
        THEN decided[Append(p, "l")]
        ELSE decided[Append(p, "r")]
  IN decided

(* The leaf to evaluate next below a node that is not decided.              *)
NextLeaf(formula, answers) ==
  LET needed[p \in DOMAIN formula] ==
        IF formula[p] = "leaf" THEN p
        ELSE IF Decided(formula, answers)[Append(p, "l")] = {}
        THEN needed[Append(p, "l")]
        ELSE needed[Append(p, "r")]
  IN needed

Answers ==
  [p \in DOMAIN tree |->
     {asked[n].value : n \in {m \in DOMAIN asked : asked[m].leaf = p}}]

Possible == PossibleValues(tree, Answers)[<<>>]
Needed == NextLeaf(tree, Answers)[<<>>]

Init == asked = <<>> /\ outcome = {}

Ask(value) ==
  /\ outcome = {}
  /\ Possible = BOOLEAN
  /\ asked' = Append(asked, [leaf |-> Needed, value |-> value])
  /\ UNCHANGED <<tree, outcome>>

Conclude ==
  /\ outcome = {}
  /\ outcome' = Possible
  /\ \E value \in BOOLEAN : Possible = {value}
  /\ UNCHANGED <<tree, asked>>

Next == (\E value \in BOOLEAN : Ask(value)) \/ Conclude

Spec == Init /\ [][Next]_evalVars
=============================================================================
