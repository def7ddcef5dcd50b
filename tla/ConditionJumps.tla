--------------------------- MODULE ConditionJumps ---------------------------
(***************************************************************************)
(* map_condition_jumps of parsing_node.c: for every operand of a condition *)
(* whether it jumps on true or on false, where to, and what follows it.    *)
(*                                                                         *)
(* A condition is a tree, a function from the paths of its nodes,          *)
(* sequences of "l" and "r", to "and", "or" or "leaf"; a leaf stands for   *)
(* any operand that is not itself a conjunction or a disjunction.          *)
(***************************************************************************)
EXTENDS Naturals, Sequences, SequencesExt

(* Values that are not the path of any node. *)
Null == <<"null">>
TrueBlock == <<"true_block">>
FalseBlock == <<"false_block">>

Join(op, left, right) ==
  [p \in {<<>>} \union {<<"l">> \o q : q \in DOMAIN left}
                \union {<<"r">> \o q : q \in DOMAIN right} |->
     IF p = <<>> THEN op
     ELSE IF p[1] = "l" THEN left[Tail(p)] ELSE right[Tail(p)]]

LeavesOf(tree) == {p \in DOMAIN tree : tree[p] = "leaf"}

(* The arguments last_or and last_and the recursion brings to a node: the   *)
(* deepest node of that kind the node is on the left of.                    *)
LastOnLeft(tree, p, op) ==
  LET above == {n \in 0 .. Len(p) - 1 :
                  tree[SubSeq(p, 1, n)] = op /\ p[n + 1] = "l"}
  IN IF above = {} THEN Null
     ELSE SubSeq(p, 1, CHOOSE n \in above : \A m \in above : m <= n)

Level(p) == IF p = Null THEN 0 ELSE Len(p) + 1

(* most_left_non_logical_operand_node, as the table it fills. *)
MostLeft(tree, p) ==
  CHOOSE q \in LeavesOf(tree) :
    IsPrefix(p, q) /\ \A n \in Len(p) + 1 .. Len(q) : q[n] = "l"

(* Mutant: the look-up is for the operator itself, not for its right part   *)
(* (parsing_node.c:529, 532).                                               *)
RightOperandMutant(tree, p) == IF p = Null THEN Null ELSE MostLeft(tree, p)

(* The operand across an operator: where its right part begins. *)
RightOperand(tree, p) == IF p = Null THEN Null ELSE MostLeft(tree, Append(p, "r"))

(* Mutants: the farther of the two is taken as the one that follows, *)
JumpInfosMutant(tree, p) ==
  LET jumpIf == p = <<>> \/ tree[Front(p)] = "or"
      lastCheckpoint == LastOnLeft(tree, p, IF jumpIf THEN "and" ELSE "or")
      nextRoot == LastOnLeft(tree, p, IF jumpIf THEN "or" ELSE "and")
  IN IF \/ Level(lastCheckpoint) > Level(nextRoot)
        \/ Level(lastCheckpoint) = Level(nextRoot) /\ jumpIf
     THEN [jump_if |-> jumpIf, jump_node |-> RightOperand(tree, lastCheckpoint),
           next_node |-> RightOperand(tree, nextRoot)]
     ELSE [jump_if |-> ~ jumpIf, jump_node |-> RightOperand(tree, nextRoot),
           next_node |-> RightOperand(tree, lastCheckpoint)]

(* and the last operand keeps its sense, whatever it is. *)
JumpInfosLastMutant(tree, p) ==
  LET jumpIf == p = <<>> \/ tree[Front(p)] = "or"
      lastCheckpoint == LastOnLeft(tree, p, IF jumpIf THEN "and" ELSE "or")
      nextRoot == LastOnLeft(tree, p, IF jumpIf THEN "or" ELSE "and")
  IN IF Level(lastCheckpoint) <= Level(nextRoot)
     THEN [jump_if |-> jumpIf, jump_node |-> RightOperand(tree, lastCheckpoint),
           next_node |-> RightOperand(tree, nextRoot)]
     ELSE [jump_if |-> ~ jumpIf, jump_node |-> RightOperand(tree, nextRoot),
           next_node |-> RightOperand(tree, lastCheckpoint)]

(* map_condition_jumps_recursive at an operand. *)
JumpInfos(tree, p) ==
  LET jumpIf == p = <<>> \/ tree[Front(p)] = "or"
      lastCheckpoint == LastOnLeft(tree, p, IF jumpIf THEN "and" ELSE "or")
      nextRoot == LastOnLeft(tree, p, IF jumpIf THEN "or" ELSE "and")
  IN IF \/ Level(lastCheckpoint) < Level(nextRoot)
        \/ Level(lastCheckpoint) = Level(nextRoot) /\ jumpIf
     THEN [jump_if |-> jumpIf, jump_node |-> RightOperand(tree, lastCheckpoint),
           next_node |-> RightOperand(tree, nextRoot)]
     ELSE [jump_if |-> ~ jumpIf, jump_node |-> RightOperand(tree, nextRoot),
           next_node |-> RightOperand(tree, lastCheckpoint)]
=============================================================================
