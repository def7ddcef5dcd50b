--------------------------- MODULE MCShortCircuit ---------------------------
(* Every formula of up to MaxLeaves operands. *)
EXTENDS ShortCircuit

CONSTANT MaxLeaves   \* bound on the operands of a formula

(* The trees of binary & and | nodes, by operands. *)
AllTrees ==
  LET trees[n \in 1 .. MaxLeaves] ==
        IF n = 1 THEN {[p \in {<<>>} |-> "leaf"]}
        ELSE UNION {{Join(op, left, right) : op \in {"and", "or"},
                                             left \in trees[m],
                                             right \in trees[n - m]} : m \in 1 .. n - 1}
  IN UNION {trees[n] : n \in 1 .. MaxLeaves}
=============================================================================
