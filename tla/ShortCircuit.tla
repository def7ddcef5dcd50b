----------------------------- MODULE ShortCircuit ---------------------------
(***************************************************************************)
(* How a condition becomes a chain of tests and jumps: map_condition_jumps *)
(* (parsing_node.c) decides for every operand whether it jumps on true or  *)
(* on false and to where, map_conditions_instructions_block (compiler.c)   *)
(* lays the tests out and resolves the jumps, and the blocks then run.     *)
(***************************************************************************)
EXTENDS ConditionJumps

CONSTANTS
  Trees,      \* the conditions: trees of the binary & and | nodes the parser builds
  CallDepth   \* the calls of map_conditions_instructions_block the C stack has room for

(* Every & and | has two operands, and no path is longer than the deepest.  *)
IsTree(t) ==
  /\ <<>> \in DOMAIN t /\ DOMAIN t \subseteq Seq({"l", "r"})
  /\ t \in [DOMAIN t -> {"and", "or", "leaf"}]
  /\ \A p \in DOMAIN t :
       /\ t[p] # "leaf" => {Append(p, "l"), Append(p, "r")} \subseteq DOMAIN t
       /\ \A n \in 0 .. Len(p) - 1 : /\ SubSeq(p, 1, n) \in DOMAIN t
                                     /\ t[SubSeq(p, 1, n)] # "leaf"
  /\ \E deepest \in DOMAIN t : \A p \in DOMAIN t : Len(p) <= Len(deepest)

ASSUME TreesAssumption == \A t \in Trees : IsTree(t)

ASSUME CallDepthAssumption == CallDepth \in Nat

VARIABLES
  tree,     \* the condition
  pc,       \* "descend" and "link": the two halves of the recursion; "run"; "done"
  chain,    \* the operands whose map_conditions_instructions_block has begun
  linked,   \* operand -> its jump sense, and the blocks it jumps and falls to
  at,       \* the operand or block compiled or executed next
  asked,    \* the operands executed so far with their values
  outcome   \* the constant pushed at the end, a set of one Boolean, or {}

vars == <<tree, pc, chain, linked, at, asked, outcome>>

Leaves == LeavesOf(tree)

----------------------------------------------------------------------------
Init ==
  /\ tree \in Trees
  /\ pc = "descend"
  /\ chain = <<>>
  /\ linked = <<>>
  /\ at = MostLeft(tree, <<>>)
  /\ asked = <<>>
  /\ outcome = {}

(* map_conditions_instructions_block down to the recursive call, or past it *)
(* where there is no next operand.  The program goes no further when the    *)
(* stack is full.                                                           *)
Descend ==
  /\ pc = "descend"
  /\ Len(chain) < CallDepth
  /\ chain' = Append(chain, at)
  /\ IF JumpInfos(tree, at).next_node = Null
       THEN pc' = "link" /\ UNCHANGED at
       ELSE at' = JumpInfos(tree, at).next_node /\ UNCHANGED pc
  /\ UNCHANGED <<tree, linked, asked, outcome>>

Previous(p) == chain[(CHOOSE n \in DOMAIN chain : chain[n] = p) - 1]

(* Mutant: the jump and the fall through are exchanged. *)
LinkSwappedMutant ==
  /\ pc = "link"
  /\ LET infos == JumpInfos(tree, at)
         jump == IF infos.jump_node # Null THEN infos.jump_node
                 ELSE IF infos.jump_if THEN TrueBlock ELSE FalseBlock
         next == IF infos.next_node # Null THEN infos.next_node
                 ELSE IF infos.jump_if THEN FalseBlock ELSE TrueBlock
     IN linked' = [p \in DOMAIN linked \union {at} |->
                     IF p = at THEN [jump_if |-> infos.jump_if, jump |-> next, next |-> jump]
                     ELSE linked[p]]
  /\ IF at = chain[1] THEN pc' = "run" /\ UNCHANGED at
     ELSE at' = Previous(at) /\ UNCHANGED pc
  /\ UNCHANGED <<tree, chain, asked, outcome>>

(* The rest of it: an operand to jump to is looked up among the blocks the  *)
(* calls that have returned put in the map.                                 *)
Link ==
  /\ pc = "link"
  /\ LET infos == JumpInfos(tree, at)
         jump == IF infos.jump_node # Null THEN infos.jump_node
                 ELSE IF infos.jump_if THEN TrueBlock ELSE FalseBlock
         next == IF infos.next_node # Null THEN infos.next_node
                 ELSE IF infos.jump_if THEN FalseBlock ELSE TrueBlock
     IN /\ infos.jump_node \in DOMAIN linked \union {Null}
        /\ linked' = [p \in DOMAIN linked \union {at} |->
                        IF p = at THEN [jump_if |-> infos.jump_if,
                                        jump |-> jump, next |-> next]
                        ELSE linked[p]]
  /\ IF at = chain[1] THEN pc' = "run" /\ UNCHANGED at
     ELSE at' = Previous(at) /\ UNCHANGED pc
  /\ UNCHANGED <<tree, chain, asked, outcome>>

(* Mutant: the comparison is not inverted for a jump on false. *)
TestMutant(value) ==
  /\ pc = "run"
  /\ at \in Leaves
  /\ asked' = Append(asked, [leaf |-> at, value |-> value])
  /\ at' = IF value THEN linked[at].jump ELSE linked[at].next
  /\ UNCHANGED <<tree, pc, chain, linked, outcome>>

(* The machine evaluates an operand and takes the jump or falls through. *)
Test(value) ==
  /\ pc = "run"
  /\ at \in Leaves
  /\ asked' = Append(asked, [leaf |-> at, value |-> value])
  /\ at' = IF value = linked[at].jump_if THEN linked[at].jump ELSE linked[at].next
  /\ UNCHANGED <<tree, pc, chain, linked, outcome>>

(* One of the two blocks of compile_const_push_logical_expression. *)
PushConst ==
  /\ pc = "run"
  /\ at \in {TrueBlock, FalseBlock}
  /\ outcome' = {at = TrueBlock}
  /\ pc' = "done"
  /\ UNCHANGED <<tree, chain, linked, at, asked>>

Next ==
  \/ Descend
  \/ Link
  \/ \E value \in BOOLEAN : Test(value)
  \/ PushConst

Spec == Init /\ [][Next]_vars /\ WF_vars(Next)

----------------------------------------------------------------------------
(* When an operand's jump is resolved the block it names is in the map: the *)
(* look-up whose result compiler.c:403-404 dereferences finds it.           *)
JumpResolved ==
  pc = "link" => JumpInfos(tree, at).jump_node \in DOMAIN linked \union {Null}

(* Once linked, the blocks form one chain with every operand in it once, in *)
(* the order of the source, and the last one falls through to the false     *)
(* block: the only way that block gets a place in the code.                 *)
Before(p, q) ==
  \E n \in 1 .. Len(p) : /\ SubSeq(p, 1, n - 1) = SubSeq(q, 1, n - 1)
                         /\ p[n] = "l" /\ q[n] = "r"

ChainComplete ==
  pc \in {"run", "done"} =>
    /\ Len(chain) >= 1 /\ ToSet(chain) = Leaves
    /\ \A n \in 1 .. Len(chain) - 1 : /\ Before(chain[n], chain[n + 1])
                                      /\ linked[chain[n]].next = chain[n + 1]
    /\ linked[Last(chain)].next = FalseBlock

(* Jumps only go forward, and past the operand they would fall through to:  *)
(* a condition has no loop and no useless jump.                             *)
JumpsForward ==
  \A p \in DOMAIN linked :
    LET next == linked[p].next
        jump == linked[p].jump
    IN /\ next \in Leaves => Before(p, next)
       /\ next \in Leaves /\ jump \in Leaves => Before(next, jump)
       /\ next \notin Leaves => jump \notin Leaves /\ jump # next

(* The chain evaluates the condition: operands from left to right, none     *)
(* that the ones before decide, and the constant pushed is the value.       *)
E == INSTANCE BooleanEvaluation

ImplementsEvaluation == E!Spec

(* Every condition is compiled and evaluated to its end: the recursion      *)
(* comes to an operand with no next one before the stack is full, every     *)
(* jump it resolves has its block (compiler.c:403-404), and the chain       *)
(* leads out of the operands.                                               *)
Terminates == <>(pc = "done")
=============================================================================
