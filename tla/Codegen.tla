------------------------------ MODULE Codegen -------------------------------
(***************************************************************************)
(* compiler.c from a parsed program to linked bytecode, as one function.   *)
(*                                                                         *)
(* The compiler's heap is threaded through the operators as a record S:    *)
(*   S.block  the instruction blocks, a pointer being a position and 0     *)
(*            being NULL, each [next, jump, false_const, code];            *)
(*   S.vars   the variables map, names to slots (its own behaviour is      *)
(*            HashMap's and Scopes');                                      *)
(*   S.ok     FALSE once compile_variable_load has reported an error; what *)
(*            is compiled after the long jump is never looked at.          *)
(* A node of the tree is a record whose k is its type:                     *)
(*   "int" v | "double" v | "float" | "var" x | "arith" op l r | "neg" r   *)
(*   | "cmp" op l r                                                        *)
(*   | "log" op l r | "not" r, and for statements                          *)
(*   "assign" x e | "expr" e | "scope" body | "while" cond body            *)
(*   | "if" arms else, the arms being the if and its elifs and else being  *)
(*   a sequence of at most one statement.                                  *)
(***************************************************************************)
EXTENDS ConditionJumps, Instructions, Integers, FiniteSets

Fresh(S) == Len(S.block) + 1

NewBlock(S, code) ==
  [S EXCEPT !.block = Append(@, [next |-> 0, jump |-> 0,
                                 false_const |-> FALSE, code |-> code])]

Emit(S, b, ins) == [S EXCEPT !.block[b].code = Append(@, ins)]

SetNext(S, b, target) == [S EXCEPT !.block[b].next = target]

SetJump(S, b, target) == [S EXCEPT !.block[b].jump = target]

RECURSIVE LastOf(_, _)
LastOf(S, b) == IF S.block[b].next = 0 THEN b ELSE LastOf(S, S.block[b].next)

(* The same at the end of the chain from b: what a C function does to the   *)
(* block another has returned to it.                                        *)
EmitLast(S, b, ins) == Emit(S, LastOf(S, b), ins)

SetLast(S, b, target) == SetNext(S, LastOf(S, b), target)

InverseComparison ==
  [eq |-> "ne", ne |-> "eq", gt |-> "le", lt |-> "ge", ge |-> "lt", le |-> "gt"]

(* The condition as the tree of its & and | nodes, and the operand at a path. *)
RECURSIVE Shape(_)
Shape(n) == IF n.k = "log" THEN Join(n.op, Shape(n.l), Shape(n.r))
            ELSE [p \in {<<>>} |-> "leaf"]

RECURSIVE NodeAt(_, _)
NodeAt(n, p) == IF p = <<>> THEN n
                ELSE NodeAt(IF p[1] = "l" THEN n.l ELSE n.r, Tail(p))

----------------------------------------------------------------------------
RECURSIVE CompileExpression(_, _, _), MapConditions(_, _, _, _, _)

(* A block of its own for what follows, if the chain goes past b.           *)
NewEnd(S, b) == IF LastOf(S, b) = b THEN S ELSE SetLast(NewBlock(S, <<>>), b, Fresh(S))

(* compile_expression_nb: its end is LastOf(result, b). *)
CompileExpressionNb(S, b, n) == NewEnd(CompileExpression(S, b, n), b)

CompileOperands(S, b, n) ==
  LET compileRight(T) == CompileExpressionNb(T, LastOf(T, b), n.r)
  IN compileRight(CompileExpressionNb(S, b, n.l))

CompileVariableLoad(S, b, x) ==
  IF x \in DOMAIN S.vars THEN Emit(S, b, Ins("OLOAD", S.vars[x]))
  ELSE [S EXCEPT !.ok = FALSE]

CompileArithmeticUnary(S, b, n) ==
  EmitLast(CompileExpressionNb(S, b, n.r), b, Ins("UNARY_MINUS", 0))

CompileArithmeticBinary(S, b, n) ==
  EmitLast(CompileOperands(S, b, n), b, Ins(ArithmeticInstruction[n.op], 0))

(* compile_single_condition: the test jumps if the operand is not `inverse'. *)
CompileSingleCondition(S, b, n, inverse) ==
  LET test(T) == EmitLast(EmitLast(T, b, Ins("ICONST", 0)), b,
                          Ins(IF inverse THEN "IF_CMPEQ" ELSE "IF_CMPNE", 0))
      operator == IF inverse THEN InverseComparison[n.op] ELSE n.op
  IN CASE n.k = "cmp" ->
            EmitLast(CompileOperands(S, b, n), b, Ins(ComparisonInstruction(operator), 0))
       [] n.k = "not" -> test(CompileExpressionNb(S, b, n))
       [] OTHER       -> test(CompileExpression(S, b, n))

(* The end of map_conditions_instructions_block, on the block `result' made *)
(* for the operand at p: C.map is the table of the blocks of the operands   *)
(* compiled so far.                                                         *)
LinkCondition(C, p, result, infos, true_block, false_block) ==
  LET next == IF infos.next_node # Null THEN C.map[infos.next_node]
              ELSE IF infos.jump_if THEN false_block ELSE true_block
      jump == IF infos.jump_node # Null THEN C.map[infos.jump_node]
              ELSE IF infos.jump_if THEN true_block ELSE false_block
      jumping == SetJump(C.S, LastOf(C.S, result), jump)
  IN [S |-> SetLast(NewEnd(jumping, result), result, next),
      map |-> (p :> result) @@ C.map]

MapNextCondition(C, n, p, true_block, false_block) ==
  IF p = Null THEN C ELSE MapConditions(C, n, p, true_block, false_block)

MapConditions(C, n, p, true_block, false_block) ==
  LET compile(infos) ==
        LinkCondition(
          MapNextCondition(
            [C EXCEPT !.S = CompileSingleCondition(NewBlock(@, <<>>), Fresh(@), NodeAt(n, p),
                                                   ~ infos.jump_if)],
            n, infos.next_node, true_block, false_block),
          p, Fresh(C.S), infos, true_block, false_block)
  IN compile(JumpInfos(Shape(n), p))

CompileLogicalExpression(S, b, n, true_block, false_block) ==
  LET first == MostLeft(Shape(n), <<>>)
      enter(C) == SetNext(C.S, b, C.map[first])
  IN enter(MapConditions([S |-> S, map |-> <<>>], n, first, true_block, false_block))

(* A comparison, a conjunction, a disjunction or a negation leaves 1 or 0   *)
(* on the stack: the block for a false operand ends in a goto over the      *)
(* block for a true one, which follows it.                                  *)
CompileConstPush(S, b, n) ==
  LET negated == n.k = "not"
      whenTrue == Fresh(S)
      whenFalse == Fresh(S) + 1
      S1 == NewBlock(S, <<Ins("ICONST", IF negated THEN 0 ELSE 1)>>)
      S2 == NewBlock(S1, <<Ins("ICONST", IF negated THEN 1 ELSE 0), Ins("GOTO", 0)>>)
      S3 == [S2 EXCEPT !.block[whenFalse].next = whenTrue,
                       !.block[whenFalse].false_const = TRUE]
  IN CompileLogicalExpression(S3, b, IF negated THEN n.r ELSE n, whenTrue, whenFalse)

(* A double is pushed as its 64 bits; a float has no case in the switch.    *)
CompileConst(S, b, n) ==
  Emit(S, b, CASE n.k = "int"    -> Ins("ICONST", n.v)
               [] n.k = "double" -> Ins("DCONST", n.v)
               [] n.k = "float"  -> Ins("NONE", 0))

(* compile_expression and compile_primary. *)
CompileExpression(S, b, n) ==
  CASE n.k \in {"int", "double", "float"} -> CompileConst(S, b, n)
    [] n.k = "var" -> CompileVariableLoad(S, b, n.x)
    [] n.k = "arith" -> CompileArithmeticBinary(S, b, n)
    [] n.k = "neg" -> CompileArithmeticUnary(S, b, n)
    [] n.k \in {"cmp", "log", "not"} -> CompileConstPush(S, b, n)

StoreName(S, b, x) ==
  LET slot == IF x \in DOMAIN S.vars THEN S.vars[x] ELSE Cardinality(DOMAIN S.vars)
  IN EmitLast([S EXCEPT !.vars = (x :> slot) @@ @], b, Ins("OSTORE", slot))

CompileAffectation(S, b, n) == StoreName(CompileExpressionNb(S, b, n.e), b, n.x)

----------------------------------------------------------------------------
RECURSIVE CompileInstruction(_, _, _), CompileArms(_, _, _, _, _)

(* Mutant: a block forgets nothing. *)
ForgetSlotsMutant(S, original_index) == S

(* The end of compile_scope, with original_index - 1 computed in size_t. *)
ForgetSlots(S, original_index) ==
  [S EXCEPT !.vars = [x \in {y \in DOMAIN @ : \/ original_index = 0
                                              \/ @[y] < original_index} |-> @[x]]]

(* What compile_scope finds at the `right' of a node, which is also where a *)
(* conditional node keeps its branch and an assignment its expression.      *)
Right(n) ==
  CASE n.k = "scope" -> n.body
    [] n.k = "if"    -> <<n.arms[1].body>>
    [] n.k = "while" -> <<n.body>>
    [] OTHER         -> <<>>

RECURSIVE CompileScope(_, _, _)

CompileBranch(S, b, n) ==
  IF n.k = "scope" THEN CompileScope(S, b, n) ELSE CompileInstruction(S, b, n)

(* The loop of compile_scope, which compile_main_scope's repeats. *)
CompileStatements(S, b, stmts) ==
  FoldLeft(LAMBDA T, n : CompileBranch(T, LastOf(T, b), n), S, stmts)

CompileScope(S, b, n) ==
  ForgetSlots(CompileStatements(S, b, Right(n)), Cardinality(DOMAIN S.vars))

(* The test of the value a condition has left on the stack: a new block at  *)
(* the end of the chain from b.                                             *)
TestValue(S, b) ==
  SetLast(NewBlock(S, <<Ins("ICONST", 0), Ins("IF_CMPEQ", 0)>>), b, Fresh(S))

(* compile_conditional_node on an if or elif: the branch is compiled before *)
(* the condition.  Its value is `false_branch', the block of what follows.  *)
LinkArm(S, comparison, true_branch, false_branch, followed, jump) ==
  LET true_end == LastOf(S, true_branch)
  IN [S EXCEPT
        !.block[true_end].code = IF followed THEN Append(@, Ins("GOTO", 0)) ELSE @,
        !.block[true_end].jump = IF followed THEN jump ELSE @,
        !.block[true_end].next = false_branch,
        !.block[comparison].jump = false_branch,
        !.block[comparison].next = true_branch]

CompileConditionalNode(S, b, arm, followed, jump) ==
  LET true_branch == Fresh(S)
      link(T, false_branch) ==
        LinkArm(TestValue(T, b), Fresh(T), true_branch, false_branch, followed, jump)
      test(T) == [S |-> link(CompileConstPush(NewBlock(T, <<>>), b, arm.cond), Fresh(T)),
                  false_branch |-> Fresh(T)]
  IN test(CompileBranch(NewBlock(S, <<>>), true_branch, arm.body))

(* Mutant: the end of the branch does not lead to what follows the if. *)
CompileElseMutant(S, b, n, jump) ==
  LET branch == Fresh(S)
      compiled == CompileBranch(NewBlock(S, <<>>), branch, n)
  IN SetNext(compiled, b, branch)

(* compile_conditional_node on an else. *)
CompileElse(S, b, n, jump) ==
  LET branch == Fresh(S)
      compiled == CompileBranch(NewBlock(S, <<>>), branch, n)
  IN SetLast(SetNext(compiled, b, branch), branch, jump)

(* The rest of compile_if_statement, from the first arm on. *)
CompileArms(S, b, arms, else, jump) ==
  LET rest(C) == CompileArms(C.S, C.false_branch, Tail(arms), else, jump)
      followed == Len(arms) > 1 \/ else # <<>>
  IN IF arms # <<>> THEN rest(CompileConditionalNode(S, b, Head(arms), followed, jump))
     ELSE IF else # <<>> THEN CompileElse(S, b, else[1], jump)
     ELSE SetLast(S, b, jump)

CompileIfStatement(S, b, n) ==
  CompileArms(NewBlock(S, <<>>), b, n.arms, n.else, Fresh(S))

(* Mutant: the way out of the loop leads to its condition. *)
LinkLoopMutant(S, b, condition, verification) ==
  LET true_block == verification + 1
      true_end == LastOf(S, true_block)
      result == Fresh(S)
  IN [NewBlock(S, <<>>) EXCEPT
        !.block[b].next = condition,
        !.block[verification].jump = condition,
        !.block[verification].next = true_block,
        !.block[true_end].code = Append(@, Ins("GOTO", 0)),
        !.block[true_end].next = result,
        !.block[true_end].jump = condition]

LinkLoop(S, b, condition, verification) ==
  LET true_block == verification + 1
      true_end == LastOf(S, true_block)
      result == Fresh(S)
  IN [NewBlock(S, <<>>) EXCEPT
        !.block[b].next = condition,
        !.block[verification].jump = result,
        !.block[verification].next = true_block,
        !.block[true_end].code = Append(@, Ins("GOTO", 0)),
        !.block[true_end].next = result,
        !.block[true_end].jump = condition]

CompileWhile(S, b, n) ==
  LET condition == Fresh(S)
      body(T) == LinkLoop(CompileScope(NewBlock(TestValue(T, condition), <<>>),
                                       Fresh(T) + 1, n.body),
                          b, condition, Fresh(T))
  IN body(CompileConstPush(NewBlock(S, <<>>), condition, n.cond))

CompileInstruction(S, b, n) ==
  CASE n.k = "assign" -> CompileAffectation(S, b, n)
    [] n.k = "if"     -> CompileIfStatement(S, b, n)
    [] n.k = "while"  -> CompileWhile(S, b, n)
    [] OTHER          -> S

(* compile_main_scope: before its loop, and after it. *)
EmptyHeap == [block |-> <<>>, vars |-> <<>>, ok |-> TRUE]

StartMainScope == NewBlock(EmptyHeap, <<>>)

EndMainScope(S) ==
  SetLast(NewBlock(S, <<Ins("RETURN", 0)>>), 1, Fresh(S))

----------------------------------------------------------------------------
RECURSIVE ChainFrom(_, _)
ChainFrom(S, b) == IF b = 0 THEN <<>> ELSE <<b>> \o ChainFrom(S, S.block[b].next)

CodeSize(S, blocks) == FoldLeft(LAMBDA total, b : total + Len(S.block[b].code), 0, blocks)

(* map_instruction_block_index, on the chain of blocks. *)
InstructionIndex(S, chain) ==
  [b \in ToSet(chain) |->
     CodeSize(S, SubSeq(chain, 1, (CHOOSE n \in DOMAIN chain : chain[n] = b) - 1))]

(* Mutants: the block that pushes 0 has no jump, or jumps to the block that *)
(* pushes 1.                                                                *)
JumpMutant(S, b) == S.block[b].jump

JumpShortMutant(S, b) == IF S.block[b].false_const THEN S.block[b].next
                         ELSE S.block[b].jump

(* link_instructions_blocks on one block: the jump of a false block is past *)
(* the block after it, and the last instruction takes the index of the jump *)
(* if the jump is in the chain.                                             *)
Jump(S, b) == IF S.block[b].false_const THEN S.block[S.block[b].next].next
              ELSE S.block[b].jump

LinkedCode(S, index, b) ==
  LET code == S.block[b].code
  IN IF Jump(S, b) # 0 /\ Jump(S, b) \in DOMAIN index
     THEN [code EXCEPT ![Len(code)].arg = index[Jump(S, b)]]
     ELSE code

LinkInstructionsBlocks(S) ==
  LET chain == ChainFrom(S, 1)
      index == InstructionIndex(S, chain)
  IN [S EXCEPT !.block = [b \in DOMAIN @ |->
        IF b \in ToSet(chain) THEN [@[b] EXCEPT !.code = LinkedCode(S, index, b)] ELSE @[b]]]

(* The instructions in the order of the chain, which is that of the file    *)
(* and that in which the machine counts them.                               *)
CodeOf(S) == FoldLeft(LAMBDA code, b : code \o S.block[b].code, <<>>, ChainFrom(S, 1))
=============================================================================
