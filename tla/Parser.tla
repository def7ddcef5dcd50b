------------------------------- MODULE Parser -------------------------------
(***************************************************************************)
(* parser.c: recursive descent over the tokens, with its error recovery    *)
(* and the frees of its error paths.  parse_main_scope takes a statement a *)
(* step.                                                                   *)
(*                                                                         *)
(* The parser is threaded through the operators as a record P: P.i is      *)
(* current_index (from 1), P.errors the tokens errors were reported at,    *)
(* P.freed the nodes freed, P.twice whether one was freed again, and P.out *)
(* what the last function returned: a node, or the nodes of a list, as a   *)
(* sequence, NULL being <<>>.  A node is known by the token it was made    *)
(* for, since no token is read twice.                                      *)
(***************************************************************************)
EXTENDS Grammar

CONSTANT Programs   \* the token sequences considered, each ending with "eof"

VARIABLES
  tokens,      \* the tokens
  parser,      \* the parser between two statements of the main scope
  statements,  \* the nodes parsed so far
  pc           \* "parsing", "done" or "aborted"

vars == <<tokens, parser, statements, pc>>

Current(P) == IF P.i <= Len(tokens) THEN tokens[P.i] ELSE "eof"

NextToken(P) == IF P.i + 1 <= Len(tokens) THEN tokens[P.i + 1] ELSE "eof"

Advance(P) == [P EXCEPT !.i = @ + 1]

Returns(P, nodes) == [P EXCEPT !.out = nodes]

Failed(P) == P.out = <<>>

Error(P) == [P EXCEPT !.errors = Append(@, P.i), !.out = <<>>]

(* free_tree_node: what is reached from n without `next'. *)
RECURSIVE Reached(_)
Reached(n) ==
  LET links == IF n.k \in {"scope", "else"} THEN {1} ELSE {1, 2}
  IN {n.at} \union UNION {Reached(n.sub[m]) : m \in links \intersect DOMAIN n.sub}

Free(P, nodes) == [P EXCEPT !.freed = @ \union nodes,
                            !.twice = @ \/ nodes \intersect P.freed # {}]

FreeAll(P, list) == FoldLeft(LAMBDA Q, n : Free(Q, Reached(n)), P, list)

Skip(P, stops) ==
  [P EXCEPT !.i = CHOOSE j \in P.i .. P.i + Len(tokens) :
                    /\ Current([P EXCEPT !.i = j]) \in stops
                    /\ \A m \in P.i .. j - 1 : tokens[m] \notin stops]

----------------------------------------------------------------------------
RECURSIVE ParseLevel(_, _), ParseOperations(_, _), ParsePrimary(_)

(* Mutant: every operator associates to the right. *)
ParseOperationsMutant(P, level) ==
  IF Current(P) \notin Operations[level] THEN P
  ELSE LET R == ParseLevel(Advance(P), level)
       IN IF Failed(R) THEN Free(R, {P.i} \union Reached(P.out[1]))
          ELSE ParseOperations(Returns(R, <<Node(Current(P), P.i, P.out \o R.out)>>), level)

(* The loop of DEFINE_BINARY_PARSING_FUNCTION, its left operand parsed: the *)
(* right operand of a power is a power.                                     *)
ParseOperations(P, level) ==
  IF Current(P) \notin Operations[level] THEN P
  ELSE LET R == ParseLevel(Advance(P), IF level = Power THEN Power ELSE level + 1)
       IN IF Failed(R) THEN Free(R, {P.i} \union Reached(P.out[1]))
          ELSE ParseOperations(Returns(R, <<Node(Current(P), P.i, P.out \o R.out)>>), level)

(* The error path frees the left operand, then the node that points to it. *)
ParseComparison(P) ==
  LET L == ParseLevel(P, Comparison + 1)
      R == ParseLevel(Advance(L), Comparison + 1)
  IN IF Failed(L) \/ Current(L) \notin Operations[Comparison] THEN L
     ELSE IF Failed(R)
       THEN Free(Free(R, Reached(L.out[1])), {L.i} \union Reached(L.out[1]))
     ELSE Returns(R, <<Node(Current(L), L.i, L.out \o R.out)>>)

ParseLevel(P, level) ==
  IF level > Power THEN ParsePrimary(P)
  ELSE IF level = Comparison THEN ParseComparison(P)
  ELSE LET L == ParseLevel(P, level + 1)
       IN IF Failed(L) THEN L ELSE ParseOperations(L, level)

ParseExpression(P) == ParseLevel(P, 1)

(* A run of one unary operator is applied if it is odd; the node is returned *)
(* even if its operand is NULL.                                             *)
ParseUnary(P) ==
  LET end == Skip(P, Tokens \ {Current(P)}).i
      R == ParsePrimary([P EXCEPT !.i = end])
  IN IF (end - P.i) % 2 = 1 THEN Returns(R, <<Node(Current(P), P.i, R.out)>>) ELSE R

ParseParentheses(P) ==
  LET R == ParseExpression(Advance(P))
  IN IF Failed(R) THEN R
     ELSE IF Current(R) = "rp" THEN Advance(R)
     ELSE Free(Error(R), {R.out[1].at})

ParsePrimary(P) ==
  CASE Current(P) \in Operands -> Advance(Returns(P, <<Node(Current(P), P.i, <<>>)>>))
    [] Current(P) \in UnaryOperators -> ParseUnary(P)
    [] Current(P) = "lp" -> ParseParentheses(P)
    [] OTHER -> Error(P)

----------------------------------------------------------------------------
RECURSIVE ParseStatement(_), ParseStatements(_, _), ParseElifs(_, _)

ParseAffectation(P) ==
  LET R == ParseExpression(Advance(Advance(P)))
  IN Returns(R, <<Node("affect", P.i + 1, <<Node("id", P.i, <<>>)>> \o R.out)>>)

(* Mutant: the node freed for want of a ";" is returned. *)
ParseInstructionMutant(P) ==
  LET R == IF Current(P) = "id" /\ NextToken(P) = "affect" THEN ParseAffectation(P)
           ELSE ParseExpression(P)
  IN IF Failed(R) THEN R
     ELSE IF Current(R) = "delim" THEN Advance(R)
     ELSE Advance(Returns(Free(Error(R), Reached(R.out[1])), R.out))

ParseInstruction(P) ==
  LET R == IF Current(P) = "id" /\ NextToken(P) = "affect" THEN ParseAffectation(P)
           ELSE ParseExpression(P)
  IN IF Failed(R) THEN R
     ELSE IF Current(R) = "delim" THEN Advance(R)
     ELSE Advance(Free(Error(R), Reached(R.out[1])))

ParseConditionalNode(P) ==
  LET C == IF Current(P) = "else" THEN Returns(Advance(P), <<>>)
           ELSE ParseExpression(Advance(P))
      B == ParseStatement(C)
      node == Node(Current(P), P.i, C.out)
  IN IF Failed(C) /\ Current(P) # "else" THEN Free(C, {P.i})
     ELSE IF Failed(B) THEN Free(B, Reached(node))
     ELSE Returns(B, <<[node EXCEPT !.sub = @ \o B.out]>>)

(* The loop of parse_if_statement on the elifs, and its else: list is what  *)
(* was parsed before.                                                       *)
ParseElifs(P, list) ==
  LET R == ParseConditionalNode(P)
  IN IF Current(P) \notin {"elif", "else"} THEN Returns(P, list)
     ELSE IF Failed(R) THEN FreeAll(R, list)
     ELSE IF Current(P) = "elif" THEN ParseElifs(R, list \o R.out)
     ELSE Returns(R, list \o R.out)

ParseIfStatement(P) ==
  LET R == ParseConditionalNode(P)
  IN IF Failed(R) THEN R ELSE ParseElifs(R, R.out)

(* Mutant: the delimiter is left where it is. *)
ResumeMainMutant(P) == Skip(P, {"lb", "delim", "eof"})

(* Where the parser resumes after a statement it could not parse: in the    *)
(* main scope, and in a block, which names OPENING_SCOPE_NODE where a token *)
(* type is meant, and so DELIMITER_TOKEN.                                   *)
ResumeMain(P) ==
  LET Q == Skip(P, {"lb", "delim", "eof"})
  IN IF Current(Q) = "lb" THEN Q ELSE Advance(Q)

ResumeBlock(P) ==
  LET Q == Skip(P, {"delim", "rb", "eof"})
  IN IF Current(Q) = "rb" THEN Q ELSE Advance(Q)

(* The loop of parse_scope. *)
ParseStatements(P, list) ==
  IF Current(P) \in {"eof", "rb"} THEN Returns(P, list)
  ELSE LET R == ParseStatement(P)
       IN IF Failed(R) THEN ParseStatements(ResumeBlock(R), list)
          ELSE ParseStatements(R, list \o R.out)

ParseScope(P) ==
  LET R == ParseStatements(Advance(P), <<>>)
  IN IF Current(R) # "rb" /\ R.errors = <<>> THEN FreeAll(Error(R), R.out)
     ELSE Returns(Advance(R), <<Node("scope", P.i, R.out)>>)

ParseStatement(P) ==
  CASE Current(P) = "lb" -> ParseScope(P)
    [] Current(P) = "if" -> ParseIfStatement(P)
    [] Current(P) = "while" -> ParseConditionalNode(P)
    [] OTHER -> ParseInstruction(P)

----------------------------------------------------------------------------
Init ==
  /\ tokens \in Programs
  /\ parser = [i |-> 1, errors |-> <<>>, freed |-> {}, twice |-> FALSE, out |-> <<>>]
  /\ statements = <<>>
  /\ pc = "parsing"

(* What the second free of a node does is undefined: the allocator that     *)
(* notices it aborts the program.                                           *)
ParseMainStatement ==
  /\ pc = "parsing"
  /\ Current(parser) # "eof"
  /\ LET R == ParseStatement(parser)
     IN /\ parser' = Returns(IF Failed(R) THEN ResumeMain(R) ELSE R, <<>>)
        /\ statements' = statements \o R.out
  /\ \/ pc' = pc
     \/ parser'.twice /\ pc' = "aborted"
  /\ UNCHANGED tokens

EndMainScope ==
  /\ pc = "parsing"
  /\ Current(parser) = "eof"
  /\ pc' = "done"
  /\ UNCHANGED <<tokens, parser, statements>>

Next == ParseMainStatement \/ EndMainScope

Spec == Init /\ [][Next]_vars

----------------------------------------------------------------------------
(* A program is accepted if and only if the grammar derives it, and what is *)
(* returned is then its tree: operators bind and associate as they should,  *)
(* every branch hangs where it belongs, and no error is forgotten by a      *)
(* function that goes on after one.                                         *)
AcceptsGrammar ==
  pc = "done" =>
    LET trees == Trees(tokens)
    IN IF parser.errors = <<>> THEN statements \in trees ELSE trees = {}

(* No node of the tree that is returned, errors or not, has been freed: an  *)
(* error path frees what it does not return.                                *)
ResultAlive ==
  pc = "done" =>
    parser.freed \intersect UNION {Reached(n) : n \in Range(statements)} = {}

(* Whatever the tokens are, the parser comes to their end: each statement   *)
(* parsed, and each recovery, leaves the token it began at, so the loops of *)
(* parse_main_scope and parse_scope end.                                    *)
Progress == [][pc' = "parsing" => parser'.i > parser.i]_vars
=============================================================================
