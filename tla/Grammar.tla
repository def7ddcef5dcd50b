------------------------------ MODULE Grammar -------------------------------
(***************************************************************************)
(* The grammar of the language: which trees a sequence of tokens has, told *)
(* from where an expression or a statement begins and ends, whatever the   *)
(* order it is read in.                                                    *)
(* gramar_rules.txt is an early state of it: there an if has its condition *)
(* in parentheses and its branch in braces, an expression has at most one  *)
(* operator of a rule, and there is no power, elif, else or while.  Here   *)
(* the precedences, the repetition and the statements are those of the     *)
(* parsing functions: a condition needs no parentheses (parser.c:241), and *)
(* a branch is any statement (244).                                        *)
(***************************************************************************)
EXTENDS Naturals, Sequences, FiniteSets, SequencesExt

(* The binary operators, from the loosest to the tightest. *)
Operations ==
  << {"or"}, {"and"}, {"eq", "ne", "lt", "gt", "le", "ge"},
     {"add", "sub"}, {"mul", "div"}, {"pow"} >>

Comparison == 3
Power == 6

UnaryOperators == {"neg", "not"}

Operands == {"num", "id"}

Tokens ==
  Operands \union UnaryOperators \union UNION Range(Operations)
    \union {"affect", "delim", "if", "elif", "else", "while", "lp", "rp", "lb", "rb", "eof"}

(* A node: its kind, the position of the token it is made for, and the      *)
(* nodes under it.                                                          *)
Node(k, at, sub) == [k |-> k, at |-> at, sub |-> sub]

----------------------------------------------------------------------------
Balanced(s, from, to) ==
  Cardinality({n \in from .. to : s[n] = "lp"}) = Cardinality({n \in from .. to : s[n] = "rp"})

(* The tree of s[from .. to] as an expression that binds at least as tight  *)
(* as level, in a set of one or none.  It is split at an operator outside   *)
(* parentheses: the last one of its level, or the first power.              *)
RECURSIVE ExpressionTrees(_, _, _, _)
ExpressionTrees(s, level, from, to) ==
  LET splits == {n \in from .. to : /\ s[n] \in Operations[level]
                                    /\ Balanced(s, from, n) /\ Balanced(s, n, to)}
      at == CHOOSE n \in splits : \A m \in splits : IF level = Power THEN n <= m ELSE m <= n
      same == {n \in from .. to : \A m \in from .. n : s[m] = s[from]}
      operand == from + Cardinality(same)
  IN IF from > to THEN {}
     ELSE IF level <= Power
       THEN IF splits = {} THEN ExpressionTrees(s, level + 1, from, to)
            ELSE {Node(s[at], at, <<l, r>>) :
                    l \in ExpressionTrees(s, IF level \in {Comparison, Power} THEN level + 1
                                             ELSE level, from, at - 1),
                    r \in ExpressionTrees(s, IF level = Power THEN level ELSE level + 1,
                                          at + 1, to)}
     ELSE IF s[from] \in UnaryOperators
       THEN {IF Cardinality(same) % 2 = 1 THEN Node(s[from], from, <<r>>) ELSE r :
               r \in ExpressionTrees(s, level, operand, to)}
     ELSE IF s[from] = "lp"
       THEN IF s[to] = "rp" THEN ExpressionTrees(s, 1, from + 1, to - 1) ELSE {}
     ELSE IF from = to /\ s[from] \in Operands THEN {Node(s[from], from, <<>>)} ELSE {}

(* Where an expression, or a statement, of s[from .. to] may end.           *)
Structure == {"delim", "if", "elif", "else", "while", "lb", "rb", "affect"}

ExpressionEnds(s, from, to) ==
  {e \in from .. to : \A n \in from .. e : s[n] \notin Structure}

StatementEnds(s, from, to) ==
  {e \in from .. to : /\ s[e] \in {"delim", "rb"}
                      /\ Cardinality({n \in from .. e : s[n] = "lb"})
                           = Cardinality({n \in from .. e : s[n] = "rb"})}

(* The lists of nodes of s[from .. to] as a statement, as the branches of   *)
(* an if behind the first, and as statements.                               *)
RECURSIVE StatementTrees(_, _, _), BranchTrees(_, _, _), ListTrees(_, _, _)

Conditionals(s, from, to) ==
  UNION {{<<Node(s[from], from, <<c>> \o b)>> :
            c \in ExpressionTrees(s, 1, from + 1, e), b \in StatementTrees(s, e + 1, to)} :
         e \in ExpressionEnds(s, from + 1, to)}

StatementTrees(s, from, to) ==
  IF from > to THEN {}
  ELSE IF s[from] = "lb"
    THEN IF s[to] = "rb" THEN {<<Node("scope", from, l)>> : l \in ListTrees(s, from + 1, to - 1)}
         ELSE {}
  ELSE IF s[from] = "while" THEN Conditionals(s, from, to)
  ELSE IF s[from] = "if"
    THEN UNION {{i \o b : i \in Conditionals(s, from, e), b \in BranchTrees(s, e + 1, to)} :
                e \in StatementEnds(s, from, to)}
  ELSE IF s[to] # "delim" THEN {}
  ELSE IF from + 1 <= to /\ s[from] = "id" /\ s[from + 1] = "affect"
    THEN {<<Node("affect", from + 1, <<Node("id", from, <<>>), r>>)>> :
            r \in ExpressionTrees(s, 1, from + 2, to - 1)}
  ELSE {<<e>> : e \in ExpressionTrees(s, 1, from, to - 1)}

BranchTrees(s, from, to) ==
  IF from > to THEN {<<>>}
  ELSE IF s[from] = "else"
    THEN {<<Node("else", from, b)>> : b \in StatementTrees(s, from + 1, to)}
  ELSE IF s[from] = "elif"
    THEN UNION {{i \o b : i \in Conditionals(s, from, e), b \in BranchTrees(s, e + 1, to)} :
                e \in StatementEnds(s, from, to)}
  ELSE {}

ListTrees(s, from, to) ==
  IF from > to THEN {<<>>}
  ELSE UNION {{i \o b : i \in StatementTrees(s, from, e), b \in ListTrees(s, e + 1, to)} :
              e \in StatementEnds(s, from, to)}

(* The trees of a program: several only where an else could go with either  *)
(* of two ifs.                                                              *)
Trees(s) == ListTrees(s, 1, Len(s) - 1)
=============================================================================
