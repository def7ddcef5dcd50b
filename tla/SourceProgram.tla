--------------------------- MODULE SourceProgram ----------------------------
(***************************************************************************)
(* What a program means, as its author reads it: the values it stores, in  *)
(* order, and whether every name is declared where it is used.  Nodes are  *)
(* those of Codegen; a name is declared by its first assignment, for the   *)
(* rest of the block the assignment is in.                                 *)
(***************************************************************************)
EXTENDS Integers, Sequences, FiniteSets, TLC

Bit(b) == IF b THEN 1 ELSE 0

Compare(op, x, y) ==
  CASE op = "eq" -> x = y
    [] op = "ne" -> x # y
    [] op = "gt" -> x > y
    [] op = "lt" -> x < y
    [] op = "ge" -> x >= y
    [] op = "le" -> x <= y

Calculate(op, x, y) ==
  CASE op = "add" -> x + y
    [] op = "sub" -> x - y
    [] op = "mul" -> x * y

RECURSIVE ValueOf(_, _)
ValueOf(n, env) ==
  CASE n.k = "int"   -> n.v
    [] n.k = "var"   -> env[n.x]
    [] n.k = "neg"   -> - ValueOf(n.r, env)
    [] n.k = "arith" -> Calculate(n.op, ValueOf(n.l, env), ValueOf(n.r, env))
    [] n.k = "cmp"   -> Bit(Compare(n.op, ValueOf(n.l, env), ValueOf(n.r, env)))
    [] n.k = "not"   -> Bit(ValueOf(n.r, env) = 0)
    [] n.k = "log"   -> Bit(IF n.op = "and"
                            THEN ValueOf(n.l, env) # 0 /\ ValueOf(n.r, env) # 0
                            ELSE ValueOf(n.l, env) # 0 \/ ValueOf(n.r, env) # 0)

(* An environment and the values stored to reach it. *)
RECURSIVE Run(_, _), RunStatement(_, _)
Run(stmts, R) == IF stmts = <<>> THEN R
                 ELSE Run(Tail(stmts), RunStatement(Head(stmts), R))

LeaveBlock(R, outer) == [R EXCEPT !.env = [x \in DOMAIN outer |-> @[x]]]

RunStatement(n, R) ==
  CASE n.k = "assign" ->
         LET v == ValueOf(n.e, R.env)
         IN [env |-> (n.x :> v) @@ R.env, stores |-> Append(R.stores, v)]
    [] n.k = "expr" -> R
    [] n.k = "scope" -> LeaveBlock(Run(n.body, R), R.env)
    [] n.k = "while" ->
         IF ValueOf(n.cond, R.env) = 0 THEN R
         ELSE RunStatement(n, RunStatement(n.body, R))
    [] n.k = "if" ->
         LET taken == {m \in DOMAIN n.arms : ValueOf(n.arms[m].cond, R.env) # 0}
         IN IF taken # {}
            THEN RunStatement(n.arms[CHOOSE m \in taken : \A l \in taken : m <= l].body, R)
            ELSE Run(n.else, R)

Stores(stmts) == Run(stmts, [env |-> <<>>, stores |-> <<>>]).stores

RECURSIVE NamesIn(_)
NamesIn(n) ==
  CASE n.k \in {"int", "double", "float"} -> {}
    [] n.k = "var" -> {n.x}
    [] n.k \in {"neg", "not"} -> NamesIn(n.r)
    [] n.k \in {"arith", "cmp", "log"} -> NamesIn(n.l) \union NamesIn(n.r)

(* The names declared after a program text, and whether its uses are. *)
RECURSIVE Scan(_, _), ScanStatement(_, _)
Scan(stmts, D) == IF stmts = <<>> THEN D
                  ELSE Scan(Tail(stmts), ScanStatement(Head(stmts), D))

Uses(n, D) == [D EXCEPT !.ok = @ /\ NamesIn(n) \subseteq D.names]

ScanStatement(n, D) ==
  CASE n.k = "assign" -> LET U == Uses(n.e, D)
                         IN [U EXCEPT !.names = @ \union {n.x}]
    [] n.k = "expr"   -> D
    [] n.k = "scope"  -> [Scan(n.body, D) EXCEPT !.names = D.names]
    [] n.k = "while"  -> ScanStatement(n.body, Uses(n.cond, D))
    [] n.k = "if"     ->
         LET arms[m \in 0 .. Len(n.arms)] ==
               IF m = 0 THEN D
               ELSE ScanStatement(n.arms[m].body, Uses(n.arms[m].cond, arms[m - 1]))
         IN Scan(n.else, arms[Len(n.arms)])

WellScoped(stmts) == Scan(stmts, [names |-> {}, ok |-> TRUE]).ok
=============================================================================
