----------------------------- MODULE MCMachine ------------------------------
(* Programs that put every construct of the compiler in every place another *)
(* may be: three global variables, then a statement built on a condition.   *)
EXTENDS Machine

N(v) == [k |-> "int", v |-> v]
V(x) == [k |-> "var", x |-> x]
Neg(r) == [k |-> "neg", r |-> r]
Not(r) == [k |-> "not", r |-> r]
Arith(op, l, r) == [k |-> "arith", op |-> op, l |-> l, r |-> r]
Cmp(op, l, r) == [k |-> "cmp", op |-> op, l |-> l, r |-> r]
And(l, r) == [k |-> "log", op |-> "and", l |-> l, r |-> r]
Or(l, r) == [k |-> "log", op |-> "or", l |-> l, r |-> r]
Assign(x, e) == [k |-> "assign", x |-> x, e |-> e]
Scope(body) == [k |-> "scope", body |-> body]
While(cond, body) == [k |-> "while", cond |-> cond, body |-> body]
If(arms, else) == [k |-> "if", arms |-> arms, else |-> else]
Arm(cond, body) == [cond |-> cond, body |-> body]

Prelude(u, v) == <<Assign("a", N(u)), Assign("b", N(v)), Assign("c", N(7))>>

(* Tests of one operand, then what can be made of two or three of them. *)
Tests == {V("a"), Cmp("lt", V("a"), V("b")), Cmp("eq", V("b"), N(1)),
          Not(V("b")), Arith("sub", V("a"), V("b"))}

Pairs == {And(l, r) : l \in Tests, r \in Tests} \union {Or(l, r) : l \in Tests, r \in Tests}

Few == {V("a"), Cmp("lt", V("a"), V("b"))}

Nested ==
  {Not(And(l, r)) : l \in Tests, r \in Few}
    \union {And(Or(l, V("a")), r) : l \in Tests, r \in Few}
    \union {Or(And(V("a"), l), And(r, V("b"))) : l \in Tests, r \in Few}
    \union {Cmp("ge", And(l, V("b")), r) : l \in Tests, r \in Few}
    \union {Or(Not(Or(l, r)), Cmp("le", Not(l), Neg(r))) : l \in Tests, r \in Few}
    \union {Arith("add", Cmp("gt", l, r), Or(l, Cmp("ne", r, N(0)))) : l \in Tests, r \in Few}

Conditions == Tests \union Pairs \union Nested

StoreC(v) == Scope(<<Assign("c", N(v))>>)

Statements(cond) ==
  { Assign("c", cond),
    Assign("c", Arith("mul", N(3), Arith("add", cond, V("c")))),
    If(<<Arm(cond, StoreC(8))>>, <<>>),
    If(<<Arm(cond, Assign("c", V("a")))>>, <<Assign("c", V("b"))>>),
    If(<<Arm(V("b"), StoreC(8)), Arm(cond, StoreC(9))>>, <<StoreC(10)>>),
    If(<<Arm(cond, If(<<Arm(V("a"), StoreC(8))>>, <<StoreC(9)>>)),
         Arm(V("a"), Scope(<<Assign("d", V("b")), Assign("c", V("d"))>>))>>, <<>>),
    While(And(Cmp("lt", V("a"), N(2)), cond),
          Scope(<<Assign("e", V("a")), Assign("a", Arith("add", V("e"), N(1)))>>)),
    While(Cmp("lt", V("a"), N(2)),
          Scope(<<If(<<Arm(cond, StoreC(8))>>, <<StoreC(9)>>),
                  Assign("a", Arith("add", V("a"), N(1)))>>)) }

(* f is known in its block only. *)
Epilogue == Assign("d", Arith("add", V("a"), V("c")))
UseAfterBlock == <<Scope(<<Assign("f", V("c"))>>), Assign("d", V("f"))>>

MCPrograms ==
  {Prelude(uv[1], uv[2]) \o <<s, Epilogue>> :
     uv \in {<<0, 1>>, <<1, 0>>, <<1, 2>>},
     s \in UNION {Statements(cond) : cond \in Conditions}}
  \union {Prelude(0, 1) \o <<s>> \o UseAfterBlock :
            s \in UNION {Statements(cond) : cond \in Tests}}

(* The branch of an if that assigns a name its condition reads. *)
BranchDeclares ==
  {<<Assign("b", N(0)), If(<<Arm(cond, Scope(body))>>, <<>>)>> :
     cond \in {V("a"), Cmp("eq", V("a"), N(1)), And(V("b"), V("a"))},
     body \in {<<Assign("a", N(v))>> : v \in 0 .. 4}
               \union {<<Assign("c", N(v)), Assign("b", N(v))>> : v \in 0 .. 4}}
  \union {<<Assign("b", N(0)), If(<<Arm(cond, Assign("a", N(v)))>>, <<>>)>> :
            cond \in {V("a"), V("b")}, v \in 0 .. 4}

(* Loops whose body is one statement and no block. *)
PlainBodies ==
  {<<Assign("a", N(u)), Assign("b", N(v)),
     While(Cmp("lt", V("a"), V("b")), Assign("a", Arith("add", V("a"), N(1))))>> :
       u \in 0 .. 3, v \in 0 .. 3}
  \union {<<Assign("a", N(u)), Assign("b", N(v)),
            While(Cmp("lt", V("a"), V("b")),
                  If(<<Arm(cond, Scope(<<Assign("a", Arith("add", V("a"), N(1)))>>))>>,
                     <<Assign("a", V("b"))>>))>> :
              u \in 0 .. 3, v \in 0 .. 3,
              cond \in {V("a"), Cmp("lt", V("a"), N(2))}}

(* The run of a program stops where it is rejected or returns. *)
Stopped == phase \in {"rejected", "halted"} /\ UNCHANGED vars

MCSpec == Init /\ [][Next \/ Stopped]_vars /\ WF_vars(Execute)
=============================================================================
