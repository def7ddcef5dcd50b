------------------------------ MODULE MCParser ------------------------------
(* Two families of programs, right and wrong: short sequences of the tokens *)
(* of expressions, and sequences of pieces of statements.                   *)
EXTENDS Parser

Ended(s) == s \o <<"eof">>

(* Operators of four levels, both unary ones and parentheses. *)
ExpressionTokens == {"id", "mul", "pow", "lt", "or", "neg", "lp", "rp"}

Expressions ==
  {Ended(s \o <<"delim">>) : s \in SeqOf(ExpressionTokens, 5)}
  \union {Ended(<<"id">> \o s \o <<"id", "delim">>) :
            s \in [1 .. 3 -> {"add", "and", "not", "div", "pow", "ge", "num"}]}

Pieces == {<<"id", "affect", "num", "delim">>, <<"id">>, <<"affect">>, <<"lt">>, <<"if", "id">>,
           <<"elif", "id">>, <<"else">>, <<"while", "id">>, <<"lb">>, <<"rb">>, <<"delim">>}

Body == <<"lb", "id", "delim", "rb">>

(* An if of several branches, and what may be put in its place or around. *)
Branches ==
  {<<"if", "id">> \o b \o <<"elif", "num">> \o c \o <<"else">> \o d :
     b \in {Body, <<"if", "id">> \o Body, <<"id">>, <<"id", "lt", "delim">>},
     c \in {Body, <<"while", "id", "id", "delim">>, <<"delim">>},
     d \in {Body, <<"id", "delim">>, <<"lb", "id", "lb", "delim", "rb", "rb">>}}

Statements ==
  {Ended(FlattenSeq(pieces)) : pieces \in SeqOf(Pieces, 4)}
  \union {Ended(b) : b \in Branches}
  \union {Ended(<<"lb">> \o b \o <<"id", "delim", "rb">>) : b \in Branches}

Both == Expressions \union Statements

(* A parser stops where it is done, or where it was aborted. *)
Stopped == pc # "parsing" /\ UNCHANGED vars

MCSpec == Init /\ [][Next \/ Stopped]_vars
=============================================================================
