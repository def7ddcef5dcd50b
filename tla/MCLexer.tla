------------------------------ MODULE MCLexer -------------------------------
(* Files made of at most four pieces, in every order, read three characters *)
(* at a time: each piece is met at, across and after the end of a chunk.    *)
EXTENDS Lexer

Pieces == {<<"a">>, <<"i", "f">>, <<"1">>, <<"1", ".">>, <<"=">>, <<"<">>, <<"!">>,
           <<"-">>, <<"(">>, <<" ">>, <<"\n">>, <<"$">>}

PiecedFiles == {FlattenSeq(pieces) : pieces \in SeqOf(Pieces, 4)}

(* A lexer stops where it is done, or where it was aborted. *)
Stopped == pc # "lexing" /\ UNCHANGED vars

MCSpec == Init /\ [][Next \/ Stopped]_vars /\ WF_vars(Next)
=============================================================================
