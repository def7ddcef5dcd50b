------------------------------ MODULE MCDriver ------------------------------
(* Texts of a few pieces, right and wrong, read four characters at a time,  *)
(* and calls with the names the program accepts and with others.            *)
EXTENDS Driver

Text(pieces) == FlattenSeq(pieces)

Input == <<"a", ".", "m", "x", "p">>
Out == <<"o">>

MCCalls ==
  { <<>>, <<Input>>, <<Input, Out>>, <<Input, Input>>, <<Input, <<"o", ".", "b">>>>,
    <<Out, Out>>, <<<<"m", "x", "p">>, Out>>, <<<<"b", ".", "m", "x", "p">>, Out>> }

A1 == <<"a", "=", "1", ";">>

Pieces ==
  { <<"b", "=", "a", ";">>,
    <<"a", "=", "1", ".", "5", "*", "2", ";", "\n">>,
    <<"{", "b", "=", "a", ";", "}">>,
    <<"i", "f", " ", "a", "<", "1", "{", "a", "=", "b", ";", "}",
      "e", "l", "s", "e", " ", "a", "=", "2", "6", "0", ";">>,
    <<"i", "f", " ", "a", "{", "}", "e", "l", "i", "f", "!", "a", "a", "=", "-", "3", ";">>,
    <<"w", "h", "i", "l", "e", "(", "a", "<", "2", "&", "a", ")", "{", "a", "=", "a", "+", "1", ";", "}">>,
    <<"i", "f", " ", "1", "f", "=", "2", ";">>,
    <<"e", "l", "s", "e", " ", "a", ";">>,
    <<"a", "<", ";">>,
    <<"a", "=", "(", "1", ";">>,
    <<"$", " ">>,
    <<"1", ".", "1", ".", ";">>,
    <<"a", "b", "e", "f", "h", "i", "=", "a", "=", "=", "1", ";">> }

Texts == {<<>>} \union {A1} \union {p : p \in Pieces \ {<<"{", "b", "=", "a", ";", "}">>}}
           \union {A1 \o p : p \in Pieces}
           \union {A1 \o p \o q : p \in Pieces, q \in Pieces}

MCDisks ==
  {(Input :> text) @@ (Out :> <<7, 7>>) : text \in Texts} \union {(Input :> A1)}

(* The program stops where it exits or is aborted. *)
Stopped == Ended /\ UNCHANGED vars

MCSpec == Init /\ [][Next \/ Stopped]_vars /\ Fairness
=============================================================================
