------------------------------ MODULE Lexemes -------------------------------
(***************************************************************************)
(* The characters of a program and what its text is made of: the lexemes   *)
(* of a file are the longest ones, from left to right.                     *)
(***************************************************************************)
EXTENDS Naturals, Sequences, FiniteSets, SequencesExt

(* token.h and operators.h: the types of the tokens the lexer makes. *)
TokenTypes ==
  {"INT", "FLOAT", "DOUBLE", "IDENTIFIER", "OPERATOR", "AFFECTATION", "DELIMITER",
   "OPENING_PARENTHESE", "CLOSING_PARENTHESE", "OPENING_SCOPE", "CLOSING_SCOPE",
   "WHILE", "IF", "ELIF", "ELSE", "EOF"}

OperationTypes ==
  {"NONE", "ADD", "SUB", "MULTIPLY", "DIVIDE", "POWER", "LOGICAL_AND", "LOGICAL_OR", "LOGICAL_NOT",
   "UNARY_MINUS", "EQUALS", "NOT_EQUALS", "LESS_THAN", "LESS_OR_EQUAL",
   "GREATER_THAN", "GREATER_OR_EQUAL"}

Digits == {"0", "1", "2", "3", "4", "5", "6", "7", "8", "9"}

Operators ==
  [c \in {"+", "-", "*", "/", "^", "&", "|"} |->
     IF c = "+" THEN "ADD" ELSE IF c = "-" THEN "SUB" ELSE IF c = "*" THEN "MULTIPLY"
     ELSE IF c = "/" THEN "DIVIDE" ELSE IF c = "^" THEN "POWER"
     ELSE IF c = "&" THEN "LOGICAL_AND" ELSE "LOGICAL_OR"]

Punctuation ==
  [c \in {";", "(", ")", "{", "}"} |->
     IF c = ";" THEN "DELIMITER"
     ELSE IF c = "(" THEN "OPENING_PARENTHESE" ELSE IF c = ")" THEN "CLOSING_PARENTHESE"
     ELSE IF c = "{" THEN "OPENING_SCOPE" ELSE "CLOSING_SCOPE"]

(* lex_comparison and the case '!' of lex_code: with an `=' behind, without. *)
Long == [c \in {"=", "<", ">", "!"} |->
           IF c = "=" THEN "EQUALS" ELSE IF c = "<" THEN "LESS_OR_EQUAL"
           ELSE IF c = ">" THEN "GREATER_OR_EQUAL" ELSE "NOT_EQUALS"]

Short == [c \in {"<", ">", "!"} |->
            IF c = "<" THEN "LESS_THAN" ELSE IF c = ">" THEN "GREATER_THAN" ELSE "LOGICAL_NOT"]

Blanks == {" ", "\n"}

(* isalpha. *)
Letters ==
  {"a", "b", "c", "d", "e", "f", "g", "h", "i", "j", "k", "l", "m",
   "n", "o", "p", "q", "r", "s", "t", "u", "v", "w", "x", "y", "z",
   "A", "B", "C", "D", "E", "F", "G", "H", "I", "J", "K", "L", "M",
   "N", "O", "P", "Q", "R", "S", "T", "U", "V", "W", "X", "Y", "Z"}

StartsToken(c) ==
  c \in DOMAIN Operators \union DOMAIN Punctuation \union DOMAIN Long \union {" "}

Keywords ==
  [word \in {<<"w", "h", "i", "l", "e">>, <<"i", "f">>, <<"e", "l", "i", "f">>, <<"e", "l", "s", "e">>} |->
     IF word[1] = "w" THEN "WHILE" ELSE IF word[1] = "i" THEN "IF"
     ELSE IF word[3] = "i" THEN "ELIF" ELSE "ELSE"]

----------------------------------------------------------------------------
IsWord(s) == s[1] \in Letters
               /\ \A n \in DOMAIN s : ~ StartsToken(s[n]) /\ s[n] # "\n"

IsNumber(s) == s[1] \in Digits /\ ToSet(s) \subseteq Digits \union {"."}
                 /\ Cardinality({n \in DOMAIN s : s[n] = "."}) <= 1

Symbols == DOMAIN Operators \union DOMAIN Punctuation \union DOMAIN Long

IsLexeme(s) ==
  \/ IsWord(s)
  \/ IsNumber(s)
  \/ Len(s) = 1 /\ s[1] \in Symbols
  \/ Len(s) = 2 /\ s[1] \in DOMAIN Long /\ s[2] = "="

EndsOperand(before) ==
  before # <<>> /\ Last(before).type \in
    {"INT", "FLOAT", "DOUBLE", "IDENTIFIER", "CLOSING_PARENTHESE"}

(* The type, the operation and the text of a lexeme, and whether a minus is *)
(* unary from the lexemes before it.                                        *)
Classify(s, float, before) ==
  LET sort(type, operation, text) ==
        [type |-> type, operation |-> operation, text |-> text]
  IN IF IsWord(s) THEN IF s \in DOMAIN Keywords THEN sort(Keywords[s], "NONE", <<>>)
                       ELSE sort("IDENTIFIER", "NONE", s)
     ELSE IF IsNumber(s) THEN sort(IF float THEN "FLOAT"
                                   ELSE IF "." \in ToSet(s) THEN "DOUBLE" ELSE "INT", "NONE", s)
     ELSE IF Len(s) = 2 THEN sort("OPERATOR", Long[s[1]], <<>>)
     ELSE IF s[1] = "=" THEN sort("AFFECTATION", "NONE", <<>>)
     ELSE IF s[1] = "-" /\ ~ EndsOperand(before) THEN sort("OPERATOR", "UNARY_MINUS", <<>>)
     ELSE IF s[1] \in DOMAIN Punctuation THEN sort(Punctuation[s[1]], "NONE", <<>>)
     ELSE sort("OPERATOR", IF s[1] \in DOMAIN Short THEN Short[s[1]] ELSE Operators[s[1]], <<>>)

(* The lexemes of f, each with its first and last positions; blanks and     *)
(* what starts no lexeme lie between them.                                  *)
Ends(f, p) == {e \in p .. Len(f) : IsLexeme(SubSeq(f, p, e))}

Longest(f, p) == Max(Ends(f, p))

LexemeAt(f, found, p) ==
  LET end == Longest(f, p)
      sort == Classify(SubSeq(f, p, end), end < Len(f) /\ f[end + 1] = "f", found)
  IN [start |-> p, end |-> end,
      type |-> sort.type, operation |-> sort.operation, text |-> sort.text]

AddLexeme(f, found, p) ==
  IF (found # <<>> /\ Last(found).end >= p) \/ Ends(f, p) = {} THEN found
  ELSE Append(found, LexemeAt(f, found, p))

(* Those that start at or before each position. *)
Found(f) ==
  LET found[p \in 0 .. Len(f)] == IF p = 0 THEN <<>> ELSE AddLexeme(f, found[p - 1], p)
  IN found

Lexemes(f) == Found(f)[Len(f)]
=============================================================================
