---------------------------- MODULE LexerProofs -----------------------------
(***************************************************************************)
(* The tokens of the lexer are the lexemes of its file, wherever the chunks *)
(* end: proofs for every file, chunk size and buffer size.                  *)
(***************************************************************************)
EXTENDS Lexer, DataLemmas

(* The characters of each table, one by one.                                *)
LEMMA TableCharacters ==
  /\ DOMAIN Operators = {"+", "-", "*", "/", "^", "&", "|"}
  /\ DOMAIN Punctuation = {";", "(", ")", "{", "}"}
  /\ DOMAIN Long = {"=", "<", ">", "!"}
  /\ DOMAIN Short = {"<", ">", "!"}
BY DEF Operators, Punctuation, Long, Short

(* The tables of characters do not overlap: the first character of a lexeme *)
(* tells its sort, as in the switch of lex_code (lexer.c:309-372).          *)
LEMMA CharacterSorts ==
  /\ \A c \in Letters : c \notin Symbols \union Digits \union Blanks
  /\ \A c \in Digits : c \notin Symbols \union Letters \union Blanks \union {"."}
  /\ \A c \in Blanks : c \notin Symbols \union Letters \union Digits
  /\ \A c \in Symbols : c \notin Blanks \union Letters \union Digits \union {"."}
<1>1. ASSUME NEW c \in Letters PROVE c \notin Digits
  BY DEF Letters, Digits
<1>2. ASSUME NEW c \in Letters PROVE c \notin Blanks
  BY DEF Letters, Blanks
<1>3. ASSUME NEW c \in DOMAIN Operators PROVE c \notin Letters
  <2>1. c \in {"+", "-", "*", "/", "^", "&", "|"}  BY TableCharacters
  <2> QED  BY <2>1 DEF Letters
<1>4. ASSUME NEW c \in DOMAIN Punctuation PROVE c \notin Letters
  <2>1. c \in {";", "(", ")", "{", "}"}  BY TableCharacters
  <2> QED  BY <2>1 DEF Letters
<1>5. ASSUME NEW c \in DOMAIN Long PROVE c \notin Letters
  <2>1. c \in {"=", "<", ">", "!"}  BY TableCharacters
  <2> QED  BY <2>1 DEF Letters
<1>6. \A c \in Symbols : c \notin Blanks \union Digits \union {"."}
  BY TableCharacters DEF Digits, Symbols, Blanks
<1>7. \A c \in Blanks : c \notin Digits
  BY DEF Digits, Blanks
<1>8. "." \notin Digits
  BY DEF Digits
<1>9. \A c \in Symbols : c \notin Letters
  BY <1>3, <1>4, <1>5 DEF Symbols
<1> HIDE DEF Letters, Digits, Blanks, Symbols
<1> QED  BY <1>1, <1>2, <1>6, <1>7, <1>8, <1>9

(* A letter and a digit begin no other token behind a word, and no symbol   *)
(* goes on with a word (lexer.c:41-65).                                     *)
LEMMA WordCharacters ==
  /\ \A c \in Letters : ~ StartsToken(c) /\ c # "\n"
  /\ \A c \in Symbols : StartsToken(c)
<1>1. ASSUME NEW c PROVE StartsToken(c) <=> c \in Symbols \union {" "}
  <2>1. PICK A, B, C : A = DOMAIN Operators /\ B = DOMAIN Punctuation /\ C = DOMAIN Long  OBVIOUS
  <2>2. StartsToken(c) <=> c \in A \union B \union C \union {" "}
    BY <2>1, SMTT(20) DEF StartsToken
  <2>3. Symbols = A \union B \union C  BY <2>1 DEF Symbols
  <2> QED  BY <2>2, <2>3
<1>2. \A c \in Letters : c # " " /\ c # "\n"
  BY DEF Letters
<1> QED  BY <1>1, <1>2, CharacterSorts

(* What the tables hold. *)
LEMMA TableTypes ==
  /\ \A c \in DOMAIN Operators : Operators[c] \in OperationTypes
  /\ \A c \in DOMAIN Punctuation : Punctuation[c] \in TokenTypes
  /\ \A c \in DOMAIN Long : Long[c] \in OperationTypes
  /\ \A c \in DOMAIN Short : Short[c] \in OperationTypes
  /\ \A s \in DOMAIN Keywords : Keywords[s] \in TokenTypes
<1>1. \A c \in DOMAIN Operators : Operators[c] \in OperationTypes
  BY DEF Operators, OperationTypes
<1>2. \A c \in DOMAIN Punctuation : Punctuation[c] \in TokenTypes
  BY DEF Punctuation, TokenTypes
<1>3. \A c \in DOMAIN Long : Long[c] \in OperationTypes
  BY DEF Long, OperationTypes
<1>4. \A c \in DOMAIN Short : Short[c] \in OperationTypes
  BY DEF Short, OperationTypes
<1>5. \A s \in DOMAIN Keywords : Keywords[s] \in TokenTypes
  BY DEF Keywords, TokenTypes
<1> QED  BY <1>1, <1>2, <1>3, <1>4, <1>5

----------------------------------------------------------------------------
(* Filling the buffer (lexer.c:34-39) leaves it full or at the end of the   *)
(* file, and never before what is lexed.                                    *)
LEMMA ReadToProperties ==
  ASSUME LexerAssumption, Len(file) \in Nat, NEW n \in 0 .. Len(file)
  PROVE  /\ ReadTo(n) \in n .. Len(file)
         /\ ReadTo(n) = Len(file) \/ ReadTo(n) % ChunkSize = 0
<1>1. ChunkSize \in Nat \ {0} /\ n \in Nat  BY DEF LexerAssumption
<1> DEFINE full == (n \div ChunkSize + 1) * ChunkSize
<1>2. n < full /\ full \in Nat  BY <1>1
<1>3. full % ChunkSize = 0  BY <1>1
<1>4. ReadTo(n) = IF full <= Len(file) THEN full ELSE Len(file)
  BY DEF ReadTo, Smallest
<1> HIDE DEF full
<1> QED  BY <1>2, <1>3, <1>4

(* A run of characters has an end. *)
LEMMA RunEnds ==
  ASSUME NEW n \in Nat, NEW m \in 0 .. n, NEW C
  PROVE  \E e \in m .. n : (\A i \in m + 1 .. e : i \in C) /\ (e = n \/ e + 1 \notin C)
<1> DEFINE T == {e \in m .. n : e = n \/ e + 1 \notin C}
<1>1. T # {} /\ T \subseteq Nat
  <2>1. n \in T  OBVIOUS
  <2> QED  BY <2>1
<1>2. PICK e \in T : \A d \in T : e <= d  BY <1>1, LeastNatural
<1>3. ASSUME NEW i \in m + 1 .. e PROVE i \in C
  <2>1. i - 1 \in m .. n /\ i - 1 # n /\ ~ (e <= i - 1)  BY <1>2
  <2>2. i - 1 \notin T  BY <1>2, <2>1
  <2>3. (i - 1) + 1 \in C  BY <2>1, <2>2
  <2> QED  BY <2>3
<1> QED  BY <1>2, <1>3

(* A word goes on to the first character that is not of it. *)
LEMMA EndOfWord ==
  ASSUME Len(file) \in Nat, NEW n \in 0 .. Len(file)
  PROVE  /\ EndOfRun(n, InWord) \in n .. Len(file)
         /\ \A i \in n + 1 .. EndOfRun(n, InWord) : InWord(i)
         /\ EndOfRun(n, InWord) = Len(file) \/ ~ InWord(EndOfRun(n, InWord) + 1)
<1> DEFINE C == {i \in 1 .. Len(file) : InWord(i)}
<1>1. PICK e \in n .. Len(file) : /\ \A i \in n + 1 .. e : i \in C
                                  /\ e = Len(file) \/ e + 1 \notin C
  <2> HIDE DEF C
  <2> QED  BY RunEnds
<1>2. (\A i \in n + 1 .. e : InWord(i)) /\ (e = Len(file) \/ ~ InWord(e + 1))
  BY <1>1
<1> HIDE DEF C
<1> QED  BY <1>2 DEF EndOfRun

(* So does a number. *)
LEMMA EndOfNumber ==
  ASSUME Len(file) \in Nat, at \in 0 .. Len(file)
  PROVE  /\ EndOfRun(at, InNumber) \in at .. Len(file)
         /\ \A i \in at + 1 .. EndOfRun(at, InNumber) : InNumber(i)
         /\ EndOfRun(at, InNumber) = Len(file) \/ ~ InNumber(EndOfRun(at, InNumber) + 1)
<1> DEFINE C == {i \in 1 .. Len(file) : InNumber(i)}
<1>1. PICK e \in at .. Len(file) : /\ \A i \in at + 1 .. e : i \in C
                                   /\ e = Len(file) \/ e + 1 \notin C
  <2> HIDE DEF C
  <2> QED  BY RunEnds
<1>2. (\A i \in at + 1 .. e : InNumber(i)) /\ (e = Len(file) \/ ~ InNumber(e + 1))
  BY <1>1
<1> HIDE DEF C
<1> QED  BY <1>2 DEF EndOfRun
----------------------------------------------------------------------------
(* The tokens, as the type invariant has them. *)
Tokens == [type : TokenTypes, operation : OperationTypes, text : Seq(STRING),
           line : Nat, character : Nat]

(* A token is made of the types of the tables. *)
LEMMA TokenType ==
  ASSUME TypeOK, NEW t \in TokenTypes, NEW o \in OperationTypes, NEW x \in Seq(STRING)
  PROVE  Token(t, o, x) \in Tokens
BY DEF Token, Tokens, TypeOK

(* No initial state leaves the types. *)
LEMMA TypeInit == ASSUME LexerAssumption, Init PROVE TypeOK
<1>1. file \in Seq(STRING)  BY DEF Init, LexerAssumption
<1>2. Len(file) \in Nat  BY <1>1
<1>3. ChunkSize \in Nat \ {0}  BY DEF LexerAssumption
<1>4. 0 % ChunkSize = 0  BY <1>3
<1>5. at \in 0 .. read /\ read \in 0 .. Len(file) /\ read % ChunkSize = 0
  BY <1>2, <1>4 DEF Init
<1>6. tokens \in Seq(Tokens)  BY DEF Init
<1>7. current_line \in Nat /\ current_char \in Nat /\ messages \in Nat  BY DEF Init
<1>8. overrun \in BOOLEAN  BY DEF Init
<1> QED  BY <1>1, <1>5, <1>6, <1>7, <1>8 DEF Init, TypeOK, Tokens

(* The types when a token of n characters that are in the buffer is added.  *)
LEMMA TypeShortToken ==
  ASSUME TypeOK, NEW t \in Tokens, NEW n \in Nat, at + n <= read,
         AddToken(t), AdvanceN(n), 
         UNCHANGED <<file, read, current_line, lexing_status, messages, overrun, pc>>
  PROVE  TypeOK'
<1>1. tokens' \in Seq(Tokens)
  <2>1. tokens \in Seq(Tokens)  BY DEF TypeOK, Tokens
  <2> QED  BY <2>1 DEF AddToken
<1>2. at' \in 0 .. read' /\ current_char' \in Nat
  BY DEF TypeOK, AdvanceN
<1> QED  BY <1>1, <1>2 DEF TypeOK, Tokens

(* The shape of a buffered character. *)
LEMMA BufferedPlace ==
  ASSUME TypeOK, NEW c, Buffered(c)
  PROVE  /\ Len(file) \in Nat /\ at \in 0 .. Len(file) /\ at + 1 \in 1 .. Len(file)
         /\ at \in Nat /\ read \in 0 .. Len(file) /\ at + 1 <= read
         /\ c = file[at + 1] /\ c \in STRING
BY DEF TypeOK, Buffered

(* The look-ahead stays within what is read (lexer.c:242, 325). *)
LEMMA TypeComparison == ASSUME TypeOK, LexComparison PROVE TypeOK'
<1>1. PICK c \in DOMAIN Long :
        /\ Buffered(c)
        /\ IF at + 1 < read /\ file[at + 2] = "="
             THEN AddToken(Op(Long[c])) /\ AdvanceN(2)
             ELSE /\ AddToken(IF c = "=" THEN Token("AFFECTATION", "NONE", <<>>)
                              ELSE Op(Short[c]))
                  /\ AdvanceN(1)
        /\ UNCHANGED <<file, read, current_line, lexing_status, messages, overrun, pc>>
  BY DEF LexComparison
<1>2. at + 1 <= read /\ at \in Nat /\ read \in Nat  BY <1>1, BufferedPlace
<1>3. {"OPERATOR", "AFFECTATION"} \subseteq TokenTypes /\ "NONE" \in OperationTypes
  BY DEF TokenTypes, OperationTypes
<1>4. <<>> \in Seq(STRING)  OBVIOUS
<1>5. CASE at + 1 < read /\ file[at + 2] = "="
  <2>1. Op(Long[c]) \in Tokens  BY <1>3, <1>4, TokenType, TableTypes DEF Op
  <2>2. at + 2 <= read  BY <1>2, <1>5
  <2> QED  BY <1>1, <1>5, <2>1, <2>2, TypeShortToken
<1>6. CASE ~ (at + 1 < read /\ file[at + 2] = "=")
  <2> DEFINE t == IF c = "=" THEN Token("AFFECTATION", "NONE", <<>>) ELSE Op(Short[c])
  <2>1. t \in Tokens
    <3>1. CASE c = "="  BY <1>3, <1>4, <3>1, TokenType
    <3>2. CASE c # "="
      <4>1. c \in DOMAIN Short  BY <3>2, TableCharacters
      <4> QED  BY <1>3, <1>4, <3>2, <4>1, TokenType, TableTypes DEF Op
    <3> QED  BY <3>1, <3>2
  <2>2. AddToken(t) /\ AdvanceN(1)  BY <1>1, <1>6
  <2> HIDE DEF t
  <2> QED  BY <1>1, <1>2, <2>1, <2>2, TypeShortToken
<1> QED  BY <1>5, <1>6

(* Every token is of the types of token.h and operators.h. *)
LEMMA TypeOperator == ASSUME TypeOK, LexOperator PROVE TypeOK'
<1> DEFINE op(c) == IF c = "-" /\ (tokens = <<>> \/ InvolveUnaryMinus(Last(tokens)))
                    THEN "UNARY_MINUS" ELSE Operators[c]
<1>1. PICK c \in DOMAIN Operators :
        /\ Buffered(c)
        /\ AddToken(Op(op(c)))
        /\ AdvanceN(1)
        /\ UNCHANGED <<file, read, current_line, lexing_status, messages, overrun, pc>>
  BY DEF LexOperator
<1>2. at + 1 <= read /\ at \in Nat /\ read \in Nat  BY <1>1, BufferedPlace
<1>3. "OPERATOR" \in TokenTypes /\ "UNARY_MINUS" \in OperationTypes
  BY DEF TokenTypes, OperationTypes
<1>4. op(c) \in OperationTypes  BY <1>3, TableTypes
<1> HIDE DEF op
<1>5. Op(op(c)) \in Tokens
  <2>1. <<>> \in Seq(STRING) /\ "NONE" \in OperationTypes  BY DEF OperationTypes
  <2> QED  BY <1>3, <1>4, <2>1, TokenType DEF Op
<1> QED  BY <1>1, <1>2, <1>5, TypeShortToken

(* Punctuation is one token (lexer.c:334-353). *)
LEMMA TypePunctuation == ASSUME TypeOK, LexPunctuation PROVE TypeOK'
<1>1. PICK c \in DOMAIN Punctuation :
        /\ Buffered(c)
        /\ AddToken(Token(Punctuation[c], "NONE", <<>>))
        /\ AdvanceN(1)
        /\ UNCHANGED <<file, read, current_line, lexing_status, messages, overrun, pc>>
  BY DEF LexPunctuation
<1>2. at + 1 <= read /\ at \in Nat /\ read \in Nat  BY <1>1, BufferedPlace
<1>3. "NONE" \in OperationTypes  BY DEF OperationTypes
<1>4. Token(Punctuation[c], "NONE", <<>>) \in Tokens
  <2>1. <<>> \in Seq(STRING)  OBVIOUS
  <2> QED  BY <1>3, <2>1, TokenType, TableTypes
<1> QED  BY <1>1, <1>2, <1>4, TypeShortToken

(* A blank is one character (lexer.c:281-292). *)
LEMMA TypeBlank == ASSUME TypeOK, SkipBlank PROVE TypeOK'
<1>1. PICK c \in Blanks :
        /\ Buffered(c)
        /\ at' = at + 1
        /\ current_line' = IF c = "\n" THEN current_line + 1 ELSE current_line
        /\ current_char' = IF c = "\n" THEN 0 ELSE current_char + 1
        /\ UNCHANGED <<file, read, tokens, lexing_status, messages, overrun, pc>>
  BY DEF SkipBlank
<1>2. at + 1 <= read /\ at \in Nat /\ read \in Nat  BY <1>1, BufferedPlace
<1>3. at' \in 0 .. read' /\ current_line' \in Nat /\ current_char' \in Nat
  BY <1>1, <1>2 DEF TypeOK
<1> QED  BY <1>1, <1>3 DEF TypeOK

(* Where the end of a word is. *)
LEMMA WordEnd ==
  ASSUME TypeOK, NEW c \in Letters, Buffered(c)
  PROVE  /\ EndOfRun(at, InWord) \in at + 1 .. Len(file)
         /\ \A i \in at + 1 .. EndOfRun(at, InWord) : InWord(i)
         /\ EndOfRun(at, InWord) = Len(file) \/ ~ InWord(EndOfRun(at, InWord) + 1)
<1>1. Len(file) \in Nat /\ at \in 0 .. Len(file) /\ at + 1 \in 1 .. Len(file) /\ c = file[at + 1]
  BY BufferedPlace
<1>2. InWord(at + 1)  BY <1>1, WordCharacters DEF InWord
<1> DEFINE e == EndOfRun(at, InWord)
<1>3. /\ e \in at .. Len(file)
      /\ \A i \in at + 1 .. e : InWord(i)
      /\ e = Len(file) \/ ~ InWord(e + 1)
  BY <1>1, EndOfWord
<1> HIDE DEF e
<1>4. e # at  BY <1>1, <1>2, <1>3
<1>5. e \in at + 1 .. Len(file)  BY <1>1, <1>3, <1>4
<1> QED  BY <1>3, <1>5 DEF e

(* Where the end of a number is. *)
LEMMA NumberEnd ==
  ASSUME TypeOK, NEW c \in Digits, Buffered(c)
  PROVE  /\ EndOfRun(at, InNumber) \in at + 1 .. Len(file)
         /\ \A i \in at + 1 .. EndOfRun(at, InNumber) : InNumber(i)
         /\ EndOfRun(at, InNumber) = Len(file) \/ ~ InNumber(EndOfRun(at, InNumber) + 1)
<1>1. Len(file) \in Nat /\ at \in 0 .. Len(file) /\ at + 1 \in 1 .. Len(file) /\ c = file[at + 1]
  BY BufferedPlace
<1>2. InNumber(at + 1)  BY <1>1 DEF InNumber
<1> DEFINE e == EndOfRun(at, InNumber)
<1>3. /\ e \in at .. Len(file)
      /\ \A i \in at + 1 .. e : InNumber(i)
      /\ e = Len(file) \/ ~ InNumber(e + 1)
  BY <1>1, EndOfNumber
<1> HIDE DEF e
<1>4. e # at  BY <1>1, <1>2, <1>3
<1>5. e \in at + 1 .. Len(file)  BY <1>1, <1>3, <1>4
<1> QED  BY <1>3, <1>5 DEF e

(* A word ends in what is read, chunk after chunk (lexer.c:129-143). *)
LEMMA TypeString == ASSUME LexerAssumption, TypeOK, LexString PROVE TypeOK'
<1> DEFINE end == EndOfRun(at, InWord)
           str == SubSeq(file, at + 1, end)
           t == IF str \in DOMAIN Keywords THEN Token(Keywords[str], "NONE", <<>>)
                ELSE Token("IDENTIFIER", "NONE", str)
<1>1. PICK c \in Letters :
        /\ Buffered(c)
        /\ AddToken(t)
        /\ AdvanceN(end - at)
        /\ read' = ReadTo(end)
        /\ Writes(WordOverruns(end - at))
        /\ UNCHANGED <<file, current_line, lexing_status, messages>>
  BY DEF LexString
<1>2. /\ Len(file) \in Nat /\ at \in 0 .. Len(file)
      /\ file \in Seq(STRING) /\ current_char \in Nat
      /\ end \in at + 1 .. Len(file)
  BY <1>1, BufferedPlace, WordEnd DEF TypeOK
<1> HIDE DEF end
<1>3. str \in Seq(STRING)
  <2>1. at + 1 \in 1 .. Len(file) + 1 /\ end \in at .. Len(file)  BY <1>2
  <2> QED  BY <1>2, <2>1, SubSeqProperties
<1>4. t \in Tokens
  <2>1. <<>> \in Seq(STRING) /\ "NONE" \in OperationTypes /\ "IDENTIFIER" \in TokenTypes
    BY DEF OperationTypes, TokenTypes
  <2> HIDE DEF str
  <2>2. CASE str \in DOMAIN Keywords  BY <2>1, <2>2, TableTypes, TokenType
  <2>3. CASE str \notin DOMAIN Keywords  BY <1>3, <2>1, <2>3, TokenType
  <2> QED  BY <2>2, <2>3
<1> HIDE DEF str, t
<1>5. tokens' \in Seq(Tokens)
  <2>1. tokens \in Seq(Tokens)  BY DEF TypeOK, Tokens
  <2> QED  BY <1>1, <1>4, <2>1 DEF AddToken
<1>6. /\ read' \in 0 .. Len(file)' /\ at' \in 0 .. read'
      /\ read' = Len(file)' \/ read' % ChunkSize = 0
      /\ current_char' \in Nat
  <2>1. end \in 0 .. Len(file) /\ at + (end - at) = end /\ end - at \in Nat  BY <1>2
  <2>2. /\ ReadTo(end) \in end .. Len(file)
        /\ ReadTo(end) = Len(file) \/ ReadTo(end) % ChunkSize = 0
    BY <1>2, <2>1, ReadToProperties
  <2>3. at' = end /\ current_char' = current_char + (end - at) /\ file' = file
    BY <1>1, <2>1 DEF AdvanceN
  <2> QED  BY <1>1, <1>2, <2>1, <2>2, <2>3
<1>7. overrun' \in BOOLEAN /\ pc' \in {"lexing", "done", "aborted"}
  <2>1. overrun \in BOOLEAN  BY DEF TypeOK
  <2>2. WordOverruns(end - at) \in BOOLEAN  BY DEF WordOverruns
  <2> QED  BY <1>1, <2>1, <2>2 DEF Writes, TypeOK
<1> QED  BY <1>1, <1>5, <1>6, <1>7 DEF TypeOK, Tokens

(* So does a number; one with two dots leaves the buffer (lexer.c:74-90). *)
LEMMA TypeNumber == ASSUME LexerAssumption, TypeOK, LexNumber PROVE TypeOK'
<1> DEFINE end == EndOfRun(at, InNumber)
           number == SubSeq(file, at + 1, end)
           t == Token(NumberType(end), "NONE", number)
<1>1. PICK c \in Digits :
        /\ Buffered(c)
        /\ read' = ReadTo(end)
        /\ IF end < Len(file) /\ file[end + 1] = "."
             THEN at' = read' /\ DropChunk /\ Writes(NumberOverruns(end - at))
                    /\ UNCHANGED tokens
             ELSE /\ at' = end
                  /\ AddToken(t)
                  /\ Writes(NumberOverruns(end - at + 1))
                  /\ UNCHANGED <<lexing_status, messages>>
        /\ UNCHANGED <<file, current_line, current_char>>
  BY DEF LexNumber
<1>2. /\ Len(file) \in Nat /\ at \in 0 .. Len(file)
      /\ file \in Seq(STRING)
      /\ end \in at + 1 .. Len(file)
  BY <1>1, BufferedPlace, NumberEnd DEF TypeOK
<1> HIDE DEF end
<1>3. number \in Seq(STRING)
  <2>1. at + 1 \in 1 .. Len(file) + 1 /\ end \in at .. Len(file)  BY <1>2
  <2> QED  BY <1>2, <2>1, SubSeqProperties
<1>4. t \in Tokens
  <2>1. "NONE" \in OperationTypes  BY DEF OperationTypes
  <2>2. NumberType(end) \in TokenTypes  BY DEF NumberType, TokenTypes
  <2> HIDE DEF number
  <2> QED  BY <1>3, <2>1, <2>2, TokenType
<1> HIDE DEF number, t
<1>5. tokens' \in Seq(Tokens) /\ messages' \in Nat /\ lexing_status' = "LEXING_SUCCESS"
  <2>1. tokens \in Seq(Tokens) /\ messages \in Nat /\ lexing_status = "LEXING_SUCCESS"
    BY DEF TypeOK, Tokens
  <2>2. CASE end < Len(file) /\ file[end + 1] = "."
    <3>1. UNCHANGED tokens /\ DropChunk  BY <1>1, <2>2
    <3> QED  BY <2>1, <3>1 DEF DropChunk
  <2>3. CASE ~ (end < Len(file) /\ file[end + 1] = ".")
    <3>1. AddToken(t) /\ UNCHANGED <<lexing_status, messages>>  BY <1>1, <2>3
    <3> QED  BY <1>4, <2>1, <3>1 DEF AddToken
  <2> QED  BY <2>2, <2>3
<1>6. /\ read' \in 0 .. Len(file)' /\ at' \in 0 .. read'
      /\ read' = Len(file)' \/ read' % ChunkSize = 0
  <2>1. end \in 0 .. Len(file)  BY <1>2
  <2>2. /\ ReadTo(end) \in end .. Len(file)
        /\ ReadTo(end) = Len(file) \/ ReadTo(end) % ChunkSize = 0
    BY <1>2, <2>1, ReadToProperties
  <2>3. (at' = end \/ at' = read') /\ file' = file /\ read' = ReadTo(end)
    BY <1>1
  <2> QED  BY <1>2, <2>1, <2>2, <2>3
<1>7. overrun' \in BOOLEAN /\ pc' \in {"lexing", "done", "aborted"}
  <2>1. overrun \in BOOLEAN  BY DEF TypeOK
  <2>2. \A n : NumberOverruns(n) \in BOOLEAN  BY DEF NumberOverruns
  <2>3. Writes(NumberOverruns(end - at)) \/ Writes(NumberOverruns(end - at + 1))
    BY <1>1
  <2> QED  BY <2>1, <2>2, <2>3 DEF Writes, TypeOK
<1> QED  BY <1>1, <1>5, <1>6, <1>7 DEF TypeOK, Tokens

(* What follows an invalid character in the buffer is left (lexer.c:373-377). *)
LEMMA TypeInvalid == ASSUME TypeOK, InvalidCharacter PROVE TypeOK'
<1>1. /\ at' = read /\ messages' = messages + 1 /\ lexing_status' = "LEXING_SUCCESS"
      /\ UNCHANGED <<file, read, tokens, current_line, current_char, overrun, pc>>
  BY DEF InvalidCharacter, DropChunk
<1>2. at' \in 0 .. read' /\ messages' \in Nat  BY <1>1 DEF TypeOK
<1> QED  BY <1>1, <1>2 DEF TypeOK

(* A chunk is read when the last one is consumed (lexer.c:400-403). *)
LEMMA TypeReadChunk == ASSUME LexerAssumption, TypeOK, ReadChunk PROVE TypeOK'
<1>1. /\ at = read /\ at \in 0 .. Len(file) /\ Len(file) \in Nat
      /\ UNCHANGED <<file, at, current_line, current_char, lexing_status, messages, overrun>>
  BY DEF ReadChunk, TypeOK
<1>2. CASE read < Len(file)
  <2>1. read' = ReadTo(at) /\ UNCHANGED <<tokens, pc>>  BY <1>2 DEF ReadChunk
  <2>2. /\ ReadTo(at) \in at .. Len(file)
        /\ ReadTo(at) = Len(file) \/ ReadTo(at) % ChunkSize = 0
    BY <1>1, ReadToProperties
  <2>3. /\ read' \in 0 .. Len(file)' /\ at' \in 0 .. read'
        /\ read' = Len(file)' \/ read' % ChunkSize = 0
    BY <1>1, <2>1, <2>2
  <2> QED  BY <1>1, <2>1, <2>3 DEF TypeOK
<1>3. CASE ~ (read < Len(file))
  <2>1. AddToken(Token("EOF", "NONE", <<>>)) /\ pc' = "done" /\ UNCHANGED read
    BY <1>3 DEF ReadChunk
  <2>2. <<>> \in Seq(STRING) /\ "NONE" \in OperationTypes /\ "EOF" \in TokenTypes
    BY DEF OperationTypes, TokenTypes
  <2>3. Token("EOF", "NONE", <<>>) \in Tokens  BY <2>2, TokenType
  <2>4. tokens' \in Seq(Tokens)
    <3>1. tokens \in Seq(Tokens)  BY DEF TypeOK, Tokens
    <3> QED  BY <2>1, <2>3, <3>1 DEF AddToken
  <2> QED  BY <1>1, <2>1, <2>4 DEF TypeOK, Tokens
<1> QED  BY <1>2, <1>3

(* Every step keeps the types and the bounds of the buffer. *)
LEMMA TypeStep == ASSUME LexerAssumption, TypeOK, [Next]_vars PROVE TypeOK'
<1>1. CASE UNCHANGED vars  BY <1>1 DEF TypeOK, vars
<1> QED
  BY <1>1, TypeReadChunk, TypeComparison, TypeOperator, TypePunctuation, TypeBlank,
     TypeString, TypeNumber, TypeInvalid
  DEF Next

(* The buffer is never read past what was read into it: reading_index is at *)
(* most end_index between any two steps, at most the file, and the buffer   *)
(* is full unless the file ends in it (lexer.c:34-39, 303-308).             *)
THEOREM LexerTypes == Spec => []TypeOK
<1>1. Init => TypeOK  BY TypeInit, LexerAssumption
<1>2. TypeOK /\ [Next]_vars => TypeOK'  BY TypeStep, LexerAssumption
<1> QED  BY <1>1, <1>2, PTL DEF Spec
----------------------------------------------------------------------------
(* There is a function that adds the lexemes one position after the other:  *)
(* the definition of Found by recursion defines it.                         *)
LEMMA FoundExists ==
  ASSUME NEW f, NEW n \in Nat
  PROVE  \E g : g = [p \in 0 .. n |-> IF p = 0 THEN <<>> ELSE AddLexeme(f, g[p - 1], p)]
<1> DEFINE Defines(g, k) ==
             g = [p \in 0 .. k |-> IF p = 0 THEN <<>> ELSE AddLexeme(f, g[p - 1], p)]
           T == {k \in Nat : ~ \E g : Defines(g, k)}
<1>1. SUFFICES ASSUME T # {} PROVE FALSE
  <2>1. n \notin T  BY <1>1
  <2> QED  BY <2>1
<1>2. PICK k \in T : \A m \in T : k <= m
  <2>1. T \subseteq Nat  OBVIOUS
  <2> HIDE DEF T
  <2> QED  BY <1>1, <2>1, LeastNatural
<1>3. k # 0
  <2>1. Defines([p \in 0 .. 0 |-> <<>>], 0)  OBVIOUS
  <2> QED  BY <2>1
<1>4. k - 1 \in Nat /\ k \in Nat /\ ~ (k <= k - 1)  BY <1>3
<1>5. PICK g : Defines(g, k - 1)  BY <1>2, <1>4
<1> DEFINE h == [p \in 0 .. k |-> IF p <= k - 1 THEN g[p] ELSE AddLexeme(f, g[k - 1], k)]
<1>6. ASSUME NEW p \in 0 .. k
      PROVE  h[p] = IF p = 0 THEN <<>> ELSE AddLexeme(f, h[p - 1], p)
  <2>1. CASE p = 0
    <3>1. g[0] = <<>>  BY <1>4, <1>5
    <3> QED  BY <1>4, <2>1, <3>1
  <2>2. CASE p # 0 /\ p <= k - 1
    <3>1. p \in 0 .. k - 1 /\ p - 1 \in 0 .. k /\ p - 1 <= k - 1  BY <1>4, <2>2
    <3>2. g[p] = AddLexeme(f, g[p - 1], p)  BY <1>5, <2>2, <3>1
    <3>3. h[p] = g[p] /\ h[p - 1] = g[p - 1]  BY <2>2, <3>1
    <3> QED  BY <2>2, <3>2, <3>3
  <2>3. CASE p # 0 /\ ~ (p <= k - 1)
    <3>1. p = k /\ k - 1 \in 0 .. k  BY <1>4, <2>3
    <3>2. h[k] = AddLexeme(f, g[k - 1], k)  BY <2>3, <3>1
    <3>3. h[k - 1] = g[k - 1]  BY <1>4, <3>1
    <3> QED  BY <2>3, <3>1, <3>2, <3>3
  <2> QED  BY <2>1, <2>2, <2>3
<1>7. Defines(h, k)
  <2> DEFINE d == [p \in 0 .. k |-> IF p = 0 THEN <<>> ELSE AddLexeme(f, h[p - 1], p)]
  <2>1. \A p \in 0 .. k : h[p] = d[p]  BY <1>6
  <2>2. h = d
    <3>1. h = [p \in 0 .. k |-> h[p]] /\ d = [p \in 0 .. k |-> d[p]]  OBVIOUS
    <3> HIDE DEF h, d
    <3> QED  BY <2>1, <3>1
  <2> QED  BY <2>2
<1> QED  BY <1>2, <1>4, <1>7

(* What is found at a position is what is found before it and the lexeme    *)
(* that starts there.                                                       *)
LEMMA FoundSteps ==
  ASSUME NEW f, Len(f) \in Nat
  PROVE  /\ Found(f)[0] = <<>>
         /\ \A p \in 1 .. Len(f) : Found(f)[p] = AddLexeme(f, Found(f)[p - 1], p)
<1> DEFINE n == Len(f)
           R == Found(f)
<1>1. R = [p \in 0 .. n |-> IF p = 0 THEN <<>> ELSE AddLexeme(f, R[p - 1], p)]
  <2>1. \E g : g = [p \in 0 .. n |-> IF p = 0 THEN <<>> ELSE AddLexeme(f, g[p - 1], p)]
    BY FoundExists
  <2>2. R = CHOOSE g : g = [p \in 0 .. n |-> IF p = 0 THEN <<>> ELSE AddLexeme(f, g[p - 1], p)]
    BY Zenon DEF Found
  <2> HIDE DEF n, R
  <2> QED  BY <2>1, <2>2, Zenon
<1> HIDE DEF R
<1>2. R[0] = <<>>
  <2>1. 0 \in 0 .. n  OBVIOUS
  <2> QED  BY <1>1, <2>1
<1>3. ASSUME NEW p \in 1 .. n PROVE R[p] = AddLexeme(f, R[p - 1], p)
  <2>1. p \in 0 .. n /\ p # 0  OBVIOUS
  <2> QED  BY <1>1, <2>1
<1> QED  BY <1>2, <1>3 DEF R

(* A match that exists has a longest one. *)
LEMMA LongestProperties ==
  ASSUME NEW f \in Seq(STRING), NEW p \in 1 .. Len(f), Ends(f, p) # {}
  PROVE  /\ Longest(f, p) \in Ends(f, p)
         /\ Longest(f, p) \in p .. Len(f)
         /\ IsLexeme(SubSeq(f, p, Longest(f, p)))
         /\ \A e \in Ends(f, p) : e <= Longest(f, p)
<1>1. Ends(f, p) \subseteq Nat /\ \A e \in Ends(f, p) : e <= Len(f)
  BY DEF Ends
<1>2. PICK m \in Ends(f, p) : \A e \in Ends(f, p) : e <= m
  BY <1>1, GreatestNatural
<1>3. \A e \in Ends(f, p) : m >= e
  BY <1>1, <1>2
<1>4. Longest(f, p) \in Ends(f, p) /\ \A e \in Ends(f, p) : Longest(f, p) >= e
  BY <1>3 DEF Longest, Max
<1>5. \A e \in Ends(f, p) : e <= Longest(f, p)
  BY <1>1, <1>4
<1> QED  BY <1>4, <1>5 DEF Ends

(* What the lexemes of a file are. *)
LexemeRecords == [start : Nat, end : Nat, type : TokenTypes, operation : OperationTypes,
                  text : Seq(STRING)]

(* What a lexeme is classified as. *)
LEMMA ClassifyType ==
  ASSUME NEW s \in Seq(STRING), IsLexeme(s), NEW float, NEW before
  PROVE  /\ Classify(s, float, before).type \in TokenTypes
         /\ Classify(s, float, before).operation \in OperationTypes
         /\ Classify(s, float, before).text \in Seq(STRING)
<1>1. /\ {"IDENTIFIER", "FLOAT", "DOUBLE", "INT", "OPERATOR", "AFFECTATION"} \subseteq TokenTypes
      /\ {"NONE", "UNARY_MINUS"} \subseteq OperationTypes
      /\ <<>> \in Seq(STRING)
  BY DEF TokenTypes, OperationTypes
<1>2. CASE IsWord(s)
  <2>1. CASE s \in DOMAIN Keywords  BY <1>1, <1>2, <2>1, TableTypes DEF Classify
  <2>2. CASE s \notin DOMAIN Keywords  BY <1>1, <1>2, <2>2 DEF Classify
  <2> QED  BY <2>1, <2>2
<1>3. CASE ~ IsWord(s) /\ IsNumber(s)  BY <1>1, <1>3 DEF Classify
<1>4. CASE ~ IsWord(s) /\ ~ IsNumber(s) /\ Len(s) = 2
  <2>1. s[1] \in DOMAIN Long  BY <1>4 DEF IsLexeme
  <2> QED  BY <1>1, <1>4, <2>1, TableTypes DEF Classify
<1>5. CASE ~ IsWord(s) /\ ~ IsNumber(s) /\ Len(s) # 2
  <2>1. s[1] \in Symbols  BY <1>5 DEF IsLexeme
  <2>2. CASE s[1] = "="  BY <1>1, <1>5, <2>2 DEF Classify
  <2>3. CASE s[1] # "=" /\ s[1] = "-" /\ ~ EndsOperand(before)
    BY <1>1, <1>5, <2>3 DEF Classify
  <2>4. CASE s[1] # "=" /\ ~ (s[1] = "-" /\ ~ EndsOperand(before)) /\ s[1] \in DOMAIN Punctuation
    BY <1>1, <1>5, <2>4, TableTypes DEF Classify
  <2>5. CASE s[1] # "=" /\ ~ (s[1] = "-" /\ ~ EndsOperand(before)) /\ s[1] \notin DOMAIN Punctuation
    <3>1. s[1] \in DOMAIN Short \union DOMAIN Operators
      BY <2>1, <2>5, TableCharacters DEF Symbols
    <3>2. /\ s[1] \in DOMAIN Short => Short[s[1]] \in OperationTypes
          /\ s[1] \notin DOMAIN Short => Operators[s[1]] \in OperationTypes
      BY <3>1, TableTypes
    <3> QED  BY <1>1, <1>5, <2>5, <3>2 DEF Classify
  <2> QED  BY <2>2, <2>3, <2>4, <2>5
<1> QED  BY <1>2, <1>3, <1>4, <1>5

(* The lexeme at a position is a record, of the longest match there.        *)
LEMMA LexemeType ==
  ASSUME NEW f \in Seq(STRING), NEW p \in 1 .. Len(f), Ends(f, p) # {}, NEW found
  PROVE  /\ LexemeAt(f, found, p) \in LexemeRecords
         /\ LexemeAt(f, found, p).start = p
         /\ LexemeAt(f, found, p).end = Longest(f, p)
<1> DEFINE e == Longest(f, p)
           s == SubSeq(f, p, e)
<1>1. e \in p .. Len(f) /\ IsLexeme(s)  BY LongestProperties
<1>2. s \in Seq(STRING)
  <2> HIDE DEF e
  <2> QED  BY <1>1, SubSeqProperties
<1> HIDE DEF e, s
<1> DEFINE sort == Classify(s, e < Len(f) /\ f[e + 1] = "f", found)
<1>3. sort.type \in TokenTypes /\ sort.operation \in OperationTypes /\ sort.text \in Seq(STRING)
  BY <1>1, <1>2, ClassifyType
<1>4. LexemeAt(f, found, p) =
        [start |-> p, end |-> e, type |-> sort.type, operation |-> sort.operation, text |-> sort.text]
  BY Zenon DEF LexemeAt, e, s
<1> HIDE DEF sort
<1>5. p \in Nat /\ e \in Nat  BY <1>1
<1> QED  BY <1>3, <1>4, <1>5 DEF LexemeRecords, e

(* A position adds a lexeme or nothing. *)
LEMMA FoundNext ==
  ASSUME NEW f \in Seq(STRING), NEW p \in 1 .. Len(f)
  PROVE  LET F == Found(f) IN
         /\ (F[p - 1] # <<>> /\ Last(F[p - 1]).end >= p) \/ Ends(f, p) = {} => F[p] = F[p - 1]
         /\ ~ ((F[p - 1] # <<>> /\ Last(F[p - 1]).end >= p) \/ Ends(f, p) = {})
              => F[p] = Append(F[p - 1], LexemeAt(f, F[p - 1], p))
<1>1. Found(f)[p] = AddLexeme(f, Found(f)[p - 1], p)  BY FoundSteps
<1> QED  BY <1>1 DEF AddLexeme

(* Lexemes found are records. *)
LEMMA FoundType ==
  ASSUME NEW f \in Seq(STRING), NEW p \in 0 .. Len(f)
  PROVE  Found(f)[p] \in Seq(LexemeRecords)
<1> DEFINE T == {q \in 0 .. Len(f) : Found(f)[q] \notin Seq(LexemeRecords)}
<1>1. SUFFICES ASSUME T # {} PROVE FALSE
  <2>1. p \notin T  BY <1>1
  <2> QED  BY <2>1
<1>2. PICK q \in T : \A r \in T : q <= r
  <2>1. T \subseteq Nat  OBVIOUS
  <2> HIDE DEF T
  <2> QED  BY <1>1, <2>1, LeastNatural
<1>3. Found(f)[0] = <<>>  BY FoundSteps
<1>4. q # 0
  <2>1. Found(f)[0] \in Seq(LexemeRecords)  BY <1>3
  <2>2. Found(f)[q] \notin Seq(LexemeRecords)  BY <1>2
  <2> QED  BY <2>1, <2>2
<1>5. q \in 1 .. Len(f) /\ q - 1 \in 0 .. Len(f) /\ ~ (q <= q - 1)  BY <1>4
<1>6. Found(f)[q - 1] \in Seq(LexemeRecords)  BY <1>2, <1>5
<1>7. CASE Found(f)[q] = Found(f)[q - 1]  BY <1>2, <1>6, <1>7
<1>8. CASE Found(f)[q] # Found(f)[q - 1]
  <2>1. /\ Ends(f, q) # {}
        /\ Found(f)[q] = Append(Found(f)[q - 1], LexemeAt(f, Found(f)[q - 1], q))
    BY <1>5, <1>8, FoundNext
  <2>2. LexemeAt(f, Found(f)[q - 1], q) \in LexemeRecords  BY <1>5, <2>1, LexemeType
  <2>3. Found(f)[q] \in Seq(LexemeRecords)
    <3> DEFINE G == Found(f)[q - 1]
               x == LexemeAt(f, Found(f)[q - 1], q)
    <3>1. G \in Seq(LexemeRecords) /\ x \in LexemeRecords /\ Found(f)[q] = Append(G, x)
      BY <1>6, <2>1, <2>2
    <3> HIDE DEF G, x
    <3> QED  BY <3>1
  <2> QED  BY <1>2, <2>3
<1> QED  BY <1>7, <1>8

(* What was found stays. *)
LEMMA FoundGrows ==
  ASSUME NEW f \in Seq(STRING), NEW p \in 0 .. Len(f), NEW q \in p .. Len(f)
  PROVE  /\ Len(Found(f)[p]) <= Len(Found(f)[q])
         /\ \A m \in 1 .. Len(Found(f)[p]) : Found(f)[q][m] = Found(f)[p][m]
<1> DEFINE F == Found(f)
           Grows(r) == /\ Len(F[p]) <= Len(F[r])
                       /\ \A m \in 1 .. Len(F[p]) : F[r][m] = F[p][m]
           T == {r \in p .. Len(f) : ~ Grows(r)}
<1>1. SUFFICES ASSUME T # {} PROVE FALSE
  <2>1. q \notin T  BY <1>1
  <2> HIDE DEF Grows
  <2>2. Grows(q)  BY <2>1
  <2> QED  BY <2>2 DEF Grows
<1>2. PICK r \in T : \A k \in T : r <= k
  <2>1. T \subseteq Nat  OBVIOUS
  <2> HIDE DEF T
  <2> QED  BY <1>1, <2>1, LeastNatural
<1> HIDE DEF F
<1>3. \A k \in 0 .. Len(f) : F[k] \in Seq(LexemeRecords)  BY FoundType DEF F
<1>4. Len(F[p]) \in Nat  BY <1>3
<1>5. Grows(p)  BY <1>4
<1>6. r # p  BY <1>2, <1>5
<1> HIDE DEF Grows
<1>7. r \in 1 .. Len(f) /\ r - 1 \in p .. Len(f) /\ r - 1 \in 0 .. Len(f) /\ ~ (r <= r - 1)
  BY <1>2, <1>6
<1>8. Grows(r - 1)  BY <1>2, <1>7
<1>9. CASE F[r] = F[r - 1]
  <2>1. Grows(r)  BY <1>8, <1>9 DEF Grows
  <2> QED  BY <1>2, <2>1
<1>10. CASE F[r] # F[r - 1]
  <2> DEFINE G == F[r - 1]
             x == LexemeAt(f, F[r - 1], r)
  <2>1. Ends(f, r) # {} /\ F[r] = Append(G, x)
    BY <1>7, <1>10, FoundNext DEF F
  <2>2. G \in Seq(LexemeRecords) /\ x \in LexemeRecords
    BY <1>3, <1>7, <2>1, LexemeType
  <2>3. /\ Len(F[p]) <= Len(G)
        /\ \A m \in 1 .. Len(F[p]) : G[m] = F[p][m]
    BY <1>8 DEF Grows
  <2> HIDE DEF G, x
  <2>4. Len(F[r]) = Len(G) + 1 /\ Len(G) \in Nat /\ \A m \in 1 .. Len(G) : F[r][m] = G[m]
    BY <2>1, <2>2
  <2>5. ASSUME NEW m \in 1 .. Len(F[p]) PROVE F[r][m] = F[p][m]
    <3>1. m \in 1 .. Len(G)  BY <1>4, <2>3, <2>4
    <3> QED  BY <2>3, <2>4, <3>1
  <2>6. Grows(r)  BY <1>4, <2>3, <2>4, <2>5 DEF Grows
  <2> QED  BY <1>2, <2>6
<1> QED  BY <1>9, <1>10

(* No lexeme starts within another. *)
LEMMA FoundSkips ==
  ASSUME NEW f \in Seq(STRING), NEW p \in 0 .. Len(f), NEW q \in p .. Len(f),
         Found(f)[p] # <<>>, Last(Found(f)[p]).end >= q
  PROVE  Found(f)[q] = Found(f)[p]
<1> DEFINE F == Found(f)
           T == {r \in p .. q : F[r] # F[p]}
<1>1. SUFFICES ASSUME T # {} PROVE FALSE
  <2>1. q \notin T  BY <1>1
  <2> QED  BY <2>1
<1>2. PICK r \in T : \A k \in T : r <= k
  <2>1. T \subseteq Nat  OBVIOUS
  <2> HIDE DEF T
  <2> QED  BY <1>1, <2>1, LeastNatural
<1>3. r # p  BY <1>2
<1>4. /\ r \in 1 .. Len(f) /\ r - 1 \in p .. q /\ ~ (r <= r - 1) /\ r \in 0 .. q
  BY <1>2, <1>3
<1>5. F[r - 1] = F[p]  BY <1>2, <1>4
<1>6. Last(F[p]).end \in Nat
  <2>1. F[p] \in Seq(LexemeRecords)  BY FoundType
  <2> HIDE DEF F
  <2>2. F[p] # <<>>  BY DEF F
  <2>3. Len(F[p]) \in 1 .. Len(F[p])  BY <2>1, <2>2
  <2>4. Last(F[p]) \in LexemeRecords  BY <2>1, <2>3 DEF Last
  <2> QED  BY <2>4 DEF LexemeRecords
<1>7. Last(F[r - 1]).end >= r /\ F[r - 1] # <<>>  BY <1>4, <1>5, <1>6
<1>8. F[r] = F[r - 1]  BY <1>4, <1>7, FoundNext
<1> QED  BY <1>2, <1>5, <1>8

(* Every lexeme found at a position ends at or before it. *)
Aligned(f, p) == Found(f)[p] = <<>> \/ Last(Found(f)[p]).end <= p

(* ... or at the `=' behind it. *)
Ahead(f, p) ==
  \/ Aligned(f, p)
  \/ Last(Found(f)[p]).end = p + 1 /\ f[p + 1] = "="

(* The last lexeme found is a record. *)
LEMMA LastType ==
  ASSUME NEW f \in Seq(STRING), NEW p \in 0 .. Len(f), Found(f)[p] # <<>>
  PROVE  /\ Last(Found(f)[p]) \in LexemeRecords
         /\ Last(Found(f)[p]).end \in Nat
<1> DEFINE G == Found(f)[p]
<1>1. G \in Seq(LexemeRecords) /\ G # <<>>  BY FoundType
<1> HIDE DEF G
<1>2. Len(G) \in 1 .. Len(G)  BY <1>1
<1>3. Last(G) \in LexemeRecords  BY <1>1, <1>2 DEF Last
<1> QED  BY <1>3 DEF LexemeRecords, G

(* The lexeme at the position behind those already found is the next one,   *)
(* and nothing else is found to its end.                                    *)
LEMMA NextLexeme ==
  ASSUME NEW f \in Seq(STRING), NEW p \in 0 .. Len(f), p + 1 \in 1 .. Len(f),
         Aligned(f, p), Ends(f, p + 1) # {},
         NEW x, x = LexemeAt(f, Found(f)[p], p + 1),
         NEW e, e = Longest(f, p + 1)
  PROVE  /\ e \in p + 1 .. Len(f)
         /\ Found(f)[p + 1] = Append(Found(f)[p], x)
         /\ Found(f)[e] = Found(f)[p + 1]
         /\ x \in LexemeRecords /\ x.start = p + 1 /\ x.end = e
         /\ Last(Found(f)[p + 1]) = x
         /\ Found(f)[p + 1] # <<>>
         /\ Aligned(f, e)
         /\ Len(Found(f)[e]) = Len(Found(f)[p]) + 1
         /\ Len(Found(f)[e]) \in DOMAIN Lexemes(f)
         /\ Lexemes(f)[Len(Found(f)[e])] = x
<1> DEFINE F == Found(f)
<1>1. e \in p + 1 .. Len(f)  BY LongestProperties
<1>2. x \in LexemeRecords /\ x.start = p + 1 /\ x.end = e  BY LexemeType
<1>3. F[p + 1] = Append(F[p], x)
  <2>1. (p + 1) - 1 = p  OBVIOUS
  <2>2. ~ (F[p] # <<>> /\ Last(F[p]).end >= p + 1)
    <3>1. CASE F[p] = <<>>  BY <3>1
    <3>2. CASE F[p] # <<>>
      <4>1. Last(F[p]).end \in Nat /\ Last(F[p]).end <= p  BY <3>2, LastType DEF Aligned
      <4> QED  BY <4>1
    <3> QED  BY <3>1, <3>2
  <2> QED  BY <2>1, <2>2, FoundNext
<1> HIDE DEF F
<1>4. F[p] \in Seq(LexemeRecords)  BY FoundType DEF F
<1>5. Last(F[p + 1]) = x /\ F[p + 1] # <<>> /\ Len(F[p + 1]) = Len(F[p]) + 1 /\ Len(F[p]) \in Nat
  <2> DEFINE G == F[p]
             H == F[p + 1]
  <2>1. H = Append(G, x) /\ G \in Seq(LexemeRecords) /\ x \in LexemeRecords  BY <1>2, <1>3, <1>4
  <2> HIDE DEF G, H
  <2>2. Len(G) \in Nat /\ Len(H) = Len(G) + 1 /\ H \in Seq(LexemeRecords) /\ H[Len(G) + 1] = x
    BY <2>1, AppendProperties
  <2>3. H # <<>>  BY <2>2
  <2> QED  BY <2>2, <2>3 DEF Last, G, H
<1>6. F[e] = F[p + 1]
  <2>1. e \in Nat /\ p + 1 \in 0 .. Len(f) /\ e >= e  BY <1>1
  <2> QED  BY <1>1, <1>2, <1>5, <2>1, FoundSkips DEF F
<1>7. Aligned(f, e)
  <2>1. Last(F[e]).end <= e  BY <1>1, <1>2, <1>5, <1>6
  <2> QED  BY <2>1 DEF Aligned, F
<1>8. e \in 0 .. Len(f) /\ Len(f) \in e .. Len(f) /\ Len(f) \in 0 .. Len(f)  BY <1>1
<1>9. /\ Len(F[e]) <= Len(F[Len(f)])
      /\ \A m \in 1 .. Len(F[e]) : F[Len(f)][m] = F[e][m]
  BY <1>8, FoundGrows DEF F
<1>10. F[Len(f)] \in Seq(LexemeRecords)  BY <1>8, FoundType DEF F
<1>11. Len(F[e]) \in 1 .. Len(F[e]) /\ Len(F[e]) \in DOMAIN F[Len(f)]
  BY <1>5, <1>6, <1>9, <1>10
<1>12. F[Len(f)][Len(F[e])] = x
  BY <1>5, <1>6, <1>9, <1>11 DEF Last
<1>13. Lexemes(f) = F[Len(f)]  BY DEF Lexemes, F
<1>14. /\ Len(F[e]) = Len(F[p]) + 1
       /\ Len(F[e]) \in DOMAIN Lexemes(f)
       /\ Lexemes(f)[Len(F[e])] = x
  BY <1>5, <1>6, <1>11, <1>12, <1>13
<1> QED  BY <1>1, <1>2, <1>3, <1>5, <1>6, <1>7, <1>14 DEF F
----------------------------------------------------------------------------
(* A piece of the file. *)
LEMMA Piece ==
  ASSUME NEW f \in Seq(STRING), NEW p \in 1 .. Len(f), NEW e \in p .. Len(f)
  PROVE  /\ SubSeq(f, p, e) \in Seq(STRING)
         /\ Len(SubSeq(f, p, e)) = e - p + 1
         /\ SubSeq(f, p, e)[1] = f[p]
         /\ \A n \in 1 .. e - p + 1 : SubSeq(f, p, e)[n] = f[p + n - 1]
         /\ \A n \in p .. e : n - p + 1 \in 1 .. e - p + 1 /\ SubSeq(f, p, e)[n - p + 1] = f[n]
<1>1. /\ SubSeq(f, p, e) \in Seq(STRING)
      /\ Len(SubSeq(f, p, e)) = e - p + 1
      /\ \A n \in 1 .. e - p + 1 : SubSeq(f, p, e)[n] = f[p + n - 1]
  BY SubSeqProperties
<1> DEFINE s == SubSeq(f, p, e)
<1> HIDE DEF s
<1>2. 1 \in 1 .. e - p + 1 /\ p + 1 - 1 = p  OBVIOUS
<1>3. SubSeq(f, p, e)[1] = f[p]  BY <1>1, <1>2
<1>4. ASSUME NEW n \in p .. e
      PROVE  n - p + 1 \in 1 .. e - p + 1 /\ SubSeq(f, p, e)[n - p + 1] = f[n]
  <2>1. n - p + 1 \in 1 .. e - p + 1 /\ p + (n - p + 1) - 1 = n  OBVIOUS
  <2>2. SubSeq(f, p, e)[n - p + 1] = f[p + (n - p + 1) - 1]  BY <1>1, <2>1
  <2> QED  BY <2>1, <2>2
<1> QED  BY <1>1, <1>3, <1>4

(* The first character of a lexeme tells its sort. *)
LEMMA FirstCharacter ==
  ASSUME NEW s \in Seq(STRING), IsLexeme(s)
  PROVE  /\ s[1] \in Letters => IsWord(s)
         /\ s[1] \in Digits => IsNumber(s)
         /\ s[1] \in Symbols =>
              /\ ~ IsWord(s) /\ ~ IsNumber(s)
              /\ Len(s) = 1 \/ (Len(s) = 2 /\ s[1] \in DOMAIN Long /\ s[2] = "=")
         /\ s[1] \in Letters \union Digits \union Symbols
<1>1. IsWord(s) => s[1] \in Letters  BY DEF IsWord
<1>2. IsNumber(s) => s[1] \in Digits  BY DEF IsNumber
<1>3. DOMAIN Long \subseteq Symbols  BY DEF Symbols
<1> HIDE DEF IsWord, IsNumber
<1> QED  BY <1>1, <1>2, <1>3, CharacterSorts DEF IsLexeme

(* A blank starts no lexeme. *)
LEMMA BlankEnds ==
  ASSUME NEW f \in Seq(STRING), NEW p \in 1 .. Len(f), f[p] \in Blanks
  PROVE  Ends(f, p) = {}
<1>1. ASSUME NEW e \in Ends(f, p) PROVE FALSE
  <2>1. e \in p .. Len(f) /\ IsLexeme(SubSeq(f, p, e))  BY DEF Ends
  <2>2. SubSeq(f, p, e) \in Seq(STRING) /\ SubSeq(f, p, e)[1] = f[p]  BY <2>1, Piece
  <2>3. f[p] \in Letters \union Digits \union Symbols
    <3> DEFINE s == SubSeq(f, p, e)
    <3>1. s \in Seq(STRING) /\ IsLexeme(s) /\ s[1] = f[p]  BY <2>1, <2>2
    <3> HIDE DEF s
    <3> QED  BY <3>1, FirstCharacter
  <2> QED  BY <2>3, CharacterSorts
<1> QED  BY <1>1

(* A symbol is one, or two with an `=' behind it. *)
LEMMA SymbolEnds ==
  ASSUME NEW f \in Seq(STRING), NEW p \in 1 .. Len(f), f[p] \in Symbols
  PROVE  /\ p \in Ends(f, p)
         /\ \A e \in Ends(f, p) :
              e = p \/ (e = p + 1 /\ p + 1 \in 1 .. Len(f) /\ f[p] \in DOMAIN Long /\ f[p + 1] = "=")
         /\ p + 1 \in 1 .. Len(f) /\ f[p] \in DOMAIN Long /\ f[p + 1] = "=" => p + 1 \in Ends(f, p)
<1>1. p \in Ends(f, p)
  <2>1. p \in p .. Len(f) /\ p - p + 1 = 1  OBVIOUS
  <2>2. Len(SubSeq(f, p, p)) = 1 /\ SubSeq(f, p, p)[1] = f[p]  BY <2>1, Piece
  <2>3. IsLexeme(SubSeq(f, p, p))  BY <2>2 DEF IsLexeme
  <2> QED  BY <2>1, <2>3 DEF Ends
<1>2. ASSUME NEW e \in Ends(f, p)
      PROVE  e = p \/ (e = p + 1 /\ p + 1 \in 1 .. Len(f) /\ f[p] \in DOMAIN Long /\ f[p + 1] = "=")
  <2> DEFINE s == SubSeq(f, p, e)
  <2>1. e \in p .. Len(f) /\ IsLexeme(s)  BY DEF Ends
  <2>2. /\ s \in Seq(STRING) /\ s[1] = f[p] /\ Len(s) = e - p + 1
        /\ \A n \in 1 .. e - p + 1 : s[n] = f[p + n - 1]
    BY <2>1, Piece
  <2> HIDE DEF s
  <2>3. Len(s) = 1 \/ (Len(s) = 2 /\ s[1] \in DOMAIN Long /\ s[2] = "=")
    BY <2>1, <2>2, FirstCharacter
  <2>4. CASE Len(s) = 1
    <3>1. e - p + 1 = 1 /\ e \in p .. Len(f)  BY <2>1, <2>2, <2>4
    <3> QED  BY <3>1
  <2>5. CASE Len(s) = 2 /\ s[1] \in DOMAIN Long /\ s[2] = "="
    <3>1. e = p + 1
      <4>1. e - p + 1 = 2 /\ e \in p .. Len(f)  BY <2>1, <2>2, <2>5
      <4> QED  BY <4>1
    <3>2. 2 \in 1 .. e - p + 1 /\ p + 2 - 1 = p + 1 /\ p + 1 \in 1 .. Len(f)  BY <2>1, <3>1
    <3>3. s[2] = f[p + 1]  BY <2>2, <3>2
    <3> QED  BY <2>2, <2>5, <3>1, <3>2, <3>3
  <2> QED  BY <2>3, <2>4, <2>5
<1>3. ASSUME p + 1 \in 1 .. Len(f), f[p] \in DOMAIN Long, f[p + 1] = "="
      PROVE  p + 1 \in Ends(f, p)
  <2>1. /\ p + 1 \in p .. Len(f) /\ (p + 1) - p + 1 = 2 /\ 2 \in 1 .. 2 /\ p + 2 - 1 = p + 1
    BY <1>3
  <2> DEFINE s == SubSeq(f, p, p + 1)
  <2>2. /\ Len(s) = (p + 1) - p + 1 /\ s[1] = f[p]
        /\ \A n \in 1 .. (p + 1) - p + 1 : s[n] = f[p + n - 1]
    BY <2>1, Piece
  <2> HIDE DEF s
  <2>3. Len(s) = 2 /\ s[1] = f[p] /\ s[2] = f[p + 1]  BY <2>1, <2>2
  <2>4. IsLexeme(s)  BY <1>3, <2>3 DEF IsLexeme
  <2> QED  BY <2>1, <2>4 DEF Ends, s
<1> QED  BY <1>1, <1>2, <1>3

(* The longest word from a letter ends where its run does (lexer.c:129).    *)
LEMMA WordEnds ==
  ASSUME NEW f \in Seq(STRING), NEW p \in 1 .. Len(f), f[p] \in Letters,
         NEW e \in p .. Len(f),
         \A n \in p .. e : ~ StartsToken(f[n]) /\ f[n] # "\n",
         e = Len(f) \/ StartsToken(f[e + 1]) \/ f[e + 1] = "\n"
  PROVE  /\ Ends(f, p) # {} /\ Longest(f, p) = e
         /\ IsWord(SubSeq(f, p, e))
<1>1. IsWord(SubSeq(f, p, e))
  <2> DEFINE s == SubSeq(f, p, e)
  <2>1. /\ s \in Seq(STRING) /\ Len(s) = e - p + 1 /\ s[1] = f[p]
        /\ \A n \in 1 .. e - p + 1 : s[n] = f[p + n - 1]
    BY Piece
  <2> HIDE DEF s
  <2>2. ASSUME NEW n \in DOMAIN s PROVE ~ StartsToken(s[n]) /\ s[n] # "\n"
    <3>1. n \in 1 .. e - p + 1  BY <2>1
    <3>2. PICK m : m = p + n - 1  OBVIOUS
    <3>3. m \in p .. e  BY <3>1, <3>2
    <3>4. s[n] = f[m]  BY <2>1, <3>1, <3>2
    <3> QED  BY <3>3, <3>4
  <2> QED  BY <2>1, <2>2 DEF IsWord, s
<1>2. e \in Ends(f, p)  BY <1>1 DEF Ends, IsLexeme
<1>3. ASSUME NEW d \in Ends(f, p) PROVE d <= e
  <2> DEFINE s == SubSeq(f, p, d)
  <2>1. d \in p .. Len(f) /\ IsLexeme(s)  BY DEF Ends
  <2>2. /\ s \in Seq(STRING) /\ s[1] = f[p] /\ Len(s) = d - p + 1
        /\ \A n \in p .. d : n - p + 1 \in 1 .. d - p + 1 /\ s[n - p + 1] = f[n]
    BY <2>1, Piece
  <2> HIDE DEF s
  <2>3. IsWord(s)  BY <2>1, <2>2, FirstCharacter
  <2>4. ASSUME e + 1 <= d PROVE FALSE
    <3>1. e + 1 \in p .. d /\ e # Len(f)  BY <2>1, <2>4
    <3>2. (e + 1) - p + 1 \in DOMAIN s /\ s[(e + 1) - p + 1] = f[e + 1]  BY <2>2, <3>1
    <3>3. ~ StartsToken(f[e + 1]) /\ f[e + 1] # "\n"  BY <2>3, <3>2 DEF IsWord
    <3> QED  BY <3>1, <3>3
  <2> QED  BY <2>1, <2>4
<1>4. /\ Longest(f, p) \in Ends(f, p) /\ Longest(f, p) \in p .. Len(f)
      /\ \A d \in Ends(f, p) : d <= Longest(f, p)
  BY <1>2, LongestProperties
<1>5. Longest(f, p) <= e /\ e <= Longest(f, p) /\ Longest(f, p) \in Nat  BY <1>2, <1>3, <1>4
<1>6. Longest(f, p) = e  BY <1>5
<1> QED  BY <1>1, <1>2, <1>6

(* At most one character of a number is a dot when no two are. *)
LEMMA OneDot ==
  ASSUME NEW s \in Seq(STRING)
  PROVE  Cardinality({n \in DOMAIN s : s[n] = "."}) <= 1
           <=> \A n, m \in DOMAIN s : s[n] = "." /\ s[m] = "." => n = m
<1> DEFINE D == {n \in DOMAIN s : s[n] = "."}
<1>1. IsFiniteSet(D) /\ Cardinality(D) \in Nat
  <2>1. IsFiniteSet(1 .. Len(s))
    <3>1. Len(s) \in Nat  OBVIOUS
    <3> QED  BY <3>1, FS_Interval
  <2>2. D \subseteq 1 .. Len(s)  OBVIOUS
  <2> HIDE DEF D
  <2> QED  BY <2>1, <2>2, FS_Subset, FS_CardinalityType
<1>2. ASSUME Cardinality(D) <= 1, NEW n \in D, NEW m \in D, n # m PROVE FALSE
  <2>1. {n, m} \subseteq D  OBVIOUS
  <2>2. IsFiniteSet({n, m}) /\ Cardinality({n, m}) <= Cardinality(D)
    <3> HIDE DEF D
    <3> QED  BY <1>1, <2>1, FS_Subset
  <2>3. Cardinality({n}) = 1 /\ IsFiniteSet({n})  BY FS_Singleton
  <2>4. Cardinality({n} \union {m}) = Cardinality({n}) + 1
    <3>1. m \notin {n}  BY <1>2
    <3> QED  BY <2>3, <3>1, FS_AddElement
  <2>5. {n} \union {m} = {n, m}  OBVIOUS
  <2> HIDE DEF D
  <2>6. Cardinality({n, m}) = 2
    <3> DEFINE c == Cardinality({n})
               d == Cardinality({n, m})
    <3>1. c = 1 /\ d = c + 1  BY <2>3, <2>4, <2>5
    <3> HIDE DEF c, d
    <3>2. d = 2  BY <3>1
    <3> QED  BY <3>2 DEF d
  <2> QED  BY <1>1, <1>2, <2>2, <2>6
<1>3. ASSUME \A n, m \in D : n = m PROVE Cardinality(D) <= 1
  <2>1. CASE D = {}
    <3> HIDE DEF D
    <3> QED  BY <2>1, FS_EmptySet
  <2>2. CASE D # {}
    <3>1. PICK n \in D : TRUE  BY <2>2
    <3>2. D = {n}  BY <1>3, <3>1
    <3> HIDE DEF D
    <3>3. Cardinality({n}) = 1  BY FS_Singleton
    <3>4. Cardinality(D) = 1  BY <3>2, <3>3
    <3> QED  BY <3>4
  <2> QED  BY <2>1, <2>2
<1>4. CASE Cardinality(D) <= 1
  <2>1. \A n, m \in D : n = m  BY <1>2, <1>4
  <2> QED  BY <1>4, <2>1
<1>5. CASE ~ (Cardinality(D) <= 1)
  <2>1. ~ \A n, m \in D : n = m  BY <1>3, <1>5
  <2> QED  BY <1>5, <2>1
<1> QED  BY <1>4, <1>5

(* A digit or a first dot, of the number that starts at p. *)
OfNumber(f, p, n) ==
  f[n] \in Digits \/ (f[n] = "." /\ \A m \in p .. n - 1 : f[m] # ".")

(* A number is made of such characters. *)
LEMMA NumberCharacters ==
  ASSUME NEW f \in Seq(STRING), NEW p \in 1 .. Len(f), f[p] \in Digits, NEW e \in p .. Len(f)
  PROVE  IsNumber(SubSeq(f, p, e)) <=> \A n \in p .. e : OfNumber(f, p, n)
<1> DEFINE s == SubSeq(f, p, e)
<1>1. /\ s \in Seq(STRING) /\ Len(s) = e - p + 1 /\ s[1] = f[p]
      /\ \A n \in 1 .. e - p + 1 : s[n] = f[p + n - 1]
      /\ \A n \in p .. e : n - p + 1 \in 1 .. e - p + 1 /\ s[n - p + 1] = f[n]
  BY Piece
<1> HIDE DEF s
<1>2. DOMAIN s = 1 .. e - p + 1  BY <1>1
<1>3. IsNumber(s) <=> /\ \A n \in DOMAIN s : s[n] \in Digits \union {"."}
                      /\ \A n, m \in DOMAIN s : s[n] = "." /\ s[m] = "." => n = m
  <2>1. ToSet(s) \subseteq Digits \union {"."} <=> \A n \in DOMAIN s : s[n] \in Digits \union {"."}
    <3> DEFINE D == Digits \union {"."}
    <3> HIDE DEF D
    <3>1. ToSet(s) \subseteq D => \A n \in DOMAIN s : s[n] \in D  BY DEF ToSet
    <3>2. (\A n \in DOMAIN s : s[n] \in D) => ToSet(s) \subseteq D  BY DEF ToSet
    <3> QED  BY <3>1, <3>2 DEF D
  <2> QED  BY <1>1, <2>1, OneDot DEF IsNumber
<1>4. ASSUME IsNumber(s), NEW n \in p .. e PROVE OfNumber(f, p, n)
  <2>1. n - p + 1 \in DOMAIN s /\ s[n - p + 1] = f[n]  BY <1>1, <1>2
  <2>2. f[n] \in Digits \union {"."}  BY <1>3, <1>4, <2>1
  <2>3. ASSUME f[n] = ".", NEW m \in p .. n - 1, f[m] = "." PROVE FALSE
    <3>1. m \in p .. e /\ m # n /\ m \in Nat /\ n \in Nat  OBVIOUS
    <3>2. m - p + 1 \in DOMAIN s /\ s[m - p + 1] = f[m]  BY <1>1, <1>2, <3>1
    <3>3. \A i, j \in DOMAIN s : s[i] = "." /\ s[j] = "." => i = j  BY <1>3, <1>4
    <3>4. m - p + 1 = n - p + 1
      <4> DEFINE i == m - p + 1
                 j == n - p + 1
      <4>1. i \in DOMAIN s /\ j \in DOMAIN s /\ s[i] = "." /\ s[j] = "."  BY <2>1, <2>3, <3>2
      <4> HIDE DEF i, j
      <4>2. i = j  BY <3>3, <4>1
      <4> QED  BY <4>2 DEF i, j
    <3> QED  BY <3>1, <3>4
  <2> QED  BY <2>2, <2>3 DEF OfNumber
<1>5. ASSUME \A n \in p .. e : OfNumber(f, p, n) PROVE IsNumber(s)
  <2>1. ASSUME NEW n \in DOMAIN s
        PROVE  /\ s[n] = f[p + n - 1] /\ p + n - 1 \in p .. e
               /\ OfNumber(f, p, p + n - 1)
    <3>1. n \in 1 .. e - p + 1  BY <1>2
    <3>2. p + n - 1 \in p .. e  BY <3>1
    <3> QED  BY <1>1, <1>5, <3>1, <3>2
  <2>2. \A n \in DOMAIN s : s[n] \in Digits \union {"."}  BY <2>1 DEF OfNumber
  <2>3. ASSUME NEW n \in DOMAIN s, NEW m \in DOMAIN s, s[n] = ".", s[m] = ".", m < n PROVE FALSE
    <3>1. f[p + n - 1] = "." /\ f[p + m - 1] = "."  BY <2>1, <2>3
    <3>2. "." \notin Digits  BY CharacterSorts
    <3>3. \A k \in p .. (p + n - 1) - 1 : f[k] # "."  BY <2>1, <3>1, <3>2 DEF OfNumber
    <3>4. p + m - 1 \in p .. (p + n - 1) - 1
      <4>1. n \in 1 .. e - p + 1 /\ m \in 1 .. e - p + 1  BY <1>2
      <4> QED  BY <2>3, <4>1
    <3> QED  BY <3>1, <3>3, <3>4
  <2>4. ASSUME NEW n \in DOMAIN s, NEW m \in DOMAIN s, s[n] = ".", s[m] = "." PROVE n = m
    <3>1. n \in Nat /\ m \in Nat  BY <1>2
    <3>2. ~ (m < n) /\ ~ (n < m)  BY <2>3, <2>4
    <3> QED  BY <3>1, <3>2
  <2> QED  BY <1>3, <2>2, <2>4
<1> QED  BY <1>4, <1>5 DEF s

(* The longest number from a digit ends where its run does (lexer.c:74-90). *)
LEMMA NumberEnds ==
  ASSUME NEW f \in Seq(STRING), NEW p \in 1 .. Len(f), f[p] \in Digits,
         NEW e \in p .. Len(f),
         \A n \in p .. e : OfNumber(f, p, n),
         e = Len(f) \/ ~ OfNumber(f, p, e + 1)
  PROVE  /\ Ends(f, p) # {} /\ Longest(f, p) = e
         /\ IsNumber(SubSeq(f, p, e)) /\ ~ IsWord(SubSeq(f, p, e))
<1>1. IsNumber(SubSeq(f, p, e))  BY NumberCharacters
<1>2. e \in Ends(f, p)  BY <1>1 DEF Ends, IsLexeme
<1>3. ASSUME NEW d \in Ends(f, p) PROVE d <= e
  <2>1. d \in p .. Len(f) /\ IsLexeme(SubSeq(f, p, d))  BY DEF Ends
  <2>2. IsNumber(SubSeq(f, p, d))
    <3>1. SubSeq(f, p, d) \in Seq(STRING) /\ SubSeq(f, p, d)[1] = f[p]  BY <2>1, Piece
    <3> QED  BY <2>1, <3>1, FirstCharacter
  <2>3. \A n \in p .. d : OfNumber(f, p, n)  BY <2>1, <2>2, NumberCharacters
  <2>4. ASSUME e + 1 <= d PROVE FALSE
    <3>1. e + 1 \in p .. d /\ e # Len(f)  BY <2>1, <2>4
    <3> QED  BY <2>3, <3>1
  <2> QED  BY <2>1, <2>4
<1>4. /\ Longest(f, p) \in Ends(f, p) /\ Longest(f, p) \in p .. Len(f)
      /\ \A d \in Ends(f, p) : d <= Longest(f, p)
  BY <1>2, LongestProperties
<1>5. Longest(f, p) <= e /\ e <= Longest(f, p) /\ Longest(f, p) \in Nat  BY <1>2, <1>3, <1>4
<1>6. Longest(f, p) = e  BY <1>5
<1>7. ~ IsWord(SubSeq(f, p, e))
  <2>1. SubSeq(f, p, e)[1] = f[p]  BY Piece
  <2> QED  BY <2>1, CharacterSorts DEF IsWord
<1> QED  BY <1>1, <1>2, <1>6, <1>7
----------------------------------------------------------------------------
(* No lexeme ends behind a blank, a letter or a digit that is not in it.    *)
LEMMA NotAhead ==
  ASSUME NEW f \in Seq(STRING), NEW p \in 0 .. Len(f), Ahead(f, p), f[p + 1] # "="
  PROVE  Aligned(f, p)
BY DEF Ahead

(* A blank leaves the lexemes found as they are. *)
LEMMA AlignedBlank ==
  ASSUME NEW f \in Seq(STRING), NEW p \in 0 .. Len(f), p + 1 \in 1 .. Len(f),
         f[p + 1] \in Blanks, Aligned(f, p)
  PROVE  Found(f)[p + 1] = Found(f)[p] /\ Aligned(f, p + 1)
<1>1. Found(f)[p + 1] = Found(f)[p]
  <2>1. (p + 1) - 1 = p  OBVIOUS
  <2>2. Ends(f, p + 1) = {}  BY BlankEnds
  <2> QED  BY <2>1, <2>2, FoundNext
<1>2. CASE Found(f)[p] = <<>>  BY <1>1, <1>2 DEF Aligned
<1>3. CASE Found(f)[p] # <<>>
  <2>1. Last(Found(f)[p]).end \in Nat /\ Last(Found(f)[p]).end <= p
    BY <1>3, LastType DEF Aligned
  <2>2. Last(Found(f)[p]).end <= p + 1  BY <2>1
  <2> QED  BY <1>1, <2>2 DEF Aligned
<1> QED  BY <1>1, <1>2, <1>3

(* Behind a symbol, however it was cut, the lexemes end there or at the     *)
(* next `='.                                                                *)
LEMMA AheadSymbol ==
  ASSUME NEW f \in Seq(STRING), NEW p \in 0 .. Len(f), p + 1 \in 1 .. Len(f),
         f[p + 1] \in Symbols, Ahead(f, p)
  PROVE  Ahead(f, p + 1)
<1>1. CASE Aligned(f, p)
  <2> DEFINE e == Longest(f, p + 1)
  <2>1. Ends(f, p + 1) # {}  BY SymbolEnds
  <2>2. e \in Ends(f, p + 1)  BY <2>1, LongestProperties
  <2>3. /\ Last(Found(f)[p + 1]).end = e
        /\ Found(f)[p + 1] # <<>>
    <3> DEFINE x == LexemeAt(f, Found(f)[p], p + 1)
    <3>1. x.end = e /\ Last(Found(f)[p + 1]) = x /\ Found(f)[p + 1] # <<>>
      BY <1>1, <2>1, NextLexeme
    <3> QED  BY <3>1
  <2> HIDE DEF e
  <2>4. e = p + 1 \/ (e = (p + 1) + 1 /\ f[(p + 1) + 1] = "=")  BY <2>2, SymbolEnds
  <2>5. p + 1 <= p + 1  OBVIOUS
  <2> QED  BY <2>3, <2>4, <2>5 DEF Ahead, Aligned
<1>2. CASE Last(Found(f)[p]).end = p + 1 /\ Found(f)[p] # <<>>
  <2>1. p + 1 >= p + 1 /\ (p + 1) - 1 = p /\ p + 1 <= p + 1  OBVIOUS
  <2>2. Found(f)[p + 1] = Found(f)[p]  BY <1>2, <2>1, FoundNext
  <2> QED  BY <1>2, <2>1, <2>2 DEF Ahead, Aligned
<1> QED  BY <1>1, <1>2 DEF Ahead, Aligned

----------------------------------------------------------------------------
(* The ends of line are counted and the last one is the line's start.       *)
LEMMA NewlinesFinite ==
  ASSUME NEW n \in Nat
  PROVE  /\ IsFiniteSet(Newlines(n)) /\ Cardinality(Newlines(n)) \in Nat
         /\ LineStart(n) \in 0 .. n
         /\ Newlines(n) \subseteq 0 .. LineStart(n)
<1> DEFINE N == Newlines(n)
<1>1. N \subseteq 1 .. n  BY DEF Newlines
<1>2. IsFiniteSet(N) /\ Cardinality(N) \in Nat
  <2> HIDE DEF N
  <2>1. IsFiniteSet(1 .. n)  BY FS_Interval
  <2> QED  BY <1>1, <2>1, FS_Subset, FS_CardinalityType
<1> HIDE DEF N
<1>3. \E m \in {0} \union N : N \subseteq 0 .. m
  <2> DEFINE T == {0} \union N
  <2>1. T \subseteq Nat /\ T # {} /\ \A k \in T : k <= n  BY <1>1
  <2> HIDE DEF T
  <2>2. PICK m \in T : \A k \in T : k <= m  BY <2>1, GreatestNatural
  <2>3. N \subseteq 0 .. m  BY <1>1, <2>1, <2>2 DEF T
  <2> QED  BY <2>2, <2>3 DEF T
<1>4. LineStart(n) \in {0} \union N /\ N \subseteq 0 .. LineStart(n)
  BY <1>3 DEF LineStart, N
<1>5. LineStart(n) \in 0 .. n
  <2> DEFINE l == LineStart(n)
  <2>1. l \in {0} \union N  BY <1>4
  <2> HIDE DEF l
  <2>2. l = 0 \/ l \in 1 .. n  BY ONLY <1>1, <2>1
  <2>3. l \in 0 .. n  BY <2>2
  <2> QED  BY <2>3 DEF l
<1> QED  BY <1>2, <1>4, <1>5 DEF N

(* What is no end of line changes neither. *)
LEMMA SameLine ==
  ASSUME NEW n \in Nat, NEW k \in Nat, n <= k, \A m \in n + 1 .. k : file[m] # "\n"
  PROVE  Newlines(k) = Newlines(n) /\ LineStart(k) = LineStart(n)
<1>1. ASSUME NEW m \in Newlines(k) PROVE m \in Newlines(n)
  <2>1. m \in 1 .. k /\ file[m] = "\n"  BY DEF Newlines
  <2>2. m \notin n + 1 .. k  BY <2>1
  <2>3. m \in 1 .. n  BY <2>1, <2>2
  <2> QED  BY <2>1, <2>3 DEF Newlines
<1>2. Newlines(n) \subseteq Newlines(k)  BY DEF Newlines
<1>3. Newlines(k) = Newlines(n)  BY <1>1, <1>2
<1> QED  BY <1>3 DEF LineStart

(* An end of line begins a line. *)
LEMMA NextLine ==
  ASSUME NEW n \in Nat, file[n + 1] = "\n"
  PROVE  /\ Cardinality(Newlines(n + 1)) = Cardinality(Newlines(n)) + 1
         /\ LineStart(n + 1) = n + 1
<1>1. Newlines(n + 1) = Newlines(n) \union {n + 1}
  <2>1. n + 1 \in Newlines(n + 1)  BY DEF Newlines
  <2>2. Newlines(n) \subseteq Newlines(n + 1)  BY DEF Newlines
  <2>3. ASSUME NEW m \in Newlines(n + 1), m # n + 1 PROVE m \in Newlines(n)
    <3>1. m \in 1 .. n + 1 /\ file[m] = "\n"  BY DEF Newlines
    <3>2. m \in 1 .. n  BY <2>3, <3>1
    <3> QED  BY <3>1, <3>2 DEF Newlines
  <2> QED  BY <2>1, <2>2, <2>3
<1>2. n + 1 \notin Newlines(n)
  <2>1. n + 1 \notin 1 .. n  OBVIOUS
  <2> QED  BY <2>1 DEF Newlines
<1>3. Cardinality(Newlines(n) \union {n + 1}) = Cardinality(Newlines(n)) + 1
  <2> DEFINE N == Newlines(n)
  <2>1. IsFiniteSet(N) /\ n + 1 \notin N  BY <1>2, NewlinesFinite
  <2> HIDE DEF N
  <2>2. Cardinality(N \union {n + 1}) = Cardinality(N) + 1  BY <2>1, FS_AddElement
  <2> QED  BY <2>2 DEF N
<1>4. LineStart(n + 1) = n + 1
  <2>1. LineStart(n + 1) \in 0 .. n + 1 /\ Newlines(n + 1) \subseteq 0 .. LineStart(n + 1)
    BY NewlinesFinite
  <2>2. n + 1 \in 0 .. LineStart(n + 1)  BY <1>1, <2>1
  <2> QED  BY <2>1, <2>2
<1> QED  BY <1>1, <1>3, <1>4

(* The sizes of the buffer of a word are a function of what is written      *)
(* (lexer.c:124-144).                                                       *)
LEMMA SizeExists ==
  ASSUME NEW len \in Nat, NEW m \in 0 .. len
  PROVE  \E g : g = [n \in 0 .. m |->
                      IF n = 0 THEN WordBuffer
                      ELSE IF n < len THEN Grown(g[n - 1], n) ELSE g[n - 1]]
<1> DEFINE next(size, n) == IF n < len THEN Grown(size, n) ELSE size
           Defines(g, k) == g = [n \in 0 .. k |-> IF n = 0 THEN WordBuffer ELSE next(g[n - 1], n)]
           T == {k \in 0 .. len : ~ \E g : Defines(g, k)}
<1>1. SUFFICES ASSUME T # {} PROVE FALSE
  <2>1. m \notin T  BY <1>1
  <2>2. \E g : Defines(g, m)  BY <2>1
  <2> QED  BY <2>2
<1> HIDE DEF next
<1>2. PICK k \in T : \A j \in T : k <= j
  <2>1. T \subseteq Nat  OBVIOUS
  <2> HIDE DEF T
  <2> QED  BY <1>1, <2>1, LeastNatural
<1>3. k # 0
  <2>1. Defines([n \in 0 .. 0 |-> WordBuffer], 0)  OBVIOUS
  <2> QED  BY <2>1
<1>4. k - 1 \in 0 .. len /\ k \in Nat /\ ~ (k <= k - 1)  BY <1>3
<1>5. PICK g : Defines(g, k - 1)  BY <1>2, <1>4
<1> DEFINE h == [n \in 0 .. k |-> IF n <= k - 1 THEN g[n] ELSE next(g[k - 1], k)]
<1>6. ASSUME NEW n \in 0 .. k
      PROVE  h[n] = IF n = 0 THEN WordBuffer ELSE next(h[n - 1], n)
  <2>1. CASE n = 0
    <3>1. g[0] = WordBuffer  BY <1>4, <1>5
    <3> QED  BY <1>4, <2>1, <3>1
  <2>2. CASE n # 0 /\ n <= k - 1
    <3>1. n \in 0 .. k - 1 /\ n - 1 \in 0 .. k /\ n - 1 <= k - 1  BY <1>4, <2>2
    <3>2. g[n] = next(g[n - 1], n)  BY <1>5, <2>2, <3>1
    <3>3. h[n] = g[n] /\ h[n - 1] = g[n - 1]  BY <2>2, <3>1
    <3> QED  BY <2>2, <3>2, <3>3
  <2>3. CASE n # 0 /\ ~ (n <= k - 1)
    <3>1. n = k /\ k - 1 \in 0 .. k  BY <1>4, <2>3
    <3>2. h[k] = next(g[k - 1], k)  BY <2>3, <3>1
    <3>3. h[k - 1] = g[k - 1]  BY <1>4, <3>1
    <3> QED  BY <2>3, <3>1, <3>2, <3>3
  <2> QED  BY <2>1, <2>2, <2>3
<1>7. Defines(h, k)
  <2> DEFINE d == [n \in 0 .. k |-> IF n = 0 THEN WordBuffer ELSE next(h[n - 1], n)]
  <2>1. \A n \in 0 .. k : h[n] = d[n]  BY <1>6
  <2>2. h = d
    <3>1. h = [n \in 0 .. k |-> h[n]] /\ d = [n \in 0 .. k |-> d[n]]  OBVIOUS
    <3> HIDE DEF h, d
    <3> QED  BY <2>1, <3>1
  <2> QED  BY <2>2
<1> QED  BY <1>2, <1>7

(* The buffer of a word is doubled one character late, which is harmless    *)
(* for a word shorter than its first size.                                  *)
LEMMA ShortWordFits ==
  ASSUME LexerAssumption, NEW len \in Nat, WordOverruns(len)
  PROVE  len >= WordBuffer
<1> DEFINE Defines(g) == g = [n \in 0 .. len |->
                                IF n = 0 THEN WordBuffer
                                ELSE IF n < len THEN Grown(g[n - 1], n) ELSE g[n - 1]]
           size == CHOOSE g : Defines(g)
<1>1. \E n \in 0 .. len : n >= size[n]
  BY Zenon DEF WordOverruns
<1>2. Defines(size)
  <2>1. len \in 0 .. len  OBVIOUS
  <2>2. \E g : Defines(g)  BY <2>1, SizeExists
  <2> QED  BY <2>2, Zenon
<1> HIDE DEF size
<1>3. SUFFICES ASSUME len < WordBuffer PROVE FALSE
  BY DEF LexerAssumption
<1>4. WordBuffer \in Nat  BY DEF LexerAssumption
<1> DEFINE T == {n \in 0 .. len : size[n] # WordBuffer}
<1>5. T = {}
  <2>1. SUFFICES ASSUME T # {} PROVE FALSE  OBVIOUS
  <2>2. PICK k \in T : \A j \in T : k <= j
    <3>1. T \subseteq Nat  OBVIOUS
    <3> HIDE DEF T
    <3> QED  BY <2>1, <3>1, LeastNatural
  <2>3. k # 0
    <3>1. 0 \in 0 .. len  OBVIOUS
    <3>2. size[0] = WordBuffer  BY <1>2, <3>1
    <3> QED  BY <2>2, <3>2
  <2>4. k \in 0 .. len /\ k - 1 \in 0 .. len /\ ~ (k <= k - 1) /\ ~ (k > WordBuffer)
    BY <1>3, <1>4, <2>2, <2>3
  <2>5. size[k - 1] = WordBuffer  BY <2>2, <2>4
  <2>6. size[k] = IF k < len THEN Grown(size[k - 1], k) ELSE size[k - 1]
    BY <1>2, <2>3, <2>4
  <2>7. size[k] = WordBuffer  BY <2>4, <2>5, <2>6 DEF Grown
  <2> QED  BY <2>2, <2>7
<1>6. PICK n \in 0 .. len : n >= size[n]  BY <1>1
<1>7. size[n] = WordBuffer  BY <1>5
<1> QED  BY <1>3, <1>4, <1>6, <1>7
----------------------------------------------------------------------------
(* The invariant.  As long as no character was rejected: the lexemes found  *)
(* in what is lexed end with it (or at the second half of an operator that  *)
(* a chunk's end cut), and a text that was written past a buffer is in the  *)
(* file.  If, besides, no operator is cut, the tokens are these lexemes, at *)
(* their places, and the next token's place is known: current_char is exact *)
(* unless a number was on the line.                                         *)
Right(n) ==
  /\ Sort(Lexed[n]) = Sort(Expected[n])
  /\ Lexed[n].line = Cardinality(Newlines(Expected[n].start - 1))
  /\ AfterNumber(n) \/ Lexed[n].character = Column(n)

(* The tokens are the lexemes found, at their places. *)
Exact ==
  /\ Aligned(file, at)
  /\ Len(Lexed) = Len(Found(file)[at])
  /\ \A n \in 1 .. Len(Lexed) : Right(n)

(* A number is among the lexemes of the line. *)
NumberBefore ==
  \E m \in 1 .. Len(Found(file)[at]) : IsNum(Expected[m]) /\ Expected[m].start > LineStart(at)

(* Where the next token is told to be. *)
Place ==
  /\ current_line = Cardinality(Newlines(at))
  /\ current_char = at - LineStart(at) \/ NumberBefore

(* A text its buffer has no room for. *)
TooLong(x) == Len(x.text) >= IF IsNum(x) THEN NumberBuffer ELSE WordBuffer

(* All of it. *)
LexInv ==
  /\ TypeOK
  /\ file \in Files
  /\ pc = "done" => at = Len(file) /\ tokens # <<>> /\ Last(tokens).type = "EOF"
  /\ pc = "aborted" => overrun
  /\ messages = 0 => Ahead(file, at)
  /\ messages = 0 /\ overrun => \E x \in Range(Expected) : TooLong(x)
  /\ messages = 0 /\ ~ Split => Exact /\ Place

(* What is found is the beginning of what is expected. *)
LEMMA ExpectedIs ==
  ASSUME TypeOK, file \in Files, NEW p \in 0 .. Len(file)
  PROVE  /\ Expected = Lexemes(file)
         /\ Expected \in Seq(LexemeRecords)
         /\ Found(file)[p] \in Seq(LexemeRecords)
         /\ Len(Found(file)[p]) <= Len(Expected)
         /\ \A m \in 1 .. Len(Found(file)[p]) : Expected[m] = Found(file)[p][m]
<1>1. file \in Seq(STRING)  BY DEF TypeOK
<1>2. Expected = Lexemes(file)  BY DEF Expected, ExpectedOf
<1>3. Len(file) \in 0 .. Len(file) /\ Len(file) \in p .. Len(file)  BY <1>1
<1>4. Found(file)[p] \in Seq(LexemeRecords) /\ Found(file)[Len(file)] \in Seq(LexemeRecords)
  BY <1>1, <1>3, FoundType
<1>5. /\ Len(Found(file)[p]) <= Len(Found(file)[Len(file)])
      /\ \A m \in 1 .. Len(Found(file)[p]) : Found(file)[Len(file)][m] = Found(file)[p][m]
  BY <1>1, <1>3, FoundGrows
<1> QED  BY <1>2, <1>4, <1>5 DEF Lexemes

(* A step that leaves the file leaves what is expected of it. *)
LEMMA SameFile ==
  ASSUME file' = file
  PROVE  /\ Expected' = Expected
         /\ Split' = Split
         /\ \A n : /\ Newlines(n)' = Newlines(n)
                   /\ LineStart(n)' = LineStart(n)
                   /\ AfterNumber(n)' = AfterNumber(n)
                   /\ Column(n)' = Column(n)
<1>1. Expected' = Expected  BY DEF Expected
<1>2. Split' = Split  BY <1>1 DEF Split
<1>3. ASSUME NEW n PROVE Newlines(n)' = Newlines(n)  BY DEF Newlines
<1>4. ASSUME NEW n PROVE LineStart(n)' = LineStart(n)  BY DEF LineStart, Newlines
<1>5. ASSUME NEW n PROVE AfterNumber(n)' = AfterNumber(n)
  BY <1>1 DEF AfterNumber, LineStart, Newlines
<1>6. ASSUME NEW n PROVE Column(n)' = Column(n)
  BY <1>1 DEF Column, LineStart, Newlines
<1> QED  BY <1>1, <1>2, <1>3, <1>4, <1>5, <1>6

(* A token of the next lexeme keeps the tokens right. *)
LEMMA TokenAdded ==
  ASSUME LexInv, pc = "lexing", pc' # "done", file' = file, Exact, Place,
         NEW t \in Tokens, AddToken(t), t.line = current_line, t.character = current_char,
         at + 1 \in 1 .. Len(file), Ends(file, at + 1) # {},
         NEW x, x = LexemeAt(file, Found(file)[at], at + 1), Sort(t) = Sort(x),
         NEW e, e = Longest(file, at + 1), at' = e,
         \A m \in at + 1 .. e : file[m] # "\n",
         current_line' = current_line,
         current_char' = current_char + (e - at) \/ IsNum(x)
  PROVE  Exact' /\ Place'
<1> DEFINE F == Found(file)
<1>0. PICK n : n = Len(F[at]) + 1  OBVIOUS
<1>1. /\ file \in Seq(STRING) /\ at \in 0 .. Len(file) /\ at \in Nat /\ tokens \in Seq(Tokens)
      /\ TypeOK /\ file \in Files
  BY DEF LexInv, TypeOK, Tokens
<1>2. /\ e \in at + 1 .. Len(file)
      /\ x.start = at + 1
      /\ Aligned(file, e)
      /\ Len(F[e]) = n
      /\ n \in DOMAIN Lexemes(file)
      /\ Lexemes(file)[n] = x
  BY <1>0, <1>1, NextLexeme DEF Exact
<1>3. Expected = Lexemes(file) /\ Len(F[at]) \in Nat  BY <1>1, ExpectedIs
<1>4. Expected[n] = x /\ n \in DOMAIN Expected  BY <1>2, <1>3
<1> HIDE DEF F
<1>5. Lexed = tokens /\ Lexed' = tokens' /\ tokens' = Append(tokens, t)
  BY DEF Lexed, AddToken
<1>6. Len(tokens) = Len(F[at]) /\ \A k \in 1 .. Len(tokens) : Right(k)
  BY <1>5 DEF Exact, F
<1>7. /\ Len(tokens') = n /\ tokens'[n] = t
      /\ \A k \in 1 .. Len(tokens) : tokens'[k] = tokens[k]
  BY <1>0, <1>1, <1>5, <1>6, AppendProperties
<1>8. /\ Newlines(at + 1) = Newlines(at) /\ LineStart(at + 1) = LineStart(at)
      /\ Newlines(e) = Newlines(at) /\ LineStart(e) = LineStart(at)
  <2>1. at + 1 \in Nat /\ e \in Nat /\ at <= at + 1 /\ at <= e /\ at + 1 \in at + 1 .. e
    BY <1>1, <1>2
  <2>2. \A m \in at + 1 .. at + 1 : file[m] # "\n"  BY <1>1, <2>1
  <2> QED  BY <1>1, <2>1, <2>2, SameLine
<1>9. (at + 1) - 1 = at /\ LineStart(at) \in 0 .. at  BY <1>1, NewlinesFinite
<1>10. /\ t.line = Cardinality(Newlines(Expected[n].start - 1))
       /\ AfterNumber(n) \/ t.character = Column(n)
  <2>1. Expected[n].start = at + 1  BY <1>2, <1>4
  <2>2. Column(n) = at - LineStart(at)  BY <1>9, <2>1 DEF Column
  <2>3. NumberBefore => AfterNumber(n)
    <3>1. n - 1 = Len(F[at])  BY <1>0, <1>3
    <3> QED  BY <1>8, <2>1, <3>1 DEF AfterNumber, NumberBefore, F
  <2>4. t.line = Cardinality(Newlines(at))  BY DEF Place
  <2> QED  BY <1>9, <2>1, <2>2, <2>3, <2>4 DEF Place
<1>11. Right(n)'
  <2>1. Lexed'[n] = t /\ Expected' = Expected  BY <1>5, <1>7, SameFile
  <2>2. Sort(Lexed'[n]) = Sort(Expected'[n])  BY <1>4, <2>1
  <2>3. ASSUME NEW p, p = Expected'[n].start - 1
        PROVE  Lexed'[n].line = Cardinality(Newlines(p)')
    <3>1. Newlines(p)' = Newlines(p)  BY SameFile
    <3>2. p = Expected[n].start - 1  BY <2>1, <2>3
    <3> QED  BY <1>10, <2>1, <3>1, <3>2
  <2>4. AfterNumber(n)' \/ Lexed'[n].character = Column(n)'
    <3>1. AfterNumber(n)' = AfterNumber(n) /\ Column(n)' = Column(n)  BY SameFile
    <3> QED  BY <1>10, <2>1, <3>1
  <2> QED  BY <2>1, <2>2, <2>3, <2>4 DEF Right, Sort
<1>12. ASSUME NEW k \in 1 .. Len(tokens) PROVE Right(k)'
  <2>1. Right(k) /\ Lexed'[k] = Lexed[k] /\ Expected' = Expected  BY <1>5, <1>6, <1>7, SameFile
  <2>2. Sort(Lexed'[k]) = Sort(Expected'[k])  BY <2>1 DEF Right
  <2>3. /\ \A p : p = Expected'[k].start - 1 => Lexed'[k].line = Cardinality(Newlines(p)')
        /\ AfterNumber(k)' \/ Lexed'[k].character = Column(k)'
    BY <2>1, SameFile DEF Right
  <2> QED  BY <2>1, <2>2, <2>3 DEF Right, Sort
<1>13. Exact'
  <2>1. Aligned(file, at)' /\ Len(Lexed') = Len(Found(file')[at'])
    BY <1>2, <1>5, <1>7 DEF Aligned, F
  <2>2. \A k \in 1 .. Len(Lexed') : Right(k)'
    <3>1. \A k \in 1 .. n : k = n \/ k \in 1 .. Len(tokens)  BY <1>0, <1>3, <1>6
    <3>2. Len(Lexed') = n  BY <1>5, <1>7
    <3> QED  BY <1>11, <1>12, <3>1, <3>2
  <2> QED  BY <2>1, <2>2 DEF Exact
<1>14. Place'
  <2>1. at' = e /\ current_line' = Cardinality(Newlines(e)')
    <3>1. Newlines(e)' = Newlines(e)  BY SameFile
    <3> QED  BY <1>8, <3>1 DEF Place
  <2>2. LineStart(e)' = LineStart(at)
    <3>1. LineStart(e)' = LineStart(e)  BY SameFile
    <3> QED  BY <1>8, <3>1
  <2>3. CASE IsNum(x)
    <3>1. n \in 1 .. Len(F[e]) /\ x.start > LineStart(at)  BY <1>0, <1>2, <1>3, <1>9
    <3>2. Expected'[n] = x /\ Expected'[n].start > LineStart(e)' /\ IsNum(Expected'[n])
      BY <1>4, <2>2, <2>3, <3>1, SameFile
    <3>3. \E m \in 1 .. Len(Found(file')[e]) : IsNum(Expected'[m]) /\ Expected'[m].start > LineStart(e)'
      BY <3>1, <3>2 DEF F
    <3> QED  BY <2>1, <3>3 DEF Place, NumberBefore, IsNum
  <2>4. CASE ~ IsNum(x) /\ NumberBefore
    <3>1. PICK m \in 1 .. Len(F[at]) : IsNum(Expected[m]) /\ Expected[m].start > LineStart(at)
      BY <2>4 DEF NumberBefore, F
    <3>2. m \in 1 .. Len(F[e])  BY <1>0, <1>2, <1>3
    <3>3. \E k \in 1 .. Len(Found(file')[e]) : IsNum(Expected'[k]) /\ Expected'[k].start > LineStart(e)'
      BY <2>2, <3>1, <3>2, SameFile DEF F
    <3> QED  BY <2>1, <3>3 DEF Place, NumberBefore, IsNum
  <2>5. CASE ~ IsNum(x) /\ ~ NumberBefore
    <3>1. current_char = at - LineStart(at)  BY <2>5 DEF Place
    <3>2. current_char' = e - LineStart(at)  BY <1>1, <1>2, <1>9, <2>5, <3>1
    <3>3. current_char' = e - LineStart(e)'  BY <2>2, <3>2
    <3> QED  BY <2>1, <3>3 DEF Place
  <2> QED  BY <2>3, <2>4, <2>5
<1> QED  BY <1>13, <1>14
----------------------------------------------------------------------------
(* The longest match from a symbol (lexer.c:242). *)
LEMMA SymbolLongest ==
  ASSUME NEW f \in Seq(STRING), NEW p \in 1 .. Len(f), f[p] \in Symbols
  PROVE  /\ Ends(f, p) # {}
         /\ p + 1 \in 1 .. Len(f) /\ f[p] \in DOMAIN Long /\ f[p + 1] = "=" => Longest(f, p) = p + 1
         /\ ~ (p + 1 \in 1 .. Len(f) /\ f[p] \in DOMAIN Long /\ f[p + 1] = "=") => Longest(f, p) = p
<1> DEFINE e == Longest(f, p)
           two == p + 1 \in 1 .. Len(f) /\ f[p] \in DOMAIN Long /\ f[p + 1] = "="
<1>1. Ends(f, p) # {}  BY SymbolEnds
<1>2. e \in Ends(f, p) /\ e \in p .. Len(f) /\ \A d \in Ends(f, p) : d <= e
  BY <1>1, LongestProperties
<1>3. (e = p \/ (e = p + 1 /\ two)) /\ (two => p + 1 \in Ends(f, p))
  BY <1>2, SymbolEnds
<1> HIDE DEF e, two
<1>4. two => e = p + 1
  <2>1. SUFFICES ASSUME two PROVE e = p + 1  OBVIOUS
  <2>2. p + 1 <= e  BY <1>2, <1>3, <2>1
  <2> QED  BY <1>2, <1>3, <2>2
<1>5. ~ two => e = p  BY <1>3
<1> QED  BY <1>1, <1>4, <1>5 DEF e, two

(* What is told of a lexeme. *)
LEMMA SortOf ==
  ASSUME NEW f, NEW p, NEW found,
         NEW c, c = Classify(SubSeq(f, p, Longest(f, p)),
                             Longest(f, p) < Len(f) /\ f[Longest(f, p) + 1] = "f", found)
  PROVE  Sort(LexemeAt(f, found, p)) = [type |-> c.type, operation |-> c.operation, text |-> c.text]
<1>1. LexemeAt(f, found, p) =
        [start |-> p, end |-> Longest(f, p),
         type |-> c.type, operation |-> c.operation, text |-> c.text]
  BY Zenon DEF LexemeAt
<1> QED  BY <1>1 DEF Sort

(* The sort of each symbol (lexer.c:235-277, 309-353, token.c:77-105). *)
LEMMA SymbolSort ==
  ASSUME NEW f \in Seq(STRING), NEW p \in 1 .. Len(f), f[p] \in Symbols, NEW found,
         NEW e, e = Longest(f, p),
         NEW r, r = Sort(LexemeAt(f, found, p))
  PROVE  /\ e = p + 1 => r = [type |-> "OPERATOR", operation |-> Long[f[p]], text |-> <<>>]
         /\ e = p /\ f[p] = "=" => r = [type |-> "AFFECTATION", operation |-> "NONE", text |-> <<>>]
         /\ e = p /\ f[p] = "-" /\ ~ EndsOperand(found)
              => r = [type |-> "OPERATOR", operation |-> "UNARY_MINUS", text |-> <<>>]
         /\ e = p /\ f[p] \in DOMAIN Punctuation
              => r = [type |-> Punctuation[f[p]], operation |-> "NONE", text |-> <<>>]
         /\ e = p /\ f[p] \in DOMAIN Short
              => r = [type |-> "OPERATOR", operation |-> Short[f[p]], text |-> <<>>]
         /\ e = p /\ f[p] \in DOMAIN Operators /\ ~ (f[p] = "-" /\ ~ EndsOperand(found))
              => r = [type |-> "OPERATOR", operation |-> Operators[f[p]], text |-> <<>>]
<1> DEFINE s == SubSeq(f, p, e)
           float == e < Len(f) /\ f[e + 1] = "f"
<1>1. e \in p .. Len(f) /\ IsLexeme(s)  BY SymbolLongest, LongestProperties
<1>2. s \in Seq(STRING) /\ s[1] = f[p] /\ Len(s) = e - p + 1  BY <1>1, Piece
<1>3. ~ IsWord(s) /\ ~ IsNumber(s)
  <2> HIDE DEF s
  <2> QED  BY <1>1, <1>2, FirstCharacter
<1>4. PICK c : c = Classify(s, float, found)  OBVIOUS
<1>5. r = [type |-> c.type, operation |-> c.operation, text |-> c.text]  BY <1>4, SortOf
<1> HIDE DEF s, float
<1>6. e = p + 1 => Len(s) = 2  BY <1>2
<1>7. e = p => Len(s) = 1  BY <1>2
<1>8. ASSUME e = p + 1
      PROVE  c = [type |-> "OPERATOR", operation |-> Long[f[p]], text |-> <<>>]
  BY <1>2, <1>3, <1>4, <1>6, <1>8 DEF Classify
<1>9. ASSUME e = p
      PROVE  c = IF f[p] = "=" THEN [type |-> "AFFECTATION", operation |-> "NONE", text |-> <<>>]
                 ELSE IF f[p] = "-" /\ ~ EndsOperand(found)
                 THEN [type |-> "OPERATOR", operation |-> "UNARY_MINUS", text |-> <<>>]
                 ELSE IF f[p] \in DOMAIN Punctuation
                 THEN [type |-> Punctuation[f[p]], operation |-> "NONE", text |-> <<>>]
                 ELSE [type |-> "OPERATOR",
                       operation |-> IF f[p] \in DOMAIN Short THEN Short[f[p]] ELSE Operators[f[p]],
                       text |-> <<>>]
  <2>1. Len(s) = 1 /\ Len(s) # 2  BY <1>7, <1>9
  <2> QED  BY <1>2, <1>3, <1>4, <2>1, Zenon DEF Classify
<1>10. /\ "=" \notin DOMAIN Punctuation \union DOMAIN Short \union DOMAIN Operators
       /\ "-" \notin DOMAIN Punctuation \union DOMAIN Short /\ "-" # "="
       /\ \A k \in DOMAIN Punctuation : k \notin DOMAIN Short \union DOMAIN Operators
       /\ \A k \in DOMAIN Short : k \notin DOMAIN Operators
  BY TableCharacters
<1>11. c = [type |-> c.type, operation |-> c.operation, text |-> c.text] => r = c  BY <1>5
<1>12. CASE e = p + 1
  <2>1. p + 1 # p  OBVIOUS
  <2>2. r = c  BY <1>8, <1>11, <1>12
  <2> QED  BY <1>8, <1>12, <2>1, <2>2
<1>13. CASE e = p
  <2>1. p + 1 # p  OBVIOUS
  <2>2. r = c  BY <1>9, <1>11, <1>13
  <2> QED  BY <1>9, <1>10, <1>13, <2>1, <2>2
<1> QED  BY <1>12, <1>13

(* The sort of a lone `=' (lexer.c:263). *)
LEMMA EqualSort ==
  ASSUME NEW f \in Seq(STRING), NEW p \in 1 .. Len(f), NEW found, f[p] = "=", Longest(f, p) = p
  PROVE  Sort(LexemeAt(f, found, p)) = [type |-> "AFFECTATION", operation |-> "NONE", text |-> <<>>]
<1>1. f[p] \in Symbols  BY TableCharacters DEF Symbols
<1> QED  BY <1>1, SymbolSort

(* That of a minus no operand is before (lexer.c:198-212). *)
LEMMA UnarySort ==
  ASSUME NEW f \in Seq(STRING), NEW p \in 1 .. Len(f), NEW found, f[p] = "-", Longest(f, p) = p,
         ~ EndsOperand(found)
  PROVE  Sort(LexemeAt(f, found, p))
           = [type |-> "OPERATOR", operation |-> "UNARY_MINUS", text |-> <<>>]
<1>1. f[p] \in Symbols  BY DEF Symbols, Operators
<1> QED  BY <1>1, SymbolSort

(* And that of any other operator of one character. *)
LEMMA OperatorSort ==
  ASSUME NEW f \in Seq(STRING), NEW p \in 1 .. Len(f), NEW found,
         f[p] \in DOMAIN Operators, Longest(f, p) = p, ~ (f[p] = "-" /\ ~ EndsOperand(found))
  PROVE  Sort(LexemeAt(f, found, p))
           = [type |-> "OPERATOR", operation |-> Operators[f[p]], text |-> <<>>]
<1>1. f[p] \in Symbols  BY DEF Symbols
<1> QED  BY <1>1, SymbolSort

(* Whether the minus is unary is the same for the tokens as for the lexemes *)
(* (token.c:108-110, lexer.c:198-212).                                      *)
LEMMA UnaryAgrees ==
  ASSUME LexInv, pc = "lexing", Exact
  PROVE  (tokens = <<>> \/ InvolveUnaryMinus(Last(tokens))) <=> ~ EndsOperand(Found(file)[at])
<1> DEFINE G == Found(file)[at]
<1>1. /\ at \in 0 .. Len(file) /\ tokens \in Seq(Tokens) /\ TypeOK /\ file \in Files
  BY DEF LexInv, TypeOK, Tokens
<1>2. G \in Seq(LexemeRecords) /\ \A m \in 1 .. Len(G) : Expected[m] = G[m]
  BY <1>1, ExpectedIs
<1>3. Len(tokens) = Len(G) /\ \A m \in 1 .. Len(tokens) : Sort(tokens[m]) = Sort(Expected[m])
  BY DEF Exact, Right, Lexed
<1> HIDE DEF G
<1>4. CASE tokens = <<>>
  <2>1. Len(tokens) = 0  BY <1>4
  <2>2. G = <<>>
    <3>1. G \in Seq(LexemeRecords) /\ Len(G) = 0  BY <1>2, <1>3, <2>1
    <3> QED  BY <3>1, EmptySeq
  <2> QED  BY <1>4, <2>2 DEF EndsOperand, G
<1>5. CASE tokens # <<>>
  <2>1. Len(tokens) \in 1 .. Len(tokens)  BY <1>1, <1>5
  <2>2. G # <<>>  BY <1>2, <1>3, <2>1
  <2>3. Last(tokens).type = Last(G).type
    <3>1. Sort(tokens[Len(tokens)]) = Sort(G[Len(tokens)])  BY <1>2, <1>3, <2>1
    <3>2. tokens[Len(tokens)].type = G[Len(G)].type  BY <1>3, <3>1 DEF Sort
    <3> QED  BY <3>2 DEF Last
  <2> QED  BY <1>5, <2>2, <2>3 DEF EndsOperand, InvolveUnaryMinus, IsNum, G
<1> QED  BY <1>4, <1>5
----------------------------------------------------------------------------
(* A step within the buffer keeps the invariant if it keeps its last parts. *)
LEMMA InvFromParts ==
  ASSUME LexInv, TypeOK', UNCHANGED <<file, messages, overrun, pc>>, pc = "lexing",
         messages = 0 => Ahead(file, at)',
         messages = 0 /\ ~ Split => Exact' /\ Place'
  PROVE  LexInv'
<1>1. Expected' = Expected /\ Split' = Split  BY SameFile
<1>2. messages' = 0 /\ overrun' => \E x \in Range(Expected') : TooLong(x)'
  BY <1>1 DEF LexInv, TooLong, IsNum
<1> QED  BY <1>1, <1>2 DEF LexInv

(* A token of a symbol keeps the invariant, when it is the longest match    *)
(* unless the end of a chunk cut that.                                      *)
LEMMA SymbolAdded ==
  ASSUME LexInv, pc = "lexing", TypeOK', NEW n \in {1, 2},
         UNCHANGED <<file, read, current_line, lexing_status, messages, overrun, pc>>,
         NEW t \in Tokens, AddToken(t), t.line = current_line, t.character = current_char,
         AdvanceN(n), at + n \in 1 .. Len(file),
         file[at + 1] \in Symbols, n = 2 => file[at + 2] = "=",
         messages = 0 /\ ~ Split =>
           /\ Longest(file, at + 1) = at + n
           /\ Sort(t) = Sort(LexemeAt(file, Found(file)[at], at + 1))
  PROVE  LexInv'
<1>1. /\ file \in Seq(STRING) /\ at \in 0 .. Len(file) /\ at \in Nat /\ Len(file) \in Nat
      /\ current_char \in Nat
  BY DEF LexInv, TypeOK
<1>2. at + 1 \in 1 .. Len(file) /\ at + 1 \in 0 .. Len(file)  BY <1>1
<1>3. messages = 0 => Ahead(file, at)'
  <2>1. SUFFICES ASSUME messages = 0 PROVE Ahead(file, at)'  OBVIOUS
  <2>2. Ahead(file, at + 1)  BY <1>1, <1>2, <2>1, AheadSymbol DEF LexInv
  <2>3. CASE n = 1
    <3>1. at' = at + 1  BY <2>3 DEF AdvanceN
    <3> QED  BY <2>2, <3>1 DEF Ahead, Aligned
  <2>4. CASE n = 2
    <3>1. at' = (at + 1) + 1 /\ (at + 1) + 1 \in 1 .. Len(file) /\ file[(at + 1) + 1] = "="
      BY <1>1, <2>4 DEF AdvanceN
    <3>2. "=" \in Symbols  BY TableCharacters DEF Symbols
    <3>3. Ahead(file, (at + 1) + 1)  BY <1>1, <1>2, <2>2, <3>1, <3>2, AheadSymbol
    <3> QED  BY <3>1, <3>3 DEF Ahead, Aligned
  <2> QED  BY <2>3, <2>4
<1>4. messages = 0 /\ ~ Split => Exact' /\ Place'
  <2>1. SUFFICES ASSUME messages = 0, ~ Split PROVE Exact' /\ Place'  OBVIOUS
  <2>2. Exact /\ Place  BY <2>1 DEF LexInv
  <2>3. PICK x : x = LexemeAt(file, Found(file)[at], at + 1)  OBVIOUS
  <2>4. PICK e : e = Longest(file, at + 1)  OBVIOUS
  <2>5. e = at + n /\ Sort(t) = Sort(x)  BY <2>1, <2>3, <2>4
  <2>6. Ends(file, at + 1) # {}  BY <1>1, <1>2, SymbolLongest
  <2>7. at' = e /\ current_char' = current_char + (e - at) /\ current_line' = current_line
    BY <1>1, <2>5 DEF AdvanceN
  <2>8. \A m \in at + 1 .. e : file[m] # "\n"
    <3>1. file[at + 1] # "\n"  BY CharacterSorts DEF Blanks
    <3>2. n = 2 => file[at + 2] # "\n"  OBVIOUS
    <3>3. \A m \in at + 1 .. e : m = at + 1 \/ (n = 2 /\ m = at + 2)  BY <1>1, <2>5
    <3> QED  BY <3>1, <3>2, <3>3
  <2>9. pc' # "done" /\ file' = file  OBVIOUS
  <2> QED  BY <1>2, <2>2, <2>3, <2>4, <2>5, <2>6, <2>7, <2>8, <2>9, TokenAdded
<1> QED  BY <1>3, <1>4, InvFromParts

(* A token holds what it is made of, where the lexer is. *)
LEMMA TokenFields ==
  ASSUME NEW a, NEW o, NEW x
  PROVE  /\ Token(a, o, x).line = current_line /\ Token(a, o, x).character = current_char
         /\ Sort(Token(a, o, x)) = [type |-> a, operation |-> o, text |-> x]
BY DEF Token, Sort

(* An operator of two characters is cut only by the end of a chunk.         *)
LEMMA CutSplits ==
  ASSUME LexInv, Exact, at + 1 \in 1 .. Len(file), at + 2 \in 1 .. Len(file),
         file[at + 1] \in DOMAIN Long, file[at + 2] = "=", at + 1 = read
  PROVE  Split
<1>1. /\ file \in Seq(STRING) /\ at \in 0 .. Len(file) /\ TypeOK /\ file \in Files
      /\ read \in Nat /\ (read = Len(file) \/ read % ChunkSize = 0)
  BY DEF LexInv, TypeOK
<1>2. read % ChunkSize = 0  BY <1>1
<1>3. file[at + 1] \in Symbols  BY DEF Symbols
<1>4. (at + 1) + 1 \in 1 .. Len(file) /\ file[(at + 1) + 1] = "=" /\ (at + 1) + 1 = at + 2
  BY <1>1
<1>5. Ends(file, at + 1) # {} /\ Longest(file, at + 1) = (at + 1) + 1
  BY <1>1, <1>3, <1>4, SymbolLongest
<1>6. PICK x : x = LexemeAt(file, Found(file)[at], at + 1)  OBVIOUS
<1>7. PICK n : n = Len(Found(file)[at + 2])  OBVIOUS
<1>8. /\ n \in DOMAIN Lexemes(file) /\ Lexemes(file)[n] = x
      /\ x.start = at + 1 /\ x.end = (at + 1) + 1
  BY <1>1, <1>4, <1>5, <1>6, <1>7, NextLexeme DEF Exact
<1>9. Sort(x).type = "OPERATOR"
  <2>1. Sort(x) = [type |-> "OPERATOR", operation |-> Long[file[at + 1]], text |-> <<>>]
    BY <1>1, <1>3, <1>5, <1>6, SymbolSort
  <2> QED  BY <2>1
<1>10. Expected = Lexemes(file)  BY <1>1, ExpectedIs
<1>11. x \in Range(Expected)  BY <1>8, <1>10 DEF Range
<1>12. x.type = "OPERATOR"  BY <1>9 DEF Sort
<1>13. x.end = x.start + 1 /\ x.start % ChunkSize = 0  BY <1>2, <1>8
<1> QED  BY <1>11, <1>12, <1>13 DEF Split, Splits

(* Two characters are one token unless the end of a chunk cut them. *)
LEMMA InvComparison == ASSUME LexerAssumption, LexInv, LexComparison PROVE LexInv'
<1>1. PICK c \in DOMAIN Long :
        /\ Buffered(c)
        /\ IF at + 1 < read /\ file[at + 2] = "="
             THEN AddToken(Op(Long[c])) /\ AdvanceN(2)
             ELSE /\ AddToken(IF c = "=" THEN Token("AFFECTATION", "NONE", <<>>)
                              ELSE Op(Short[c]))
                  /\ AdvanceN(1)
        /\ UNCHANGED <<file, read, current_line, lexing_status, messages, overrun, pc>>
  BY DEF LexComparison
<1>2. TypeOK /\ TypeOK'  BY TypeComparison DEF LexInv
<1>3. /\ Len(file) \in Nat /\ at \in 0 .. Len(file) /\ at + 1 \in 1 .. Len(file)
      /\ at \in Nat /\ read \in 0 .. Len(file) /\ at + 1 <= read
      /\ c = file[at + 1] /\ file \in Seq(STRING)
  BY <1>1, <1>2, BufferedPlace DEF TypeOK
<1>4. pc = "lexing"  BY <1>1 DEF Buffered
<1>5. c \in Symbols  BY DEF Symbols
<1>6. {"OPERATOR", "AFFECTATION"} \subseteq TokenTypes /\ "NONE" \in OperationTypes
  BY DEF TokenTypes, OperationTypes
<1>7. <<>> \in Seq(STRING)  OBVIOUS
<1>8. CASE at + 1 < read /\ file[at + 2] = "="
  <2>1. PICK t : t = Op(Long[c])  OBVIOUS
  <2>2. t \in Tokens  BY <1>2, <1>6, <1>7, <2>1, TokenType, TableTypes DEF Op
  <2>3. AddToken(t) /\ AdvanceN(2)  BY <1>1, <1>8, <2>1
  <2>4. at + 2 \in 1 .. Len(file) /\ (at + 1) + 1 = at + 2  BY <1>3, <1>8
  <2>5. Longest(file, at + 1) = at + 2  BY <1>3, <1>5, <1>8, <2>4, SymbolLongest
  <2>6. Sort(t) = Sort(LexemeAt(file, Found(file)[at], at + 1))
    <3>1. Sort(LexemeAt(file, Found(file)[at], at + 1))
            = [type |-> "OPERATOR", operation |-> Long[file[at + 1]], text |-> <<>>]
      BY <1>3, <1>5, <2>4, <2>5, SymbolSort
    <3> QED  BY <1>3, <2>1, <3>1, TokenFields DEF Op
  <2>7. t.line = current_line /\ t.character = current_char  BY <2>1, TokenFields DEF Op
  <2> QED  BY <1>1, <1>2, <1>3, <1>4, <1>5, <1>8, <2>2, <2>3, <2>4, <2>5, <2>6, <2>7, SymbolAdded
<1>9. CASE ~ (at + 1 < read /\ file[at + 2] = "=")
  <2>1. PICK t : t = IF c = "=" THEN Token("AFFECTATION", "NONE", <<>>) ELSE Op(Short[c])  OBVIOUS
  <2>2. c # "=" => c \in DOMAIN Short  BY TableCharacters
  <2>3. t \in Tokens
    <3>1. CASE c = "="  BY <1>2, <1>6, <1>7, <2>1, <3>1, TokenType
    <3>2. CASE c # "="  BY <1>2, <1>6, <1>7, <2>1, <2>2, <3>2, TokenType, TableTypes DEF Op
    <3> QED  BY <3>1, <3>2
  <2>4. AddToken(t) /\ AdvanceN(1)  BY <1>1, <1>9, <2>1
  <2>5. t.line = current_line /\ t.character = current_char
    <3>1. CASE c = "="  BY <2>1, <3>1, TokenFields
    <3>2. CASE c # "="  BY <2>1, <3>2, TokenFields DEF Op
    <3> QED  BY <3>1, <3>2
  <2>6. ASSUME messages = 0, ~ Split
        PROVE  /\ Longest(file, at + 1) = at + 1
               /\ Sort(t) = Sort(LexemeAt(file, Found(file)[at], at + 1))
    <3>1. Exact  BY <2>6 DEF LexInv
    <3>2. ~ ((at + 1) + 1 \in 1 .. Len(file) /\ file[at + 1] \in DOMAIN Long /\ file[(at + 1) + 1] = "=")
      <4>1. SUFFICES ASSUME (at + 1) + 1 \in 1 .. Len(file), file[(at + 1) + 1] = "=" PROVE FALSE
        OBVIOUS
      <4>2. at + 2 \in 1 .. Len(file) /\ file[at + 2] = "=" /\ at + 1 = read
        <5>1. (at + 1) + 1 = at + 2  BY <1>3
        <5>2. file[at + 2] = "="  BY <4>1, <5>1
        <5>3. ~ (at + 1 < read)  BY <1>9, <5>2
        <5>4. at + 1 = read  BY <1>3, <5>3
        <5> QED  BY <4>1, <5>1, <5>2, <5>4
      <4>3. file[at + 1] \in DOMAIN Long  BY <1>3
      <4> QED  BY <1>3, <2>6, <3>1, <4>2, <4>3, CutSplits
    <3>3. Longest(file, at + 1) = at + 1  BY <1>3, <1>5, <3>2, SymbolLongest
    <3>4. Sort(t) = Sort(LexemeAt(file, Found(file)[at], at + 1))
      <4>1. CASE c = "="
        <5>1. Sort(LexemeAt(file, Found(file)[at], at + 1))
                = [type |-> "AFFECTATION", operation |-> "NONE", text |-> <<>>]
          BY <1>3, <3>3, <4>1, EqualSort
        <5> QED  BY <2>1, <4>1, <5>1, TokenFields
      <4>2. CASE c # "="
        <5>1. Sort(LexemeAt(file, Found(file)[at], at + 1))
                = [type |-> "OPERATOR", operation |-> Short[file[at + 1]], text |-> <<>>]
          BY <1>3, <1>5, <2>2, <3>3, <4>2, SymbolSort
        <5> QED  BY <1>3, <2>1, <4>2, <5>1, TokenFields DEF Op
      <4> QED  BY <4>1, <4>2
    <3> QED  BY <3>3, <3>4
  <2> QED  BY <1>1, <1>2, <1>3, <1>4, <1>5, <2>3, <2>4, <2>5, <2>6, SymbolAdded
<1> QED  BY <1>8, <1>9

(* A minus is unary after what is lexed if it is after what is expected. *)
LEMMA InvOperator == ASSUME LexerAssumption, LexInv, LexOperator PROVE LexInv'
<1> DEFINE unary == tokens = <<>> \/ InvolveUnaryMinus(Last(tokens))
           op(c) == IF c = "-" /\ unary THEN "UNARY_MINUS" ELSE Operators[c]
<1>1. PICK c \in DOMAIN Operators :
        /\ Buffered(c)
        /\ AddToken(Op(op(c)))
        /\ AdvanceN(1)
        /\ UNCHANGED <<file, read, current_line, lexing_status, messages, overrun, pc>>
  BY DEF LexOperator
<1>2. TypeOK /\ TypeOK'  BY TypeOperator DEF LexInv
<1>3. /\ at \in 0 .. Len(file) /\ at + 1 \in 1 .. Len(file) /\ c = file[at + 1]
      /\ file \in Seq(STRING)
  BY <1>1, <1>2, BufferedPlace DEF TypeOK
<1>4. pc = "lexing"  BY <1>1 DEF Buffered
<1>5. c \in Symbols /\ c \notin DOMAIN Long  BY TableCharacters DEF Symbols
<1>6. PICK o : o = op(c)  OBVIOUS
<1>7. (c = "-" /\ unary => o = "UNARY_MINUS") /\ (~ (c = "-" /\ unary) => o = Operators[c])
  BY <1>6
<1>8. PICK t : t = Op(o)  OBVIOUS
<1>9. AddToken(t)  BY <1>1, <1>6, <1>8
<1> HIDE DEF op, unary
<1>10. t \in Tokens
  <2>1. "OPERATOR" \in TokenTypes /\ "UNARY_MINUS" \in OperationTypes
    BY DEF TokenTypes, OperationTypes
  <2>2. <<>> \in Seq(STRING)  OBVIOUS
  <2>3. o \in OperationTypes  BY <1>7, <2>1, TableTypes
  <2> QED  BY <1>2, <1>8, <2>1, <2>2, <2>3, TokenType DEF Op
<1>11. t.line = current_line /\ t.character = current_char  BY <1>8, TokenFields DEF Op
<1>12. Longest(file, at + 1) = at + 1  BY <1>3, <1>5, SymbolLongest
<1>13. ASSUME messages = 0, ~ Split
       PROVE  Sort(t) = Sort(LexemeAt(file, Found(file)[at], at + 1))
  <2>1. unary <=> ~ EndsOperand(Found(file)[at])
    <3>1. Exact  BY <1>13 DEF LexInv
    <3> QED  BY <1>4, <3>1, UnaryAgrees DEF unary
  <2>2. Sort(t) = [type |-> "OPERATOR", operation |-> o, text |-> <<>>]
    BY <1>8, TokenFields DEF Op
  <2>3. CASE c = "-" /\ unary
    <3>1. Sort(LexemeAt(file, Found(file)[at], at + 1))
            = [type |-> "OPERATOR", operation |-> "UNARY_MINUS", text |-> <<>>]
      BY <1>3, <1>12, <2>1, <2>3, UnarySort
    <3> QED  BY <1>7, <2>2, <2>3, <3>1
  <2>4. CASE ~ (c = "-" /\ unary)
    <3>1. Sort(LexemeAt(file, Found(file)[at], at + 1))
            = [type |-> "OPERATOR", operation |-> Operators[file[at + 1]], text |-> <<>>]
      BY <1>3, <1>12, <2>1, <2>4, OperatorSort
    <3> QED  BY <1>3, <1>7, <2>2, <2>4, <3>1
  <2> QED  BY <2>3, <2>4
<1> QED
  BY <1>1, <1>2, <1>3, <1>4, <1>5, <1>9, <1>10, <1>11, <1>12, <1>13, SymbolAdded

(* Punctuation is the next lexeme. *)
LEMMA InvPunctuation == ASSUME LexerAssumption, LexInv, LexPunctuation PROVE LexInv'
<1>1. PICK c \in DOMAIN Punctuation :
        /\ Buffered(c)
        /\ AddToken(Token(Punctuation[c], "NONE", <<>>))
        /\ AdvanceN(1)
        /\ UNCHANGED <<file, read, current_line, lexing_status, messages, overrun, pc>>
  BY DEF LexPunctuation
<1>2. TypeOK /\ TypeOK'  BY TypePunctuation DEF LexInv
<1>3. /\ at \in 0 .. Len(file) /\ at + 1 \in 1 .. Len(file) /\ c = file[at + 1]
      /\ file \in Seq(STRING)
  BY <1>1, <1>2, BufferedPlace DEF TypeOK
<1>4. pc = "lexing"  BY <1>1 DEF Buffered
<1>5. c \in Symbols /\ c \notin DOMAIN Long  BY TableCharacters DEF Symbols
<1>6. PICK t : t = Token(Punctuation[c], "NONE", <<>>)  OBVIOUS
<1>7. t \in Tokens
  <2>1. "NONE" \in OperationTypes /\ <<>> \in Seq(STRING)  BY DEF OperationTypes
  <2> QED  BY <1>2, <1>6, <2>1, TokenType, TableTypes
<1>8. t.line = current_line /\ t.character = current_char  BY <1>6, TokenFields
<1>9. Longest(file, at + 1) = at + 1  BY <1>3, <1>5, SymbolLongest
<1>10. Sort(t) = Sort(LexemeAt(file, Found(file)[at], at + 1))
  <2>1. Sort(LexemeAt(file, Found(file)[at], at + 1))
          = [type |-> Punctuation[file[at + 1]], operation |-> "NONE", text |-> <<>>]
    BY <1>3, <1>5, <1>9, SymbolSort
  <2> QED  BY <1>3, <1>6, <2>1, TokenFields
<1> QED
  BY <1>1, <1>2, <1>3, <1>4, <1>5, <1>6, <1>7, <1>8, <1>9, <1>10, SymbolAdded

(* A blank adds no lexeme and moves the place. *)
LEMMA InvBlank == ASSUME LexerAssumption, LexInv, SkipBlank PROVE LexInv'
<1>1. PICK c \in Blanks :
        /\ Buffered(c)
        /\ at' = at + 1
        /\ current_line' = IF c = "\n" THEN current_line + 1 ELSE current_line
        /\ current_char' = IF c = "\n" THEN 0 ELSE current_char + 1
        /\ UNCHANGED <<file, read, tokens, lexing_status, messages, overrun, pc>>
  BY DEF SkipBlank
<1>2. TypeOK /\ TypeOK'  BY TypeBlank DEF LexInv
<1>3. /\ at \in 0 .. Len(file) /\ at + 1 \in 1 .. Len(file) /\ c = file[at + 1] /\ at \in Nat
      /\ file \in Seq(STRING)
  BY <1>1, <1>2, BufferedPlace DEF TypeOK
<1>4. pc = "lexing"  BY <1>1 DEF Buffered
<1>5. ASSUME messages = 0
      PROVE  Found(file)[at + 1] = Found(file)[at] /\ Aligned(file, at + 1)
  <2>1. file[at + 1] # "="  BY <1>3, TableCharacters, CharacterSorts DEF Symbols
  <2>2. Aligned(file, at)  BY <1>3, <1>5, <2>1, NotAhead DEF LexInv
  <2> QED  BY <1>3, <2>2, AlignedBlank
<1>6. messages = 0 => Ahead(file, at)'  BY <1>1, <1>5 DEF Ahead, Aligned
<1>7. ASSUME messages = 0, ~ Split PROVE Exact' /\ Place'
  <2>1. Exact /\ Place  BY <1>7 DEF LexInv
  <2>2. Lexed' = Lexed /\ Expected' = Expected  BY <1>1, SameFile DEF Lexed
  <2>3. ASSUME NEW k \in 1 .. Len(Lexed) PROVE Right(k)'
    <3>1. Right(k)  BY <2>1 DEF Exact
    <3>2. Sort(Lexed'[k]) = Sort(Expected'[k])  BY <2>2, <3>1 DEF Right
    <3>3. ASSUME NEW p, p = Expected'[k].start - 1
          PROVE  Lexed'[k].line = Cardinality(Newlines(p)')
      <4>1. Newlines(p)' = Newlines(p)  BY <1>1, SameFile
      <4>2. p = Expected[k].start - 1  BY <2>2, <3>3
      <4> QED  BY <2>2, <3>1, <4>1, <4>2 DEF Right
    <3>4. AfterNumber(k)' \/ Lexed'[k].character = Column(k)'
      <4>1. AfterNumber(k)' = AfterNumber(k) /\ Column(k)' = Column(k)  BY <1>1, SameFile
      <4> QED  BY <2>2, <3>1, <4>1 DEF Right
    <3> QED  BY <3>2, <3>3, <3>4 DEF Right, Sort
  <2>4. Exact'
    <3>1. Aligned(file, at)' /\ Len(Lexed') = Len(Found(file')[at'])
      BY <1>1, <1>5, <1>7, <2>1, <2>2 DEF Aligned, Exact
    <3> QED  BY <2>2, <2>3, <3>1 DEF Exact
  <2>5. Place'
    <3>1. PICK p : p = at + 1  OBVIOUS
    <3>2. at' = p /\ p \in Nat /\ Newlines(p)' = Newlines(p) /\ LineStart(p)' = LineStart(p)
      BY <1>1, <1>3, <3>1, SameFile
    <3>3. CASE c = "\n"
      <4>1. Cardinality(Newlines(p)) = Cardinality(Newlines(at)) + 1 /\ LineStart(p) = p
        BY <1>3, <3>1, <3>3, NextLine
      <4>2. current_line' = Cardinality(Newlines(p)') /\ current_char' = p - LineStart(p)'
        BY <1>1, <2>1, <3>2, <3>3, <4>1 DEF Place
      <4> QED  BY <3>2, <4>2 DEF Place
    <3>4. CASE c # "\n"
      <4>1. Newlines(p) = Newlines(at) /\ LineStart(p) = LineStart(at)
        <5>1. \A m \in at + 1 .. p : file[m] # "\n"
          <6>1. \A m \in at + 1 .. p : m = at + 1  BY <1>3, <3>1
          <6> QED  BY <1>3, <3>4, <6>1
        <5>2. at <= p  BY <1>3, <3>1
        <5> QED  BY <1>3, <3>2, <5>1, <5>2, SameLine
      <4>2. current_line' = Cardinality(Newlines(p)')
        BY <1>1, <2>1, <3>2, <3>4, <4>1 DEF Place
      <4>3. CASE NumberBefore
        <5>1. PICK m \in 1 .. Len(Found(file)[at]) :
                IsNum(Expected[m]) /\ Expected[m].start > LineStart(at)
          BY <4>3 DEF NumberBefore
        <5>2. m \in 1 .. Len(Found(file')[p])  BY <1>1, <1>5, <1>7, <3>1
        <5>3. IsNum(Expected'[m]) /\ Expected'[m].start > LineStart(p)'
          BY <2>2, <3>2, <4>1, <5>1
        <5> QED  BY <3>2, <4>2, <5>2, <5>3 DEF Place, NumberBefore, IsNum
      <4>4. CASE ~ NumberBefore
        <5>1. current_char = at - LineStart(at)  BY <2>1, <4>4 DEF Place
        <5>2. LineStart(at) \in 0 .. at  BY <1>3, NewlinesFinite
        <5>3. current_char' = current_char + 1  BY <1>1, <3>4
        <5>4. current_char' = p - LineStart(at)  BY <1>3, <3>1, <5>1, <5>2, <5>3
        <5>5. current_char' = p - LineStart(p)'  BY <3>2, <4>1, <5>4
        <5> QED  BY <3>2, <4>2, <5>5 DEF Place
      <4> QED  BY <4>3, <4>4
    <3> QED  BY <3>3, <3>4
  <2> QED  BY <2>4, <2>5
<1> QED  BY <1>1, <1>2, <1>4, <1>6, <1>7, InvFromParts

(* The same of a text, that a buffer may be too short for. *)
LEMMA InvFromWrites ==
  ASSUME LexInv, TypeOK', file' = file, pc = "lexing", NEW past, Writes(past),
         messages' = 0 => Ahead(file, at)',
         messages' = 0 /\ overrun' => \E x \in Range(Expected) : TooLong(x),
         messages' = 0 /\ ~ Split => Exact' /\ Place'
  PROVE  LexInv'
<1>1. Expected' = Expected /\ Split' = Split  BY SameFile
<1>2. messages' = 0 /\ overrun' => \E x \in Range(Expected') : TooLong(x)'
  BY <1>1 DEF TooLong, IsNum
<1>3. pc' # "done" /\ (pc' = "aborted" => overrun')  BY DEF Writes
<1>4. file' \in Files  BY DEF LexInv
<1> QED  BY <1>1, <1>2, <1>3, <1>4 DEF LexInv

(* The sort of a word (lexer.c:146-162). *)
WordKind(s) ==
  IF s \in DOMAIN Keywords THEN [type |-> Keywords[s], operation |-> "NONE", text |-> <<>>]
  ELSE [type |-> "IDENTIFIER", operation |-> "NONE", text |-> s]

(* It depends on its text alone. *)
LEMMA WordSort ==
  ASSUME NEW f, NEW p, NEW found, NEW s, s = SubSeq(f, p, Longest(f, p)), IsWord(s)
  PROVE  Sort(LexemeAt(f, found, p)) = WordKind(s)
<1>1. PICK float : float = (Longest(f, p) < Len(f) /\ f[Longest(f, p) + 1] = "f")  OBVIOUS
<1>2. PICK c : c = Classify(s, float, found)  OBVIOUS
<1>3. Sort(LexemeAt(f, found, p))
        = [type |-> c.type, operation |-> c.operation, text |-> c.text]
  BY <1>1, <1>2, SortOf
<1>4. c = WordKind(s)  BY <1>2 DEF Classify, WordKind
<1>5. WordKind(s) = [type |-> WordKind(s).type, operation |-> WordKind(s).operation,
                     text |-> WordKind(s).text]
  <2>1. CASE s \in DOMAIN Keywords  BY <2>1 DEF WordKind
  <2>2. CASE s \notin DOMAIN Keywords  BY <2>2 DEF WordKind
  <2> QED  BY <2>1, <2>2
<1> QED  BY <1>3, <1>4, <1>5

(* The type of a number (lexer.c:82, 99-102). *)
NumberKind(f, e, s) ==
  IF e < Len(f) /\ f[e + 1] = "f" THEN "FLOAT" ELSE IF "." \in ToSet(s) THEN "DOUBLE" ELSE "INT"

(* The sort of a number is this type and its text. *)
LEMMA NumberSort ==
  ASSUME NEW f, NEW p, NEW found, NEW s, NEW e, s = SubSeq(f, p, e), e = Longest(f, p),
         ~ IsWord(s), IsNumber(s)
  PROVE  Sort(LexemeAt(f, found, p)) = [type |-> NumberKind(f, e, s), operation |-> "NONE", text |-> s]
<1>1. PICK float : float = (e < Len(f) /\ f[e + 1] = "f")  OBVIOUS
<1>2. PICK c : c = Classify(s, float, found)  OBVIOUS
<1>3. Sort(LexemeAt(f, found, p))
        = [type |-> c.type, operation |-> c.operation, text |-> c.text]
  BY <1>1, <1>2, SortOf
<1>4. c = [type |-> NumberKind(f, e, s), operation |-> "NONE", text |-> s]
  BY <1>1, <1>2 DEF Classify, NumberKind
<1> QED  BY <1>3, <1>4

(* A word is the next lexeme, however many chunks it spans. *)
LEMMA InvString == ASSUME LexerAssumption, LexInv, LexString PROVE LexInv'
<1> DEFINE end == EndOfRun(at, InWord)
           str == SubSeq(file, at + 1, end)
           tok == IF str \in DOMAIN Keywords THEN Token(Keywords[str], "NONE", <<>>)
                  ELSE Token("IDENTIFIER", "NONE", str)
<1>1. PICK c \in Letters :
        /\ Buffered(c)
        /\ AddToken(tok)
        /\ AdvanceN(end - at)
        /\ read' = ReadTo(end)
        /\ Writes(WordOverruns(end - at))
        /\ UNCHANGED <<file, current_line, lexing_status, messages>>
  BY DEF LexString
<1>2. TypeOK /\ TypeOK'  BY TypeString DEF LexInv
<1>3. /\ Len(file) \in Nat /\ at \in 0 .. Len(file) /\ at + 1 \in 1 .. Len(file) /\ at \in Nat
      /\ c = file[at + 1] /\ file \in Seq(STRING) /\ current_char \in Nat
  BY <1>1, <1>2, BufferedPlace DEF TypeOK
<1>4. pc = "lexing"  BY <1>1 DEF Buffered
<1>5. PICK e : e = end  OBVIOUS
<1>6. /\ e \in at + 1 .. Len(file)
      /\ \A m \in at + 1 .. e : ~ StartsToken(file[m]) /\ file[m] # "\n"
      /\ e = Len(file) \/ StartsToken(file[e + 1]) \/ file[e + 1] = "\n"
  BY <1>1, <1>2, <1>5, WordEnd DEF InWord
<1>7. PICK s : s = SubSeq(file, at + 1, e)  OBVIOUS
<1>8. PICK t : t = IF s \in DOMAIN Keywords THEN Token(Keywords[s], "NONE", <<>>)
                   ELSE Token("IDENTIFIER", "NONE", s)
  OBVIOUS
<1>9. /\ AddToken(t) /\ AdvanceN(e - at) /\ Writes(WordOverruns(e - at))
      /\ UNCHANGED <<file, current_line, lexing_status, messages>>
  BY <1>1, <1>5, <1>7, <1>8
<1> HIDE DEF end, str, tok
<1>10. Ends(file, at + 1) # {} /\ Longest(file, at + 1) = e /\ IsWord(s)
  BY <1>3, <1>6, <1>7, WordEnds
<1>11. s \in Seq(STRING) /\ Len(s) = e - at
  <2>1. s \in Seq(STRING) /\ Len(s) = e - (at + 1) + 1  BY <1>3, <1>6, <1>7, Piece
  <2> QED  BY <1>3, <1>6, <2>1
<1>12. t \in Tokens /\ t.line = current_line /\ t.character = current_char
  <2>1. <<>> \in Seq(STRING) /\ "NONE" \in OperationTypes /\ "IDENTIFIER" \in TokenTypes
    BY DEF OperationTypes, TokenTypes
  <2>2. CASE s \in DOMAIN Keywords  BY <1>2, <1>8, <2>1, <2>2, TableTypes, TokenType, TokenFields
  <2>3. CASE s \notin DOMAIN Keywords  BY <1>2, <1>8, <1>11, <2>1, <2>3, TokenType, TokenFields
  <2> QED  BY <2>2, <2>3
<1>13. PICK x : x = LexemeAt(file, Found(file)[at], at + 1)  OBVIOUS
<1>14. /\ s \in DOMAIN Keywords => Sort(x) = [type |-> Keywords[s], operation |-> "NONE", text |-> <<>>]
       /\ s \notin DOMAIN Keywords => Sort(x) = [type |-> "IDENTIFIER", operation |-> "NONE", text |-> s]
  <2>1. Sort(x) = WordKind(s)  BY <1>7, <1>10, <1>13, WordSort
  <2> QED  BY <2>1 DEF WordKind
<1>15. Sort(t) = Sort(x)
  <2>1. CASE s \in DOMAIN Keywords  BY <1>8, <1>14, <2>1, TokenFields
  <2>2. CASE s \notin DOMAIN Keywords  BY <1>8, <1>14, <2>2, TokenFields
  <2> QED  BY <2>1, <2>2
<1>16. at' = e /\ current_char' = current_char + (e - at)
  BY <1>3, <1>6, <1>9 DEF AdvanceN
<1>17. ASSUME messages = 0
       PROVE  Aligned(file, at) /\ Aligned(file, e) /\ x \in Range(Expected)
  <2>1. file[at + 1] # "="
    <3>1. "=" \in Symbols  BY TableCharacters DEF Symbols
    <3> QED  BY <1>3, <3>1, CharacterSorts
  <2>2. Aligned(file, at)  BY <1>3, <1>17, <2>1, NotAhead DEF LexInv
  <2>3. PICK n : n = Len(Found(file)[e])  OBVIOUS
  <2>4. Aligned(file, e) /\ n \in DOMAIN Lexemes(file) /\ Lexemes(file)[n] = x
    BY <1>3, <1>10, <1>13, <2>2, <2>3, NextLexeme
  <2>5. Expected = Lexemes(file)  BY <1>2, <1>3, ExpectedIs DEF LexInv
  <2> QED  BY <2>2, <2>4, <2>5 DEF Range
<1>18. messages' = 0 => Ahead(file, at)'
  BY <1>9, <1>16, <1>17 DEF Ahead, Aligned
<1>19. messages' = 0 /\ overrun' => \E y \in Range(Expected) : TooLong(y)
  <2>1. SUFFICES ASSUME messages = 0, overrun' PROVE \E y \in Range(Expected) : TooLong(y)
    BY <1>9
  <2>2. CASE overrun  BY <2>1, <2>2 DEF LexInv
  <2>3. CASE WordOverruns(e - at)
    <3>1. e - at \in Nat  BY <1>3, <1>6
    <3>2. e - at >= WordBuffer  BY <2>3, <3>1, ShortWordFits
    <3>3. s \notin DOMAIN Keywords
      <4>1. ~ (Len(s) < WordBuffer)  BY <1>11, <3>1, <3>2 DEF LexerAssumption
      <4> QED  BY <4>1 DEF LexerAssumption
    <3>4. x.type = "IDENTIFIER" /\ x.text = s  BY <1>14, <3>3 DEF Sort
    <3>5. ~ IsNum(x)  BY <3>4 DEF IsNum
    <3>6. TooLong(x)  BY <1>11, <3>2, <3>4, <3>5 DEF TooLong
    <3> QED  BY <1>17, <2>1, <3>6
  <2> QED  BY <1>9, <2>1, <2>2, <2>3 DEF Writes
<1>20. ASSUME messages = 0, ~ Split PROVE Exact' /\ Place'
  <2>1. Exact /\ Place  BY <1>20 DEF LexInv
  <2>2. pc' # "done" /\ file' = file /\ current_line' = current_line
    BY <1>4, <1>9 DEF Writes
  <2>3. \A m \in at + 1 .. e : file[m] # "\n"  BY <1>6
  <2> QED
    BY <1>3, <1>4, <1>9, <1>10, <1>12, <1>13, <1>15, <1>16, <2>1, <2>2, <2>3, TokenAdded
<1> QED  BY <1>2, <1>4, <1>9, <1>18, <1>19, <1>20, InvFromWrites

(* A number is the next lexeme, unless a second dot drops the buffer. *)
LEMMA InvNumber == ASSUME LexerAssumption, LexInv, LexNumber PROVE LexInv'
<1> DEFINE end == EndOfRun(at, InNumber)
           number == SubSeq(file, at + 1, end)
           tok == Token(NumberType(end), "NONE", number)
<1>1. PICK c \in Digits :
        /\ Buffered(c)
        /\ read' = ReadTo(end)
        /\ IF end < Len(file) /\ file[end + 1] = "."
             THEN at' = read' /\ DropChunk /\ Writes(NumberOverruns(end - at))
                    /\ UNCHANGED tokens
             ELSE /\ at' = end
                  /\ AddToken(tok)
                  /\ Writes(NumberOverruns(end - at + 1))
                  /\ UNCHANGED <<lexing_status, messages>>
        /\ UNCHANGED <<file, current_line, current_char>>
  BY DEF LexNumber
<1>2. TypeOK /\ TypeOK'  BY TypeNumber DEF LexInv
<1>3. /\ Len(file) \in Nat /\ at \in 0 .. Len(file) /\ at + 1 \in 1 .. Len(file) /\ at \in Nat
      /\ c = file[at + 1] /\ file \in Seq(STRING)
  BY <1>1, <1>2, BufferedPlace DEF TypeOK
<1>4. pc = "lexing"  BY <1>1 DEF Buffered
<1>5. PICK e : e = end  OBVIOUS
<1>6. /\ e \in at + 1 .. Len(file)
      /\ \A m \in at + 1 .. e : InNumber(m)
      /\ e = Len(file) \/ ~ InNumber(e + 1)
  BY <1>1, <1>2, <1>5, NumberEnd
<1>7. PICK s : s = SubSeq(file, at + 1, e)  OBVIOUS
<1>8. PICK t : t = Token(NumberType(e), "NONE", s)  OBVIOUS
<1>9. CASE e < Len(file) /\ file[e + 1] = "."
  <2>1. DropChunk /\ Writes(NumberOverruns(e - at)) /\ file' = file  BY <1>1, <1>5, <1>9
  <2>2. messages \in Nat /\ messages' = messages + 1  BY <1>2, <2>1 DEF DropChunk, TypeOK
  <2>3. messages' # 0  BY <2>2
  <2> QED  BY <1>2, <1>4, <2>1, <2>3, InvFromWrites
<1>10. CASE ~ (e < Len(file) /\ file[e + 1] = ".")
  <2>1. /\ at' = e /\ AddToken(t) /\ Writes(NumberOverruns(e - at + 1))
        /\ UNCHANGED <<lexing_status, messages, file, current_line, current_char>>
    BY <1>1, <1>5, <1>7, <1>8, <1>10
  <2> HIDE DEF end, number, tok
  <2>2. \A m \in Nat : InNumber(m) <=> OfNumber(file, at + 1, m)
    BY DEF InNumber, OfNumber
  <2>3. /\ \A m \in at + 1 .. e : OfNumber(file, at + 1, m)
        /\ e = Len(file) \/ ~ OfNumber(file, at + 1, e + 1)
    <3>1. \A m \in at + 1 .. e : m \in Nat  BY <1>3, <1>6
    <3>2. e + 1 \in Nat  BY <1>3, <1>6
    <3> QED  BY <1>6, <2>2, <3>1, <3>2
  <2>4. Ends(file, at + 1) # {} /\ Longest(file, at + 1) = e /\ IsNumber(s) /\ ~ IsWord(s)
    BY <1>3, <1>6, <1>7, <2>3, NumberEnds
  <2>5. s \in Seq(STRING) /\ Len(s) = e - at
    <3>1. s \in Seq(STRING) /\ Len(s) = e - (at + 1) + 1  BY <1>3, <1>6, <1>7, Piece
    <3> QED  BY <1>3, <1>6, <3>1
  <2>6. t \in Tokens /\ t.line = current_line /\ t.character = current_char
    <3>1. "NONE" \in OperationTypes  BY DEF OperationTypes
    <3>2. NumberType(e) \in TokenTypes  BY DEF NumberType, TokenTypes
    <3> QED  BY <1>2, <1>8, <2>5, <3>1, <3>2, TokenType, TokenFields
  <2>7. PICK x : x = LexemeAt(file, Found(file)[at], at + 1)  OBVIOUS
  <2>8. Sort(x) = [type |-> NumberKind(file, e, s), operation |-> "NONE", text |-> s]
    BY <1>7, <2>4, <2>7, NumberSort
  <2>9. "." \in {file[m] : m \in at + 1 .. e} <=> "." \in ToSet(s)
    <3>1. PICK p : p = at + 1  OBVIOUS
    <3>2. /\ p \in 1 .. Len(file) /\ e \in p .. Len(file) /\ s = SubSeq(file, p, e)
          /\ p \in Nat /\ e \in Nat
      BY <1>3, <1>6, <1>7, <3>1
    <3>3. /\ s \in Seq(STRING) /\ Len(s) = e - p + 1
          /\ \A m \in 1 .. e - p + 1 : s[m] = file[p + m - 1]
          /\ \A m \in p .. e : m - p + 1 \in 1 .. e - p + 1 /\ s[m - p + 1] = file[m]
      <4>1. file \in Seq(STRING) /\ p \in 1 .. Len(file) /\ e \in p .. Len(file)
        BY <1>3, <3>2
      <4>2. /\ SubSeq(file, p, e) \in Seq(STRING) /\ Len(SubSeq(file, p, e)) = e - p + 1
            /\ \A m \in 1 .. e - p + 1 : SubSeq(file, p, e)[m] = file[p + m - 1]
            /\ \A m \in p .. e : /\ m - p + 1 \in 1 .. e - p + 1
                                 /\ SubSeq(file, p, e)[m - p + 1] = file[m]
        BY <4>1, Piece
      <4> QED  BY <3>2, <4>2
    <3>4. ASSUME NEW m \in p .. e, file[m] = "." PROVE "." \in ToSet(s)
      <4>1. PICK k : k = m - p + 1  OBVIOUS
      <4>2. k \in 1 .. e - p + 1 /\ s[k] = "."  BY <3>3, <3>4, <4>1
      <4>3. k \in DOMAIN s  BY <3>3, <4>2
      <4> QED  BY <4>2, <4>3 DEF ToSet
    <3>5. ASSUME NEW k \in DOMAIN s, s[k] = "." PROVE "." \in {file[m] : m \in p .. e}
      <4>1. k \in 1 .. e - p + 1  BY <3>3
      <4>2. PICK m : m = p + k - 1  OBVIOUS
      <4>3. m \in p .. e  BY <3>2, <4>1, <4>2
      <4>4. file[m] = "."  BY <3>3, <3>5, <4>1, <4>2
      <4> QED  BY <4>3, <4>4
    <3> QED  BY <3>1, <3>4, <3>5 DEF ToSet
  <2>10. Sort(t) = Sort(x) /\ IsNum(x) /\ x.text = s
    <3>1. Sort(t) = [type |-> NumberType(e), operation |-> "NONE", text |-> s]
      BY <1>8, TokenFields
    <3>2. NumberType(e) = NumberKind(file, e, s)  BY <2>9 DEF NumberType, NumberKind
    <3>3. Sort(t) = Sort(x)  BY <2>8, <3>1, <3>2
    <3>4. NumberType(e) \in {"INT", "FLOAT", "DOUBLE"}  BY DEF NumberType
    <3>5. x.type = NumberType(e) /\ x.text = s  BY <3>1, <3>3 DEF Sort
    <3> QED  BY <3>3, <3>4, <3>5 DEF IsNum
  <2>11. ASSUME messages = 0
         PROVE  Aligned(file, e) /\ x \in Range(Expected)
    <3>1. file[at + 1] # "="
      <4>1. "=" \in Symbols  BY TableCharacters DEF Symbols
      <4> QED  BY <1>3, <4>1, CharacterSorts
    <3>2. Aligned(file, at)  BY <1>3, <2>11, <3>1, NotAhead DEF LexInv
    <3>3. PICK n : n = Len(Found(file)[e])  OBVIOUS
    <3>4. Aligned(file, e) /\ n \in DOMAIN Lexemes(file) /\ Lexemes(file)[n] = x
      BY <1>3, <2>4, <2>7, <3>2, <3>3, NextLexeme
    <3>5. Expected = Lexemes(file)  BY <1>2, <1>3, ExpectedIs DEF LexInv
    <3> QED  BY <3>4, <3>5 DEF Range
  <2>12. messages' = 0 => Ahead(file, at)'
    BY <2>1, <2>11 DEF Ahead, Aligned
  <2>13. messages' = 0 /\ overrun' => \E y \in Range(Expected) : TooLong(y)
    <3>1. SUFFICES ASSUME messages = 0, overrun' PROVE \E y \in Range(Expected) : TooLong(y)
      BY <2>1
    <3>2. CASE overrun  BY <3>1, <3>2 DEF LexInv
    <3>3. CASE NumberOverruns(e - at + 1)
      <4>1. e - at >= NumberBuffer  BY <1>3, <1>6, <3>3 DEF NumberOverruns, LexerAssumption
      <4>2. TooLong(x)  BY <2>5, <2>10, <4>1 DEF TooLong
      <4> QED  BY <2>11, <3>1, <4>2
    <3> QED  BY <2>1, <3>1, <3>2, <3>3 DEF Writes
  <2>14. ASSUME messages = 0, ~ Split PROVE Exact' /\ Place'
    <3>1. Exact /\ Place  BY <2>14 DEF LexInv
    <3>2. pc' # "done" /\ file' = file  BY <1>4, <2>1 DEF Writes
    <3>3. \A m \in at + 1 .. e : file[m] # "\n"
      <4>1. "\n" \notin Digits /\ "\n" # "."  BY CharacterSorts DEF Blanks
      <4> QED  BY <2>3, <4>1 DEF OfNumber
    <3> QED
      BY <1>3, <1>4, <2>1, <2>4, <2>6, <2>7, <2>10, <3>1, <3>2, <3>3, TokenAdded
  <2> QED  BY <1>2, <1>4, <2>1, <2>12, <2>13, <2>14, InvFromWrites
<1> QED  BY <1>9, <1>10

(* What is lexed stays right as long as it stays the same. *)
LEMMA SameExact ==
  ASSUME UNCHANGED <<file, at, current_line, current_char>>, Lexed' = Lexed, Exact, Place
  PROVE  Exact' /\ Place'
<1>1. Expected' = Expected  BY SameFile
<1>2. ASSUME NEW k \in 1 .. Len(Lexed) PROVE Right(k)'
  <2>1. Right(k)  BY DEF Exact
  <2>2. Sort(Lexed'[k]) = Sort(Expected'[k])  BY <1>1, <2>1 DEF Right
  <2>3. ASSUME NEW p, p = Expected'[k].start - 1
        PROVE  Lexed'[k].line = Cardinality(Newlines(p)')
    <3>1. Newlines(p)' = Newlines(p)  BY SameFile
    <3>2. p = Expected[k].start - 1  BY <1>1, <2>3
    <3> QED  BY <2>1, <3>1, <3>2 DEF Right
  <2>4. AfterNumber(k)' \/ Lexed'[k].character = Column(k)'
    <3>1. AfterNumber(k)' = AfterNumber(k) /\ Column(k)' = Column(k)  BY SameFile
    <3> QED  BY <2>1, <3>1 DEF Right
  <2> QED  BY <2>2, <2>3, <2>4 DEF Right, Sort
<1>3. Exact'
  <2>1. Aligned(file, at)' /\ Len(Lexed') = Len(Found(file')[at'])  BY DEF Aligned, Exact
  <2> QED  BY <1>2, <2>1 DEF Exact
<1>4. Place'
  <2>1. PICK p : p = at  OBVIOUS
  <2>2. at' = p /\ Newlines(p)' = Newlines(p) /\ LineStart(p)' = LineStart(p)
    BY <2>1, SameFile
  <2>3. current_line' = Cardinality(Newlines(p)')  BY <2>1, <2>2 DEF Place
  <2>4. CASE NumberBefore
    <3>1. PICK m \in 1 .. Len(Found(file)[p]) : IsNum(Expected[m]) /\ Expected[m].start > LineStart(p)
      BY <2>1, <2>4 DEF NumberBefore
    <3>2. m \in 1 .. Len(Found(file')[p]) /\ IsNum(Expected'[m]) /\ Expected'[m].start > LineStart(p)'
      BY <1>1, <2>2, <3>1
    <3> QED  BY <2>2, <2>3, <3>2 DEF Place, NumberBefore, IsNum
  <2>5. CASE ~ NumberBefore
    <3>1. current_char' = p - LineStart(p)'  BY <2>1, <2>2, <2>5 DEF Place
    <3> QED  BY <2>2, <2>3, <3>1 DEF Place
  <2> QED  BY <2>4, <2>5
<1> QED  BY <1>3, <1>4

(* An invalid character is counted among the messages, and the invariant    *)
(* says no more of the tokens.                                              *)
LEMMA InvInvalid == ASSUME LexInv, InvalidCharacter PROVE LexInv'
<1>1. TypeOK /\ TypeOK'  BY TypeInvalid DEF LexInv
<1>2. messages' = messages + 1 /\ file' = file /\ pc' = "lexing"
  BY DEF InvalidCharacter, DropChunk
<1>3. messages' # 0  BY <1>1, <1>2 DEF TypeOK
<1> QED  BY <1>1, <1>2, <1>3 DEF LexInv

(* A chunk that is read changes nothing of what is lexed; the end of the    *)
(* file adds the token that ends them, where everything is lexed.           *)
LEMMA InvReadChunk == ASSUME LexerAssumption, LexInv, ReadChunk PROVE LexInv'
<1>1. TypeOK /\ TypeOK'  BY TypeReadChunk DEF LexInv
<1>2. /\ pc = "lexing" /\ at = read
      /\ UNCHANGED <<file, at, current_line, current_char, lexing_status, messages, overrun>>
  BY DEF ReadChunk
<1>3. Expected' = Expected /\ Split' = Split  BY <1>2, SameFile
<1>4. messages' = 0 /\ overrun' => \E x \in Range(Expected') : TooLong(x)'
  BY <1>2, <1>3 DEF LexInv, TooLong, IsNum
<1>5. messages' = 0 => Ahead(file, at)'  BY <1>2 DEF LexInv, Ahead, Aligned
<1>6. CASE read < Len(file)
  <2>1. UNCHANGED <<tokens, pc>>  BY <1>6 DEF ReadChunk
  <2>2. Lexed' = Lexed  BY <2>1 DEF Lexed
  <2>3. messages' = 0 /\ ~ Split' => Exact' /\ Place'
    BY <1>2, <1>3, <2>2, SameExact DEF LexInv
  <2> QED  BY <1>1, <1>2, <1>3, <1>4, <1>5, <2>1, <2>3 DEF LexInv
<1>7. CASE ~ (read < Len(file))
  <2>1. AddToken(Token("EOF", "NONE", <<>>)) /\ pc' = "done"  BY <1>7 DEF ReadChunk
  <2>2. PICK t : t = Token("EOF", "NONE", <<>>)  OBVIOUS
  <2>3. t.type = "EOF" /\ tokens' = Append(tokens, t)
    BY <2>1, <2>2 DEF AddToken, Token
  <2>4. at' = Len(file)'  BY <1>1, <1>2, <1>7 DEF TypeOK
  <2>5. tokens' # <<>> /\ Last(tokens').type = "EOF" /\ Front(tokens') = tokens
    <3>1. PICK s : s = tokens  OBVIOUS
    <3>2. s \in Seq(Tokens) /\ t \in Tokens
      <4>1. <<>> \in Seq(STRING) /\ "NONE" \in OperationTypes /\ "EOF" \in TokenTypes
        BY DEF OperationTypes, TokenTypes
      <4> QED  BY <1>1, <2>2, <3>1, <4>1, TokenType DEF TypeOK, Tokens
    <3>3. PICK a : a = Append(s, t)  OBVIOUS
    <3>4. /\ a \in Seq(Tokens) /\ Len(a) = Len(s) + 1 /\ a[Len(s) + 1] = t /\ Len(s) \in Nat
          /\ \A k \in 1 .. Len(s) : a[k] = s[k]
      BY <3>2, <3>3, AppendProperties
    <3>5. a # <<>> /\ Last(a) = t  BY <3>4 DEF Last
    <3>6. Front(a) = s
      <4>1. Front(a) = SubSeq(a, 1, Len(s))  BY <3>4 DEF Front
      <4>2. /\ SubSeq(a, 1, Len(s)) \in Seq(Tokens) /\ Len(SubSeq(a, 1, Len(s))) = Len(s)
            /\ \A k \in 1 .. Len(s) : SubSeq(a, 1, Len(s))[k] = s[k]
        BY <3>4, SubSeqProperties
      <4> QED  BY <3>2, <4>1, <4>2, SeqEqual
    <3> QED  BY <2>3, <3>1, <3>3, <3>5, <3>6
  <2>6. Lexed' = Lexed  BY <1>2, <2>1, <2>5 DEF Lexed
  <2>7. messages' = 0 /\ ~ Split' => Exact' /\ Place'
    BY <1>2, <1>3, <2>6, SameExact DEF LexInv
  <2> QED  BY <1>1, <1>2, <1>3, <1>4, <1>5, <2>1, <2>4, <2>5, <2>7 DEF LexInv
<1> QED  BY <1>6, <1>7

(* Nothing is lexed in the beginning. *)
LEMMA InvInit == ASSUME LexerAssumption, Init PROVE LexInv
<1>1. TypeOK  BY TypeInit
<1>2. file \in Files /\ at = 0 /\ tokens = <<>> /\ current_line = 0 /\ current_char = 0
      /\ overrun = FALSE /\ pc = "lexing"
  BY DEF Init
<1>3. Found(file)[0] = <<>>  BY <1>1, FoundSteps DEF TypeOK
<1>4. Aligned(file, at)  BY <1>2, <1>3 DEF Aligned
<1>5. Exact
  <2>1. Lexed = <<>>  BY <1>2 DEF Lexed
  <2>2. Len(Lexed) = 0 /\ Len(Found(file)[at]) = 0  BY <1>2, <1>3, <2>1
  <2> QED  BY <1>4, <2>2 DEF Exact
<1>6. Place
  <2>1. Newlines(0) = {}  BY DEF Newlines
  <2>2. Cardinality(Newlines(0)) = 0  BY <2>1, FS_EmptySet
  <2>3. LineStart(0) = 0
    <3>1. LineStart(0) \in 0 .. 0  BY NewlinesFinite
    <3> QED  BY <3>1
  <2> QED  BY <1>2, <2>2, <2>3 DEF Place
<1> QED  BY <1>1, <1>2, <1>4, <1>5, <1>6 DEF LexInv, Ahead

(* Every step keeps the invariant. *)
LEMMA InvStep == ASSUME LexerAssumption, LexInv, [Next]_vars PROVE LexInv'
<1>1. CASE UNCHANGED vars
  <2>1. UNCHANGED <<file, at, current_line, current_char>> /\ UNCHANGED <<tokens, messages, overrun, pc>>
    BY <1>1 DEF vars
  <2>2. TypeOK'  BY <1>1, TypeStep DEF LexInv
  <2>3. Expected' = Expected /\ Split' = Split  BY <2>1, SameFile
  <2>4. messages' = 0 /\ overrun' => \E x \in Range(Expected') : TooLong(x)'
    BY <2>1, <2>3 DEF LexInv, TooLong, IsNum
  <2>5. messages' = 0 => Ahead(file, at)'  BY <2>1 DEF LexInv, Ahead, Aligned
  <2>6. Lexed' = Lexed  BY <2>1 DEF Lexed
  <2>7. messages' = 0 /\ ~ Split' => Exact' /\ Place'
    BY <2>1, <2>3, <2>6, SameExact DEF LexInv
  <2> QED  BY <2>1, <2>2, <2>3, <2>4, <2>5, <2>7 DEF LexInv
<1> QED
  BY <1>1, InvReadChunk, InvComparison, InvOperator, InvPunctuation, InvBlank,
     InvString, InvNumber, InvInvalid
  DEF Next

(* Wherever the chunks end, what is lexed is what the text says so far.     *)
THEOREM LexerInvariant == Spec => []LexInv
<1>1. Init => LexInv  BY InvInit, LexerAssumption
<1>2. LexInv /\ [Next]_vars => LexInv'  BY InvStep, LexerAssumption
<1> QED  BY <1>1, <1>2, PTL DEF Spec
----------------------------------------------------------------------------
(* What is known of the tokens once the invariant is. *)
LEMMA LexedPlace ==
  ASSUME LexInv, messages = 0, ~ Split
  PROVE  /\ Lexed \in Seq(Tokens) /\ Expected \in Seq(LexemeRecords)
         /\ Len(Lexed) <= Len(Expected)
         /\ pc = "done" => Len(Lexed) = Len(Expected)
         /\ \A n \in 1 .. Len(Lexed) : Right(n)
<1>1. TypeOK /\ file \in Files /\ at \in 0 .. Len(file) /\ Exact
  BY DEF LexInv, TypeOK
<1>2. tokens \in Seq(Tokens)  BY <1>1 DEF TypeOK, Tokens
<1>3. Lexed \in Seq(Tokens)
  <2>1. CASE pc # "done"  BY <1>2, <2>1 DEF Lexed
  <2>2. CASE pc = "done"
    <3>1. PICK s : s = tokens  OBVIOUS
    <3>2. s \in Seq(Tokens) /\ s # <<>>  BY <1>2, <2>2, <3>1 DEF LexInv
    <3>3. Front(s) \in Seq(Tokens)  BY <3>2, SubSeqProperties DEF Front
    <3> QED  BY <2>2, <3>1, <3>3 DEF Lexed
  <2> QED  BY <2>1, <2>2
<1>4. Expected \in Seq(LexemeRecords) /\ Len(Found(file)[at]) <= Len(Expected)
      /\ Expected = Lexemes(file)
  BY <1>1, ExpectedIs
<1>5. pc = "done" => Len(Found(file)[at]) = Len(Expected)
  BY <1>4 DEF LexInv, Lexemes
<1> QED  BY <1>1, <1>3, <1>4, <1>5 DEF Exact

(* Two sequences that agree where the shorter one is defined. *)
LEMMA PrefixOf ==
  ASSUME NEW S, NEW s \in Seq(S), NEW t \in Seq(S), Len(s) <= Len(t),
         \A n \in 1 .. Len(s) : s[n] = t[n]
  PROVE  /\ IsPrefix(s, t)
         /\ Len(s) = Len(t) => s = t
<1>1. SubSeq(s, 1, Len(s)) = s  BY SubSeqFull
<1>2. /\ SubSeq(t, 1, Len(s)) \in Seq(S) /\ Len(SubSeq(t, 1, Len(s))) = Len(s)
      /\ \A n \in 1 .. Len(s) : SubSeq(t, 1, Len(s))[n] = t[n]
  BY SubSeqProperties
<1>3. SubSeq(t, 1, Len(s)) = s  BY <1>2, SeqEqual
<1>4. Len(s) = Len(t) => s = t  BY SeqEqual
<1> QED  BY <1>1, <1>3, <1>4 DEF IsPrefix

(* The tokens are those of the text, wherever the chunks end (lexer.c:87,   *)
(* 138, 198-212).                                                           *)
THEOREM LexerTokens == Spec => []TokensExact
<1>1. LexInv => TokensExact
  <2>1. SUFFICES ASSUME LexInv, messages = 0, ~ Split
        PROVE  LET texts == [n \in DOMAIN Expected |-> Sort(Expected[n])]
                   sorts == [n \in DOMAIN Lexed |-> Sort(Lexed[n])]
               IN /\ IsPrefix(sorts, texts)
                  /\ pc = "done" => sorts = texts /\ Last(tokens).type = "EOF"
    BY DEF TokensExact
  <2>2. PICK l, x : l = Lexed /\ x = Expected  OBVIOUS
  <2>3. /\ l \in Seq(Tokens) /\ x \in Seq(LexemeRecords) /\ Len(l) <= Len(x)
        /\ pc = "done" => Len(l) = Len(x)
        /\ \A n \in 1 .. Len(l) : Sort(l[n]) = Sort(x[n])
    BY <2>1, <2>2, LexedPlace DEF Right
  <2>4. PICK texts, sorts : /\ texts = [n \in DOMAIN x |-> Sort(x[n])]
                            /\ sorts = [n \in DOMAIN l |-> Sort(l[n])]
    OBVIOUS
  <2>5. PICK S : S = {Sort(x[n]) : n \in DOMAIN x} \union {Sort(l[n]) : n \in DOMAIN l}
    OBVIOUS
  <2>6. texts \in Seq(S) /\ Len(texts) = Len(x)  BY <2>3, <2>4, <2>5
  <2>7. sorts \in Seq(S) /\ Len(sorts) = Len(l)  BY <2>3, <2>4, <2>5
  <2>8. ASSUME NEW n \in 1 .. Len(sorts) PROVE sorts[n] = texts[n]
    <3>1. n \in 1 .. Len(l) /\ n \in DOMAIN l /\ n \in DOMAIN x  BY <2>3, <2>7
    <3>2. sorts[n] = Sort(l[n]) /\ texts[n] = Sort(x[n])  BY <2>4, <3>1
    <3> QED  BY <2>3, <3>1, <3>2
  <2>9. IsPrefix(sorts, texts) /\ (pc = "done" => sorts = texts)
    BY <2>3, <2>6, <2>7, <2>8, PrefixOf
  <2>10. pc = "done" => Last(tokens).type = "EOF"  BY <2>1 DEF LexInv
  <2> QED  BY <2>2, <2>4, <2>9, <2>10
<1> QED  BY <1>1, LexerInvariant, PTL

(* Each token is told where it is, wherever the chunks end (lexer.c:86,     *)
(* 281-299).                                                                *)
THEOREM LexerPositions == Spec => []PositionsExact
<1>1. LexInv => PositionsExact
  <2>1. SUFFICES ASSUME LexInv, messages = 0, ~ Split, NEW n \in DOMAIN Lexed
        PROVE  /\ Lexed[n].line = Cardinality(Newlines(Expected[n].start - 1))
               /\ AfterNumber(n) \/ Lexed[n].character = Column(n)
    BY DEF PositionsExact
  <2>2. n \in 1 .. Len(Lexed) /\ Right(n)  BY <2>1, LexedPlace
  <2> QED  BY <2>2 DEF Right
<1> QED  BY <1>1, LexerInvariant, PTL

(* No text that its buffer has room for is written past it (lexer.c:72-93,  *)
(* 124-144).                                                                *)
THEOREM LexerBuffers == Spec => []TextsFit
<1>1. LexInv => TextsFit  BY DEF LexInv, TextsFit, TooLong
<1> QED  BY <1>1, LexerInvariant, PTL
=============================================================================
