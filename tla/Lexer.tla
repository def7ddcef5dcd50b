------------------------------- MODULE Lexer --------------------------------
(***************************************************************************)
(* lexer.c: a file read chunk by chunk into one buffer and cut into        *)
(* tokens.  The chunks follow each other in the file, so the buffer is     *)
(* known by two positions in it: `at', the characters consumed, and `read',*)
(* the characters read; code[reading_index + n] is file[at + 1 + n] and    *)
(* end_index - reading_index is read - at.                                 *)
(***************************************************************************)
EXTENDS Lexemes

CONSTANTS
  Files,         \* the files considered, sequences of characters
  ChunkSize,     \* BYTES_NUMBER_READ
  WordBuffer,    \* the characters lex_string first has room for
  NumberBuffer   \* the characters lex_number has room for

(* The first buffer of a word has room for every keyword. *)
ASSUME LexerAssumption ==
  /\ Files \subseteq Seq(STRING)
  /\ {ChunkSize, WordBuffer, NumberBuffer} \subseteq Nat \ {0}
  /\ \A word \in DOMAIN Keywords : Len(word) < WordBuffer

VARIABLES
  file,             \* the file
  read,             \* how much of it has been read
  at,               \* how much of it has been lexed
  tokens,           \* tokens_list
  current_line,     \* counted from 0
  current_char,     \* counted from 0
  lexing_status,    \* what lex_code_from_file will report
  messages,         \* the errors written to stderr
  overrun,          \* whether a character was written past the end of a buffer
  pc                \* "lexing", "done" or "aborted"

vars == <<file, read, at, tokens, current_line, current_char,
          lexing_status, messages, overrun, pc>>

Token(type, operation, text) ==
  [type |-> type, operation |-> operation, text |-> text,
   line |-> current_line, character |-> current_char]

Op(operation) == Token("OPERATOR", operation, <<>>)

IsNum(t) == t.type \in {"INT", "FLOAT", "DOUBLE"}

InvolveUnaryMinus(t) ==
  ~ IsNum(t) /\ t.type \notin {"IDENTIFIER", "CLOSING_PARENTHESE"}

Smallest(a, b) == IF a <= b THEN a ELSE b

(* The characters lex_code has a case for. *)
Known == DOMAIN Operators \union DOMAIN Punctuation \union DOMAIN Long
           \union Blanks \union Letters \union Digits

----------------------------------------------------------------------------
Init ==
  /\ file \in Files
  /\ read = 0
  /\ at = 0
  /\ tokens = <<>>
  /\ current_line = 0
  /\ current_char = 0
  /\ lexing_status = "LEXING_SUCCESS"
  /\ messages = 0
  /\ overrun = FALSE
  /\ pc = "lexing"

(* What read_from_lexe_input_file has read once `consumed' characters are   *)
(* lexed and an empty buffer is filled: fread fills it, or stops at the end *)
(* of the file.                                                             *)
ReadTo(consumed) == Smallest((consumed \div ChunkSize + 1) * ChunkSize, Len(file))

Buffered(c) == pc = "lexing" /\ at < read /\ c = file[at + 1]

AddToken(t) == tokens' = Append(tokens, t)

AdvanceN(n) == at' = at + n /\ current_char' = current_char + n

LexComparison ==
  \E c \in DOMAIN Long :
    /\ Buffered(c)
    /\ IF at + 1 < read /\ file[at + 2] = "="
         THEN AddToken(Op(Long[c])) /\ AdvanceN(2)
         ELSE /\ AddToken(IF c = "=" THEN Token("AFFECTATION", "NONE", <<>>)
                          ELSE Op(Short[c]))
              /\ AdvanceN(1)
    /\ UNCHANGED <<file, read, current_line, lexing_status, messages, overrun, pc>>

LexOperator ==
  \E c \in DOMAIN Operators :
    /\ Buffered(c)
    /\ AddToken(Op(IF c = "-" /\ (tokens = <<>> \/ InvolveUnaryMinus(Last(tokens)))
                   THEN "UNARY_MINUS" ELSE Operators[c]))
    /\ AdvanceN(1)
    /\ UNCHANGED <<file, read, current_line, lexing_status, messages, overrun, pc>>

LexPunctuation ==
  \E c \in DOMAIN Punctuation :
    /\ Buffered(c)
    /\ AddToken(Token(Punctuation[c], "NONE", <<>>))
    /\ AdvanceN(1)
    /\ UNCHANGED <<file, read, current_line, lexing_status, messages, overrun, pc>>

(* Mutant: an end of line does not begin a line. *)
SkipBlankMutant ==
  \E c \in Blanks :
    /\ Buffered(c)
    /\ AdvanceN(1)
    /\ current_line' = IF c = "\n" THEN current_line + 1 ELSE current_line
    /\ UNCHANGED <<file, read, tokens, lexing_status, messages, overrun, pc>>

(* advance_check_ln on the characters between tokens. *)
SkipBlank ==
  \E c \in Blanks :
    /\ Buffered(c)
    /\ at' = at + 1
    /\ current_line' = IF c = "\n" THEN current_line + 1 ELSE current_line
    /\ current_char' = IF c = "\n" THEN 0 ELSE current_char + 1
    /\ UNCHANGED <<file, read, tokens, lexing_status, messages, overrun, pc>>

(* The end of the longest run of characters of a token that starts at from, *)
(* in the whole file: lex_string and lex_number read the next chunk each    *)
(* time they come to the end of one.                                        *)
EndOfRun(from, Continues(_)) ==
  CHOOSE e \in from .. Len(file) :
    /\ \A n \in from + 1 .. e : Continues(n)
    /\ e = Len(file) \/ ~ Continues(e + 1)

InWord(n) == ~ StartsToken(file[n]) /\ file[n] # "\n"

(* Whether a word is written past the end of its buffer: before character n *)
(* the buffer is doubled if n is past its end, and then it is n that was;   *)
(* the terminator is written with no test.                                  *)
Grown(size, n) == IF n > size THEN 2 * size ELSE size

WordOverruns(len) ==
  LET size[n \in 0 .. len] ==
        IF n = 0 THEN WordBuffer ELSE IF n < len THEN Grown(size[n - 1], n) ELSE size[n - 1]
  IN \E n \in 0 .. len : n >= size[n]

(* Mutant: the terminator is written behind its place. *)
NumberOverrunsMutant(written) == written >= NumberBuffer

(* The buffer of a number never grows. *)
NumberOverruns(written) == written > NumberBuffer

(* What a character past the end of a buffer does is undefined: the         *)
(* allocator that notices it, then or later, aborts the program.            *)
Writes(past) ==
  /\ overrun' = (overrun \/ past)
  /\ \/ pc' = pc
     \/ overrun' /\ pc' = "aborted"

(* Mutant: a word ends where the buffer does. *)
LexStringMutant ==
  \E c \in Letters :
    /\ Buffered(c)
    /\ LET end == Smallest(EndOfRun(at, InWord), read)
           str == SubSeq(file, at + 1, end)
       IN /\ AddToken(IF str \in DOMAIN Keywords THEN Token(Keywords[str], "NONE", <<>>)
                      ELSE Token("IDENTIFIER", "NONE", str))
          /\ AdvanceN(end - at)
          /\ read' = ReadTo(end)
          /\ Writes(WordOverruns(end - at))
    /\ UNCHANGED <<file, current_line, lexing_status, messages>>

LexString ==
  \E c \in Letters :
    /\ Buffered(c)
    /\ LET end == EndOfRun(at, InWord)
           str == SubSeq(file, at + 1, end)
       IN /\ AddToken(IF str \in DOMAIN Keywords THEN Token(Keywords[str], "NONE", <<>>)
                      ELSE Token("IDENTIFIER", "NONE", str))
          /\ AdvanceN(end - at)
          /\ read' = ReadTo(end)
          /\ Writes(WordOverruns(end - at))
    /\ UNCHANGED <<file, current_line, lexing_status, messages>>

(* A digit or the first dot of the number. *)
InNumber(n) ==
  \/ file[n] \in Digits
  \/ file[n] = "." /\ "." \notin {file[m] : m \in at + 1 .. n - 1}

NumberType(end) ==
  IF end < Len(file) /\ file[end + 1] = "f" THEN "FLOAT"
  ELSE IF "." \in {file[n] : n \in at + 1 .. end} THEN "DOUBLE" ELSE "INT"

(* lex_code after an error: the rest of the buffer is left and the status   *)
(* set back to 0, which is LEXING_SUCCESS.                                  *)
DropChunk ==
  /\ messages' = messages + 1
  /\ lexing_status' = "LEXING_SUCCESS"

(* current_char is left where the number starts. *)
LexNumber ==
  \E c \in Digits :
    /\ Buffered(c)
    /\ LET end == EndOfRun(at, InNumber)
           number == SubSeq(file, at + 1, end)
       IN /\ read' = ReadTo(end)
          /\ IF end < Len(file) /\ file[end + 1] = "."
               THEN at' = read' /\ DropChunk /\ Writes(NumberOverruns(end - at))
                      /\ UNCHANGED tokens
               ELSE /\ at' = end
                    /\ AddToken(Token(NumberType(end), "NONE", number))
                    /\ Writes(NumberOverruns(end - at + 1))
                    /\ UNCHANGED <<lexing_status, messages>>
    /\ UNCHANGED <<file, current_line, current_char>>

InvalidCharacter ==
  /\ pc = "lexing"
  /\ at < read
  /\ file[at + 1] \notin Known
  /\ at' = read
  /\ DropChunk
  /\ UNCHANGED <<file, read, tokens, current_line, current_char, overrun, pc>>

(* Mutant: reading nothing does not end the loop. *)
ReadChunkMutant ==
  /\ pc = "lexing"
  /\ at = read
  /\ read' = ReadTo(at)
  /\ UNCHANGED <<file, at, tokens, current_line, current_char, lexing_status, messages, overrun, pc>>

(* The loop of lex_code_from_file. *)
ReadChunk ==
  /\ pc = "lexing"
  /\ at = read
  /\ IF read < Len(file)
       THEN read' = ReadTo(at) /\ UNCHANGED <<tokens, pc>>
       ELSE AddToken(Token("EOF", "NONE", <<>>)) /\ pc' = "done" /\ UNCHANGED read
  /\ UNCHANGED <<file, at, current_line, current_char, lexing_status, messages, overrun>>

Next ==
  \/ ReadChunk \/ LexComparison \/ LexOperator \/ LexPunctuation
  \/ SkipBlank \/ LexString \/ LexNumber \/ InvalidCharacter

Spec == Init /\ [][Next]_vars /\ WF_vars(Next)

----------------------------------------------------------------------------
(* The types, and the buffer: what is lexed has been read, and the buffer is *)
(* filled to its end unless the file ended first.                           *)
TypeOK ==
  /\ file \in Seq(STRING)
  /\ read \in 0 .. Len(file)
  /\ read = Len(file) \/ read % ChunkSize = 0
  /\ at \in 0 .. read
  /\ tokens \in Seq([type : TokenTypes, operation : OperationTypes, text : Seq(STRING),
                     line : Nat, character : Nat])
  /\ current_line \in Nat /\ current_char \in Nat
  /\ lexing_status = "LEXING_SUCCESS"
  /\ messages \in Nat
  /\ overrun \in BOOLEAN
  /\ pc \in {"lexing", "done", "aborted"}

ExpectedOf == [f \in Files |-> Lexemes(f)]
Expected == ExpectedOf[file]

Sort(t) == [type |-> t.type, operation |-> t.operation, text |-> t.text]

(* The tokens without the one that ends them. *)
Lexed == IF pc = "done" THEN Front(tokens) ELSE tokens

(* A two-character operator with the end of a chunk in its middle, which    *)
(* becomes two tokens: the look-ahead of lexer.c:242 and 325 ends with the  *)
(* buffer.                                                                  *)
Splits(lexemes) == \E x \in Range(lexemes) :
                     x.end = x.start + 1 /\ x.type = "OPERATOR" /\ x.start % ChunkSize = 0

Split == Splits(Expected)

(* Wherever the chunks end, the tokens are those of the text, in order and  *)
(* none left out, up to the first invalid character: a word or a number     *)
(* that goes on in the next chunk is one token, and the minus after the     *)
(* refill still knows what precedes it (lexer.c:87-89, 138-140, 198-212).   *)
(* The operators of two characters are the exception.                       *)
TokensExact ==
  messages = 0 /\ ~ Split =>
    LET texts == [n \in DOMAIN Expected |-> Sort(Expected[n])]
        sorts == [n \in DOMAIN Lexed |-> Sort(Lexed[n])]
    IN /\ IsPrefix(sorts, texts)
       /\ pc = "done" => sorts = texts /\ Last(tokens).type = "EOF"

(* A token's line is the number of ends of line before it, and its column   *)
(* counts the characters of its line before it, so an error is reported     *)
(* where it is, wherever the chunks end.  The column is right only if no    *)
(* number is before the token on its line: the characters of a number are   *)
(* not counted (lexer.c:86).                                                *)
Newlines(n) == {m \in 1 .. n : file[m] = "\n"}

LineStart(n) == CHOOSE m \in {0} \union Newlines(n) : Newlines(n) \subseteq 0 .. m

Column(n) == Expected[n].start - 1 - LineStart(Expected[n].start - 1)

AfterNumber(n) == \E m \in 1 .. n - 1 :
                    IsNum(Expected[m]) /\ Expected[m].start > LineStart(Expected[n].start)

PositionsExact ==
  messages = 0 /\ ~ Split =>
    \A n \in DOMAIN Lexed :
      /\ Lexed[n].line = Cardinality(Newlines(Expected[n].start - 1))
      /\ AfterNumber(n) \/ Lexed[n].character = Column(n)

(* No word shorter than its first buffer and no number shorter than its     *)
(* only one is written past the end, wherever the chunks cut them: the test *)
(* that comes one character late (lexer.c:130) is harmless below that.      *)
TextsFit ==
  messages = 0 /\ (overrun \/ pc = "aborted") =>
    \E x \in Range(Expected) :
      Len(x.text) >= IF IsNum(x) THEN NumberBuffer ELSE WordBuffer

(* The whole file is consumed, whatever it holds: no path through a handler *)
(* leaves the position where it was.                                        *)
Finishes == <>(pc \in {"done", "aborted"})
=============================================================================
