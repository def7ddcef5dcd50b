------------------------------- MODULE Driver -------------------------------
(***************************************************************************)
(* matpx.c and what it calls, from the arguments to the exit code: a file   *)
(* is lexed (Lexer), parsed (Parser), compiled and linked (Codegen), and    *)
(* the code is written (Instructions).  The lexer takes a token a step, the *)
(* parser and the compiler a statement, the writer a block.                 *)
(***************************************************************************)
EXTENDS Codegen, SourceProgram

CONSTANTS
  Calls,         \* the arguments considered, sequences of at most two names
  Disks,         \* the files before, functions from names to contents
  ChunkSize, WordBuffer, NumberBuffer   \* those of Lexer

VARIABLES
  arguments,     \* argv without the program's name
  disk,          \* the files
  before,        \* auxiliary, not in the code: the files when main was called
  phase,         \* where main is
  exit_code,     \* what main returns
  reported,      \* the part print_compilation_errors printed errors of
  file, read, at, tokens, current_line, current_char,
  lexing_status, messages, overrun, lexer_pc,        \* Lexer
  kinds, parser, statements, parser_pc,              \* Parser
  todo,          \* the statements compile_main_scope has still to compile
  heap,          \* the compiler's blocks, variables and status
  saving,        \* the blocks still to save
  full           \* whether the disk had no room for what was written

lexerVars == <<file, read, at, tokens, current_line, current_char,
               lexing_status, messages, overrun, lexer_pc>>
parserVars == <<kinds, parser, statements, parser_pc>>
compilerVars == <<todo, heap, saving>>
call == <<arguments, before>>
mainVars == <<call, exit_code, reported, full>>
vars == <<mainVars, disk, phase, lexerVars, parserVars, compilerVars>>

L == INSTANCE Lexer WITH pc <- lexer_pc, Files <- {}
P == INSTANCE Parser WITH tokens <- kinds, pc <- parser_pc, Programs <- {}

----------------------------------------------------------------------------
(* The tokens as the parser looks at them. *)
KindOfOperation ==
  [ADD |-> "add", SUB |-> "sub", MULTIPLY |-> "mul", DIVIDE |-> "div", POWER |-> "pow",
   UNARY_MINUS |-> "neg", LOGICAL_NOT |-> "not", LOGICAL_AND |-> "and", LOGICAL_OR |-> "or",
   EQUALS |-> "eq", NOT_EQUALS |-> "ne", LESS_THAN |-> "lt", GREATER_THAN |-> "gt",
   LESS_OR_EQUAL |-> "le", GREATER_OR_EQUAL |-> "ge"]

KindOfType(type) ==
  CASE type \in {"INT", "FLOAT", "DOUBLE"} -> "num"
    [] type = "IDENTIFIER" -> "id"         [] type = "AFFECTATION" -> "affect"
    [] type = "DELIMITER" -> "delim"       [] type = "EOF" -> "eof"
    [] type = "IF" -> "if"                 [] type = "WHILE" -> "while"
    [] type = "ELIF" -> "elif"             [] type = "ELSE" -> "else"
    [] type = "OPENING_PARENTHESE" -> "lp" [] type = "CLOSING_PARENTHESE" -> "rp"
    [] type = "OPENING_SCOPE" -> "lb"      [] type = "CLOSING_SCOPE" -> "rb"

KindsOf(list) ==
  [n \in DOMAIN list |-> IF list[n].type = "OPERATOR" THEN KindOfOperation[list[n].operation]
                         ELSE KindOfType(list[n].type)]

(* atoi, and the 64 bits of atof, of which all that matters is that they    *)
(* fill both words of an operand.                                           *)
DigitValue == [d \in L!Digits |->
                 (CHOOSE n \in 1 .. 10 : <<"0", "1", "2", "3", "4", "5", "6", "7", "8", "9">>[n] = d) - 1]

IntegerValue(text) == FoldLeft(LAMBDA v, d : 10 * v + DigitValue[d], 0, text)

DoubleBits(text) ==
  WordSize * (Len(text) + 1) + IntegerValue(SelectSeq(text, LAMBDA c : c # "."))

(* numerical_token_to_node. *)
NumericalNode(t) ==
  CASE t.type = "INT"    -> [k |-> "int", v |-> IntegerValue(t.text)]
    [] t.type = "DOUBLE" -> [k |-> "double", v |-> DoubleBits(t.text)]
    [] t.type = "FLOAT"  -> [k |-> "float"]

(* The trees of Parser as those of Codegen: list has the tokens they were   *)
(* made for.                                                                *)
RECURSIVE ExpressionOf(_, _)
ExpressionOf(n, list) ==
  CASE n.k = "num" -> NumericalNode(list[n.at])
    [] n.k = "id"  -> [k |-> "var", x |-> list[n.at].text]
    [] n.k \in {"neg", "not"} -> [k |-> n.k, r |-> ExpressionOf(n.sub[1], list)]
    [] OTHER -> [k |-> CASE n.k \in {"and", "or"} -> "log"
                         [] n.k \in DOMAIN InverseComparison -> "cmp"
                         [] n.k \in DOMAIN ArithmeticInstruction -> "arith",
                 op |-> n.k,
                 l |-> ExpressionOf(n.sub[1], list), r |-> ExpressionOf(n.sub[2], list)]

(* The nodes behind the first that belong to its if: skip_if_statement.     *)
Branches(nodes) == SelectInSeq(Tail(nodes), LAMBDA n : n.k \notin {"elif", "else"})

Belonging(nodes) ==
  IF nodes[1].k # "if" THEN 1
  ELSE IF Branches(nodes) = 0 THEN Len(nodes) ELSE Branches(nodes)

RECURSIVE StatementsOf(_, _)
StatementsOf(nodes, list) ==
  LET n == nodes[1]
      last == Belonging(nodes)
      branch(m) == StatementsOf(Tail(m.sub), list)[1]
      arms == SelectSeq(SubSeq(nodes, 1, last), LAMBDA m : m.k # "else")
      else == SelectSeq(SubSeq(nodes, 1, last), LAMBDA m : m.k = "else")
      statement ==
        CASE n.k = "affect" -> [k |-> "assign", x |-> list[n.sub[1].at].text,
                                e |-> ExpressionOf(n.sub[2], list)]
          [] n.k = "scope"  -> [k |-> "scope", body |-> StatementsOf(n.sub, list)]
          [] n.k = "while"  -> [k |-> "while", cond |-> ExpressionOf(n.sub[1], list),
                                body |-> branch(n)]
          [] n.k = "if"     -> [k |-> "if",
                                arms |-> [m \in DOMAIN arms |->
                                            [cond |-> ExpressionOf(arms[m].sub[1], list),
                                             body |-> branch(arms[m])]],
                                else |-> IF else = <<>> THEN <<>>
                                         ELSE StatementsOf(else[1].sub, list)]
          [] OTHER          -> [k |-> "expr", e |-> ExpressionOf(n, list)]
  IN IF nodes = <<>> THEN <<>>
     ELSE <<statement>> \o StatementsOf(SubSeq(nodes, last + 1, Len(nodes)), list)

----------------------------------------------------------------------------
Init ==
  /\ arguments \in Calls
  /\ disk \in Disks
  /\ before = disk
  /\ phase = "called"
  /\ exit_code = 0
  /\ reported = "none"
  /\ file = <<>> /\ read = 0 /\ at = 0 /\ tokens = <<>>
  /\ current_line = 0 /\ current_char = 0
  /\ lexing_status = "LEXING_SUCCESS" /\ messages = 0 /\ overrun = FALSE
  /\ lexer_pc = "lexing"
  /\ kinds = <<>> /\ statements = <<>>
  /\ parser = [i |-> 1, errors |-> <<>>, freed |-> {}, twice |-> FALSE, out |-> <<>>]
  /\ parser_pc = "parsing"
  /\ todo = <<>> /\ heap = EmptyHeap /\ saving = <<>>
  /\ full = FALSE

Exit(code) == phase' = "exited" /\ exit_code' = code

(* Mutant: the name of the output may have a dot. *)
ValidFilesNamesMutant(input, output) == IsSuffix(<<".", "m", "x", "p">>, input)

(* test_valid_files_names *)
ValidFilesNames(input, output) ==
  /\ "." \notin ToSet(output)
  /\ IsSuffix(<<".", "m", "x", "p">>, input)

TestArguments ==
  /\ phase = "called"
  /\ IF Len(arguments) = 2 /\ ValidFilesNames(arguments[1], arguments[2])
       THEN phase' = "opening input" /\ UNCHANGED exit_code
       ELSE Exit(1)
  /\ UNCHANGED <<call, reported, full, disk, lexerVars, parserVars, compilerVars>>

OpenInput ==
  /\ phase = "opening input"
  /\ IF arguments[1] \in DOMAIN disk THEN phase' = "opening output" /\ UNCHANGED exit_code
     ELSE Exit(2)
  /\ UNCHANGED <<call, reported, full, disk, lexerVars, parserVars, compilerVars>>

OpenOutputFails ==
  /\ phase = "opening output"
  /\ Exit(3)
  /\ UNCHANGED <<call, reported, full, disk, lexerVars, parserVars, compilerVars>>

(* Mutant: the output is opened to append. *)
OpenOutputMutant ==
  /\ phase = "opening output"
  /\ disk' = IF arguments[2] \in DOMAIN disk THEN disk ELSE (arguments[2] :> <<>>) @@ disk
  /\ \E n \in {m \in 0 .. Len(disk'[arguments[1]]) : m % ChunkSize = 0}
                \union {Len(disk'[arguments[1]])} :
       file' = SubSeq(disk'[arguments[1]], 1, n)
  /\ phase' = "lexing"
  /\ UNCHANGED <<mainVars, read, at, tokens, current_line, current_char, lexing_status,
                 messages, overrun, lexer_pc, parserVars, compilerVars>>

(* fopen empties the output.  The lexer then reads the input up to its end  *)
(* or up to an error: read_from_lexe_input_file does not tell one from the  *)
(* other.                                                                   *)
OpenOutput ==
  /\ phase = "opening output"
  /\ disk' = (arguments[2] :> <<>>) @@ disk
  /\ \E n \in {m \in 0 .. Len(disk'[arguments[1]]) : m % ChunkSize = 0}
                \union {Len(disk'[arguments[1]])} :
       file' = SubSeq(disk'[arguments[1]], 1, n)
  /\ phase' = "lexing"
  /\ UNCHANGED <<mainVars, read, at, tokens, current_line, current_char, lexing_status,
                 messages, overrun, lexer_pc, parserVars, compilerVars>>

Lex ==
  /\ phase = "lexing"
  /\ L!Next
  /\ phase' = IF lexer_pc' = "aborted" THEN "aborted" ELSE phase
  /\ UNCHANGED <<mainVars, disk, parserVars, compilerVars>>

(* parse_from_file behind lex_code_from_file.  No token has changed since   *)
(* it was lexed.                                                            *)
StartParser ==
  /\ phase = "lexing"
  /\ lexer_pc = "done"
  /\ IF lexing_status = "LEXING_ERROR" THEN phase' = "reporting" /\ UNCHANGED kinds
     ELSE phase' = "parsing" /\ kinds' = KindsOf(tokens)
  /\ UNCHANGED <<mainVars, disk, lexerVars, parser, statements, parser_pc, compilerVars>>

Parse ==
  /\ phase = "parsing"
  /\ P!Next
  /\ phase' = IF parser_pc' = "aborted" THEN "aborted" ELSE phase
  /\ UNCHANGED <<mainVars, disk, lexerVars, compilerVars>>

(* Mutant: what was parsed is compiled, whatever was not. *)
StartCompilerMutant ==
  /\ phase = "parsing"
  /\ parser_pc = "done"
  /\ phase' = "compiling"
  /\ todo' = StatementsOf(statements, tokens)
  /\ heap' = StartMainScope
  /\ UNCHANGED <<mainVars, disk, lexerVars, parserVars, saving>>

(* compile_from_file behind parse_from_file. *)
StartCompiler ==
  /\ phase = "parsing"
  /\ parser_pc = "done"
  /\ IF parser.errors # <<>> THEN phase' = "reporting" /\ UNCHANGED <<todo, heap>>
     ELSE /\ phase' = "compiling"
          /\ todo' = StatementsOf(statements, tokens)
          /\ heap' = StartMainScope
  /\ UNCHANGED <<mainVars, disk, lexerVars, parserVars, saving>>

(* The long jump of compile_variable_load comes back to compile_code. *)
CompileStatement ==
  /\ phase = "compiling"
  /\ todo # <<>>
  /\ heap' = CompileBranch(heap, LastOf(heap, 1), Head(todo))
  /\ todo' = Tail(todo)
  /\ phase' = IF heap'.ok THEN phase ELSE "reporting"
  /\ UNCHANGED <<mainVars, disk, lexerVars, parserVars, saving>>

FinishCode ==
  /\ phase = "compiling"
  /\ todo = <<>>
  /\ heap' = LinkInstructionsBlocks(EndMainScope(heap))
  /\ saving' = ChainFrom(heap', 1)
  /\ phase' = "saving"
  /\ UNCHANGED <<mainVars, disk, lexerVars, parserVars, todo>>

(* print_compilation_errors, on the first part that failed. *)
Report ==
  /\ phase = "reporting"
  /\ reported' = IF lexing_status = "LEXING_ERROR" THEN "lexing"
                 ELSE IF parser.errors # <<>> THEN "parsing" ELSE "compilation"
  /\ Exit(4)
  /\ UNCHANGED <<call, full, disk, lexerVars, parserVars, compilerVars>>

(* save_instruction_list on the next block.  What fwrite returns is not     *)
(* looked at: once the disk is full the rest of the code is lost.           *)
SaveBlock ==
  /\ phase = "saving"
  /\ saving # <<>>
  /\ LET words == SavedWords(heap.block[Head(saving)].code)
     IN \E n \in 0 .. Len(words) :
          /\ full => n = 0
          /\ disk' = [disk EXCEPT ![arguments[2]] = @ \o SubSeq(words, 1, n)]
          /\ full' = (full \/ n < Len(words))
  /\ saving' = Tail(saving)
  /\ UNCHANGED <<call, phase, exit_code, reported, lexerVars, parserVars, todo, heap>>

(* The results are freed and main returns. *)
Return ==
  /\ phase = "saving"
  /\ saving = <<>>
  /\ Exit(0)
  /\ UNCHANGED <<call, reported, full, disk, lexerVars, parserVars, compilerVars>>

Ended == phase \in {"exited", "aborted"}

(* One thread, and every call returns: the program takes steps until it     *)
(* ends.  Behind the lexer, where each step takes a statement or a block    *)
(* (Parser's Progress, todo and saving), this is said without ENABLED,      *)
(* which TLC would evaluate on all of them.                                 *)
Before ==
  TestArguments \/ OpenInput \/ OpenOutputFails \/ OpenOutput \/ Lex \/ StartParser

Behind ==
  Parse \/ StartCompiler \/ CompileStatement \/ FinishCode \/ Report \/ SaveBlock \/ Return

Fairness ==
  /\ WF_vars(Before)
  /\ []<>(phase \notin {"parsing", "compiling", "reporting", "saving"}) \/ []<><<TRUE>>_vars

Next == Before \/ Behind

Spec == Init /\ [][Next]_vars /\ Fairness

----------------------------------------------------------------------------
(* What the text that was read is, told from the text alone. *)
Lexemes == L!Lexemes(file)

(* The exit code tells what the text is: 0 if and only if the grammar       *)
(* derives it and every name it uses is declared, through lexer, parser and *)
(* compiler together; and the errors printed are those of the first part    *)
(* that fails.  An invalid character or number is forgotten (lexer.c:375)   *)
(* and a two-character operator may be cut by the end of a chunk            *)
(* (lexer.c:242): nothing is said of those texts.                           *)
ExitTells ==
  phase = "exited" /\ exit_code \in {0, 4} /\ messages = 0 /\ ~ L!Splits(Lexemes) =>
    LET list == Append(Lexemes, [type |-> "EOF"])
        trees == P!Trees(KindsOf(list))
    IN /\ (exit_code = 0) <=> \E t \in trees : WellScoped(StatementsOf(t, list))
       /\ (reported = "parsing") <=> trees = {}

(* What is in the file for a sequence of instructions: the operand where    *)
(* the type was, and then a word nobody wrote (instruction.c:109).          *)
Layout(code) ==
  FlattenSeq([n \in DOMAIN code |->
                IF code[n].op \in WithOperand THEN OperandWords(code[n].arg) \o <<Garbage>>
                ELSE <<TypeNumber(code[n].op)>>])

Output == disk[arguments[2]]

(* What the output file holds when the program ends.  Every file is as it   *)
(* was if the program did not open the output (matpx.c:26-50); the output   *)
(* is empty if it did and then failed, by an error or by an abort: what an  *)
(* earlier compilation wrote is lost.  After a success it is the code of    *)
(* the whole chain in the order it is linked, so that the targets of the    *)
(* jumps count its instructions, or the beginning of that if the disk was   *)
(* full.                                                                    *)
OutputHolds ==
  /\ phase = "exited" /\ exit_code \in {1, 2, 3} => disk = before
  /\ phase = "aborted" \/ exit_code = 4 => Output = <<>>
  /\ phase = "exited" /\ exit_code = 0 =>
       IF full THEN IsStrictPrefix(Output, Layout(CodeOf(heap)))
       ELSE Output = Layout(CodeOf(heap))

(* The program never empties or overwrites the file it compiles, whatever   *)
(* it is called with: no name is a valid input and a valid output.          *)
InputKept ==
  [][arguments # <<>> /\ arguments[1] \in DOMAIN disk =>
       disk'[arguments[1]] = disk[arguments[1]]]_vars

(* Every call of the program ends, whatever the text and wherever it fails. *)
Ends == <>Ended

(* What the callers test for, and the code does not do: a text with an      *)
(* invalid character or number is not compiled.                             *)
ErrorsReported == phase = "exited" /\ messages > 0 => exit_code = 4

(* What a file of instructions is for, and the code does not do: whoever    *)
(* reads it knows where an instruction begins from the types before it.     *)
Readable(code) == FlattenSeq([n \in DOMAIN code |->
  <<TypeNumber(code[n].op)>>
    \o IF code[n].op \in WithOperand THEN OperandWords(code[n].arg) ELSE <<>>])

FileReadable ==
  phase = "exited" /\ exit_code = 0 /\ ~ full =>
    Output = Readable(CodeOf(heap))
=============================================================================
