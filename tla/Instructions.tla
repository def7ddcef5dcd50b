---------------------------- MODULE Instructions ----------------------------
(***************************************************************************)
(* The instructions of the machine, instruction.h, and how instruction.c   *)
(* chooses them for an operator and writes them to a file.  An instruction *)
(* is its type and its operand; the second operand is never used.          *)
(***************************************************************************)
EXTENDS Naturals, Sequences, SequencesExt

Ins(op, arg) == [op |-> op, arg |-> arg]

(* The enumeration instruction_type, whose values count from 0. *)
InstructionTypes ==
  << "NONE", "ICONST", "DCONST", "OLOAD", "OSTORE", "BINARY_ADD", "BINARY_SUB",
     "BINARY_MULT", "BINARY_DIVIDE", "BINARY_POWER", "UNARY_MINUS", "GOTO", "IF_CMPEQ",
     "IF_CMPNE", "IF_CMPGT", "IF_CMPLT", "IF_CMPGTE", "IF_CMPLTE", "RETURN" >>

TypeNumber(op) == (CHOOSE n \in DOMAIN InstructionTypes : InstructionTypes[n] = op) - 1

(* operands_per_type, a table beside the enumeration: the types of 1. *)
WithOperand == {InstructionTypes[n] : n \in 2 .. 5 \union 12 .. 18}

(* The comparisons of the enumeration operators, from EQUALS_OPERATOR on.   *)
ComparisonOperators == <<"eq", "ne", "gt", "lt", "ge", "le">>

(* Mutant: the order of comparison_operator_to_instr_type_buffer, a table   *)
(* that is not used.                                                        *)
ComparisonInstructionMutant(op) ==
  CASE op = "lt" -> "IF_CMPGTE"
    [] op = "ge" -> "IF_CMPLT"
    [] OTHER -> InstructionTypes[TypeNumber("IF_CMPEQ")
                  + (CHOOSE n \in DOMAIN ComparisonOperators : ComparisonOperators[n] = op)]

(* comparison_operator_to_instruction_type: the two enumerations are taken  *)
(* to be in the same order.                                                 *)
ComparisonInstruction(op) ==
  InstructionTypes[TypeNumber("IF_CMPEQ")
    + (CHOOSE n \in DOMAIN ComparisonOperators : ComparisonOperators[n] = op)]

ArithmeticInstruction ==
  [add |-> "BINARY_ADD", sub |-> "BINARY_SUB", mul |-> "BINARY_MULT",
   div |-> "BINARY_DIVIDE", pow |-> "BINARY_POWER"]

----------------------------------------------------------------------------
(* The file, in words of four bytes: a type is one, an operand two, the low *)
(* one first.                                                               *)
CONSTANT WordSize   \* the number of values of a word, 2^32

Garbage == WordSize   \* a word nothing has been written to

OperandWords(arg) == <<arg % WordSize, arg \div WordSize>>

SizeofInstruction == 6

(* memcpy of the words at the position behind the first n. *)
Memcpy(bytes, n, words) ==
  [m \in DOMAIN bytes |-> IF m \in n + 1 .. n + Len(words) THEN words[m - n] ELSE bytes[m]]

(* Mutant: the size of the operand is not counted. *)
WriteInstructionMutant(B, ins) ==
  LET typed == Memcpy(B.bytes, B.written, <<TypeNumber(ins.op)>>)
  IN IF ins.op \in WithOperand
     THEN [bytes |-> Memcpy(typed, B.written + 1, OperandWords(ins.arg)), written |-> B.written + 1]
     ELSE [bytes |-> typed, written |-> B.written + 1]

(* write_instruction_in_buffer: the operand is copied to where the type is, *)
(* and what is counted is the size of both.                                 *)
WriteInstruction(B, ins) ==
  LET typed == Memcpy(B.bytes, B.written, <<TypeNumber(ins.op)>>)
  IN IF ins.op \in WithOperand
     THEN [bytes |-> Memcpy(typed, B.written, OperandWords(ins.arg)), written |-> B.written + 3]
     ELSE [bytes |-> typed, written |-> B.written + 1]

(* What save_instruction_list gives to fwrite. *)
SavedWords(code) ==
  LET B == FoldLeft(WriteInstruction,
                    [bytes |-> [m \in 1 .. SizeofInstruction * Len(code) |-> Garbage],
                     written |-> 0],
                    code)
  IN SubSeq(B.bytes, 1, B.written)
=============================================================================
