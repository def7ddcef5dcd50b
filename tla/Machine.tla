------------------------------ MODULE Machine -------------------------------
(***************************************************************************)
(* A program from compile_from_file to the end of its run: it is compiled, *)
(* rejected or linked, and the bytecode is executed by a stack machine.    *)
(* The compiler takes one statement of the main scope a step.              *)
(* The machine is not part of the repository: its instructions are what    *)
(* the compiler's use of them means.                                       *)
(***************************************************************************)
EXTENDS Codegen, SourceProgram

CONSTANT Programs   \* the programs considered, sequences of statements

VARIABLES
  prog,     \* the program
  todo,     \* the statements compile_main_scope has still to compile
  phase,    \* "compiling", "compiled", "rejected", "running" or "halted"
  heap,     \* the compiler's blocks, variables and status
  code,     \* the linked instructions; operands count them from 0
  ip,       \* the position in code of the next instruction
  stack,    \* the operand stack
  mem,      \* the object slots
  stores    \* the values stored so far, in order

vars == <<prog, todo, phase, heap, code, ip, stack, mem, stores>>

Init ==
  /\ prog \in Programs
  /\ todo = prog
  /\ phase = "compiling"
  /\ heap = StartMainScope
  /\ code = <<>>
  /\ ip = 1
  /\ stack = <<>>
  /\ mem = <<>>
  /\ stores = <<>>

CompileStatement ==
  /\ phase = "compiling"
  /\ todo # <<>>
  /\ heap' = CompileBranch(heap, LastOf(heap, 1), Head(todo))
  /\ todo' = Tail(todo)
  /\ phase' = IF heap'.ok THEN "compiling" ELSE "rejected"
  /\ UNCHANGED <<prog, code, ip, stack, mem, stores>>

FinishCode ==
  /\ phase = "compiling"
  /\ todo = <<>>
  /\ heap' = EndMainScope(heap)
  /\ phase' = "compiled"
  /\ UNCHANGED <<prog, todo, code, ip, stack, mem, stores>>

(* Once linked only the instructions matter: the compiler is freed. *)
LinkCode ==
  /\ phase = "compiled"
  /\ code' = CodeOf(LinkInstructionsBlocks(heap))
  /\ phase' = "running"
  /\ heap' = EmptyHeap
  /\ UNCHANGED <<prog, todo, ip, stack, mem, stores>>

----------------------------------------------------------------------------
(* What an instruction compares, and what it calculates. *)
Compares == [IF_CMPEQ |-> "eq", IF_CMPNE |-> "ne", IF_CMPGT |-> "gt",
             IF_CMPLT |-> "lt", IF_CMPGTE |-> "ge", IF_CMPLTE |-> "le"]

Calculates == [BINARY_ADD |-> "add", BINARY_SUB |-> "sub", BINARY_MULT |-> "mul"]

Top == stack[Len(stack)]
Second == stack[Len(stack) - 1]
Pop(n) == SubSeq(stack, 1, Len(stack) - n)

Operands(op) ==
  CASE op \in DOMAIN Compares \union DOMAIN Calculates -> 2
    [] op \in {"OSTORE", "UNARY_MINUS"} -> 1
    [] OTHER -> 0

Fetch(ops) ==
  /\ phase = "running"
  /\ ip \in DOMAIN code
  /\ code[ip].op \in ops
  /\ Len(stack) >= Operands(code[ip].op)

Push ==
  /\ Fetch({"ICONST", "OLOAD"})
  /\ code[ip].op = "OLOAD" => code[ip].arg \in DOMAIN mem
  /\ stack' = Append(stack, IF code[ip].op = "ICONST" THEN code[ip].arg
                            ELSE mem[code[ip].arg])
  /\ ip' = ip + 1
  /\ UNCHANGED <<prog, todo, phase, heap, code, mem, stores>>

Store ==
  /\ Fetch({"OSTORE"})
  /\ mem' = (code[ip].arg :> Top) @@ mem
  /\ stores' = Append(stores, Top)
  /\ stack' = Pop(1)
  /\ ip' = ip + 1
  /\ UNCHANGED <<prog, todo, phase, heap, code>>

Arithmetic ==
  /\ Fetch(DOMAIN Calculates \union {"UNARY_MINUS"})
  /\ stack' = IF code[ip].op = "UNARY_MINUS" THEN Append(Pop(1), - Top)
              ELSE Append(Pop(2), Calculate(Calculates[code[ip].op], Second, Top))
  /\ ip' = ip + 1
  /\ UNCHANGED <<prog, todo, phase, heap, code, mem, stores>>

Branch ==
  /\ Fetch(DOMAIN Compares \union {"GOTO"})
  /\ IF code[ip].op = "GOTO"
       THEN ip' = code[ip].arg + 1 /\ UNCHANGED stack
       ELSE /\ ip' = IF Compare(Compares[code[ip].op], Second, Top) THEN code[ip].arg + 1
                     ELSE ip + 1
            /\ stack' = Pop(2)
  /\ UNCHANGED <<prog, todo, phase, heap, code, mem, stores>>

Return ==
  /\ Fetch({"RETURN"})
  /\ phase' = "halted"
  /\ UNCHANGED <<prog, todo, heap, code, ip, stack, mem, stores>>

Execute == Push \/ Store \/ Arithmetic \/ Branch \/ Return

Next == CompileStatement \/ FinishCode \/ LinkCode \/ Execute

(* A machine that runs takes its next instruction. *)
Spec == Init /\ [][Next]_vars /\ WF_vars(Execute)

----------------------------------------------------------------------------
(* The compiler rejects exactly the programs that use a name where it is    *)
(* not declared (compiler.c:238-249).                                       *)
RejectsUndeclared ==
  /\ phase = "rejected" => ~ WellScoped(prog)
  /\ phase = "compiled" => WellScoped(prog)

(* Running the bytecode stores the values the program stores, in its order, *)
(* and all of them: branches, loops, comparisons and short circuits, and    *)
(* the slots the values are read back from, are those of the source.        *)
StoresAgree ==
  /\ phase = "running" => IsPrefix(stores, Stores(prog))
  /\ phase = "halted" => stores = Stores(prog)

(* Every jump the compiler emitted is the last instruction of its block and *)
(* leads to a block of the chain, so linking gives it its operand; and no   *)
(* other instruction has its operand overwritten by a jump's.               *)
IsJump(ins) == ins.op \in DOMAIN Compares \union {"GOTO"}

JumpsLinked ==
  phase = "compiled" =>
    LET chain == ToSet(ChainFrom(heap, 1))
    IN \A b \in chain :
         LET blockCode == heap.block[b].code
             jumps == {n \in DOMAIN blockCode : IsJump(blockCode[n])}
         IN /\ jumps \subseteq {Len(blockCode)}
            /\ jumps # {} => Jump(heap, b) \in chain
            /\ jumps = {} => Jump(heap, b) = 0

(* Every block that was made is in the chain that is linked, saved and      *)
(* freed, and once: no construct loses the code it was compiled to, and     *)
(* freeing the chain from its first block (instruction_block.c:76-86) frees *)
(* every block and none again.                                              *)
BlocksOwned ==
  phase = "compiled" =>
    LET chain == ChainFrom(heap, 1)
    IN ToSet(chain) = DOMAIN heap.block /\ Len(chain) = Len(heap.block)

(* The operand stack is empty between statements: whatever path leads to a  *)
(* store or to the end, each operand was pushed once and consumed once.     *)
StackBalanced ==
  /\ phase = "running" /\ stores # <<>> /\ code[ip].op = "OSTORE" => Len(stack) = 1
  /\ phase = "halted" => stack = <<>>

(* The code of a program that ends reaches its return: no jump skips the    *)
(* end of a loop or leads back over it.                                     *)
Halts == phase = "running" ~> phase = "halted"
=============================================================================
