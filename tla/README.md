# Matematix: a verification project

Matematix (`src/src/`) compiles programs of a small imperative language, with
numbers, arithmetic, comparisons, `&`, `|`, `!`, assignments, blocks, `if`/`elif`/`else`
and `while`, to the bytecode of a stack machine. It is a sequential C program: nothing in
it runs concurrently, nothing is persisted between runs, and its only input
that arrives in pieces is the source file. What is hard in it is order and
linking: lists relinked while they are walked, a map that grows and shrinks
under the names it numbers, jumps to code that does not exist yet, input cut at arbitrary
places, and error paths that free what others still use.

This directory holds TLA+ models of its parts, configurations for TLC, and proofs for TLAPS.

## 1. The system

| part | source | state | operations |
|---|---|---|---|
| lexer | `lexing/lexer.c`, `data_structures/token.c` | chunk buffer, `reading_index`, `end_index`, `current_line`, `current_char`, `lexing_status`, token list | `lex_code_from_file` reads chunks; `lex_code` dispatches to `lex_comparison`, `lex_operator`, `lex_string`, `lex_number`, the punctuation and blank cases |
| parser | `parsing/parser.c`, `data_structures/parsing_node.c` | `current_index`, `parsing_status`, errors, the nodes | one function per rule; recovery in `parse_main_scope` and `parse_scope`; frees on error paths |
| condition jumps | `data_structures/parsing_node.c` 481-561 | tables from nodes to operands, levels and jumps | `map_condition_jumps` |
| code generation | `compilation/compiler.c` | instruction blocks, the variables map, `status` | a `compile_` function per construct, a long jump out of all of them for an undeclared name |
| linking | `compilation/compiler.c` 618-655 | block to index | `map_instruction_block_index`, `link_instructions_blocks` |
| hash map | `data_structures/hash_map.h` | `capacity`, `size`, `buckets` | put, get, doubling, removal; `compiler.c` 32-57 adds a sweep by value |
| instruction writer | `compilation/instruction.c`, `instruction_block.c` | a byte buffer | `write_instruction_in_buffer`, `save_instruction_list` |
| driver | `compilation/matpx.c` | two files, the exit code | tests the names, opens both files, compiles, reports or saves |
| hash set | `data_structures/hash_set.h` | as the hash map, without values | add, remove, contains, doubling; used by tests |
| void hash table | `data_structures/void_hash_table.c` | as the hash map, on `void *` | put, get, contains, remove, change of capacity; in no build target |
| array list | `data_structures/array_list.h` | a block of cells, `size`, `capacity` | add, add at, pop, delete; used by all parts |

The driver calls `compile_from_file`, which calls `parse_from_file`, which calls
`lex_code_from_file`; each stage runs to its end before the one that called it goes
on, and hands over a complete list (tokens, nodes) and a status. The compiler
uses four instances of the hash map: names to slots for the whole program, and for each condition
nodes to operands, nodes to jumps and nodes to blocks. The machine that executes the bytecode
is not in the repository.

### What makes each part correct

- *Hash map*: every entry is in the bucket its hash names, at every step of the doubling, no key
  is stored twice, `size` counts the keys, the load is bounded, the walks end; seen from
  outside it is a dictionary.
- *Names*: what a block declares is known to its end and no further; a live name's slot is written
  under no other name.
- *Conditions*: operands are evaluated from left to right, each at most once, none that the
  earlier ones decide, and the value is that of the formula.
- *Code*: it stores what the source stores, every jump is linked, the stack is balanced, a
  program that ends reaches its `RETURN`.
- *Lexer*: the tokens, lines and columns do not depend on where chunks end.
- *Parser*: it accepts the grammar and nothing else, returns its tree, comes to the end of any
  input, and returns nothing it has freed.
- *Set, table, list*: the set and the table hold the same keys after the same calls, the table is a dictionary
  from which keys can be taken, the list is a sequence.
- *Writer and driver*: the exit code tells whether the text is a program, the output holds the code
  of the whole chain in the order of its jumps, and no call touches the input.

`PROJECT.json` lists under `hazards` the lines at which each of these can go wrong.

## 2. The modules

| module | models | in terms of |
|---|---|---|
| `Hashing` | what the three containers are given | keys, values, hash, capacity and width as constants |
| `HashMap` | `hash_map.h`, the sweep of `compiler.c` | buckets as sequences; put as one action, the doubling and the sweep as walks of one action per iteration of their inner loops |
| `Dictionary` | what a map promises | a function, with put and remove one key at a time |
| `HashMapRemoval` (extends `HashMap`) | `remove_from_`, `remove_if_condition` | two actions more on the map's state |
| `HashMapProofs`, `HashMapRemovalProofs` | | the theorems about the map, as lists and as a dictionary, and about the map with its removals |
| `HashSet`, `VoidHashTable` | `hash_set.h`, `void_hash_table.c` | a record and one function per operation |
| `Tables` (instances of both) | their use | each call goes to both |
| `TablesProofs` | | the theorems about the set and the table |
| `ArrayList` | `array_list.h` | a block of cells, `realloc` and `memmove` as what they do to it |
| `ArrayListProofs` | | the theorem about `ArrayList` |
| `DataLemmas` | | what insertion and removal do to a sequence; least and greatest elements of sets of numbers; powers of two |
| `Scopes` (extends `HashMap`) | how `compiler.c` uses names | one action per use of a name, per brace and per step of a walk |
| `LexicalScopes` | block scoping | a stack of sets of names |
| `ScopesProofs` (extends `HashMapProofs`) | | the theorems about `Scopes` |
| `ConditionJumps` | `map_condition_jumps` | operators on trees, a tree being a function from paths |
| `ShortCircuit` (extends `ConditionJumps`) | `map_conditions_instructions_block`, and the run of its chain | one action per call, per return and per test |
| `BooleanEvaluation` | left-to-right evaluation | which operand may be asked next |
| `ShortCircuitProofs` | | the theorems about the chain of a condition |
| `Instructions` | the instruction types, the choice of an instruction, the file's words | operators, and a buffer that is written over |
| `Codegen` (extends `ConditionJumps`, `Instructions`) | the `compile_` functions and linking | operators over a record that is the compiler's heap |
| `SourceProgram` | the meaning of a program | an interpreter, and the scope rule, on the tree |
| `Machine` (extends `Codegen`, `SourceProgram`) | compiling, linking, running | an action per statement compiled and per instruction executed |
| `Lexemes` | the character tables of `lexer.c`, and the lexemes of a text by longest match | |
| `Lexer` (extends `Lexemes`) | `lexer.c` | an action per token, blank, chunk and error |
| `LexerProofs` | | the theorems about the lexer |
| `Grammar` | the operators and tokens of `parser.c`, and the trees of a token sequence | derivations by splitting intervals |
| `Parser` (extends `Grammar`) | `parser.c` with its frees | operators over the parser's record; an action per statement of the main scope |
| `Driver` (extends `Codegen`, `SourceProgram`; instances of `Lexer` and `Parser`) | `matpx.c`, `compile_from_file`, `parse_from_file` | the whole program: an action per call of `main`, and within a call the actions of its part |

`MCContainers`, `MCScopes`, `MCShortCircuit`, `MCMachine`, `MCLexer`, `MCParser` and `MCDriver` instantiate
them. The reference modules (`Dictionary`, `LexicalScopes`, `BooleanEvaluation`, `SourceProgram`,
the second halves of `Lexemes` and `Grammar`) are written from what the
language means, and share no algorithm with the code: where the parser descends
`Grammar` splits, where the lexer scans `Lexemes` takes the longest match, and `SourceProgram` has no jumps.

### Correspondence

- **HashMap.** `pc` says which loop runs; `i` is its `i`; `at` is `current_entry`
  (0 the sentinel) in the doubling, and in the sweep 0 for the first loop and the
  position of `current` in the second. `PutAtHead`, `PutBehindHead` and `PutNew` are
  the branches of `put_to_`; each includes the resize test, whose masks are written as divisions,
  and the beginning of the doubling. `SweepInner` tests the second entry of the bucket
  whatever `at` is, as `head->next` does.
- **HashMapRemoval.** `remove_from_` relinks the list before it takes the entry to free from it, and so takes the one
  behind: with none behind it reports, and counts, no removal (`uncounted`), else it frees an entry that
  stays linked (`dangling`), and the model ends there. `remove_if_condition` is one action over all buckets; `Kept` is what
  its two loops leave of one.
- **HashSet, VoidHashTable.** No caller is called back between two writes, so a call is one step. `DoubleBucket` is
  the doubling of the set for one list, whose cursor passes over the entry behind one that moved; `exact` (in `Tables`) notes
  whether that has put an element where it is not looked for. `InSetBucket` is one equality: `add` and `remove` ask `equals_function`
  (`hash_set.h:102`, `105`, `130`, `136`) and `contains` compares with `!=` (150), which is the same for sets of `int` and
  not for equal strings at two addresses.
- **ArrayList.** Cells behind the size keep what they held; `size - 1` of 0 is `SizeMax`. The index of `add_at` is taken from 0 to the size:
  `array_list.h:45-57` does not check it, and nothing in the repository calls it.
- **Scopes.** `scopes` is the `original_index` of the calls of `compile_scope`
  on the stack; the sweep's bound is computed modulo `SizeMax + 1`. `NoTriples` and `GlobalFirst` are restrictions on the
  program, stated beside the specification. `mem` is auxiliary: the name each slot was last stored under.
- **ShortCircuit.** The recursion of `map_conditions_instructions_block` is unrolled: `Descend` is
  a call down to the next one, `Link` what follows its return; `CallDepth` is how many calls the C stack has room for. `chain` is the call stack and then the chain
  of blocks, `linked` the table of blocks together with their jumps.
- **Codegen.** A pointer to a block is its position in `S.block`; the value a C function returns
  that is also the last block from its argument is taken with `LastOf`. What is compiled
  after the long jump is not looked at, since `ok` is FALSE. `S.vars` is a function: the map behind it is the
  subject of `HashMap` and `Scopes`.
- **Machine.** `Push`, `Store`, `Arithmetic`, `Branch` and `Return` are the machine outside of the
  repository, read off the compiler's use of the instructions.
- **Instructions.** The file is a sequence of words of four bytes: a type is one, an operand two. What `malloc` left in
  a word nobody wrote is `Garbage`, a value of its own.
- **Lexer.** The buffer holds consecutive pieces of the file, so `reading_index` and `end_index` become two positions
  in the file. A token is lexed in one step, refills included. `overrun` notes a
  character written past `WordBuffer` or `NumberBuffer`, after which the process may abort or go on.
- **Grammar.** `gramar_rules.txt` is an early state of the language: it asks for parentheses around the condition of an `if` and braces around its
  branch, where the parser asks for neither (`parser.c:241-244`), and it has no `while`, `elif`, `else` and `^`.
- **Parser.** A node is named after its token; `P.freed` collects nodes freed and `P.twice` notes a second free, after which
  the process may abort or go on.
- **Driver.** `phase` is where `main` is; `before` is auxiliary: the files when it was called. `KindsOf` is the token as the parser looks at it, and `StatementsOf` the parser's tree as
  `Codegen` reads it, with `skip_if_statement` and `numerical_token_to_node`. A read that fails ends the input
  early (`OpenOutput` picks how far it is read), and a full disk cuts the output (`SaveBlock`), since neither `fread`'s nor
  `fwrite`'s result tells more in the code. `phase = "aborted"` is the abort of an overrun or of a second free.

The definitions named `...Mutant` are faults: each is what the definition after it could wrongly be. They are used nowhere, and each is there to show
that a property fails when the code has that fault.

## 3. What is checked

| run | question | bounds |
|---|---|---|
| `MCContainers` | the map: `TypeOK`, `Placement`, `UniqueKeys`, `SizeCountsUncounted`, `LoadFactorWhenSmall`, `ConditionDecides`, `WalksEnd`; the set and the table: `SetAgrees`, `NothingLost`, `Answers`, `TableFinds`, `TableImplementsDictionary`; the list: `ListIsSequence` | five keys whose hashes collide modulo 2, 4 and 8, capacity from 2 to 8, two values, every sequence of calls; lists of up to five elements in a block of two that doubles |
| `MCScopes` | `SizeExact`, `SlotsDense`, `OwnSlot`, refinement of `LexicalScopes` by the names and of `Dictionary` by the map | four names, two nested blocks |
| `MCScopesTriple` | `OwnSlot` when three names share a bucket | one block; *violated* |
| `MCShortCircuit` | `JumpResolved`, `JumpsForward`, `ChainComplete`, refinement of `BooleanEvaluation`, `Terminates` | every formula of up to five operands, all values, five calls deep |
| `MCMachine` | `RejectsUndeclared`, `StoresAgree`, `JumpsLinked`, `BlocksOwned`, `StackBalanced`, `Halts` | each of eight statements on each of some 115 conditions from three initial states |
| `MCMachineBranch` | `RejectsUndeclared` where a branch declares what its condition reads | *violated* |
| `MCMachineLoop` | `StoresAgree` for loops with a body that is no block | *violated* |
| `MCLexer` | `TokensExact`, `PositionsExact`, `TextsFit`, `Finishes` | files of up to four of twelve pieces, chunks of three characters, buffers of six and four |
| `MCParser` | `AcceptsGrammar`, `ResultAlive`, `Progress` | expressions of up to five tokens of eight kinds, programs of up to four of eleven pieces, and complete statements of several branches |
| `MCDriver` | `ExitTells`, `OutputHolds`, `InputKept`, `Ends` | eight calls, texts of up to three of fourteen pieces read four characters at a time, reads and writes that fail at any point |
| `MCDriverErrors` | `ErrorsReported` | *violated* |
| `MCDriverFile` | `FileReadable` | *violated* |

**Why the bounds are enough.** The map's code tests only equality of keys, emptiness of lists and
`hash % capacity`: two keys that separate at each doubling and a pair that never does give every shape of bucket the loops
tell apart, and a capacity of 2 in place of 16 makes the first
doubling come at two keys. The histories of the map, of the set and table, and of the list
are separate (`subject`): they share no state in the program. `MaxUncounted` ends the histories of the map behind two removals that were not counted,
and `MaxListSize` those of adds to the list; the block doubles twice below it. Three nested levels of names (global, block, inner block) are what distinguishes a sweep's bound from
the next. A formula of five operands has each operator on both sides of the other at two depths,
and its compilation needs five nested calls and no more: `CallDepth` is exactly that, so a chain that came back to an operand would fill it. In the machine
a condition can be an operand of arithmetic, of a comparison, of a conjunction and of a negation, and
a statement can be in each branch of an `if` and in a loop. A chunk of three characters is shorter and longer than
a piece, so each kind of token meets the end of a chunk at its first, middle and last
character and behind it; the two buffers are shorter than the longest word and number that are lexed, and longer than
the shortest. A word of the file has 256 values in place of 2^32 (`WordSize`), so that a constant can have two. The parser's functions look one token ahead (two for an
assignment); the sequences are longer than any rule up to its first repetition. The texts of `MCDriver` hold every kind of
statement, every error a part of the program can find, and both aborts; each part's own run has the rest.

**Fairness.** The map's walks, the chain of a condition, the lexer and the machine are loops of one thread, so weak
fairness of their steps says only that the processor does not stop. The environment's choices (which key is put, when a
sweep begins, which statement comes next) are under no fairness. The parser
has none: its termination is the action property `Progress`, that no statement and no recovery leaves the token
it began at, which is stronger and needs no fairness. `Driver` composes
them: one thread in which every call returns. Its steps up to the parser are under weak fairness; behind it the same is said as "infinitely
often a step, or infinitely often in another phase", which for steps that are enabled throughout a phase is what weak fairness says, because TLC evaluates
`ENABLED` of the parser's and the compiler's recursive operators too slowly. Neither assumes more than that the processor does not stop and the
file system answers.

**What the bounds do not reach.** Five keys never bring the size to the masks of the resize test, so `LoadFactorWhenSmall` says of them only
what the proof says (`LoadFactorCorrect`). No piece of `MCLexer` is a `FLOAT` token (a number with an `f` behind it); one of `MCDriver` is.
A put of a stored key is in `MCContainers` and not in `MCScopes`, as the compiler makes none.

**Where a run may stop.** `MCContainers`, `MCShortCircuit` and both `MCScopes` runs allow deadlock: the map is left as it is once
a linked entry has been freed and the list once its size has wrapped, a
program with names may be at its end, and a condition stops where its value is known (`Terminates` says that it stops nowhere
else). The other modules stutter explicitly when they have stopped.

### Preconditions the runs name

Properties are checked where the code keeps them, and each exception is written in the module:

- `NoTriples` (`Scopes`): a block closes only when no bucket has three entries (`ShortChains` of `HashMap`). Nothing in the compiler sees
  to it; the run `MCScopesTriple` shows what happens otherwise.
- `GlobalFirst` (`Scopes`): a block opens only after a first variable. `original_index - 1`
  wraps around for a block entered earlier (`compiler.c:216`), and `ImplementsLexicalScopes` then fails, for the names of the block stay known.
  The compiler does not see to this either. `ScopesSpec` is every program, `GlobalFirstSpec` (`MCScopesTriple`) those of `GlobalFirst`,
  and `ShortChainsSpec` (`MCScopes`) those of both (`CheckedPrograms`).
- `LoadFactorWhenSmall`: the masks of the resize test (`hash_map.h:141-143`) use `sizeof(size_t)`, a count of bytes, where bits
  are meant; for sizes of which bit 6 or 7 is set the map does not grow.
- `Split` (`Lexer`): a two-character operator cut by the end of a chunk is two tokens (`lexer.c:242`, `325`). The chunk is 128000 characters.
- `AfterNumber` (`Lexer`): a number does not advance `current_char` (`lexer.c:86`), so columns are exact only before the
  first number of a line.
- `dangling` and `uncounted` (`HashMapRemoval`): `hash_map.h:187-195`. `SizeCountsUncounted` says that this is all that
  makes the size and the lists disagree. No part of the compiler calls these removals.
- `exact` (`Tables`): the set agrees with the table until a doubling has passed over an element that had to move
  (`hash_set.h:84`); `NothingLost` holds beyond. The capacities agree up to `2^(SizeofSizeT - 2)`: there the masks of
  `hash_set.h:115-116` begin to stop the doublings of the set, and the table has none.
- `ConditionDecides` is exact in lists of at most two entries, and one-sided in longer ones (`hash_map.h:88`).
- `Inside` (`ArrayList`): the pop of an empty list wraps the size (`array_list.h:61`); no caller pops an empty list.
- `TextsFit` is about texts shorter than their buffers: a word of exactly the capacity (`lexer.c:130`), and any number of
  as many characters as its buffer (`lexer.c:72`), is written past it.
- `MCDriver`'s texts have no block before the first variable, no three names in a bucket, no plain loop bodies and no
  branch that declares what its condition reads: the runs above show what happens then.
- `messages = 0` (`Lexer`, `Driver`): after an invalid character or number the rest of the chunk is dropped (`lexer.c:373-376`).

### What the violated runs show

1. `MCScopesTriple`: the sweep tests `head->next` and unlinks `current->next` (`compiler.c:47`). Its cursor leaves the head only once `head->next` has tested as
   staying, and then it unlinks nothing more of the bucket: no name in scope is removed, but a third name that goes out of scope survives. Other names
   of its block are taken, the size falls to its slot, and the next new name is given that slot. In the trace `A`, `a` and `q` share
   a bucket: behind `A = ..; a = ..; { x = ..; q = ..; }` the map still has `q` with slot 3 and size 3, and the next new name is stored in slot 3.
2. `MCMachineBranch`: an `if`'s branch is compiled before its condition (`compiler.c:502-518`), so `if a a = 1;` is accepted with `a` undeclared.
3. `MCMachineLoop`: `compile_while` compiles its body as a block whatever it is (`compiler.c:598`): a lone assignment is dropped, a lone `if` loses its condition.
4. `MCDriverErrors`: `lex_code` resets the status after an error (`lexer.c:375`), so no caller ever sees `LEXING_ERROR`: a text with an
   invalid character (`$`) or number (`1.1.`) is compiled without the rest of its chunk, and `main` returns 0.
5. `MCDriverFile`: `write_instruction_in_buffer` copies the operand over the type (`instruction.c:109`), so the file does not tell its instructions.

Met on the way, and named by the properties they bound: `1 < ;` frees its left operand twice (`parser.c:350`; `ResultAlive` excepts
the abort it may cause), the output is emptied before the input is compiled (`matpx.c:45`; `OutputHolds`), and a failed read or write is not
noticed (`lexer.c:35`, `instruction.c:128`; `ExitTells` and `OutputHolds` say what happens).

## 4. What is proved

For every value of the constants: any keys and hashes, any capacity, any depth of nesting, any condition, any text
and any chunks.

### The map (`HashMapProofs`)

    THEOREM MapCorrect        == Spec => []MapInv
    THEOREM LoadFactorCorrect == Spec => []LoadFactorWhenSmall
    MapInv == TypeOK /\ Placement /\ UniqueKeys /\ SizeExact

and from the first the four conjuncts as theorems `TypeCorrect`, `PlacementCorrect`, `UniqueKeysCorrect` and `SizeCorrect`.
The only assumption is `ConstantsAssumption`: values and hashes are natural numbers, the initial capacity is not 0, and
`SizeofSizeT` is at least 2, as C's `size_t` has 16 bits or more.

None of the last three conjuncts is inductive alone. `size` may be decremented by a sweep because it counts the entries,
and it counts keys only if none is stored twice; a put keeps keys unique only if it looks where the key
would be, which is `Placement`; and `Placement` is false in the middle of a doubling, so it is stated for the
entries the walk has *passed*: the buckets before `i`, those of bucket `i` up to the cursor, and the
new half of the array. The doubling step keeps it because an entry that moves goes to a bucket that is
either passed, or still ahead, where it will be looked at again; `TypeOK` holds the cursor's range that this
needs.

`LoadFactorWhenSmall` speaks only of small sizes, and a map can come back to a small size by a sweep after it was a large one. So its
invariant `LoadInv` remembers: the load is below three quarters, or the capacity is already so large that it is for
every size the masks of `hash_map.h:141-143` let the test see.

There is one lemma for each operation and conjunct (`PutType`, `MoveType`, `DropType`, then `PutInv`, `MoveInv`, `DropInv`,
`WalkInv`); the `...Effect` lemmas first say what a step does to the lists, so that the invariants are argued on those
statements and not on the definitions. `CountedInv(u)`, the invariant with a size that counts `u` keys more than there are, serves both this
module (`u` is 0) and the removals.

### The removals (`HashMapRemovalProofs`)

    THEOREM RemovalSound               == RemovalSpec => [](TypeOK /\ Placement /\ UniqueKeys)
    THEOREM SizeCountsUncountedCorrect == RemovalSpec => []SizeCountsUncounted
    THEOREM RemovalLoadFactor          == RemovalSpec => []LoadFactorWhenSmall
    THEOREM ConditionDecidesCorrect    == RemovalSpec => ConditionDecides

for every set of conditions (`ConditionsAssumption`). `remove_from_` empties one cell or none, `remove_if_condition` the
cells of `CellsUnlinked`; `Thinned(G)` says what is left of the lists when the cells of `G` are gone, and the invariant
is argued on that. The size falls by as many as cells are emptied, but for the last entry of a list behind its head,
which `remove_from_` takes and does not count (`uncounted`); and since no key is stored twice the keys fall by as many.

### The dictionary and the scopes (`HashMapProofs`, `ScopesProofs`)

    THEOREM ScopesMapCorrect         == ScopesSpec => []MapInv
    THEOREM SlotsDenseCorrect        == ScopesSpec /\ NoTriples => []SlotsDense
    THEOREM OwnSlotCorrect           == ScopesSpec /\ NoTriples => []OwnSlot
    THEOREM DictionaryImplemented    == ScopesSpec /\ NoTriples => ImplementsDictionary
    THEOREM LexicalScopesImplemented == ScopesSpec /\ NoTriples /\ GlobalFirst => ImplementsLexicalScopes

The first is about every program. The others are about the programs that meet their hypotheses, which the compiler does not see to: `NoTriples`, without which
`MCScopesTriple` shows `OwnSlot` violated, and for block scoping `GlobalFirst`. The slots are apart and the map is a dictionary in programs with a
block before the first variable too. Within the hypotheses the number of names, their hashes, the capacity and the nesting are any, and the lemma `CheckedPrograms` says that
the programs of `MCScopes` are among them. `NamesAssumption` says that a program has finitely many names and that their number
and the greatest bound of a sweep are a `size_t`.

The second part of `HashMapProofs` says of each step of the map which step of `Dictionary` it is: a put is a put, a step of a
doubling is a stutter because the entry that moves keeps its key and value, and a step of the sweep is a removal of a
key above the limit, or a stutter. That the sweep takes *every* such key is `Swept`: what it has passed holds none. It is inductive where
lists have at most two entries, and this is the step that fails for three.

`ScopesInv` adds that the slots of the known names are the numbers below `Top` (the size, or during a sweep the size
there will be), each the slot of one name and last stored under it, and that the original indices on the stack grow with the nesting, up
to `Top`. Each is needed for the others: a new name's slot `map->size` is free because the slots are dense; they are dense after a sweep
because it removes the slots from the block's original index up. With an original index of 0 the limit wraps to `SizeMax`, the sweep takes nothing and `Top` stays
the size (`Sweeping`): the slots stay apart, but the block is not forgotten, so the refinement of `LexicalScopes` needs `BlocksAfterFirst` besides. For
it the names of a scope are those with slots between two neighbouring original indices.

### The chain of a condition (`ShortCircuitProofs`)

    THEOREM JumpResolvedCorrect  == Spec => []JumpResolved
    THEOREM JumpsForwardCorrect  == Spec => []JumpsForward
    THEOREM ChainCompleteCorrect == Spec => []ChainComplete
    THEOREM EvaluationImplemented == Spec => ImplementsEvaluation

for every set of trees of which each has both operands at each `&` and `|` and a deepest node (`TreesAssumption`, `IsTree`); TLC
evaluates it for the trees of `MCShortCircuit`.

What `map_condition_jumps` computes is first described for one operand: the ancestors it is in the left part of (`Turns`) are
conjunctions and disjunctions, and of each kind the lowest decides; the operand across the lower of the two is the one fallen through to,
the one across the other is jumped to, and across a higher ancestor is further right in the source. From this follow that `next_node` is the *next* operand of the source and that
`jump_node` is behind it. The inductive invariant is `ConditionInv`: the chain is sorted in the order of the source and each block's
`next_node` is the one behind it (`ChainInv`), on the way down every operand is in the chain or still to come (`DescendInv`), at its end all are in
it (`ReturnInv`), and on the way back those linked are the ones behind the call that returns (`LinkInv`). A jump is resolved
because its operand is behind, and so has returned.

`EvaluationImplemented` is the refinement: every step of the chain is a step of `BooleanEvaluation` or a stutter, so for every formula and all
values of its operands only operands the result still depends on are tested, from left to right, and the constant pushed is the value.
What a formula can still be (`PossibleValues`), what it is known to be (`Decided`) and what is to be asked next (`NextLeaf`) are recursive functions over the
tree: `TreeRecursion` shows that such a function exists (of the depths from which on one exists there is a least, and it is 0), and facts about them
hold because no node is the lowest at which they fail (`LowestNode`). The argument is then one about the operand the chain is at, `Reached`: the
operands answered are all before it, and what is on its left below each of its ancestors is neutral there, TRUE for `&` and FALSE for `|`.
At such a state the formula is open and this operand is the next to be asked (`ReachedOpen`). TRUE takes the chain across the lowest `&` the
operand is on the left of and FALSE across the lowest `|` (`GoesTo`), and that is the lowest ancestor its value leaves open: what is
below is settled (`AnswerSettles`), so the operand beyond is reached (`NextReached`), and where there is no such ancestor the condition has that
value and the chain goes to its block (`ConditionSettled`). The inductive invariant is `EvalInv`, `ConditionInv` with `Reached` while the chain runs
(`RunInv`) and the first operand of the source first in the chain (`FirstInv`); TLC checked it on the formulas of `MCShortCircuit` before it was proved.

### The set and the table (`TablesProofs`)

    THEOREM TableFindsCorrect  == TablesSpec => []TableFinds
    THEOREM TableDictionary    == TablesSpec => TableImplementsDictionary
    THEOREM NothingLostCorrect == TablesSpec => []NothingLost
    THEOREM SetAgreesCorrect   == TablesSpec => []SetAgrees
    THEOREM AnswersCorrect     == TablesSpec => Answers

for all keys, values, hashes and histories, from `SizesAssumption`: hashes are natural numbers, the initial capacity is not 0, `SizeofSizeT` is at
least 2. That the capacity is a power of two, as in the code, is not needed once `hash & (capacity - 1)` is read as the remainder.

The inductive invariant is `TablesInv`: there are capacities for which `BothHave` holds. The table's part is `TableHas`: entries are where their hash says
(`Fits`), no two have the same key, no cell is twice in the lists (`Apart`), the size counts the cells, and the load is below three quarters.
Of the set, beyond `exact`, only this is true: its size counts its cells, and it holds every key of the table. While `exact` (`Matches`), it holds
no other, each once and where it is looked for, and both have the same size and, up to the masks, the same capacity: with sizes equal and
the load below three quarters both resize tests say the same (`SameTest`), so a doubling of one is a doubling of the other.

A doubling is a walk inside a walk. `Iteration` turns each into a sequence of states of which each is one pass of the loop's body, and
`UpToBound` is the induction along it. What the inner walk keeps is `Pending`: the entries still in hand and those in the lists are
together the old ones, as many, and apart if those were. Each pass takes one out of hand and puts it at the head or the end of *some*
list (`Inserted`), so this holds of both containers, and of the set whatever its cursor passes over: that is `NothingLost`.
Where things end up is argued separately. In the table every list the walk has been through fits and stays so, because the
entries that come to it later are put there by their hash; the new half is empty at the start and fits by the same argument.
In the set this fails for an element the cursor passes over, and `exact` says whether it has.

### The list (`ArrayListProofs`)

    THEOREM ListCorrect == ListSpec => ListIsSequence

for every set of elements, every first capacity and any number of doublings, from `ListAssumption` (the first capacity is not 0,
`SizeMax` is a natural number). The invariant is `ListInv`: there
are as many cells as the capacity says. The `...Effect` lemmas say what a call leaves in the cells, among them that `memmove`
reads no cell outside of the block, which is where `Inside`, the size not being above the capacity, is needed; the `...Sequence` lemmas compare
the result with the sequence by its elements. The bound `MaxListSize` plays no part in the proof.

### The lexer (`LexerProofs`)

    THEOREM LexerTypes     == Spec => []TypeOK
    THEOREM LexerInvariant == Spec => []LexInv
    THEOREM LexerTokens    == Spec => []TokensExact
    THEOREM LexerPositions == Spec => []PositionsExact
    THEOREM LexerBuffers   == Spec => []TextsFit

for every set of files, every size of chunks and of both buffers, from `LexerAssumption`: files are sequences of characters, the three sizes are
not 0, and a keyword is shorter than the first buffer of a word, which in the code has 32 characters.

`Lexemes` and the code take the same text apart in two ways. `Found(f)[p]` is the lexemes of `f` that start at or before
`p`, each the *longest* text there that is one; the code decides by the first character, and reads on as far as it can, through the ends of chunks. So the
lemmas about data say what is longest where a word, a number, an operator of one and of two characters begins, and the lemmas
about the code that this is what it consumes, classified in the same way.

The three properties speak of the tokens; `LexInv` adds what connects them with the place in the file. `Ahead`: the lexemes found in what is lexed end there, or one character further if an `=` is cut off by the end of a
chunk. As long as no operator has been cut, `Exact`: they end where the lexer is (`Aligned`), there are as many as tokens, and each token is that lexeme (`Right`). `Place`: the line is the
number of line ends before `at`, and the column the distance to the last of them, unless a number was met on the line (`NumberBefore`). And a
buffer that overran has met a text `TooLong` for it. It has to hold these *together*: whether a minus is unary is decided by the token
before it (`UnaryAgrees`, which needs `Exact`), and a token is where its lexeme starts only if nothing before was missed (`Place` with `Aligned`). TLC checked
`LexInv`, which contains `TypeOK`, on the files of `MCLexer` before it was proved.

### Instead of induction

The provers cannot use the library's induction theorems. Where an argument is one about data it is put as one about the least
counterexample, with `LeastNatural` of `DataLemmas` (a set of natural numbers that is not empty has a least element): two
leaves part at the least place at which they differ, going left ends at the deepest of the nodes it passes, the first entry
a loop spares is the least position of one, the value of a formula is what its definition says because no node is the lowest at
which it is not, and the lexemes found up to a position are well typed, sorted and apart because there is no first
position at which they are not. That a loop keeps what its body keeps is the same argument (`UpToBound`), and a recursive function
over 0 .. N is a sequence of such states (`Iteration`).

### Only model-checked

- Liveness (`WalksEnd`, `Terminates`, `Halts`, `Finishes`, `Ends`): out of the prover's reach.
- `Machine`, `Parser`, `Driver`: recursive operators (`Codegen`, `SourceProgram`, `Grammar`), which the provers do not take.

## 5. What is not modelled

- Printing and displaying: pure output. The tests and the build are read for what they say.
- The frees at the end of each part: one step of `Driver` (`Return`). Of memory the models hold the parser's frees, the
  blocks of the chain (`BlocksOwned`), the entries `remove_from_` frees and the lexer's two buffers; failing
  allocations are not modelled.
- What the long jump of an undeclared name leaves unfreed (`compiler.c:247`).
- The run of float and double constants, division and power: `Driver` compiles and saves them, and the machine that
  would run them is not in the repository. `atof` is known by its size only (`DoubleBits`).
- Overflow of the integers of the compiled program, and of `atoi`, for the same reason.
- Arguments behind the second, which `main` does not look at.

## 6. Plan

Done, in this order: `HashMap` with its proofs, `Scopes`, `ConditionJumps` and `ShortCircuit`, `Codegen` and `Machine`, `Lexer`, `Parser`,
`HashMapRemoval`, `HashSet`, `VoidHashTable`, `ArrayList` with its proof, `Instructions`, `Driver`; then the
proofs of `HashMapRemoval`, of the refinements of `Dictionary` and `LexicalScopes`, of the chain of a condition, of the lexer, of the refinement of `BooleanEvaluation`, and of the set and the table.

Not done: `Codegen`, `Parser` and `Driver` with recursive functions in place of their recursive operators, so that their properties could be proved as well.
