# TLA+ models of the TypoLang compiler

TypoLang is compiled by three programs that hand a syntax tree to each other in a
text file: the frontend (`tlc-frontend`, lexer and parser), the midend
(`tlc-midend`, simplifier) and the backend (`tlc-backend`, code generator, encoder
and ELF writer).  A second frontend writes a tree back as source.  This directory
holds TLA+ models of that compiler, TLC configurations that check them on small
programs, and proofs, checked by TLAPS, for programs of any size.

All paths below are relative to the root of the repository (`src/...` is its source
directory, `README.md:95` its README).

## 1. The system

### Components, their state and operations

| component | source | state | operations |
|---|---|---|---|
| Lexer | `src/lexer/lexer.cpp`, `lexer_tree.cpp` | a prefix tree of keywords (global), position, remembered complete node | `parse_tokens`, `next_lexeme`, tree construction |
| Parser | `src/parser/parser.cpp`, `derivative.cpp` | index into the tokens | one function per production, `get_derivative` |
| AST | `src/data_structures/ast/` | nodes with type, value, two children, parent | constructors, `tree_read`, `tree_print`, copy, delete |
| Simplifier | `src/simplifier/simplifier.cpp` | the tree, rewritten in place | `simplify_node` and nine rewriting rules |
| Decompiler | `src/decompiler/decompiler.cpp` | the token list it writes | one function per node type |
| Name scopes | `src/data_structures/name_scopes/table_stack.cpp`, `var_table.cpp` | a stack of variable tables with offsets | add and pop a table, add and find a variable, `get_next_offset` |
| Function table | `src/data_structures/name_scopes/func_array.cpp` | declared functions in order | add, find |
| Intermediate representation | `src/data_structures/intermediate_repr/` | linked list of instructions, jump targets are pointers | constructors, insertion, node stack |
| Code generator | `src/compiler/compiler.cpp` | `compilation_state`: scopes, functions, patch stack, list tail, block depth, frame size, return node | `extract_declarations`, `compile_node`, four stages of 17 handlers |
| Encoder | `src/compiler/ir_bin_cvt.cpp` | list position, current address, bytes per node | `ir_fill_opcodes`, `ir_update_jumps` |
| ELF writer | `src/compiler/compiler.cpp` | output file | headers, code, section names, section headers |
| Standard library | `assets/stdlib.asm` | - | `print`, `read`, `sqrt` |
| Compiled program | (the output) | RIP, RBP, the stack, globals | the instructions of the list |
| Dynamic array | `include/array/` | length, capacity, elements | push, pop, grow, shrink |
| Drivers | `src/tlc/{frontend,midend,backend}/` | files, arguments | read, run one step, write |
| Logger, text lines, math utilities, benchmark | `src/util/`, `tests/` | log file, mapped file | formatting, reading |

### How they interact

Everything in one process is a plain call; there are no threads, callbacks from
outside or messages.  What makes the backend hard is state shared between handlers
that never see each other: `compile_node` recurses over the tree and calls the
handler of a node's type at four stages (before and after the left child, before
and after the right one), and the handlers communicate through
`compilation_state` only.

* `name_scope` is pushed by `compile_NFUN` and `compile_BLOCK` at one stage and
  popped at a later one; every declaration and use between goes to its top.
* `ir_stack` is one untyped stack for three purposes: the prologue behind which a
  frame will be created, the start of a loop, and jumps that have no target yet.
  A handler pops what it believes to be its own.
* `ir_tail` is what `compile_SEQ`, `compile_WHILE` and `compile_BRANCH` overwrite
  with zeros to discard the result of a call.
* `block_depth`, `has_return` and `stack_frame_size` are set by some handlers and
  judged by others: the frame is created in the middle of the list after the body
  has been emitted, from the greatest offset any block has ended with.
* Functions are declared before any is compiled, with a list head that is linked
  into the list only when the function is compiled; a call emitted earlier holds
  the pointer.  Global initializers, in contrast, are compiled during declaration.
* The encoder relies on the list being closed: every jump target linked, addresses
  given in a first pass, displacements written in a second.
* The ELF writer relies on the address behind the last instruction, on
  `global_var_cnt`, and on fixed file offsets.

### Hard behaviours

Unbalanced use of the shared stacks; erasing or patching the wrong node; frame
sizes computed with unsigned subtraction; offsets and displacements off by a slot
or by the length of an instruction; functions called before their code or their
globals exist; errors in the middle of the recursion; sizes that outgrow fixed
offsets; conditions, operands or scales that are exchanged.  In the frontend: errors
that are swallowed on the way up, a remembered lexer position that is stale,
parentheses lost when a tree becomes text.  In the midend: rewriting that changes a
value, an order of evaluation or an error.  Between the programs: a file that is only
a beginning, static buffers that still hold the word before, outputs emptied before
it is known whether there is anything to put into them.  `PROJECT.json` lists each
under "hazards" at its line.

### What makes each component correct

* Scopes: visible variables have distinct memory; lookups find the innermost
  declaration; the stack is restored when a block or function ends.
* Code generator: accepts exactly the well-formed programs; ends; code is closed
  (every jump patched, once, to its own construct); emitted code is not disturbed;
  frames cover the slots used.
* Encoder: a displacement leads to the node it stands for.
* Image: every instruction and global lies in a segment that has room for it.
* Compiled program: operands, locals, saved registers and return addresses never
  meet on the stack; calls and returns are a stack discipline.
* Data of the compiled program: it prints and returns what the source means.
* Lexer: the tokens are the longest matches, positions only grow.
* Parser: the inverse of the grammar; nothing that was read is lost without an
  error; a tree has the shape the backend expects.  Derivative: the value is that
  of the calculus.  Decompiler: parsing its output gives the tree back.
* Simplifier: values, errors, effects and their order are kept.
* Tree files: what is read is what was written; a part of a file is no tree.
* Drivers: a file is good for the tree its program made of its input, or for nothing.

## 2. Modules

Model modules; those of the backend in the order in which they build on each other:

| module | models | notes |
|---|---|---|
| `NameScopes` | `table_stack.cpp`, `var_table.h` | operators on the stack of tables; `add_table`, `pop_table`, `add_var`, `find_var`, `get_next_offset` as in the source |
| `IntermediateRepr` | `ir.h`, `ir.cpp`, `ir_dsl.h` | instructions and operands; `insert_after` |
| `AstShape`, `Ast` | `ast.h`, `node_types.h` | node types, and which child may stand where (the shapes the parser gives); the set of trees of a run |
| `CodeGen` | `compiler.cpp`, `func_array.cpp` | the state machine of the code generator |
| `CodeGenProps` | - | the type invariant and the properties of code generation |
| `CodeGenInv` | - | the inductive invariants `IInv`, `CodeInv` and `RegionInv` |
| `Verdict` | - | abstract specification: a verdict on the input, once, and in the end |
| `StaticRules` | - | the rules a program must obey, stated over the tree; `CodeGen` with the tree it was given, refined to `Verdict`; the inductive invariant `RulesInv` |
| `Encoder` | `ir_bin_cvt.cpp` | both passes over the list, a node at a time |
| `Image` | the ELF part of `compiler.cpp` | the writes to the file and the memory made of it |
| `Machine` | (the processor) | runs the list by the addresses and displacements of the encoder: control, and the kinds of stack cells; the processor is external |
| `CallStack` | - | abstract specification: calls and returns are a stack; the places to come back to, by their depths |
| `Backend` | `compiler_tree_to_asm` | composes `CodeGen`, `Encoder`, `Image` and `Machine`; properties of the whole, and its inductive invariant `BackendInv` |
| `Meaning` | - | what a program computes, from the README |
| `Processor` | (the processor), `assets/stdlib.asm` | the data on top of `Machine`, with the standard library; refined to `Verdict` by comparing with `Meaning` |
| `AstBuilder` | - | constructors of trees for the MC modules of the backend |
| `Lexemes` | `lexemes.h` | the words, and a reference definition of the tokens of a text |
| `Lexer` | `lexer.cpp`, `lexer_tree.cpp` | the tree of words with the loop over it; its properties, and their inductive invariants `LinesInv` and `TokensInv` |
| `AstDsl` | `ast_dsl.h`, `node_types.h`, `math_utils.h` | constructors and predicates of trees; numbers as exact fractions; the value of an expression, for the properties |
| `Parser` | `parser.cpp`, `derivative.cpp` | a function of the source an operator on a position |
| `TokenList` | `token_list.cpp` | constructors of tokens; the text made of a list of them, numbers as they are printed |
| `Decompiler` | `decompiler.cpp` | the tokens of a tree, four stages to a handler |
| `Frontend` | `front_utils.cpp` | text to tree, tree to text, and text to tree again |
| `FrontendProps` | - | the grammar as a printer, and the properties of the frontend |
| `TreeFile` | `tree_print`, `tree_read` of `ast.cpp` | the words of a file; the reader with its static buffers |
| `FileExchange` | `save_tree_to_file`, `read_tree_from_file` | a file is written, cut, edited and read; properties |
| `Simplifier` | `simplifier.cpp`, the queries of `mid_utils.cpp` | the rules as operators on trees; their properties |
| `Pipeline` | - | abstract specification: what the three programs promise of their files |
| `Toolchain` | the drivers | the three programs, step by step, with their files; refined to `Pipeline`, with the inductive invariant `ToolInv` |
| `MC_CodeGen`, `MC_Programs`, `MC_Meaning`, `MC_Lexer`, `MC_Simplifier`, `MC_Frontend`, `MC_FileExchange`, `MC_Toolchain` | - | the inputs of the runs |
| `CodeGen_proofs`, `CodeList_proofs`, `Rules_proofs`, `Backend_proofs`, `Shape_proofs`, `Stack_proofs`, `Lexer_proofs`, `Toolchain_proofs` | - | the proofs: those of the backend on top of each other (`Rules_proofs` on `CodeList_proofs`), those of the lexer and the toolchain by themselves |

### Correspondence of `CodeGen` to `compiler.cpp`

* `walk` is the C call stack of `compile_node`: one record per activation, with the
  node and the stage whose handler runs next.  `Proceed` does what `compile_node`
  does after a handler has returned true: enter the left child after
  `COMPILING_LEFT`, the right one after `COMPILING_RIGHT`, return after
  `COMPILED_RIGHT`.  `Fail` is a failed `LOG_ASSERT`: every caller returns false.
* One action is one call of one handler, `compile_X` or `compile_X_stage`.
  Handlers that return true at once at a stage are `compile_nothing`; so is
  `compile_ARG`, which forwards a stage `compile_NVAR` ignores.
* Pointers to nodes are indices into `heap`; `list` is the chain from `ir_head` to
  `ir_tail`.  Nodes allocated but not linked (`ir_list_head` of a function that is
  declared, `func_return`, `end_node`) are in `heap` only.  Nodes 1 to 4 are the
  separate list of the standard library.
* `phase`, `cursor` and `next_func` are where `compiler_tree_to_asm` and
  `extract_declarations` are; `error` names the assertion that failed.
* Data: names are model values or strings from a small set; a literal is its value
  in thousandths with a flag that says whether the double nearest to it lies closer
  to zero (`to_fixed` truncates).

`Encoder` gives each node the length of the form the source chooses for its
operands; of the bytes only the number, the position and value of displacements
are modelled.

### Correspondence of `Machine`, `Processor` and `Meaning`

* `Machine` gives each stack cell a kind (operand, frame cell, saved RBP, return
  address) and leaves data out, so a conditional jump goes either way and a division
  may trap.  `print`, `read` and `sqrt` return and leave the stack alone; `read` may
  also fault.
* An x86-64 processor checks nothing it pops: after an unbalanced loop `pop rbp` and
  `ret` (`compiler.cpp:491`) take whatever number is there, and control may go anywhere.
  `Machine` does not follow it: a `ret` that finds no return address, a `pop rbp` that
  finds no saved RBP and a pop below the first cell end in the status `astray`.  That a
  program does not get there is a property, not a check of the model.
* A step of `Processor` is a step of `Machine` that also computes: registers, stack
  cells, globals, the last comparison, the input that is left and what was printed.
  The jump is the one the flags ask for, and there is a fault exactly if a divisor
  is zero or `read` does not find the end of its number.  `Computed` has what each
  instruction does to its operands, `Divided` the `cqo` and `idiv`; a value nobody has
  written is `Garbage`.
* The three functions of `assets/stdlib.asm` are operators of their names on these data.
  `print_num` writes the bytes that `fill_chars` divides a number into.  `read_num`
  takes what one system call gives it (`Received`) and converts all of it but the last
  byte, each as a digit of 8 bits; one byte alone is zero, and of no bytes, or of a sign
  alone, the loop finds no end (`ReadingRunsOff`).  `Input` has the bytes each system
  call gets, up to `READ_SIZE`.  `sqrt` is exact until it rounds.
* `Meaning` knows no instruction.  It executes the tree: a number counts thousandths
  (README.md:142), a product or quotient is rounded towards zero, a comparison gives
  one thousandth or none (README.md:215), a statement changes the innermost scope that
  has its variable, and a run ends in what was printed and what `main` returned, or in
  a division by zero.  Its numbers are read and printed by their decimal places
  (`IsNumeral`, `NumberIn`), which is how `ResultsAgree` reads what was printed, and `read`
  means something if the system call gets a line with a numeral, and no more, as from a
  terminal.  Where the README gives no meaning (any other input, a root of a negative
  number, `NOT`, `AND`, `OR` of a number that is not a truth value, the end of a function
  without a return) a run is `undefined`; an `ASSUME` of `MC_Meaning` says that no program
  of the run is.

### Correspondence of `Lexer` and `Simplifier`

* A step of `Lexer` is one iteration of the loop of `parse_tokens` and
  `next_lexeme`, and there is an action for each way it can go on: follow the tree
  (`advance`), take the node it stands on (`take_token`), go back to the last node
  that was a token (`take_complete`), give up, or end.  A node of the tree is the
  prefix of the words below it; `name`, `num` and `eof` are the nodes that loop on
  themselves.  `next` states what the three passes of the tree's construction leave
  in each place: words, then numbers, then names.  `from` in a token is history: the
  offset at which it starts, for the properties.
* What `complete` remembers is not reset when a token is taken directly, as in the
  source.  At the `:` of `x :x` the lexer goes back to the end of the first `x`,
  behind the start of the token it is reading, and pushes a token of a negative
  length (`Substring`); only then is nothing remembered, and the second reading of
  `:` fails.  `LexerImplementsVerdict` shows that this always ends in the error that
  is due, and `LongestTokens` that no such token is left in an accepted text.
* A step of `Simplifier` simplifies one tree.  The rules are operators in the order
  of the source, each on what the one before it has made.  `extract_negative` calls
  `simplify_node` once more on the sum it makes and ignores its failure.

### Correspondence of `Parser`, `Decompiler` and `Frontend`

* A function of `parser.cpp` is an operator of its name.  Its argument is the position
  (`state` of the source); its answer is a tree, the position it stops at, and whether
  an error was logged.  These three are independent: many functions log an error and
  return a tree, or return `NULL` and log none, and whether a caller looks at the tree
  is in the operator of the caller.  `parse` maps names to functions, because
  they are mutually recursive.
* `get_derivative` and `is_const` are operators on trees; the derivative of a sum of
  something that has none is a sum with a `NULL` below it, as in the source.
* A handler of `decompiler.cpp` runs at four stages and may leave tokens at each.  The
  operators of `Decompiler` have what it leaves at each stage, `decompile_node` puts
  the children between them.
* An action of `Frontend` is a step of `front_utils.cpp`: it takes tokens to a tree, the
  tree to tokens, these to a text, and that to a tree once more.  The steps of the lexer are
  not repeated: the tokens of a text are those `Lexer` is shown to deliver.

### Correspondence of `TreeFile`, `FileExchange` and `Toolchain`

* A file of a tree is the sequence of its words, a word a sequence of characters, since
  every conversion of `fscanf` skips white space.  `reader` is what is left of the file
  with the two static buffers for the type and the operator of a node, which keep the
  last word when a conversion fails.
* `FileExchange` writes a file as a whole or up to any character, lets an editor take
  out, replace or insert a word, and reads it.
* An action of `Toolchain` is a step of one of the functions `main`: reading the input
  (`read`), `simplify`, opening the output (`open`, which empties it), `compile`, and
  writing it, `Piece` words at a time.  `die` is a program that is killed at any of
  these; `lose_rest` a full disk, which nobody notices; `edit` changes the source.
  `good` is history: the tree a file would be read as.
* The programs do not look into a tree, so what their steps make of one are constants:
  its words (`WordsOf`), the tree read from words (`TreeOf`), the simplified tree, and
  whether a tree compiles, which `CodeGen` is about.  `MC_Toolchain` gives the first
  three the operators of `TreeFile` and `Simplifier`.  `FilesAssumption` is all that is
  assumed of them: a whole file is read as the tree it was written for with its
  numbers rounded (or never, if a name begins with a digit), and a part of one never
  is, which are `PrintedTreesAreRead` and `CutFilesAreRefused` of `tree_file`.

### Mutants

Next to some definitions stands a "Mutant": the same operator with a plausible
mistake.  Nothing uses it.  Put in place of the original it must violate the
property `PROJECT.json` names under "mutants": this shows that the property can
fail, and that the inputs of the run reach the case.

## 3. What the runs show

Runs that pass:

| run | inputs | shows |
|---|---|---|
| `codegen` | up to three definitions in every order, right and wrong; in a program with one global, declarations, shadowing, redeclaration and assignment, flat, nested two blocks deep, or as branch of a conditional or body of a loop; loops, branches, returns and calls nested in each other, bare calls as condition or body among them | `ScopesMatchWalk`: scopes and block depth are what the open activations made them; `VisibleSlotsDistinct`; `LocalsInsideFrame`: the frame created at the end covers every slot the body uses and the epilogue releases it; `PatchStackMatchesWalk`: the untyped stack always holds what the open constructs will pop; `ControlFlowClosed`: when done, each node is linked once, each jump is patched and stays in its function; `EmittedCodeIsStable`: code already emitted changes only by patching a pending jump or erasing the push of the call just compiled; `ImplementsVerdict`: code generation ends, and succeeds exactly on the programs that obey `StaticRules` (refinement of `Verdict`, with its liveness); `IInv`, `CodeInv`, `RegionInv` and `RulesInv`, the inductive invariants of the proofs (`TypeOK` is a part of the first) |
| `programs` | control nested as above; every class of operator, calls in operands and arguments, locals in both functions, early returns, recursion until the stack is full; products of 64 and 128 operands | `JumpsLand`: each displacement leads to its node; `ControlStaysInCode`, `OperandsAreTemporaries`, `LocalsAreInFrame`, `ReturnsBalanced`: unless a loop has a bare call as condition or body, the running program stays in its instructions, because each `pop rbp` and `ret` finds what was saved, and the parts of the stack never meet; `ImplementsCallStack`: such a program refines `CallStack`; `ImageHoldsProgram`: instructions and globals lie inside their segments up to the size the fixed file offsets allow; `BackendInv`, the inductive invariant of the proofs |
| `meaning` | every operator over every pair of a number, a negative fraction, a global, a function with an effect and `read`, which gets a line with a positive or negative numeral each time; nested operators; logic; square roots; divisions by zero; loops, branches, early returns, shadowing, recursion with a local | `ComputesMeaning`: the program is compiled, ends, and has printed and returned what `Meaning` says, or stopped where it divides by zero (refinement of `Verdict`, with its liveness) |
| `lexer` | all texts of up to three pieces out of eighteen: prefixes of words, words that begin others, digits, points, spaces, newlines, a character no token begins with | `LongestTokens`: the tokens are the longest matches of the reference definition, in order; `LinesCorrect`: each has the number of its line, although the newline behind a token is read twice; `LinesInv` and `TokensInv`, their inductive invariants; `LexerImplementsVerdict`: lexing ends, and succeeds exactly on texts that consist of tokens (refinement of `Verdict`) |
| `frontend` | expressions of every pair of operators one below the other, every kind of statement in the others, five programs with a token removed, replaced or inserted, or cut off, at every place; derivatives of every operator over sums, products and quotients | `WrittenTreesAreRead`: the parser is the inverse of the grammar; `NothingLostUnreported`: without an error each token taken is in the tree, once and in order, and with one nothing else is; `EarlierDefinitionsKept`: what was complete before the first change is kept; `HolesAreReported`: a tree without an error has all children the backend dereferences; `DerivativesCorrect`: the derivative has the value of the calculus, and an error is logged exactly if there is none; `TextKeepsTokens`: the generated text has the tokens it was made of; `DecompiledTreesReadBack`: the text is read as the tree again except for exactly the trees with one of six named places |
| `simplifier` | every arithmetic operator and a comparison over every pair of operands with the literals 0, 1 and a negative one, a variable, two calls and negations | `ValuesKept`: an expression that has a value keeps it; `RejectsOnlyHopeless`: what is rejected divides by zero whatever its variables are; `CallsKept`: no call is repeated, none lost except in a product with, or a quotient of, zero, and none moved except in a sum with a negated left operand |
| `tree_file` | trees of every node type with numbers of every form; each file cut off at each character, and with each word removed, replaced or preceded by another | `PrintedTreesAreRead`; `CutFilesAreRefused`: a beginning of a file is no tree; `EditedFilesAreChecked`: a file that is read without an error holds the tree that is returned, except for words taken from a static buffer |
| `toolchain` | seven source files; the programs in any order, killed at any step, on a full disk | `ImplementsPipeline`: a file is good for exactly the tree its program made of its input, or for nothing, and the frontend and midend leave their old output alone if they refuse their input (refinement of `Pipeline`); `ToolInv`, its inductive invariant |

Runs that are violated, each by a disagreement of the code with its
documentation:

| run | property | what happens |
|---|---|---|
| `parameters` | `ParametersAreVariables` | A parameter never enters a scope: a function that uses one is rejected.  `examples/factorial.tyl` does not compile. |
| `loose_loops` | `CallValuesDiscarded` | A bare call as the body of a loop leaves a value on the stack in each round; as its condition it pops one that is not there. |
| `failed_definition` | `OnlyWholeProgramsAccepted` | A definition that cannot be parsed ends the parsing; the parser reports success, and the frontend saves a tree with a hole and without the rest of the program. |
| `lost_operator` | `CodeMadeOfTreesReadsBack` | The operator behind a left operand in parentheses is not written: the text made of a tree cannot be read. |

`parameters` is why `programs` and `meaning` pass arguments that the callee never
reads: no program that reads one is compiled.

### Divergences without a run

* A literal is converted by truncation: 1.001 becomes 1000 thousandths
  (`compiler.cpp:863`), because the double nearest to it is below it.
* Global variables start with the bytes of the section name table
  (`compiler.cpp:220`), not with zero (README.md:546).  `Processor` gives them
  `Garbage`; a program that reads a global before its initializer has run is not
  among those of `meaning`.
* Code longer than a page less the standard library is overwritten in the file by
  section names and headers (`compiler.cpp:117`).  `ImageHoldsProgram` has the
  boundary: the larger of the two products of `programs` is beyond it.
* README.md:131 says of `read` that it reads a number; the code converts what one system
  call gives it (`assets/stdlib.asm:52-90`).  From a terminal that is a line.  From a pipe
  or a file it is up to 32 bytes: several lines become one number, in which a newline is
  the digit 218, and the last byte is dropped whether or not it is a newline.  A read
  at the end of the input runs off the stack (`ReadingRunsOff`: `dec rax` makes minus one
  of the count, for which `jz` is not taken).  `read_num` has all of this, but no source
  says what such a program should do, so `Meaning` leaves it `undefined`.
* A return that is the whole of a conditional counts as the function's return
  (`compiler.cpp:843`), so control may reach the end the message at `compiler.cpp:464`
  warns of.
* README.md:228 gives a derivative the precedence of a call; the parser has it between
  sums and products.  The derivative of Listing 4 ends in `+ 1`, that of the code
  in `+ 0.000`.
* A local declaration behind an error may be read as a global definition;
  `NothingLostUnreported` and `EarlierDefinitionsKept` say what is kept then.
* A damaged child `{ OP }` in a tree file may be read as `NULL` with exit code 0, or
  with the type of the node before it; `EditedFilesAreChecked` names these cases.
* The simplifier does not reject `-x / 0` where it rejects `x / 0`: the quotient a rule
  makes is not simplified again.  README.md:211 speaks of a product with zero only;
  the code drops the calls in a quotient of zero as well.
* Some answers of the lexer are not what README.md:144 and README.md:160 suggest: `.2`
  and `2.` are numbers, and `0x` is a name, because the tree has room for them
  behind a word; `IsName` and `IsNumber` define tokens as the code has them.  A newline
  that is the first character is not counted; `LinesCorrect` leaves it out.

### Bounds

* The generator, the parser and the simplifier are deterministic on each input, so the
  runs enumerate inputs, and interleaving is that of the running program's jumps and
  of the programs of the toolchain.  The sets are chosen by the hazard they are about:
  nesting three deep makes every pair of adjacent entries on the patch stack and the
  scope stack occur; two siblings of different size make a frame that must be the
  maximum of its blocks; three definitions make every order of use, declaration and
  main occur; an operator below and beside every other decides its precedence.
* `MaxStack` bounds the recursion of the running program: the action `overflow` ends it
  there, as the end of the stack would.  16 cells (`programs`) are three activations of
  a function with locals and arguments; 40 (`meaning`) are never reached, else the
  liveness would fail.  `Input` has more lines than any program of `meaning` reads;
  they are no longer than `READ_SIZE`, 32 bytes (`RequestAssumption`), so that none is cut.
* The numbers of `meaning` are so small that no product fills 31 bits; the code has 64.
* `lexer` has every pair of adjacent tokens with or without a space, and every
  path that is left at a prefix of a word (`fu n`, `====`, `:=`, `<_`) for each
  kind of continuation.  `MaxTokens` (14) is more than the characters of any text,
  so it is never reached: otherwise the run's liveness would fail.
* `simplifier` has three operators on a path, one of them a negation, since a
  rule looks at a node and the negations directly below it.  The environments
  give the variable and the calls zero, positive and negative values, as do those of
  the derivatives in `frontend`.
* A change of a token in `frontend` puts one of fourteen at each place: one for each
  decision of the parser.  One change suffices to enter each error path, because each
  begins at one token; two errors in one program are not covered.
* `PAGE` (8) is a page of memory in `toolchain`; one source fills its last page.  `Piece`
  (20 words) is less than the output for a program, so that its files can be cut.
* Counters of the generator are bounded by the size of the tree.
* Symmetry is not used: names are told apart by the static rules ("main",
  "print") and the programs break it.

### Fairness

A process is one thread.  `FairSpec`, `RulesSpec`, `LexerSpec`, `FairBackendSpec` and
`ProcessorSpec` assume weak fairness of the next step only, that is, that a process
which can go on does.  In `FairBackendSpec` a conditional jump is not forced either way, so
a loop may run forever, and liveness is about the generator; in `ProcessorSpec`
the flags decide, and the compiled program must end as well.  The toolchain has no fairness:
its programs may be stopped at any time, and `Pipeline` promises only safety.
Deadlock is checked in the runs of the backend and the toolchain, whose models say
where they end (`Returned`, `Ended`) or never do; `lexer`, `simplifier`, `frontend` and
`tree_file` switch it off, because their models stop where the function they model
returns.

## 4. What is proved

What is proved of the backend holds for every set of names, every set of trees of any
number, size and depth, and every bound on the stack of the running program; what is
proved of the lexer, for every set of texts; what is proved of the toolchain, for all
trees, sources and files that satisfy `FilesAssumption`.

`CodeGen_proofs`, of the code generator (`Spec`):

* `Invariance`: `[]IInv`;
* `TypesCorrect`: `[]TypeOK` - in particular no index into the heap, the list or a
  stack leaves its range, and the unsigned `stack_frame_size` never underflows
  (`TypeOK` has it in `Nat`, the code subtracts 8);
* `ScopesFollowRecursion`: `[]ScopesMatchWalk`;
* `SlotsDistinct`: `[]VisibleSlotsDistinct`.

`CodeList_proofs`:

* `CodeInvariance`: `[]CodeInv`;
* `PatchStackFollowsRecursion`: `[]PatchStackMatchesWalk` - no handler ever pops,
  patches or erases a node of another construct;
* `EmittedCodeKept`: `EmittedCodeIsStable`, an action property;
* `RegionInvariance`: `[]RegionInv`;
* `ClosedControlFlow`: `[]ControlFlowClosed`;
* `LocalsInFrames`: `[]LocalsInsideFrame`.

`Rules_proofs`, of the code generator and the program it was given (`RulesSpec`):

* `RulesInvariance`: `[]RulesInv`;
* `VerdictJustified`: the safety half of `ImplementsVerdict`: code generation gives its
  verdict once, and succeeds exactly on the programs that obey the static rules,
  however deep their blocks are nested and in whatever order they declare things.

`Backend_proofs`, of the generator, the encoder, the image and the running program
together (`BackendSpec`):

* `BackendInvariance`: `[]BackendInv`;
* `JumpsLandAlways`: `[]JumpsLand`;
* `ImageHoldsAlways`: `[]ImageHoldsProgram`, with the exact size up to which the file
  has the code.

`Shape_proofs` and `Stack_proofs`, of the stack of the running program.  All but
`ShapeInvariance` and `StackInvariance` are stated of tidy programs, those without a loop
whose condition or body is a bare call; of the others the run `loose_loops` shows that
they do not hold.

* `ShapeInvariance`: `[]ShapeInv`;
* `StackInvariance`: `[]StackInv`;
* `ControlInCode`: `[]ControlStaysInCode` - a tidy program never goes astray;
* `OperandsOnTop`: `[]OperandsAreTemporaries`;
* `LocalsOnFrame`: `[]LocalsAreInFrame`;
* `BalancedReturns`: `[]ReturnsBalanced`;
* `CallsReturnInOrder`: `ImplementsCallStack`, the refinement of `CallStack`.

`Lexer_proofs`, of the lexer on any texts (`LexerSpec`):

* `LinesInvariance`: `[]LinesInv`;
* `LinesCounted`: `[]LinesCorrect` - however often the lexer goes back and reads a
  newline again, the tokens of an accepted text have the numbers of their lines;
* `TokensInvariance`: `[]TokensInv`;
* `TokensAreLongest`: `[]LongestTokens` - an accepted text is cut into the longest words,
  names and numbers, in order, with only spaces between them;
* `LexerDecides`: the safety half of `LexerImplementsVerdict`: a text is accepted or
  rejected once, and accepted exactly if it is made of tokens.

`Toolchain_proofs`, of the three programs in any order, stopped anywhere
(`ToolchainSpec`):

* `ToolInvariance`: `[]ToolInv`;
* `PromisesKept`: `ImplementsPipeline`, the refinement of `Pipeline`.

Assumptions: `NodeAssumption` (children of a node have the types the parser gives
them), `ChainAssumption` (chains of arguments and parameters end, and `ChainOf` is their
length), `LooseAssumption` (a tree has a loose loop if it is one or one of its parts has
one; like the former it says that a recursive function is defined on finite trees),
`HeightAssumption` (a tree has a height, greater than that of its children: trees are
finite, and not cyclic, which is what an induction over them needs),
`ProgramAssumption` (a program is a `DEFS` node), `NameAssumption` (the names the
code itself uses are names); TLC evaluates them in every run of the backend.  `Meaning`
and `Processor`, about which nothing is proved, assume of `Input` that it has bytes, and
of each read that it gets at least one (`InputAssumption`, `RequestAssumption`).  Of the
lexer, `TextAssumption`: texts are sequences of characters other than NUL, as C
strings are; TLC evaluates it in the run `lexer`.  Of the toolchain, `ToolsAssumption`
(trees become trees; something is written at a time) and `FilesAssumption` (files are
read as they were written, a part of one is no tree); TLC evaluates them in the run
`toolchain`, with the operators that the run `tree_file` is about.

### The inductive invariants

None of the properties is inductive alone.  `IInv` relates the recursion to the
shared stacks.  It is a conjunction of:

* `TypeOK` and `list # <<>>`: `ir_tail` exists;
* `WalkShape`: what may be on the recursion at once.  An initializer consists of
  expression nodes; a function is first among its parameters, then in a body whose
  outermost node is a block.  Without it nothing excludes, say, a `RET` at the
  bottom of the recursion, where `block_depth` and `func_return` mean nothing;
* `FunctionTable`: a declared function has a list head in the heap, so a call or
  a prologue emits a node that exists;
* `CurrentFunction`: the function being compiled is declared, has its return node,
  and when its body is finished the frame is at least a slot, because the block of
  the body has raised it: this is what keeps `stack_frame_size - 8` from
  underflow;
* `ScopesMatchWalk`: the depth of the scope stack as a count of open activations:
  a pop never removes the global table, and `block_depth - 1` never underflows;
* `PatchStack`: the length of `ir_stack` as such a count, its entries linked: a
  handler that pops one or two finds them, `insert_after` finds its place;
* `ScopeLayout`: the bottom table is global, the next is a parameter table with no
  variables, and each local table starts behind the end of all those outside it:
  this is why two visible slots never coincide.

`CodeInv` relates the recursion to the nodes that are in the list, and to those that
are not in it yet:

* `WalkLinked` and `FunctionOrder`: an activation was called for a child of the node
  below it, and functions are compiled in their order, each once.  So the head of a
  function whose code has not begun stays unlinked;
* `ListInv`: a node is linked once, and the early nodes - the heads of waiting functions
  and the node all returns jump to - are unlinked, empty, and nobody else's;
* `CallAtTail`: when the handler above a call runs, the last two nodes are those of
  the call.  This is why erasing the tail never erases anything else;
* `PatchStackMatchesWalk` itself: with the role of each entry, and not only their
  number, it is inductive.

`RegionInv` says where the code of each function lies: complete code (`Region`) in
stretches below some position `start`, the unfinished code from there on, in which a
jump has its target, or waits for it on `ir_stack`, or goes to the return node.  The
frame is made when the function ends, so until then `Unfinished` compares the slots used
with the frame needed so far (`FrameSoFar`), which only grows.

`BackendInv` is on top of these:

* `LinkInv`, of the generator: functions without a tree are those of the library
  (`LibraryKnown`), a global was counted before it was used (`GlobalsCounted`, `Sound`), a
  change of RSP is by a natural number, and code that is complete ends in a `RET`, or
  in the system call of the entry code, so that nothing runs over its end (`CodeEnds`);
* `EncoderInv`: for the nodes the first pass has done, that they lie one behind the
  other from the end of the library on (`AddressesGiven`); for those the second has
  done, their displacements (`DisplacementsGiven`);
* `MachineInv`: the processor, until it has gone astray, is at an instruction, and each
  return address on its stack is one of an instruction.

`IInv`, `CodeInv` and `RegionInv` are also invariants of the run `codegen`, `BackendInv`
of the run `programs`.

`RulesInv` compares what the generator knows with what the rules say of the whole tree.
A rule speaks of sets of names that a tree declares (`Binds`), needs (`Free`) and calls
(`CallsOf`), the generator looks a name up when it comes to it.  The invariant is:

* `Extraction`: the definitions before the cursor have been extracted, in order; the
  function table has exactly the functions among them, under names of their own;
* `Checked`: those that have been compiled have got all they need;
* `ScopesHold`: the tables hold the names declared so far by the open activations, and
  those below the table of a block the names that were visible where it begins;
* `NeedsToCome`: what the definition being compiled needs and has not got is just what
  activations still open, or subtrees not entered yet, will look for in vain.  So a
  failed lookup is a broken rule, and at the end of the walk nothing is missing;
* `ReturnsFound`: the function has a return of its own if and only if the flag is set or
  one is still to come in no block but the body.

It is why the order in which handlers find things out does not matter: each equation
moves, from what is still to come to what has been found, what one handler handles.

`ShapeInv` says that the emitted code keeps track of the stack, though nothing in the
generator does.  There is a shape for each node of the heap: the place in its function (in
the entry code; RBP not saved yet; saved; RBP set, and no frame yet; in the body) and the
number of operands on the stack there.

* `Flowing`: each instruction may stand where it is (`Flows`: a push raises the height, a
  pop needs an operand, a jump needs none) and what is behind it has the shape it leaves;
* `Aimed`: a jump leads to where the stack has the frame only, and so does what will
  become the target of one: nodes on `ir_stack` and the return node.  A call leads to
  where only the return address is new;
* `TailShape`: behind the last instruction are as many operands as the open activations
  have left there (`Under`, `Held`, `Brought`): one for each finished expression whose use
  is still to come, as many as there are arguments for a call;
* `Housed`: in the code of a function the `sub` of the prologue and the `add` of the
  epilogue have the same number (`Framing`), and a function without them has no frame.

`StackInv` says that the stack of the processor fits the shape of the instruction it is at
(`Cells`: RBP points to the saved RBP above a return address, above it is the frame, and
above that only operands), and that below each return address is what fits the shape of
the instruction returned to (`Balanced`), with the RBP saved above it.  Both are
existential over sequences of shapes, so TLC does not evaluate them; it checks the five
properties that follow in `programs`.

`LinesInv` stands alone.  The line of the lexer's position is not always right: when it
goes back to a node remembered from the token before (`complete` is not reset), the
position moves there without recounting, and a token of the wrong text and line is
pushed.  The invariant says why no caller sees that token:

* `Counting`, in a lexer that is well: the position and the start of the token have the
  right line, and a node remembered is either one of this token (`Remembered`), behind
  a character that is no newline, so that going back and reading it again counts the same
  lines; or that of a token before (`Outdated`), from which the lexer has met no
  other token;
* `Lost`: it has gone back to an outdated node.  Then it walks, through nodes that
  are no tokens, to the place where it was stuck before, and is stuck there again with
  nothing to go back to: it fails, and never reaches the end of the text;
* every token pushed by a lexer that is not lost has the line of its text.

`TokensInv` says what the lexer has found and what it is looking for, unless it is
lost; when it is, no tokens make up the text:

* `FirstTokens`: what was pushed are the first tokens of the text, each the longest where
  it begins, and the others begin at the start of this token or behind it;
* `OnPath`: the node is the one that the characters of this token lead to (`Reached`);
* `LongestPassed`: of the tokens that begin here and end before the position, the longest
  is the one remembered.  If there is none, what is remembered is outdated: going back
  to it, the lexer gives the right verdict for a reason that is not in the code.

`ToolInv` says that the tree in memory was made of a good input, and, of the one output
that is being written, that the file and what is left to write are the whole of it
together, until the disk is full.  All other files are good for what `good` says.

### The argument

`CodeGen_proofs` begins with facts about least and greatest indices and fronts of sequences, what the trees guarantee (`NodeFields`,
`ChildTypes`), what `Proceed` does to the recursion and to the counts of open
activations (`ProceedWalk`, `ProceedShape`, `ProceedOpen`), what the instruction
constructors and lookups return, and that handlers that only emit keep each
conjunct.  It then takes the handlers in groups - those that only emit
(`QuietHandlersKeep`), declarations, blocks, loops, branches, prologue, body and
epilogue - and the driver and the failures, one conjunct of `IInv` at a time;
`Invariance` combines them.  `SlotsDistinct` follows from `ScopeLayout` through
`LayoutSeparates`.  `CodeList_proofs` follows the same groups for `CodeInv` and then for
`RegionInv`, and assumes the invariant proved before.

`Rules_proofs` begins with the recursive functions of the rules.  `TreeInduction` is the
induction over `Height`; `TreeRecursion` shows with it that an equation which gives the
value of a tree from those of its children has a solution, so that `Binds`, `Free`,
`CallsOf`, `ReturnsItself` and `Definitions` are what their definitions say (`BindsOf`,
`FreeOf`, ...).  `Handled` says what a handler does to the scopes and the return flag and
what it looks up; `ScopesHeld`, `NeedsHeld` and `ReturnsHeld` take from that how one step
of the walk keeps each part, whatever the handler, `ExtractionHeld` and `CheckedHeld` that
it keeps the rest.  When the walk ends, `SubjectChecked` has that the definition obeys the
rules.  `VariableExtracted`, `FunctionExtracted`, `EntryEmitted` and `FunctionEntered` are
the steps of the driver between the walks.  At the end `AllObey` collects that every
definition does, and `Refused` shows for each failed assertion the rule that is broken.

`Backend_proofs` first shows that a step of the backend is one of the generator or
leaves it alone (`BackendRefines`), which carries the three invariants over.  For the
encoder, a node is encoded once because it is linked once, and has a length of 1 to
16 bytes (`Lengths`); `Targets` takes from `ControlFlowClosed` that a jump or call has a
node of the list or of the library to go to, so its address is known when the second
pass comes to it (`Landing`).  `MachineStep` then takes the instructions one by one: what
follows an instruction is the next one unless it is the last (`NextInCode`), and a jump
goes where `Landing` says (`JumpInCode`).  For the image, the first instruction that ends
behind the page ends less than 16 bytes behind it, where the section names are
(`CodeInImage`).

`Shape_proofs` shows of each handler that the code it emits takes the height from that of
its beginning to that of its end: `Climbs`, which composes (`ClimbJoin`, `OperatorClimbs`, `CallClimbs`).
`OrdinaryShaped`, `ClimbingShaped` and `SwappedShaped` take from that that the code stays
shaped when a handler adds nodes at the tail, patches a jump or erases the push of a call
(an erased push lowers the height of the tail: `Lowered`), `PrologueShaped` and
`EpilogueShaped` treat the frame.  If there is one, the epilogue inserts the `sub` far
back in the code, behind the instruction that sets RBP: until then no node has the shape
of the place between the two, and nothing else sets RBP (`Frameless`).  Loops are where
tidiness is needed: their handlers erase the push of a call that is the condition, which
the test needs, and leave that of a call that is the body.

`Stack_proofs` has one lemma for each thing an instruction can do to the stack
(`ValuePushed`, `ValuesDropped`, `RbpSaved`, `RbpSet`, `FrameMade`, `FrameDropped`,
`RbpRestored`, `ReturnPushed`, `ReturnFound`): if the cells fit the shape before it, they
fit the one behind it, in this activation and in its callers.  `StandingKept` takes the
instructions one by one.  `NeverStrays` has that where the cells fit the shape of a `pop rbp`
or a `ret`, there is what it takes.  `ProgramCalls` maps each of them to a step of `CallStack`: all
that is dropped, other than by `ret`, is operands, frame cells or a saved RBP
(`ReleasedCells`).

For the lexer, `NextInLine` is the fact about the tree of words that counts: only the root
is left on a newline or the end of the text, because no word, name or number has one
(`WordCharacters`, `PrefixLast`).  `NextSilent` says that among nodes that are no
tokens the lexer walks along the text, so a walk from an outdated node can be repeated
(`LostHere`).  There is one lemma for each action that moves the position:
`AdvanceRemembers` and `AdvanceCounting`, `AdvanceLost`, `TakeTokenCounting`, and
`TakeCompleteCounting`, which has the two ways to go back.

For the tokens, `BeginningsObey` shows that the recursive definition of where tokens
begin has a solution: among the offsets from which there is none the greatest would have
one.  `ReachedNext` is the fact about the tree of words: from the node of a piece of text
`next` leads to that of the piece with one more character, or nowhere if no token begins
like this; `ReachedType` says which nodes are tokens.  So where the lexer is stuck no
longer token ends (`StuckHere`), what it pushes is the longest (`LongestPushed`), and if
it has nothing to push, there is none (`StuckAtError`).

For the toolchain, `PartOfOutput` is what counts: the output is good for nothing until its
last piece.  `PieceWritten` has the step that writes one.  Each action is then mapped to
one of `Pipeline` (`TakesInput`, `OpeningReplaces`, `CompilingRefuses`, `WritingDelivers`,
`LosingDelivers`, `ExitEnds`) or leaves what it speaks of alone.

### Only model-checked

* Liveness (in `ImplementsVerdict`, `LexerImplementsVerdict` and `ComputesMeaning`):
  temporal reasoning under fairness needs `ENABLED`, which the prover does not support.
* What recursive operators compute: the parser, the decompiler, the derivative, the
  simplifier, the tree files.  Modules with recursive operators are outside the prover's
  reach, and their properties need induction through an operator parameter, which no
  installed back end instantiates (`StaticRules` has recursive functions instead, and
  sets of trees instead of predicates on them).  The same holds for the meaning of a
  program, and for what the compiled one computes.  `ChainAssumption` and
  `LooseAssumption` state the facts used of two such definitions.

## 5. Plan

Done: the backend, from the tree to the results of the running program; the frontend
with lexer, parser, derivative and decompiler; the simplifier; the tree files and
the three programs that exchange them; the proofs above.  Next:

* A further step of `CallStack`: that a call goes to the head of a function.

## 6. What is not modelled

* Option `--no-stdlib` of the backend; the textual dump of the list (nothing calls
  it); the listing of tokens (`-t`); memory management (freeing of nodes and arrays),
  growth of arrays.
* The bytes of instructions other than displacements, the contents of the ELF
  headers.
* `link_stdlib` (`compiler.cpp:279`) does not look whether it could open
  `assets/stdlib.bin`.  `Image` and `Toolchain` take the file to be there; without it
  nothing is copied, the code lies 259 bytes below its addresses, and the compiler
  still reports success.
* Overflow of 64 bits and the rounding of doubles: numbers are integers in the
  compiled program and exact fractions elsewhere, and `sqrt`, which computes in doubles,
  takes the integer nearest to the exact root; the tolerance of comparisons of
  doubles is left out with it.
* In `ast.cpp`: the iterators, which nothing calls, `tree_check`, which is unfinished, and
  parent pointers, which nothing reads and `node_read` does not set.
* In the lexer: characters outside ASCII, and columns, which count a character that
  is read twice.
* A declaration that is a branch by itself and is not executed, but read later: the
  generator gives it a slot of the function, whose content is then left over; it is
  in `codegen`, but among the programs of `meaning` there is none.
* The cells that functions of the library use for themselves (up to six): `overflow`
  counts those of the program only.  What they leave in registers other than RAX, which
  no emitted instruction looks at, is `Garbage`.
* Parameters in `meaning`: no program that reads one is compiled.
* Two programs that run at the same time on the same files.
* Logger, text lines, command line parsing, benchmark: input and output only.
