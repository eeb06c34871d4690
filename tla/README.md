# TLA+ models of the Jack compiler and the VM-to-Hack toolchain (nand2tetris projects 6, 8, 10 and 11)

These modules model the compiler core under
`src/lecture/OperatingSystem/nand2tetris/`. The core turns a Jack class into
stack-machine (VM) code:

    jack_tokenizer.py  ->  jack_compiler_engine.py  ->  jack_vm_writer.py
       (tokens)             (XML syntax tree)           + jack_symbol_table.py
                                                          (.vm file)

The driver (`src/lecture/nand2tetris/project11/main.py`) does three things for each `.jack` file:

1. It tokenizes and parses the file.
2. It builds a `JackVMWriter` and calls `run()`.
3. It calls `close()`.

The writer and the symbol table work in lock step:

- The writer calls `startSubroutine` for each subroutine.
- It then `define`s the subroutine's parameters and vars.
- It calls `inc_arg_index` for a method.
- It looks up every name with `symbol()` while compiling the statements.

## Inventory

| Part | Source | State | Operations | Model |
|---|---|---|---|---|
| Lexer | project10/jack_tokenizer.py | token queue, file position, per-call `opening_comment` | `__next__`, `_split`, `_generateToken` | `JackTokenizer` |
| Token model | project10/jack_token.py | none (enums) | none | the token record `[type, value]` |
| Parser | project10/jack_compiler_engine.py | token iterator, leftover token | `parse`, `_compile*` (recursive descent) | `JackCompilerEngine` |
| Symbol table | project11/jack_symbol_table.py | class scope, method scope, method name | `startSubroutine`, `define`, `varCount`, `symbol`, `inc_arg_index` | `JackSymbolTable` |
| Code generator | project11/jack_vm_writer.py | symbol table, `_label_index`, output file | `run`, `_writeSubroutine`, `_compile*`, `_define*`, `close` | `JackVMWriter` |
| VM translator | project08/VMTranslator.py | file list, parser position, output file, `_function_name` | `main`, `Parser`, every `CodeWriter.write*` | `VMTranslator`, `VMToHack` |
| Project 7 VM translator | project07/VMTranslator.py | file list, parser position, output file | `main`, `Parser`, `writeArithmetic`, `writePushPop` | `VMTranslator7`, `VMToHack` |
| Assembler | project06/assembler.py | symbol table, `rom_addr`, `ram_addr` | the two passes of `main`, `Code` | `HackAssembler`, `VMToHack` |
| Page-table parser, ML scripts | other directories | none shared | none | not modelled (below) |

Below the compiler, two programs that spec 1 treats as external
collaborators are modelled from their source as well:

    VMTranslator.py (project07 or 08)  ->  assembler.py (project06)  ->  Hack CPU
       (.vm files -> .asm)                   (.asm -> .hack words)

The translator's `main()` reads every `.vm` file of a directory, in the order
`os.listdir` returns them. It appends the assembly for each command to one
output file. When it meets `function Sys.init`, `writeInit` puts the bootstrap
(SP = 256, call Sys.init) in front of everything written so far. The assembler
reads that file in two passes. The project 7 translator is the chapter 7
stage of the same program: arithmetic and push/pop only, no bootstrap. The Hack computer (nand2tetris chapter 5) runs
the words; it is a reference definition, not repository code.

Everything is single-threaded (spec 5). The hard behaviours are therefore not
interleavings. They are:

- long sequences of calls on the symbol table;
- the order in which the writer takes labels and emits operands;
- what the emitted code does when it runs;
- what is left behind when the compiler aborts part way.

## Modules

- **`JackSymbolTable`** models the table.
  - A table value is a record with two scopes, each a function from names to
    `Symbol` records, plus the method name.
  - The operators `startSubroutine`, `define`, `varCount`, `symbol`,
    `inc_arg_index` and `kind2Str` are the methods of the same names.
  - The module's own spec drives the table through its public methods in any
    order: the actions `StartSubroutine`, `Define` (two disjuncts: the assertion
    holds, or it fails with `DuplicateSymbol`) and `IncArgIndex`.
  - The ghost variables `history` and `bumps` record the declarations since each
    scope was cleared, and the `inc_arg_index` calls.
- **`JackVMWriter`** models the code generator.
  - It uses the table through `INSTANCE JackSymbolTable`.
  - Syntax trees are records holding what the writer reads from the XML
    elements.
    - A term is a record tagged int/str/kw/unary/arr/paren/call/var.
    - An expression is `[terms, ops]`.
    - Statements are tagged let/do/return/if/while.
  - VM instructions are records `[op, a1, a2]`. A function name `C.f` is the
    pair `<<C, f>>` and a label `f$n` the pair `<<f, n>>`; both stay injective.
  - Each `_compile*` method is a (recursive) operator with the same name. It
    returns the code and whether the method would have raised: `symbol()`
    returning None followed by `.kind`, or a failed assert.
  - The actions follow `run()`:
    - `DefineClassVar` (first line of `run`);
    - `WriteSubroutine(dec)` (one iteration of the loop: `_writeSubroutine`,
      which appends the function to the file);
    - `Close`.
    - An exception sets `status = "failed"`, which ends the run.
- **`VMMachine`** gives the meaning of the VM code (spec 6).
  - It works on 16-bit words.
  - Calls to other functions are not followed. Each call is recorded in a trace
    and answered by `CallResult`, a fixed hash of the callee and its arguments.
  - The ghost fields `labelDepth` and `unbalanced` record the stack depth at
    each label.
- **`JackSemantics`** gives the meaning of a Jack subroutine, read from the same
  syntax records (`Meaning`).
  - It uses the standard layout of statics, fields, parameters and vars, and
    evaluates strictly left to right.
  - `CodeMeetsSource` runs a compiled function and its source from the same
    starts and compares the results:
    - the call trace (callee and arguments, in order);
    - memory;
    - statics;
    - the returned value.
  - `WellFormed` states Jack's static rules: no duplicate names, variables
    declared, and an indexed let targets an Array.
- **`JackTokenizer`** models the lexer over real strings.
  - `keyword_map` and `symbol_list` are the source's tables; an item is
    classified in `_generateToken`'s order (`Classify`).
  - The state is the file's lines (`source`), the lines not yet read (`file`),
    the token queue, the tokens returned so far and a status (open, stopped by
    `StopIteration`, failed by an exception).
  - `NextFromQueue` is the first branch of `__next__`: it pops the queue.
  - `NextFromFile` is the rest of `__next__` as one step. It sets
    `opening_comment` to false and reads lines (`ReadLines`) until one yields
    tokens. Each line is stripped, its comments are cut (`StripComments`, in the
    code's order: block comment first, then `//`), it is split (`_split`, a scan
    over the characters with `SplitStep`) and classified (`Classify`). A failed
    assertion or the `TypeError` at line 80 is the `failed` status.
  - `SpecLex` is a reference lexer written from spec 4.1: one pass over the
    whole file with the modes code, line comment, block comment and string.
    `TokensMatchSpec` compares the two.
- **`JackCompilerEngine`** models the recursive-descent parser.
  - It takes the lexer through `INSTANCE JackTokenizer`. The iterator's state is
    `[file, queue]` (lines not yet read, tokens not yet returned), and `next()`
    is `TK!NextToken`, which answers a token, `stop` (`StopIteration`) or
    `error` (the lexer's assertion or `TypeError`).
  - Each `_compile*` method is a recursive operator of the same name, from
    `it` and the current token to `[el, it, tok, err]`: the element built, the
    iterator after it, the token handed back to the caller (`None` when the
    caller must call `next()` itself) and how the method ended. Its loops are
    helper operators (`ClassLoop`, `LetLoop`, `CondLoop`, ...) in the order of
    the code's branches and assertions.
  - `_compileIf` reads one token past its `}` inside a bare `except:`
    (`IfElse`). Any exception of that `next()`, not only `StopIteration`, gives
    back `None`, as in the code.
  - XML elements are `Elem(tag, text, kids)`; `Leaves` lists the leaf tokens of
    a tree in order.
  - The spec has one action, `Parse`, which runs `parse()` on an input chosen in
    `Init`.
- **`MC_JackSymbolTable`**, **`MC_JackVMWriter`**, **`MC_JackTokenizer`** and
  **`MC_JackCompilerEngine`** instantiate the models for TLC.
  `MC_JackCompilerEngine` builds its inputs from the productions of spec 4.2
  (`GLet`, `GIf`, `GClass`, ...): each input is the token stream of a tree,
  with the tree it must parse to.
- **`VMTranslator`** models project08/VMTranslator.py.
  - A `.vm` line is a record: the words `split()` finds before any `//`,
    whether it had a comment, and whether it ends in a newline. `LineWords`
    applies the Parser's `line[:-1]`, and `Commands` numbers the commands the
    way `_current_lineno` does.
  - `Raises` is every exception the dispatch in `main` can raise before it
    writes: `_validateCommand`'s `ValueError`, the `int()` of `arg2`, and
    `_writePush`/`_writePop`'s assertion on an unknown segment.
  - Each `CodeWriter` method is an operator of the same name that returns the
    lines of assembly text it writes (`"@SP"`, `"M=M-1"`, `"(L)"`), with the
    indentation left out, as the assembler strips it. `_writeInstructions`
    puts a comment line (`"//"`) in front of each command's code, and
    `setFileName` writes one per file.
  - The state is `main`'s: the file list (every order of a directory, chosen in
    `TInit`), the commands left in the current file, the output, the current
    file and function names, and a status (open, failed, closed). There is one
    action per branch of the dispatch (`WriteArithmetic`, `WritePushPop`,
    `WriteGoto`, `WriteIf`, `WriteLabel`, `WriteCall`, `WriteReturn`,
    `WriteFunction`), plus `NextFile`, `Raise` and `Close`.
  - `WriteFunction` for Sys.init moves the output behind the bootstrap, as
    `writeInit` does with its temporary file.
  - `starts` is instrumentation: where in the output each command's code begins.
- **`VMTranslator7`** models project07/VMTranslator.py. It takes `Command`
  and the arithmetic templates from `VMTranslator` (an `INSTANCE`; the
  source of both is the same) and keeps what differs:
  - `LineWords`: the Parser skips a line that starts with `//` but keeps a
    comment after a command, whose words then fail the argument count;
  - `direct_segment_map` has static at 16, so `static i` is RAM 16 + i in
    every file;
  - `Raises` adds `NotImplementedError` for every command but arithmetic,
    push and pop; there is no bootstrap.
- **`HackAssembler`** models project06/assembler.py.
  - An `.asm` line is its text, after `line[:-1]` and `strip()`.
    `ParsedCommands` drops blank and `//` lines as `hasMoreCommands` does, and
    `commandType`, `symbol`, `dest`, `comp` and `jump` cut the text at the
    first `@`, `(`, `=` and `;` as `Command` does.
  - `contains` and `getAddress` are `SymbolTable`'s lookups, used by the
    second pass.
  - `FirstPass` gives each label the number of A- and C-commands before it
    (`rom_addr`). A label already in the table is `addEntry`'s `ValueError`.
  - `SecondPass` turns each A-command into its number, its table entry or a new
    variable (16, 17, ... in order of first use). Each C-command becomes
    `"111" + comp + dest + jump` through `dest_code`, `comp_code` and
    `jump_code`, copied from the source. The binary text is then read as a
    number (`Bits`).
  - `Assemble` returns the words, the table and how `main` ended.
- **`HackCPU`** is the Hack computer: the ALU's six control bits, the jump
  bits, and the RAM as a function that leaves out cells holding 0.
- **`VMProgram`** is what a VM program means, written from the VM language,
  not from the translator.
  - The state is `vm = [pc, ram, static]` over the standard RAM layout (SP,
    LCL, ARG, THIS, THAT, temp, stack from 256, five-word frames).
  - Statics are kept per (file, index). A return address is the index of the
    command to resume.
  - The stack above SP is dropped (`Live`), and label and `function f 0`,
    which do nothing, are skipped (`Skip`).
  - `ops` is the language: every VM command for project 8, the stack
    commands for project 7. `Valid` is a well-formed program: commands of
    the language with their arguments, and defined jump and call targets.
  - `Next` executes one command (`Step`). `Booted` is the state after the
    bootstrap when there is a Sys.init (SP = 256 and a frame for the call
    of Sys.init, which never returns, so its return address is left out),
    and SP = 256 at the first command otherwise, as the chapter 7 test
    scripts set it.
- **`VMToHack`** composes the three. Its actions:
  - `version` (7 or 8), chosen in `Init`, says which translator runs.
    `Translate` is that translator's actions.
  - `Load` runs `Assemble` on the closed output. `LoadFails` is the assembler's
    `ValueError`.
  - `Run` is one CPU cycle.
  - The ghost `snap` is the machine read as a VM state (`Abs`). It is
    recomputed each time the PC reaches the first instruction of a command's
    code or the end of the ROM (`Boundary`, using `romStart`, the ROM
    addresses of the commands, counted as the assembler's first pass counts
    them):
    - `pc` is that command;
    - the RAM is the CPU's RAM without R13–R15, the statics' cells and the
      stack above SP;
    - each frame's return address, found by walking the saved LCLs, is turned
      back into a command index;
    - the statics are read through the assembler's symbol table for
      project 8, and at 16 + i for project 7.
  - `VMA == INSTANCE VMProgram WITH prog <- program, vm <- snap, ops <- ...`
    is the refinement mapping.
- **`MC_VMToHack`** gives the directories: Sys.vm and Main.vm, one with an
  unknown segment, and one with a label defined twice; for project 7, a
  stack-only file and one with a label. It also has one
  directory for each violation.

## Runs

| Run | cfg | Expect | What it shows |
|---|---|---|---|
| symbol_table | MC_JackSymbolTable.cfg | pass | Lookups agree with the declarations since the last clear, with shadowing and argument bumps (`SymbolMatchesHistory`) |
| vm_writer | MC_JackVMWriter.cfg | pass | Every function written has unique, resolved labels (`LabelsUnique`) and behaves as its source means (`CompiledCodeMatchesSource`) |
| vm_writer_letorder | MC_JackVMWriter_letorder.cfg | violation | `ArrayLetIndexFirst`: `let a[i] = e` evaluates `e` before `i`, against spec 4.4 |
| vm_writer_stack | MC_JackVMWriter_stack.cfg | violation | `StackBalancedAtLabels`: `do` leaves its result on the stack, so a loop grows the stack |
| tokenizer | MC_JackTokenizer.cfg | pass | On files of up to three lines, the tokens returned are a prefix of the reference lexer's, and all of them when iteration stops (`TokensMatchSpec`) |
| tokenizer_comment | MC_JackTokenizer_comment.cfg | violation | A block comment opened after code is forgotten once that line's tokens are returned (`opening_comment` is reset on every call) |
| parser | MC_JackCompilerEngine.cfg | pass | Every token stream of 299 grammar-built classes parses back to its own tree with nothing left over (`GrammarRoundTrip`), and every proper prefix of five of them ends in `StopIteration` (`EndOfInputFails`) |
| parser_lexerror | MC_JackCompilerEngine_lexerror.cfg | violation | `SourceTokensInTree`: an invalid word on the line after an if's `}` raises inside `_compileIf`'s bare `except:`; the line is lost and the file parses without error |
| vm_translator | MC_VMToHack.cfg | pass | `VMSpecRefined`: a two-file program translated by project 8 in both directory orders, and a stack-arithmetic file translated by project 7, each assembled and run, implement their VM programs step for step, with progress. `TypeOK`: every ROM word has 16 bits. A bad segment or (project 7) a label stops the translator, and a duplicate label stops the assembler |
| assembler_neg | MC_VMToHack_neg.cfg | violation | `VMSpecRefined`: `neg 7` leaves `!7` = -8, because `comp_code["-D"]` is the code of `!D` (assembler.py:191) |
| vm_translator_compare | MC_VMToHack_compare.cfg | violation | `VMSpecRefined`: `-20000 gt 20000` is true, because gt/lt decide by the sign of x - y, which overflows (VMTranslator.py:176, 186) |
| vm_writer_wellformed | MC_JackVMWriter_wellformed.cfg | violation | `WellFormedClassCompiles`: an unqualified call term such as `g(p)` crashes the writer (jack_vm_writer.py:254 compares an Element with a str) |

## Bounds and why they are enough

**Symbol table**

- Two names, two types and one subroutine name.
- At most two `inc_arg_index` calls per subroutine.
- Within these bounds, every name can be declared in either scope, with any
  kind, before or after a bump, and redeclared. That gives shadowing, clearing,
  duplicates and bumped slots.

**Writer**

- Class `Main` has three possible member lists:
  - `static int s; field Array a; field int n`;
  - no members, which exercises the constructor's size rounding;
  - one that declares `s` twice, which exercises the failing define.
- Up to two subroutines, `f` and `g`, each of any kind, drawn from eight
  bodies. Between them the bodies use every term form and every statement form:
  - a while loop with a `do` inside;
  - if/else followed by an if;
  - a while holding an if/else whose then branch holds an if, so the
    enclosing statements take their labels after nested ones;
  - indexed let and indexed read, a method call on a local object, a string
    constant, `*` and `/`;
  - an indexed let whose index and value both make calls;
  - an unqualified call term;
  - `this` and `true`;
  - an unqualified `do`.
- With two subroutines, label counting restarts and the method scope is
  cleared between them.
- Each function is run from every start:
  - an int parameter is 0 or 2, so a loop runs zero or two times;
  - an Array at 100 holds 5, 7, 9;
  - the object is at 50.
- `MaxLoops = 3` and `MaxSteps = 200` are never reached by these bodies.

**Tokenizer**

- Files are sequences of 0 to 3 lines drawn from nine lines. Between them they
  hold keywords, symbols, a number with leading zeros, a string with a space,
  a `//` comment, a one-line block comment, a block comment opened on one line
  and closed on the next, an empty line and an invalid identifier (`1x`).
- So every file exercises the queue, the reading of several lines in one
  call, comments spanning lines, and the failed assertion.
- The pass lines avoid the five defects on purpose. `tokenizer_comment` gives
  one file that shows one of them. The others have no run of their own: a `/*`
  inside a `//` comment swallows the following lines, and a `//` inside a
  string constant cuts the line. Both come from the order of searches at
  jack_tokenizer.py:122-147 (hazard at line 131); `TokensMatchSpec` is violated
  on such a file.

**Parser**

- 299 classes: every function body of two simple or compound statements
  followed by `return`, or one compound statement; and five classes with a
  field declaration, a method with two parameters and a local var, and a
  constructor.
- The statements cover every form: `let` with each of eight expressions (an
  operator, a unary, a parenthesis, an array read, unqualified and qualified
  calls with zero and two arguments, `this`), indexed `let`, `do`, `return`
  with a value. The compound ones put the token after an if's `}` on each kind
  of token that can follow it: a statement keyword, a block's `}`, and `else`.
- Every proper prefix of the tokens of the five larger classes (208 inputs)
  reaches the end of input in every method.
- The parser never looks at which identifier it reads, only at token types
  and keyword and symbol values, so a few names suffice.

**Toolchain**

- The pass directory has two files, Sys.vm and Main.vm, and TLC takes both
  orders of `os.listdir`. Sys.init comes second in one order, so `writeInit`
  must move code already written.
- Between them the files use every command:
  - every arithmetic command;
  - every segment, including pointer, which moves `this` to 3000;
  - label, goto and if-goto, with a loop that runs twice;
  - call with two arguments, function with a local, and return.
- A call line ends in a comment, which exercises the stripping of inline
  comments. A blank comment line shifts `_current_lineno`.
- Static is used from both files, so `file.i` symbols from two files share
  RAM 16 on.
- Two more directories each take one error path: an unknown segment, where
  the translator raises, and a duplicate label, where the assembler raises.
- The program ends in `label END; goto END`, so the run is infinite. The
  state graph is finite because the CPU state repeats.
- The project 7 file runs 31 commands: every arithmetic command but `neg`
  (whose wrong code the assembler_neg run shows), and the constant, pointer,
  this, that, static and temp segments, each written and read back. The
  comparisons see both outcomes. Local and argument are left out because
  the chapter 7 test scripts set LCL and ARG themselves and the model has no
  test script. A second file has a label, which project 7 rejects.
- The two violation directories are the smallest programs that make
  `neg` and `gt` differ from the VM's meaning.

## Fairness

**Toolchain.** Each tool is a sequential program that runs to completion, and
the clocked CPU executes its next instruction on every cycle. So the
composition assumes weak fairness of `Translate`, of assembling (`Load` or
`LoadFails`) and of `Run`. The abstract VM assumes weak fairness of its
`Next` (`Progress`): a VM program keeps executing commands. `VMSpecRefined`
thus also says that the machine never stops short of where the VM program
would go.

Two of these conditions are written out as `[]<>~C \/ []<><<A>>_v`, with a
state predicate `C` equal to `ENABLED <<A>>_v`, because TLC's evaluation of
`ENABLED` would re-run the assembler, or the VM step through the refinement
instance, for every state:
- `CanAssemble` holds exactly when the output is closed and not yet
  assembled, and then one of `Load` and `LoadFails` applies and changes the
  phase;
- `CanStep` follows from `Step` being a function of the state.

**Compiler.** No fairness is assumed. The compiler is a sequential program and no liveness property is claimed of it.
The models stop when compilation ends, either by `close()` or by an exception,
so the writer cfgs say `CHECK_DEADLOCK FALSE`. The parser's one action, `Parse`, runs once, so its cfgs say the same, as do the tokenizer's: after `StopIteration` or an exception no further `next()` is made. The symbol table's cfg says the
same, because a failed `define` assertion aborts the compiler.

## Mutation analysis

Each property of a passing run has a seeded fault, defined next to the operator
it replaces. Each of these faults makes that property fail:

- `define_offByOne`
- `startSubroutine_keepScope`
- `op_map_vm_code_mul`
- `_compileWhile_labelsEarly`, which names a while's labels from the counter
  as it was before the body; only a body with nested control flow exposes it
- `LetCode_pointer0`
- `Classify_intTag`, which tags integers with a wrong type name
- `StripComments_keepSlash`, which keeps a character of each comment marker
- `UnaryTerm_opTag`, which builds the unary operator as a keyword element
- `IfElse_dropLookahead`, which drops the token read after an if's `}`
- `StatementsAfter_endAtStop`, which ends a statement list quietly at end of
  input
- `writeCall_argOffset`, which sets ARG to SP - n - 4 in a call
- `dest_code_typo`, which gives M a four-bit dest code, so every word that
  writes M has 17 bits

## Not modelled (yet)

- **The parser on ill-formed input.** The parser accepts much that Jack's
  grammar rejects (the class loop, for example, appends any token). The runs
  only ask what it does with well-formed streams, their prefixes and a lexical
  error; `SourceTokensInTree` is the property for other inputs.
- **The parser's empty body.** A body without statements gets no `statements`
  element, and the writer's `find("statements")` would fail on it. Jack
  requires every subroutine to end in `return`, so the parser runs never build
  one, and the writer model reads its own syntax records, not the XML.
- **The symbol table's slot collision.** `define` after `inc_arg_index` gives
  an argument the slot of one already bumped. The writer never calls them in
  that order; the hazard is in PROJECT.json.
- **The range of integer constants.** Neither the tokenizer nor the writer
  checks it, and the spec states none.
- **The project 7 translator's divergences, as runs.** Three inputs, each
  checked once against `VMSpecRefined`, make the project 7 toolchain
  disagree with the VM language. Two files that both use `static 0` share
  RAM 16. A command followed by a comment raises `ValueError`, so translation
  never finishes. `pop temp 8` is accepted and overwrites R13. The pass run
  keeps to inputs where project 7 is right. These three are hazards in
  PROJECT.json, as the project already has a run for each of its other
  questions.
- **The ML scripts** (train.py, d2l_modify.py). They are numeric training
  loops over external data, with no state machine a model checker could
  explore.
- **The page-table dump parser** (MIT6.1810/lab03/parse_vmprint_output.py).
  Its loop keeps the last level-1 and level-2 indices across lines and
  rebuilds each leaf's virtual address from them. That is correct only if the
  dump lists the tree depth-first. The dump comes from xv6's `vmprint`, whose
  code and output format are not in this repository, so a model's inputs
  would be invented rather than translated. It is outside the compiler and
  the toolchain, and every run of the project checks a question about those.
- **The translator's and assembler's file handling.** This covers `close()`,
  the temporary-file rename in `writeInit`, and reading from the disk. The
  model keeps the contents and the order of the files, not the I/O.
- **Constants of 2^15 and more.** `push constant 40000` is translated and
  assembled to a word with its top bit set, which the CPU decodes as a
  C-instruction. From 2^16 on the word is wider than 16 bits. The VM language
  forbids such constants (`WellFormed`), so the pass inputs do not use them.
  `TypeOK` is the property that would catch such a word.
- **File I/O, printing and the directory loop of `main.py`.** These are not
  modelled. An aborted compilation is represented by the `failed` status, with
  the output written so far kept. The loop stops at the first class that
  raises, so which `.vm` files are fresh depends on `os.listdir` order. That
  is a hazard in PROJECT.json. The parser and writer models read different
  representations of the syntax tree, so they cannot be composed per file.
- **Conditions that are neither true nor false.** The compiled `not; if-goto`
  takes only -1 as true, while `JackSemantics` takes any nonzero value as
  true. A body `if (p) ...` with p = 2 was checked once and fails
  `CompiledCodeMatchesSource`. The writer run keeps to boolean conditions, as
  Jack's own compiler does.
