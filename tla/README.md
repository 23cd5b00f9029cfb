# A verification of the M language

M is a small dynamically typed language in C. A program goes through a lexer and
a parser, a compiler that emits IR, a code generator that packs the IR into
32-bit instructions, and a register machine. This directory holds TLA+ modules
of the parts that keep state, the configurations that model-check them with TLC,
and proofs checked by TLAPS. Paths below are those of the repository, under
`src/src` unless said otherwise.

## Inventory

| component | state | operations | hard behaviour | what makes it correct |
|---|---|---|---|---|
| lexer, `frontend/lexer.c` | buffer, position, line and column | next token, comments, strings, numbers, new lines | the end of the buffer in every loop; new lines inside tokens; the flags of a number | ends, never reads past the end, loses no character, tells lines apart |
| parser, `frontend/parser.c` | token, look-ahead, panic and error flags, arena | Pratt expressions, statements, synchronisation after an error | progress in panic mode; precedence; the fixed arrays of names, targets and values | always advances; the tree is what the grammar says |
| arena, `utils/allocator.c` | a chain of blocks | allocate, release | large requests | blocks do not overlap |
| compiler, `backend/compiler.c` | IR, constants, symbols with scopes, free registers, next register | `compiler_expr`, `compiler_stmt`, `alloc_regs`, `free_temp_reg`, `begin_scope`, `end_scope` | registers through every path of the walk; patched jumps; scopes | one owner per register, none lost; jumps land; the code means what the program means |
| code generator, `backend/codegen.c` | the chunk | one word per IR instruction | offsets relative to the successor, biased to be signed | decoding gives the instruction back |
| machine, `vm/vm.c` | frames, register stack, error flag | one branch per opcode; calls and returns | targets that are operands; errors in the middle of an instruction | reads only what was written; operands survive |
| strings, `vm/mobjects.c` | string objects, hash table with open addressing | `allocate_string`, `find_interned_string`, `intern_string`, `resize_interning` | collisions, growth during insertion, re-insertion through the same function | one object per text: strings are compared by address |
| dictionaries, `vm/mobjects.c` | entries, count, capacity, fixed | `set_dict_key_value`, `get_dict_value`, `find_entry`, `resize_dict` | hash 0 stands for empty; equality against hashing; full and empty tables | a map; probes end |
| lists, `vm/mobjects.c` | values, length, capacity, fixed | `set_list_element`, `resize_list`, `copy_list`, `listvalue` | sharing by reference, aliasing of target and operand | capacity covers length; operators work on copies |
| errors, `utils/err.c` | `vm->error` | `vm_runtime_raise`, `compilerError` (exits) | what goes on after a raise | inside the actions that raise |
| command line and test runner, `cli/cli.c` | none but the paths | runs the stages one after the other | none | the order of the stages is in `Frontend` and `Toolchain`; the rest is not modelled |
| garbage collector | none: not written yet | | | not modelled |
| debug printing | none | | | not modelled |

Everything runs on one thread. The stages call each other in a row: `cli_run`
parses, compiles, generates and calls `vm_run`. The compiler and the machine share the
numbering of registers and constants, the machine calls the object functions, and an
error of the machine is a flag that the loop of `vm_run` reads after each
instruction. There are no callbacks and no signals, and nothing is persisted, so the hazards
of this code are not interleavings and crashes: they are **sequences** of legal calls,
**stale** reads of a register or a slot that another step of the same operation
changed, tables at their **limits**, loops that must **end**, and operations that
go on after one of their steps has **failed**. `PROJECT.json` lists each at its line.

## Modules

| module | models | composed with |
|---|---|---|
| `InternSpec` | the promise of interning: a text has one object, known texts are answered with it | |
| `InternTable` | the four functions of the interning table, a step of their loops at a time | implements `InternSpec` |
| `DictSpec` | a dictionary as a map, for the keys whose hash and equality agree | |
| `Dict` | the dictionary functions, an opcode at a time, with the ways a probe never returns | implements `DictSpec` |
| `List` | list functions and the opcodes that use them on registers that may share lists | |
| `CallStack` | frames over the register stack, calls, returns, chunk ends | |
| `Registers` | what a run of registers and the registers of variables are | used by the next three and `Compiler` |
| `RegisterUse` | the bounds on what the callers of the pool ask for | |
| `RegisterPool` | who owns a register: the free set, the symbols or a temporary | |
| `RegisterArray` | the sorted array `free_regs` with its binary insertion and run search | implements `RegisterPool` |
| `Values` | ints, floats, texts, references, and the operators and conversions of the machine on them | used by the next four |
| `Compiler` | the walk over the tree: `compiler_expr`, `compiler_stmt` and what they call | |
| `Codegen` | words, their fields and `generate_bydecode`, and the limits within which a word is read back as it was written | |
| `Machine` | `vm_run` on one frame, a definition per opcode; what each reads, writes and goes to; the machine by itself, given sound code | uses `Codegen` |
| `Meaning` | what a program means: an evaluator of trees that knows no register and no jump | |
| `Scoping` | which programs are well formed: names and constants, without a symbol table | |
| `Lexer` | the scanner, a turn of one of its loops at a time, and what numbers and lines are without a scanner | |
| `Parser` | the Pratt parser, the statement parser and their recovery, a definition per function | |
| `Grammar` | how a tree is written down as tokens, with as few parentheses and semicolons as it takes | |
| `Frontend` | any text, program or not, scanned and then parsed a statement at a time | `Lexer`, `Parser` against `Grammar` |
| `Toolchain` | a program parsed and compiled a statement at a time, generated, and run an instruction at a time | `Parser`, `Compiler`, `Codegen`, `Machine` against `Grammar`, `Meaning` and `Scoping` |

`MC*` modules give the constants their values for TLC; `*Proofs` modules hold
the theorems. Names follow the C: `Alloc`, `Free`, `BeginScope` for `alloc_regs`,
`free_temp_reg`, `begin_scope`; the fields of `struct Compiler` are fields of the record
that the walk threads through; the branches of `vm_run` have the names of the
opcodes. An action is a whole function or opcode where nothing can look in between, and a
step of a loop where its intermediate states are the point (`InternTable`).
Definitions named `X_Something` that stand before `X` are mutants: plausible
faults of `X`. For each property of each run one of them makes TLC find the property violated.

Abstractions, module by module:

- `InternTable`: the hash is a constant function of the text, so that every
  pattern of collisions is an instance; a failed allocation ends the process, as
  `memoryCrash` does.
- `Dict`: a key is a model value with a hash and an equality; hash 0, signed zeros, NaN as a
  key and keys that cannot be hashed are keys of the instance. Two lookups that do
  not return are states: `crash` (modulo 0 in an empty dictionary) and `spin`.
  A dictionary read by `OP_GET_INDEX` leaves the target as it was
  (`vm.c:1314` drops the value); `Lookup` is what the function returned.
- `List`: a reference is the rank of a list; elements are scalars. Any sequence of
  instructions with any registers is a behaviour, also those in which target and operands
  are one register.
- `CallStack`: no opcode calls `vm_begin_call` yet; the actions are the functions with every
  argument that stays inside the caller's window.
- `RegisterPool`, `RegisterArray`: the callers are any sequence of calls that
  frees only what it holds or what belongs to a variable. `Toolchain` shows that the walk is such a caller.
- `Compiler`: the texts of numbers are their values. `token_to_value` takes the first and the last character from
  every string token (`compiler.c:249`): the quotes, whichever they are, of a text, but letters of a key that is
  a name (`parser.c:713`), so that `{name = "Ana", age = 25}` of `test/test2.m` has the keys `am` and `g`. A name of one
  letter gives a constant of length `(size_t) -1` (`Endless`), of which `OP_LOADK` makes no string: the process dies. `compilerError` exits: from then on
  nothing is looked at. Free registers are a set, taken lowest run first, which
  is what `RegisterArray` shows the array to be. Where `compiler_stmt` reads the element before an
  array (`wild`), the process may end or go on.
- `Lexer`: characters are named, letters that play no part of their own are one constant. The
  type of an operator is its characters. `consume` is one step, with the new
  lines it skips. Columns, error texts and the growth of the token array are left out.
- `Parser`: a token is its type and its text, and `struct Parser` a record, as the compiler's is.
  Of a location only whether its end is known is kept (`closed`), because the asserts of `parser_if` are about it;
  what they and a full array do to the process is the action `Abort`. The arrays are sequences whose
  length is compared with their cells (`Stored`). The comment cases of `parser_statement` are left out, since
  `Lexer_execute` pushes no comment. `hadError` is kept but, as in the code, never read.
- `Values`: a float is a fraction in lowest terms, exact where a double is rounded; a text is the
  sequence of its characters; the address of an object in a text is one character. Ints are not bounded, and
  the programs of the runs stay far below 2^31: that `OP_POW` narrows its operands
  to an `int` (`vm.c:938`), and that `//` and `%` lose what a double cannot hold, are not modelled.
  A list is the sequence of its values and a dictionary a function from its keys, which `Dict` shows its table
  to be; of their storage they keep the capacity, whether it is fixed and, of a dictionary, the count, because these decide
  whether a store succeeds, is refused, divides by 0 (`mobjects.c:493`) or never ends (`mobjects.c:497`), and when a
  table grows. `ZeroHash` are the values whose hash is 0: a growth leaves these keys behind (`mobjects.c:581`).
  In the run it is the text `rannlarka`, whose `hash_rvalue` is 0. A fraction has no -0.0, so
  that the two entries of 0.0 (`mobjects.c:133`) are modelled in `Dict` alone.
- `Machine`: one frame. A run ends in `halted`, `error`, `crash` (the process dies) or `spin` (an instruction never
  ends). An element stored past the end of a fixed list is an error, and is written all the same (`mobjects.c:425`), so that
  either the error or a crash follows; where the list has no memory at all, the crash. `OP_HALT` ends the run; what `vm_run` returns there is undefined (`vm.c:1621`).
  A list concatenated into the register of its right operand grows without end (`vm.c:1072`), which is a step
  that is never taken. `vm_run` checks nothing of the chunk it is given; `Sound` says what it takes for granted: the
  code ends, every constant is there, every register is one of the frame, and a
  set of registers can be given to each instruction (`Flow`), written on every path to it, which holds those it reads.
  `MachineSpec` is the machine given any such chunk. In `Toolchain` a step of the run is `Execute` itself, and `CodeIsSound` says that the
  compiler's chunks are sound, so what is proved of `MachineSpec` holds of them.
- `Meaning`: objects have room for what is put into them, unless they are fixed or a dictionary is written
  without entries; what happens where there is no room, and which keys a name stands for, is what the code makes of it.
  It says for each program whether it dies, hangs or fails, and `MeansWhatItSays` that the compiled one does
  so then and only then. Keys whose hash is 0 may be missing from a dictionary of the machine (`Same`).
- `Codegen`: the fields of a word and the variables `vm_run` reads them into have different widths, and `Fits` has
  the smaller of the two: a jump reads its 18 bits into 16 (`vm.c:1599`), and the register of a list's capacity is
  a signed byte, so that 128 and above mean none (`vm.c:1228`).

## Runs

`tlc -config <cfg> <module>`; each takes from seconds to a few minutes.

| run | configuration | shows | bounds, and why they are enough |
|---|---|---|---|
| `intern_table` | `MCInternTable.cfg` | `Canonical`, `Findable`, `FreeSlot`, `NoNestedGrowth`, `ImplementsInternSpec` | six strings, first capacity 2 instead of the code's: the table grows three times while strings with equal hashes, equal homes and wrapped probes are inserted in every order |
| `dict` | `MCDict.cfg` | `LoadBound`, `FailsOnlyWhenFull`, `ImplementsDictSpec` | six keys that collide, hash to 0, or are equal with other hashes; literals of 0, 1 and 3 entries, capacity up to 8, fixed or not: each limit is met from both sides |
| `dict_full` | `MCDict_full.cfg` | a violation, see findings | the same |
| `list` | `MCList.cfg` | `CapacityCovers`, `OperandsKept` | three registers are the operands of one instruction, in all patterns of sharing; three lists of up to two elements meet growth and refusal. Symmetric in registers and scalars, which are only compared |
| `list_alias` | `MCList_alias.cfg` | a violation, see findings | the same |
| `call_stack` | `MCCallStack.cfg` | `Tiled`, `CallersFrozen`, `ReturnIsLocal` | three frames and seven registers: either limit is met first, depending on which functions are called |
| `call_results` | `MCCallStack_results.cfg` | a violation, see findings | the same |
| `register_array` | `MCRegisterArray.cfg` | `Sorted`, `OneOwner`, `ImplementsRegisterPool` | six registers, runs of one to three, two scopes: fragmentation, a run found in the middle, the limit. It stops after `compilerError`, so deadlock is not checked |
| `toolchain` | `MCToolchain.cfg` | `ParsedAsWritten`, `NoRegisterLost`, `CodeIsSound`, `FreshReads`, `MeansWhatItSays`, `ObjectsKept`, `RejectsIllFormed`, `Halts` | about 5,000 programs, sixteen registers, the parser's own limits, see below. The program stops, so deadlock is not checked |
| `for_step` | `MCToolchain_for_step.cfg` | a violation, see findings | three programs |
| `lexer` | `MCFrontend.cfg` | of the scanner `InOrder`, `NothingLost`, `LinesRight`, `OnOneLineInWindows`, `NumbersClassified`, `EndsOrHangs`; of the parser after it `StatementsAdvance`, `ReadOrReported`, `ArraysHold` | for the scanner, every text of at most three of 22 characters, at most five of those that numbers and of those that strings are made of, and at most four of those that lines, comments and operators are made of: every loop meets a line end, a CR and the end of the buffer. For the parser, all of these, every sequence of three of 26 lexemes, of four of the ten that open, close and separate, and of three of these after the beginning of each construct; two cells in each array of a statement, two statements in a block and three in a program, so that each limit is met from both sides |
| `lexer_lines` | `MCLexer_lines.cfg` | a violation, see findings | the texts of the scanner |

Each passing run also checks `TypeOK`, the type invariant of its module; that of `Toolchain` is that of `Machine`.

The programs of `toolchain` are those of `MCToolchain`, each of which is written as tokens by `Grammar` and
read back by `Parser`: every operator on operands of every sign and of every sort (ints, floats, texts that are
numbers or not, booleans, NaN, nil, lists, dictionaries); every two operators one within the other, on either side;
every expression of two levels of subtraction, negation and indexing, and lists
in lists, each as a statement, an initial value, a condition, a stored element, an operand
of a compound assignment and an assigned value; every nesting of two control structures around
five simple statements; statements that an expression ends before ones that could go on with it; declarations
and uses of a name in every place that may see them or not, in code that is run and code that is not; programs that the
compiler rejects for a name, a constant or a target or for lack of registers; and one that uses all the registers;
dictionaries with no entry, with equal keys, fixed and not, that grow, are full, or lose a key in a growth, each with a store and a read of a
key that is there and of one that is not; keys that are names, two of which become the same; and fixed
lists of four sizes, with elements pushed, stored, added, repeated and concatenated up to the limit and beyond it. A
program that meets an empty or full dictionary does not halt, and `Halts` lets it hang only where `Meaning` says so.
Two levels suffice for the paths of the walk because every case of `compiler_expr`
treats its operands through the same two calls, with a target or without one.

Left out of the programs, each because no text of the repository says what it should do
and the code does something particular:

- `x++` in an expression that reads `x` elsewhere: an operand that is a
  variable is its register, read after the other operand has been evaluated;
- a literal list or dictionary assigned to a variable it reads (`x = [x]` holds itself), and `x = l + x`;
- `var x = x` (the new `x` is already in scope) and `var` as the body of an `if`
  without braces (it belongs to the scope around the `if`);
- reading a dictionary into a variable that is used afterwards (the value is dropped, `vm.c:1314`), and 0 to a negative power;
- a text with a sign divided with `//`, which truncates where an int is rounded down (`vm.c:831`);
- a string ordered before a list, whose memory `m_strcmp` reads as a string's;
- numeric texts with blanks or an exponent, powers that are no integer, fractions without a finite decimal in texts;
- a tree that no text has: an `if` without `else` before the `else` of the one around it, and a `for` without a step whose
  body would be taken for the step.

The first of these are hazards in `PROJECT.json`, with the property that would find them. `Machine` and
`Compiler` model them as they are; only `Meaning` would have to say what is right. `4 / 2 == 2` is false and
`1 < 1.5` an error, because the comparisons look at the types first: `Values` says so and the programs show it.

### Fairness

`InternTable`: weak fairness of the steps of a call. The interpreter has one
thread, and a call that can go on does. Nothing obliges a program to make another call, nor an allocation to fail.
`Lexer`: weak fairness of its next step, since `Lexer_execute` is one loop that waits for nothing.
`Frontend` asks the same of the scanner alone: that the parser ends is the safety property `StatementsAdvance`, since
tokens run out. `Toolchain`: weak fairness of parsing and of compiling the next statement, of starting the
machine and of running an instruction, for the same reason: the process waits for
nothing. The other modules state safety only and assume none; `DictSpec` and `RegisterPool`, which they
implement, promise no progress.

## Findings

- **A full fixed dictionary never answers** (`dict_full`). `set_dict_key_value`
  looks for the entry before it tests that the dictionary is full, and
  `find_entry` ends only at the key or at a free entry (`vm/mobjects.c:497`). The message of `utils/err.c:248` cannot be reached that way.
- **`x = x <> y` loses `x`** (`list_alias`). `OP_CONCAT` puts the new list in R(A)
  before it reads R(B) and R(C) (`vm/vm.c:1072`), against `backend/codegen.h:27`.
- **Results go where the caller's caller asked** (`call_results`). `vm_finish_return` reads `result_base` from the caller's
  frame (`vm/vm.c:234`); `vm_push_frame` stores it in the callee's, and `vm/vm.h:123` says what it is for.
- **A `for` without a step may not count** (`for_step`). The compiler increments register `a` of
  the first instruction of the initialisation (`backend/compiler.c:1006`), which
  is a temporary in `for i = y + 1, i < 4`.
- **Lines run into each other** (`lexer_lines`). `consume` steps over a new line
  wherever it stands (`frontend/lexer.c:23`), so where lines end with LF a
  word, an operator or a number of one digit goes on with the next line: `var n = 5` and
  `var n2 = 6` of `src/test/numbers.m` become one malformed number, and an empty `#` comment
  takes the next line with it. With CR and LF the CR keeps them apart, which is what
  `OnOneLineInWindows` shows.

The properties of `Lexer` say how far the code is right where it is not. `NothingLost` allows an
empty comment the next line; `LinesRight` is exact for lines that end with CR and LF and otherwise an
upper bound, because no one counts the LF after a number; a long comment is
whatever the code takes for one, up to the first `*` or to what stands before the first `/`
(`lexer.c:110` joins the two tests with `&&`); and `EndsOrHangs` says that a long
comment without an end is the one text the scanner never leaves.

Those of `Dict` likewise. `FailsOnlyWhenFull` says that a probe never returns in exactly two cases, an empty dictionary and a full
fixed one, which is to allow both; `LoadBound` counts the entries that a growth drops and does not forbid the loss; and
`ImplementsDictSpec` promises a map for the keys whose hash and equality agree and whose hash is not 0, whatever the others do
in between. `ObjectsKept` and `MeansWhatItSays` allow the machine the same loss and no other. The keys that are names are a
further case: `token_to_value` spoils them, but nothing in the repository says what they should be.

The properties of `Frontend` likewise. `ReadOrReported` compares the tokens of a text with those of the tree it
was read as, for texts that nobody reports: neither the parser (`reported`), nor the compiler, which rejects a
tree with an error in it. It leaves out texts with a parenthesis after an operand, because `parser_grouping`, used as an
infix, drops the operand (`parser.c:671`): `f(x)` is read as `x`. `ArraysHold` lets `parser_assign` alone write
past its arrays, because it does: `namesCount > 8` is tested before a cell is written, and the ninth of
eight passes (`parser.c:862` and `881`), although its message says "max 8". These two and the following are
disagreements that no run is set up to violate: a compound assignment to an element is accepted by
`parser_compound_assing` (`parser.c:921`), whose target may be any l-value, and rejected by the compiler, which takes it for a name
(`compiler.c:1054`); a dictionary may end with `]` (`parser.c:632`); a failed `assert` of `parser_if` ends a process that has
already reported the error; and `compilerError` exits, so one bad file ends a whole run of the tests (`cli.c:178`).

`RejectsIllFormed` goes with `MeansWhatItSays`: the one says which programs are compiled, the other
what becomes of those. A well-formed program may still be refused, when the registers above those handed out are too few for
the widest run it asks for (`Widest`).

## Proofs

All theorems hold for every value of the constants that satisfies the named assumptions of the modules. `IInv` is
in each module the inductive invariant from which the theorems follow; each was checked by TLC first, as an invariant of
the run of its module. TLAPS proves no induction over data here, so that a loop is never reasoned about
by induction on its counter. The steps of `InternTable` and `Lexer` are the turns of the loops, and their
invariants take the place of the induction; a loop inside one action is a recursive function or a fold, and what it
computes is shown by its *least counterexample*: `LeastOf` of `DataLemmas` gives a set of
naturals a least element, and `Turns` and `Iterates` say with it what a loop of so many turns ends in. The other lemmas there
are about sequences (`Popped`, `Rest`, `Appended`) and about remainders (`DivMod`, `OneRemainder`, `Wraps`),
which every hash table needs.

`RegisterArrayProofs` has first the abstract pool, as `Pool`: `PoolTypeCorrect` and `PoolRegistersHaveOneOwner`, for every size
of the register file and every sequence of calls. The invariant is inductive as it
stands once the types are added: a register is in exactly one of the free set, the
temporaries and the symbols, and these cover what was ever handed out, so a run
found in the free set, or above `next_reg`, belongs to nobody. `EndScope` needs the injectivity
of the symbols: what the dropped symbols held is held by none that stays.

Then the array is that pool. `IInv` is `TypeOK /\ Sorted /\ OneOwner`. The lemmas say what the loops of
`free_temp_reg`, `free_regs_block`, `end_scope` and `alloc_regs` compute on a sorted array: the binary insertion
adds exactly its register and keeps the order, since all before the place it finds are smaller and all from it on larger;
a run found by neighbours that differ by one is an interval of free registers, and the first one there is.
From these follow `StaysSorted` and, operation by operation, `ArrayImplementsPool`: every step is the step of `RegisterPool`
with the set of the array's elements for `free`. `RegistersHaveOneOwner` is then `PoolRegistersHaveOneOwner` carried over.

`InternTableProofs`: `TypeCorrect`, `GrowthIsNotNested`, `ProbesMeetAFreeSlot`, `OneObjectPerText`,
`NoStringIsLost` and `TableKeepsPromise`, for every hash, every first capacity from 2 up and any number of
growths. `NoNestedGrowth` needs `Load`: between calls the
table is at most three quarters full, and while the old keys move there are no
more of them in the new table than slots passed in the old one, which has half its
size. `IInv` is `TypeOK /\ Load`. `FreeSlot` is not inductive: it follows from `Counted` (the count is
the number of slots in use), which in turn needs `Working` (a string that is
being stored exists, and an old key that is being moved is there).
`Canonical` holds because a search that failed shows the text absent,
which needs the shape of the table, `TableInv`: `Placed` (the probe for the text of a string reaches the
string's slot), `Single` (no string is in two slots), `Complete` (every string is
in the table, still to be moved, or being inserted), `Moved` (what a growing
table holds comes from the part of the old one already moved), `Learned` (the slots a probe
has passed are in use, and by other texts while it searches) and `Pending` (the
string just created is in no slot yet). `ProbeOrder` is the lemma on circular
probing that all of them use. `TableKeepsPromise` is the safety half of `ImplementsInternSpec`: an initial state and every step
map to those of `InternSpec`; a growth and the turns of the probes are stutters, and a failed search
is its case "no string has the text".

`DictProofs`: `TypeCorrect`, `LoadStaysBounded`, `ProbesEnd` and `DictIsFunction`, the whole refinement of `DictSpec`.
`IInv` adds to the three invariants that each used slot is *placed*: no free entry stands between the home of its hash and it. The equality of keys
and their hashes are arbitrary, and need not agree, so that what `find_entry` answers is known for any key only as far as
"the first entry, from its home on, that is free or equal". For a plain key, whose hash and equality
agree, that is its own entry or none (`PlainKey`), and so a store changes the map at that key and a growth changes it nowhere, though a growth
may drop keys that are not plain. The assumption `MinCapacity % 4 # 1` is needed: from a first capacity of 5 a literal of
three entries would have five slots, and four stores make it fuller than three quarters. The code's is 8.

`ListProofs`: `TypeCorrect`, `SlotsCoverElements`, and the action property `OperandsStay`.
`CapacityCovers` is inductive only with its exception made exact: a list that is longer than its memory is fixed,
and the machine has stopped with the error (`vm/mobjects.c:425`). The action property
follows from what each opcode does to the heap: it allocates, and changes nothing else, or it
stores into one list, whatever the registers share.

`CallStackProofs`: `TypeCorrect`, `FramesTile`, `CallersKeepRegisters` and the action property `ReturnsAreLocal`,
for any chunks and any size of the stack. To `Tiled` and `CallersFrozen` the invariant adds `Below`, that the window of a frame is below
those of later ones, which says for all pairs what `Tiled` says of neighbours, and what makes a write into the top frame miss every frozen window.

`LexerProofs`: `TypeCorrect`, `TokensInOrder`, `TokensOnOneLine`, `LinesAreRight`, `NoCharacterIsLost` and
`NumbersAreClassified`, for every text and any keywords. The assumptions on the constants say that a source is a sequence, that a letter
is no blank, no operator and not the end of the text, and that no keyword has the name of the type of a number or of the end. All six rest on two lemmas, `StepMoves` (how far
a step moves the position, and what it adds to the line) and `StepShape` (a step begins a token, reads on, ends
one, or skips), and on `IInv`, in which
`Matched` says what the characters seen so far are, `Counted` that the line is at most one more than the new lines passed, and `Ahead` that a token that is being
scanned has a character. Each theorem adds one conjunct of its own. `OneLine`:
with CR and LF, what is being scanned holds no LF, for the CR before one ends every loop but that of strings. `Numbered`: with CR and LF and
no strings, the line is exact at every step, since whoever reads the CR leaves the LF to `consume`. `Kept`: what was passed since the
last token is blank or in a comment. `NumbersRight`: each flag of the number that is being scanned says which points, exponents and digits
its text has so far, and after a fault the text has one that no later character mends; so the flags at the last
character say what `NumberOf`, the definition of a number's type by its text alone, says of the whole. `NumberSpelled` puts
`NumberOf` in terms of places in the source, where a loop that adds a place at a time can be followed.

`MachineProofs`: `WordsKeepInstructions`, `TypeCorrect`, `ReadsAreFresh` and `ObjectsAreKept`, for any code, any constants
and any number of registers. The first is arithmetic: the two fields of Bx and the bias of sBx are taken apart again by
the division and the remainder, which `DivMod` and `OneRemainder` give, for every instruction within `Fits`.
The others are about `MachineSpec`. `TypeOK` is not inductive by itself, since a jump may go anywhere and a constant may be a
reference: `IInv` adds that the code that runs is `Sound`, and that before it the machine is empty. Then every opcode has a
lemma: what it puts into a register is a value, a reference is to an object that stays (`Kept`), and a new object is the
last of the heap. The values of the operators are followed through all their conversions (`Binary`, `Unary`),
because each might leave an error, which no register holds, or a reference, which only `||`, `&&` and indexing pass on.
`ReadsAreFresh` needs one invariant more, `FlowHolds`: what `Flow` says of the instruction at `pc` has been
written. An edge of the code adds what its instruction writes, and soundness says that this is enough where it goes, for
loops too. It is a theorem of the runs in which no dictionary is indexed (`DropsValue`): that opcode writes nothing
(`vm.c:1314`), and the instruction that reads its target finds what was there. `ObjectsAreKept` is the action property the others rest
on: no step takes an object away or changes its kind or whether it is fixed; only the two instructions that store change one, and
only the one their register refers to, whoever else does; and nothing is taken from it but the keys whose hash is 0, when
a dictionary grows. `ZeroHash` is any set, so that the theorem does not depend on which keys these are. Each opcode
either stops the run and leaves the heap (`Stops`), adds an object to it (`NewObjects`) or changes the one object
(`Changes`), and what a change may do is a lemma about `Lengthened`, `SetAt` and `Entered`.

What stays with TLC, and why:

- liveness and what needs ENABLED: the liveness half of `ImplementsInternSpec`, `EndsOrHangs`, `Halts`;
- `Parser`, `Grammar`, `Compiler`, `Meaning` and `Scoping` walk trees with RECURSIVE operators, so that
  no theorem can be stated about them or about `Frontend` and `Toolchain`, which use them: `NoRegisterLost`, `CodeIsSound`,
  `MeansWhatItSays`, `ParsedAsWritten`, `RejectsIllFormed`, `ReadOrReported`, `ArraysHold` and `StatementsAdvance`. What
  `CodeIsSound` shows of some 5,000 programs is the hypothesis of the theorems about the machine.

## Plan

Done: interning, dictionaries, lists, calls, registers, lexer, parser, compiler, code generator,
machine, and the two compositions; and the safety of all but the parser, the compiler and the
compositions proved.

## Not modelled

- the arena (`utils/allocator.c`): a bump allocator of 74 lines, used by the parser alone and freed with the process; a
  request that fits no block gets a block of its own, and nothing is ever given back to it;
- the command line, apart from the order of its stages: reading files and options has no state beyond the list of paths;
- error texts and their locations, debug printing, and the garbage collector, which is not written;
- the rounding of floats and the width of ints, which TLC's integers cannot hold;
- what the compiler of C makes of undefined behaviour beyond the choice between going on and ending (`Abort`, `Outcomes`).
