# A verification of pcc-kit

pcc-kit compiles a subset of C to arm64 executables for Linux (ELF), Windows (PE) and macOS (Mach-O). It is one
sequential C++ program of about 6600 lines: a source file goes through a chain of phases, each of which keeps its
state in static variables and linked lists. Nothing runs concurrently and nothing is persisted, so the hard
behaviours are of another kind: code is *generated in one order and executed in another* (branches, loops, calls),
state that belongs to one method survives into the next, tables are searched by name, sizes and places are computed
before the things they are for exist, memory is released by one phase while another still points into it, and
machine fields have widths.

The modules below model the phases at which these things matter, from the source. TLC checks them on small
instances, TLAPS proves the core results for every value of the constants.

## Inventory

| Component | Source | State | Operations | What makes it correct |
|---|---|---|---|---|
| Driver | `main.cpp` | options | the phases in order, release of their memory | a phase uses no memory an earlier one has released |
| Memory spaces | `memory/mspace.cpp` | per tag a list of nodes | `pccMalloc`, `pccFree`, `pccFreeSpace` | every node is freed once, and not while in use |
| Stack | `utils/stack.c` | list of elements | push, pop, iterate from the top | last in, first out |
| Preprocessor | `compiler/preprocessor.cpp` | output file | `ignoreComment`, `extraInclude`, `processLine` | ends; every include once where it stands |
| Lexer | `compiler/lexer.cpp` | token list | `lexer`, `processCompletedString` | the tokens of the text in order |
| Parser | `compiler/syntaxer.cpp` | AST, scopes of methods and variables | `travelAst`, `pushMethod`, `popMethod`, `addVar`, `hasVarDefine` | ends; builds the tree that was meant; a variable is found in its method |
| MIR generation | `compiler/mir.cpp` | code list, label, temporary and data counters, variable and method tables | one function per node kind | the code does what the source says, with the types its operands have |
| Optimizer | `compiler/optimization.cpp` | the code list | `foldMir2`, `replaceFutureUsedMir2`, `removeMirCode` | the code still does so |
| Register cache | `generator/arm64/assembler_arm64.cpp`, `register_arm64.cpp` | `commonRegsVarName`, used registers | `generateCodes`, `allocEmptyReg`, `loadVarIntoReg`, `clearRegs` | every operand read has the value meant |
| Stack frame | `assembler_arm64.cpp` | slot list, stack top | `computeMethodStackSize`, `allocStack`, `storeParamsToStack`, `releaseStack`, loads and stores | slots do not overlap and fit the frame; SP is given back |
| Instruction lists, relocation | `binary_arm64.cpp` | instruction, label and data lists | `emitInst`, `emitLabel`, `binaryData`, `relocateBinary`, buffers | branches and addresses reach what they name |
| System call stubs | `generator/arm64/*_syscall.cpp` | none | fixed sequences | - |
| Object files | `generator/assembler.cpp`, `wrapper/*`, `file/file.cpp` | output file | one writer per format | the headers describe the bytes written |
| Logger | `logger/logger.cpp` | none | output | - |

How they interact: the driver calls the phases one after the other; each reads the whole result of the one before.
The tree points at the contents of tokens, MIR operands point at names in the tree's memory. The code generator walks
the MIR of a method once and emits instructions while it keeps the register cache and the slots; `binary_arm64.cpp`
collects the instructions of all methods in one list, and the object file writers ask it to relocate that list and
for its bytes.

The behaviours that are hard, and that a test of a sample program would hardly reach, are listed with their lines
under `hazards` in `PROJECT.json`.

## Plan

| | Module | What | State |
|---|---|---|---|
| 1 | `RegCache`, `RegCacheProofs` | the register cache against the values the source means | done, proved (`OperandsFresh` for plain methods with literals up to 127) |
| 2 | `Frame`, `FrameProofs` | stack frames and slots | done, proved |
| 3 | `Reloc` | labels, branches, data addresses | done, proved in `ImageProofs` |
| 4 | `Mir`, `Structured`, `Control`, `ControlProofs` | control flow; `Structured` is the abstract specification, `Control` implements it | done, proved but for progress |
| 5 | `Arith`, `Fold`, `FoldProofs` | expressions, the optimizer | done, proved (what is true of it: simple methods) |
| 6 | `Spaces`, `Mspace`, `MspaceProofs` | memory spaces, with the phases of the driver as their client; `Spaces` is the abstract specification | done, proved |
| 7 | `Image`, `ImageProofs` | the object file writers over the lists of `Reloc`: headers against what is written | done, proved |
| 8 | `Language`, `Grammar`, `Parser`, `ParserProofs` | the parser and its scopes; `Grammar` is the abstract specification | done, proved but for the end of every text |
| 9 | `MirTypes`, `MirTypesProofs` | the variable and method tables, and the types they give, over calls nested in expressions | done, proved |
| 10 | `Calls` | nested activations: SP, the saved X30, argument registers, over `Frame` | later |

The specifications that state what a component promises, each shown to be implemented with `INSTANCE ... WITH`:
`Structured` by `Control`, `Spaces` by `Mspace`, `Grammar` by `Parser`; and `Image`, which composes the instruction
lists with the writers, is shown to implement `Reloc`.

## Modules and how they correspond to the code

`map` in `PROJECT.json` gives the lines of every definition. A definition called *faulty* is a variant of the one
below it, made as a bug would make it, with which the properties are tried.

**RegCache** generates an arbitrary method, one MIR code per step, and executes the emitted instructions as it goes.
The state is the cache (`commonRegsVarName`, `usedRegs`), the machine it is a belief about (`x`, `mem`), and where
the program is (`blocks`, `jump`, `readable`). Each MIR code is an action: `Mir2`, `Mir3`, `Call`, `Return`, `Cmp`,
the labels and flags of `if` and the loops, and `NextMethod`. Code that the branches taken jump over is generated,
and changes the cache, but is not executed; that is the hazard of a one-pass generator, and why the model keeps both.
A loop body is generated once and executed many times, so from the loop entry on the slots hold arbitrary values.
`fetched` holds what the last code read beside what it should have read. `Features` names the class of methods that
is generated: a class is a set of things a method may contain. A literal stands for the value `Means` gives it in the
source; what a code moves or compares is what the generator makes of it. The parser writes one byte of a literal
(`dataChar`), whatever its type, into memory that `malloc` returns. `ConvertMirOperandImmBinary` therefore gives the
value meant for a literal up to 127 (`Int8`), any value for one up to `SHRT_MAX` (`Int16`, whose high byte was never
written) and 0 for all others (`Int32`). `MIR_2` does not convert: it moves four bytes of the operand
(`MovDataInt32`). `movInteger` writes the register it is given, except that it puts -1 into X0; with `dirtyMemory`
among the `Features`, unwritten bytes may make that of a literal over 127. Without it they are 0. Pointers (`&`, `*`,
strings) are not generated.

**Frame** compiles methods one after the other: `BeginMethod` (`computeMethodStackSize`, `allocStack`), `StoreParam`
(one turn of `storeParamsToStack`), the codes that load and store, `EndMethod` (`releaseStack`). The list of slots is
that of `stackVars`, which is never emptied; `utils/stack.c` iterates from the top, so a lookup finds the *newest*
slot of a name. `accesses` holds the loads and stores of the last code.

**Reloc** emits an arbitrary sequence of labels, instructions and data, the text before the data as
`generateArm64Target` does, then relocates everything in one action and hands out the buffers. Instructions are an
opcode and an immediate field with its width; a label's `at` is its true place, which the code does not know.

**Image** opens the file, drives `Reloc`, and writes: `stage` is where `generateTargetFile` is, and `file` the parts
written, each with its offset and size. `ElfHeader`, `PeHeader` and `MachHeader` turn what the three generators compute
into claims ("this stretch of the file holds these parts"); `ElfWrites`, `PeWrites` and `MachWrites` are the writes in
their order, with the padding of `writeEmptyAlignment`. The sizes of the structures are constants, so that nothing is
aligned by chance. An open that fails goes unnoticed by the generator, as in the code.

**Mir** is the generator for conditions, `if`, `while`, `for`, statement sequences and methods: an operator per
function of `mir.cpp`, which gives what one call emits and how many labels are allocated behind it. The calls that a
call makes stand among what it emits, at the places where their codes will be. **Structured** says what these
statements mean: a method is a list of statements to do, and what can be seen of it is the order in which it acts and
evaluates comparisons. **Control** first generates: `Generate` makes the first call that is open, and puts what it
emits in its place (`Splice`), until none is open (`Complete`). The calls are thus made in the order in which the code
makes them, and the labels allocated in that order; only the three labels of a `for` have their numbers in another order. Then
`Control` runs one method, with every outcome of every comparison, and implements `Structured`. The statements
still to do are a history variable of `Control`: whether the code is right does not depend on it, as it is only
advanced by what the code does, and a step of the code that `Structured` does not allow is a violation.

**Arith** generates the code of expressions, assignments, returns and calls. **Fold** is the optimizer, one visited
code per step, followed by a run of the code as it was and as it is side by side. A value is the place it was
computed at, so two runs agree on an operand only if they read what the same code has computed. What `Fold` relies on
of the codes it is given is `MethodsAssumption`: the form of each code (`WellFormed`) and how expressions use
temporaries (`Local`). TLC evaluates it on every method that `Arith` makes for the run.

**MirTypes** keeps the tables of `mir.cpp`: `varInfo`, `methodInfo` and `lastCalled`
(`lastCalledMethodIdentity`), and the generator's recursion over the tree: `open` is the stack of calls under way and
`value` the operand the last one has handed up. Going down is one action per function that looks at names or takes a
temporary; going up, `Mir2` and `Mir3` are `fixMir2Type` and `fixMir3Type` with the `addVarInfo` behind them. Entries
that a lookup can never find, because one of the same name is in front of them, are left out of the tables. Where the
code reads a null pointer the phase becomes "crash", where it calls `exit` "exit". The trees are those the parser lets
through: it knows a variable from its definition or its parameter on, which `known` records, in the expression that
defines it already.

**Language** has the rules of the tree (`ast.h`) with the tokens between its parts; **Grammar** derives a text, one
step after the other. **Parser** is `travelAst` over the texts: an author derives the text two tokens ahead of the
parser, which sees only the tokens (`Current`, `Second`) and keeps its open calls in `todo`, its scopes in `varStack`
and `methodList`. The plan holds the author's steps the parser has still to find out, its tokens among them (`Tokens`).
What the parser builds is a derivation of its own; `FollowsAuthor` compares it with the author's, `Parses` with the
grammar. `;`, `,`, `{` and `}` have names, since the provers' input takes no string that holds them.

**Spaces** says what memory spaces promise. **Mspace** has the lists of nodes, freed nodes included, as `mspace.cpp`
makes them, an allocator that may return any free address, and one action per phase and kind of use: what is allocated
where, kept for a later phase, or returned, with `pccFree`, `pccFreeSpace` or past the spaces with `free`. `defined`
becomes false when a freed node is touched or a free address is freed.

**MC...** modules give the constants of the configurations.

## Runs

| Run | Properties | Shows |
|---|---|---|
| `regcache_plain` | `OperandsFresh` | with literals up to 127, zeroed memory, and without `if`, spills, `a / f()` and code behind a `return`, every operand an instruction reads has the value meant, over calls, loops and methods |
| `regcache_all` | `TypeOK`, `UniqueNames`, `CoherentRegs` | with `if`, spills, `a / f()`, code behind a `return` and wide literals, no variable is in two registers, and a named register agrees with its slot unless the code that named it was jumped over |
| `regcache_if` | `OperandsFresh` violated | the cache is not forgotten at the join of an `if` |
| `frame_layout` | `TypeOK`, `OwnSlotsApart`, `AccessInSlot`, `SlotsStay` | the slots a method makes fit and do not overlap; no access that is let through leaves its slot; a variable keeps its slot |
| `frame_reuse` | `SlotsApart` violated | a local variable of a name an earlier method used gets the earlier method's slot |
| `frame_sp` | `StackBalanced` violated | `SUB SP` is not emitted, `ADD SP` is |
| `control` | `TypeOK`, `BranchesUnambiguous`, `LoopsByTheirFlags`, `Implements` | the code evaluates and acts in the order of the source and does not get stuck or circle; labels are unique over methods; loops are entered and left only through the flags at which the cache is emptied |
| `fold` | `TypeOK`, `SimpleMethodsKeepMeaning` | the optimizer keeps the meaning of simple methods |
| `types` | `TypeOK`, `ResultOfItsOwnCall`, `CrashesOnlyOn`, `ParamsKeepTypes`, `TypesStay` | a result gets the type of its own method, parameters and variables keep their types to the end of the method and no longer, and the generator reads a null pointer for four kinds of programs only |
| `image` | `ImageTypeOK`, `BranchesLand`, `AddressesLand`, `ElfHeadersTrue`, `Loadable`, `DataWhereCodeLooks` | in every file a branch reaches the first label of its name or is the word 0; an ADRP/ADD pair computes the address of its data, and in an ELF file the loader puts the data there; the ELF headers are true of files with data; every file enters at its first instruction |
| `parser` | `TypeOK`, `FollowsAuthor`, `Parses` | the parser builds the tree a text was derived from, rejects exactly the unknown names, and comes to the end of every text |
| `spaces` | `TypeOK`, `NothingUndefined`, `KeptAlive`, `KeepsSpaces` | no freed node is walked and no address freed twice; what a phase reads is alive; the lists implement the abstract spaces |

`LoopsByTheirFlags` is what lets `RegCache` treat a loop as it does: its actions `BeginLoop` and `EndLoop` are the
only ways in and out because no branch crosses a flag.

The three violations are the program's own faults, quoted against the code's comments and documentation under
`findings`. Others that were met while modelling are hazards with a note: literals over 127, of which the generator
makes another value (`a * 40000` multiplies by 0); `a / f()`, which loads `a` over the result of
the call; a copied variable that changes before its copy is used, and an `else` that reads what the other branch has assigned,
both of which the optimizer overlooks (`SameOperands` in `Fold` is false in general, `SimpleMethodsKeepMeaning` says
when it holds; the `else` came to light when the proof failed for it); headers of ELF files without data and the
command sizes of Mach-O files (`HeadersTrue` in `Image` is false in general); a `return` that does not branch to the
end of its method; the use of X30 as a scratch register before it is saved. `CrashesOnlyOn` names the programs on which
MIR generation crashes: a method call with a call among its arguments, the result of a void method, a void parameter,
and a variable in its own first value. The first two are only ever the type of a result, the others of a variable.

### Bounds

* `RegCache_plain`: one user variable, two temporaries, two values, one literal, three registers, two arguments, one
  open statement. A stale value needs one variable and two values; spilling needs as many registers as names in use,
  and is left out in this run. `RegCache_all` has two registers for two variables and the names the generator gives to
  operands, so spills happen all the time, a short literal and a wide one. The literals mean values other than 0, so
  that a wide one that becomes 0 is another value. The number of codes of a method is not bounded.
* `Frame`: three names, variables of 1 and 8 bytes (rounded to slots of 4 and 8 by `alignBlockSize`), one parameter (two in the violations), two methods: two suffice for a method
  to find what an earlier one has left. The number of codes is not bounded.
* `Image`: four instructions, two labels of one name (a name defined twice is the interesting case; another name is
  one that is never defined), two data elements of one or five bytes, each platform and one that is not there. Scaled
  down are the reach of the branches (one instruction for B.cc, two for B and BL), the page (8 bytes) and the header
  structures, so that branches out of reach and data on other pages occur among four instructions, and every padding
  is a real one. The assumptions on the sizes are those the real sizes satisfy.
* `Control`: some 1200 programs. The outer condition takes every form of up to two `&&` operands, each with or without
  `!`, alone or with a second `||` operand of one or of two, and longer chains and repeated `!`; it stands in an `if`, an `if` with `else`,
  a `while` or a `for`, around another such statement with a condition of three forms. A second method with a loop
  of its own is compiled first. The theorems are for any number of methods, any conditions and any nesting.
* `Fold`: some 1700 methods of two to four statements over three variables, in a row, with an `if`, an `if` with `else`
  or a `while`. The theorems are for methods of any length and nesting.
* `MirTypes`: one variable, two methods, one primitive type beside void, its pointer and the type of an address. Two
  methods differ in type when one is void; four temporaries are two expressions, one inside the argument of a call in
  the other, with a call in it again. The number of methods, statements and prototypes is not bounded. A second type
  makes the run many times longer and adds no case: types are compared only in `Larger`, whose result is in no table.
  The theorems are for any names, types and depth.
* `Parser`: two variables, a method with the name of one of them, at most eight parts left to derive when a compound
  part is begun: an `if` in an `if` with both `else`, a call in the argument of a call, a condition in a `for`. The
  length of a text is not bounded.
* `Mspace`: three interchangeable addresses for all spaces together, so that an address is reused by another space
  while pointers to it remain, and at most four nodes in a list.

Symmetry is used where names or addresses are only compared with each other, and only with safety properties
(`Mspace`'s refinement and `TypesStay` are such: neither specification states fairness).

Deadlock checking is off where the modelled program ends: `Frame` and `Image` after the last method or with
`exit(-1)`, `Control` and `Fold` when the method has returned, `Parser` at the end of the text or at a name that is
rejected, `MirTypes` at a crash, an exit or its bounds, `Mspace` when main has returned or no address is left, and
`RegCache` without spills, where a method that has used every register may have no further code to generate. With
every feature (`regcache_all`) `RegCache` never ends and deadlock is checked.

### Fairness

`Control`: weak fairness of its next step, the processor executes the next instruction. `Structured` asks the same of
the source. So `Implements` includes that the code does not stop, or circle between labels, while the source has
something to do. Loops whose conditions always hold do not end in either.

`Parser`: weak fairness of its next step: the parser is one thread that waits for nothing, and its text is complete
before it begins, so the author's two tokens are there. `Grammar` asks for progress of the derivation. So `Parses`
includes that `travelAst` neither stops before the end nor recurses for ever on the same token.

The other phases are straight walks over finite lists and need no fairness for what is checked here.

## Proofs

All theorems are checked by TLAPS for every value of the constants that satisfies the assumptions in the module that
declares them (`CacheAssumption` and `DisjointAssumption`, `FrameAssumption`, `RelocAssumption`, `ImageAssumption`,
`MspaceAssumption`, `TypesAssumption`, `MethodsAssumption`, `ProgramsAssumption`).

* **NamesSafe**, **CacheSafe** (`RegCacheProofs`): `Spec => []UniqueNames` for every number of registers and every
  class of methods, and `Spec => []CoherentRegs` for those without `dirtyMemory` or without a literal over 127. The
  condition is what `movInteger` needs to write the register it is given (`MovesReach`): with both, TLC finds
  `CoherentRegs` violated by a literal that has become -1 and is moved over what X0 caches. The two invariants alone are not inductive: a load puts a name on a register, which keeps names
  unique only since the lookup has failed before, and keeps coherence only since the register was freed of its name.
  The invariant adds what the cache and the machine are made of (`CacheOK`); the proof has one lemma per operation on
  the cache (allocation, load, store, call, clear) and one step per MIR code, so each code is a composition of lemmas.
* **OperandsSafe** (`RegCacheProofs`): `Spec => []OperandsFresh` when `Features = {}` and `Int16` and `Int32` are
  empty: methods whose literals are at most 127, without `if`, without a
  `return` inside a loop or before other code, without spills, without a call on the right of a division, at `-O0` and
  in zeroed memory. Variables, values, registers, the nesting of loops and the sequence of calls and
  methods are arbitrary. A coherent cache is not enough: the register must also be the right one, and named by code
  that was executed. `PlainInv` adds that names of variables are below `usedRegs`, so that the next register holds no
  operand still to be used (`Counted`); that jumped-over code is a loop's body, behind which the cache is empty
  (`OnlyLoops`, `BranchBare`); that what such code has named are temporaries nothing reads any more (`StaleTemps`,
  `StaleHidden`); and that while a call's result or a returned value is waited for it is in X0 (`ResultHeld`,
  `ReturnHeld`). The arguments of a call are passed one register after the other, by counting (`UpTo`). The class
  cannot be made larger: with any single feature added, or a literal in `Int16` or `Int32`, TLC finds `OperandsFresh`
  violated, as `regcache_if` shows for `if`.
* **FrameSafe**, **AccessSafe**, **SlotsStaySafe** (`FrameProofs`): `OwnSlotsApart /\ AccessInSlot` always, and `SlotsStay`. The
  invariant `FrameInv` divides a frame into cells of eight bytes: each slot lies in a cell of its own (`Cells`), the
  next slot is taken from the top of those left (`Cursor`), and there are as many cells left as variables that still
  have none (`Room`) - the count made before the body is what makes the last part true. `Found` says that the newest
  slot of a name the method has stored is one of its own, which is why a name keeps its slot.
* **BranchesSafe** (`ImageProofs`): `Spec => []BranchesLand`. Every node's index is its place in the list and a
  label's place is the number of instructions before it (`Placed`), so the difference that relocation takes is the
  distance; the lemma `WrapSigned` shows that a distance within reach survives its two's complement field.
* **AddressesSafe** (`ImageProofs`): `Spec => []AddressesLand`. The invariant adds to that of the branches that each
  element's offset is the sum of the sizes before it (`Offsets`) and that an ADRP has the place of its ADD behind it
  (`Reserved`). A page and a place in it that relocation computes add up to the address (`PageAndPlace`), and
  copying the elements end to end puts each one at its offset (`CopiedWhereSaid`). The last is an induction over the
  elements, which the prover has no rule for; the lemma `UpTo` does it by counting: were there elements up to `b` that
  are not where they should be, each would have one before it, and subtracting 1 would map a finite set into a
  smaller one and still be injective.
* **ImageImplementsReloc**, **ImageBranchesSafe**, **ImageAddressesSafe** (`ImageProofs`): every run of a generator of
  object files is a run of `Reloc`, so branches and addresses land in every file. The one step that is not immediate is relocation: `generateElfArm64`
  computes the distance from the text to the data from two places in the file, and `Reloc` from the text alone. They
  agree because the headers fill exactly one page (`EntryPage`), which `ImageAssumption` says of their sizes.
* **HeadersSafe**, **LoadableSafe**, **DataSafe** (`ImageProofs`): `ElfHeadersTrue`, `Loadable` and
  `DataWhereCodeLooks`, for every size of the structures, every page and every length of text and data. What a list of
  writes leaves in the file is a recursive function of the list; `WrittenIs` shows, again with `UpTo`, that it has one
  solution, and `ElfFile`, `PeFile` and `MachFile` are its solutions for the three generators. `ImageInv` says that a
  finished file is one of them (`Complete`) and that data elements were placed from the page behind the text on. A
  claim of a header is then true because its parts follow each other without a gap and are all there are in that
  stretch (`Covers`); the segments stay apart because aligning gives the first multiple of a page that is not below
  the end (`AlignRounds`). `DataSafe` puts this together with `AddressesLand`.
* **SpacesImplemented**, **NothingUndefinedSafe**, **KeptAliveSafe**, **MemoryTypes** (`MspaceProofs`). The invariant
  has two parts. `Memory`: a space that main releases as a whole lists exactly its blocks, each once, and none of its
  nodes is freed. It stays so although `pccFree` leaves the head on a first node it frees, because of `Uses`: the first
  node of such a list is one its readers keep and never return. What is returned past its space belongs to the spaces
  that are never released.
* **TypesSafe**, **CrashesSafe**, **ParamsSafe**, **TypesStaySafe** (`MirTypesProofs`): `ResultOfItsOwnCall /\ CrashesOnlyOn /\ ParamsKeepTypes` always,
  and `TypesStay`. The invariant has four parts beside these: `Tables` (no entry is void, typed methods have one),
  `Shape` (what may be open in what: a call that is not a statement is in an item), `Entries` (what the open calls
  will look up has an entry or an excuse) and, the heart of it, `Results`: while the arguments of the innermost call
  are generated, `lastCalledMethodIdentity` is that method or null, and still is the method if no call was among the
  arguments. Since a call in the arguments has always been typed by the item around it before the outer call ends,
  only null can be left behind, never another method's name.
* **MeaningKept** (`FoldProofs`): `Spec => []SimpleMethodsKeepMeaning`, from `MethodsAssumption`. While `optimize` works,
  each operand is either as it was or the source of the one assignment that reaches it, which was itself rewritten
  before (`Settled`), so what stands in a code has been read there, or in an assignment ahead of it (`Origin`); in a
  simple method nothing behind that place writes it (`Stable`). While the two runs go on, what an assignment copied is
  therefore still worth what its variable holds in the run as it was, in every code that is entered by way of the
  assignment (`VarHeld`; for temporaries `TempHeld`, up to the operation that makes a new value), whether the
  assignment was removed or not. A code that reads the variable is one of these, so it reads the same (`SameRead`).
* **AuthorFollowed**, **Derives** (`ParserProofs`): `Spec => FollowsAuthor`, and every step of the parser is one of
  `Grammar` on its text, or leaves it alone; for all names and texts of any length, without an assumption on the
  constants. The invariant `ParserInv` says that the plan leads from the parser's text to the author's
  (`Derivation`), that the parser's goals are the symbols of its text, those it takes for granted apart (`Matches`), that
  its scopes have the names the text knows (`Scoped`), and that in every form on the way each symbol is one that
  may stand behind the one before it (`Formed`, by the tables `Follow` and `Starts`, the latter for the tokens a form
  may go on with). These tables are found by no recursion:
  the proof states them and shows that every rule keeps to them (`RulesFit`). What the rules keep holds along the whole
  plan, so it holds where the next token is said; that token and the one behind it then leave one rule in each table
  entry, and the parser takes the same (`NodeSeen`). At most two tokens are ahead, and each step of the parser needs
  no more. What was decided since the last token (`settled`) is what makes the `else` and the expression statement unambiguous.
* **Refines**, **Unambiguous**, **Flags** (`ControlProofs`): `Spec => Abs!Init /\ [][Abs!Next]_(Abs!vars)`, the
  safety part of `Implements`; `BranchesUnambiguous`; and `LoopsByTheirFlags`. For programs of any number of methods
  with conditions, `if`s and loops of any length and depth; `ProgramsAssumption` only says that they are made of the
  statements of `ast.h`. Neither an induction over the syntax nor one over the generator's recursion is possible in
  the prover, and none is needed, since the generator makes one call per step: the invariant `Inv` gives to every
  place of the code, finished or not, the list of what the source has still to do there, and to every label the
  list where it is placed. Each code leads from its list to the next one or to those of its labels, and each call
  still to be made promises to (`Ok`, `Meant`). One lemma per function of the generator shows that what a call emits
  keeps its promise, with lists for the new places and labels (`KeptFactor` to `KeptMethod`); `StaysMeant` puts
  that into the code around it. For a loop the list in front of the condition is the loop and what follows it, which
  `Unfold` turns into an `if` (`UnrollWhile`, `UnrollFor`; `UnrollForever` for a missing condition). Lists count as the
  same when they unfold to the same (`Same`): a label may stand at a place that is reached in two ways. When the code
  is complete, each step of the processor does what the list of its place begins with, so it is a step of the source
  (`InvStep`). That a label is placed once follows because the call that allocates a label also places it (`NewLabels`,
  `StaysOnce`). For the loops `Inv` has a depth for each place, which adds up along the code; a branch and its label
  are equally deep with nothing less deep between them (`Together`), and filling in a call keeps this, as what it
  emits is nowhere less deep than the call and as deep at both ends (`Balanced`, `StaysLoopy`). Counting the flags from
  any place on then gives the same loops around both ends (`Counted`, `LevelAround`).
* **TypeCorrect** (`RegCacheProofs`, `FrameProofs`, `MirTypesProofs`, `ImageProofs`, `FoldProofs`, `ParserProofs`, `ControlProofs`), **ImageTypeCorrect**. Types are
  not obvious where an index or a count must stay in its range. The label a jump waits for belongs to an open block
  and is still ahead (`Path`); a method has no more variables to store than were counted before its body, and memory
  for each (`Counts`); the tables name no temporary that has not been allocated (`Kept`); relocation makes a natural
  number of every ADD's offset because the ADD's place follows that of its ADRP (`Led`); control stays in the code of
  `Control` because that ends in a return (`Ends`) and every label it branches to is placed.

Only model-checked, since liveness is out of the prover's reach: that the code of `Control` does not stop or circle
while the source has something to do (the fairness in `Implements`), and that `Parser` comes to the end of every text
(the fairness in `Parses`). Their safety parts, and every other property of the passing runs, are theorems.

## Not modelled

* The texts themselves: the preprocessor copies lines and the lexer cuts them into tokens, without state across
  calls. `Mspace` has the memory they use. The preprocessor's endless recursion over files that include each other is
  a hazard with a note.
* Texts on which the parser exits, crashes or stands still: a bracket behind an identifier, a `;` behind a call, which
  the tree does not have and the statement behind it takes (see hazards). `Language` has the texts of the tree. `goto`
  and `do`: the documentation plans them, the parser does not know them.
* A `for` without its first or last expression: MIR generation crashes on it (see hazards); `Control` takes programs
  that have both.
* Encodings of instructions that hold no address, and the text of names: no property here depends on them. `INST_ADR`:
  no caller emits it.
* The bytes of array data in `MirTypes` (its type is there), pointers and arrays in `Arith` and `Fold`, pointers and
  widths in `RegCache`. That a narrower store leaves the upper half of a slot as it was is a hazard with a note:
  `CoherentRegs` and `OperandsFresh` speak of methods whose accesses are as wide as their slots. Hosts on which `char`
  is unsigned differ in literals from 128 to 255 only.
* Nested activations (`Calls` in the plan): `Frame` compiles methods, it does not run them.
* `return` other than at the end in `Control`: `RegCache` has it (`earlyReturn`).
* The data sections of PE and Mach-O files, which the code never writes, and the `LC_SYMTAB` that no caller makes.
* The logger and the system call stubs: fixed output and fixed sequences.
