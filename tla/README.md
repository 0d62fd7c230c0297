# The L2 compiler and runtime in TLA+

This directory holds TLA+ models of the L2 compiler, its lexer
(`src/frontend/lexer.cpp`), parser (`src/frontend/parser.cpp`), printer of trees
(`src/frontend/print_visitor.h`) and code generator (`src/backend`), of the code
it generates, and of the runtime that is linked to it (`src/bootstrap.cpp`,
`src/gc.cpp`), with the properties that TLC checks on small instances and those
that TLAPS proves for all.

L2 has integers and heap-allocated structs, functions, branches and loops. A
program is compiled to 32-bit x86 assembly; `new` calls `allocate()` in the
bootstrap, which asks a semispace collector for memory.

## 1. Inventory

| Component | State it keeps | Operations | Correct when |
|---|---|---|---|
| Lexer (`frontend/lexer.cpp`, `token.cpp`) | two automata; position in the text, the states an automaton is in, where it last accepted | building the automata, `munch`, `tokenize` | longest match, keywords before identifiers, comments skipped, error where no token fits |
| Parser (`frontend/parser.cpp`) | token vector, `head` | `parse`, one method per production | accepts the grammar, builds the tree the grammar gives, never reads past the tokens |
| Abstract syntax (`frontend/ast.h`) | the tree | constructors, accessors, `Visit` | a tree is what the productions allow |
| Code generator (`backend/codegen.cpp`, `.h`) | instruction list, `SymbolTable` (types, functions, a chain of contexts), temporary and label counters, `inLhsOfAssignment`, `inTopLevelScope` | `generateCode`, one visitor per node | the offsets of the symbol table agree with ESP; the code means what the tree means; exactly the ill-formed programs are refused |
| Generated program | registers, stack, heap words | the instructions emitted | it prints the value of the source program; stays in its own memory; describes its roots truthfully |
| Bootstrap (`bootstrap.cpp`) | the collector `gc` | `main`, `allocate` | hands the L2 frame, not its own, to the collector |
| Collector (`gc.cpp`) | `heapbase`, `heapcur`, `from`, `totalheapwords`, `scan`, `base` | constructor, `Alloc`, `checkspace`, `collect`, `copy`, `reset` | objects are disjoint and inside the heap; `Alloc` returns words or throws; live data survives |
| Printers (`print_visitor.h`, `gen_tree_visitor.h`) | an output string | one visitor per node | trees that differ print differently: the parser's tests compare nothing else |
| Driver (`main.cpp`) | none beyond the command line | read, compile, assemble, link | I/O in sequence |

**Interaction.** The driver calls lexer, parser and generator in turn, each on the
whole result of the one before. The generated `Entry` is called by the
bootstrap's `main`; it calls `allocate` with the number of words pushed;
`allocate` reads the caller's EBP and passes it to `Alloc`. The contract between
generator and collector lies in memory: two words of root information below the
saved EBP in each frame, a header word before each object.

**Concurrency and failure.** All of it is one sequential thread: no
interleavings, no messages, no persistence. What is hard here is different:

* two views of one thing kept by hand in step: `nextOffset` in the symbol table
  and ESP in the emitted code; `from` in words and `heapcur` scaled by the
  pointer type; the root information, written by position, and the slots, given
  out by name;
* pairs of operations spread over functions: `openScope`/`closeScope`, the
  temporaries' constructor and destructor, flags raised and lowered around a
  visit that may throw;
* a loop that ends only by meeting one address exactly;
* automata that read on after they have accepted, so that their caller has to go
  back to the right place, and that share states between copies of a part;
* stale data: words of the stack never written, registers a call may clobber,
  arguments pushed and then overwritten.

`PROJECT.json` lists the hazards at their lines with the properties that watch them.

## 2. Modules

| Module | Models | Role |
|---|---|---|
| `FrameLayout` | `SymbolTable`, `TmpVar` and the ESP arithmetic of every visitor, the syntax tree left open | abstract specification of a frame |
| `FrameLayoutProofs` | | TLAPS proofs of its invariants |
| `MCFrameLayout` | | TLC instance, names symmetric |
| `L2Ast` | the node classes of `ast.h` | constructors |
| `L2Grammar` | the class hierarchy of `ast.h` | the trees of each kind; what it means that sets of trees are closed under the constructors (`Closed`) and hold nothing else (`Made`) |
| `ProofBasics` | | lemmas on sequences and induction that the proofs below share; the set of all trees, `AllTrees` |
| `L2Semantics` | what a tree means, and when it is well formed | reference definition, recursive |
| `L2Programs` | families of programs, `tests/*.l2` among them | inputs |
| `CodeGen` | `codegen.cpp`: every visitor, with the instructions it emits | detailed specification |
| `CodeGenProofs` | | TLAPS: what the visitor may rely on, for every program |
| `CodeGenLayout` | | the refinement mapping from `CodeGen` to `FrameLayout` |
| `CodeGenLayoutProofs` | | TLAPS: `CodeGen` implements `FrameLayout`, and its root information tells the truth, for every program |
| `CodeGenLabelProofs` | | TLAPS: the code for every program can be assembled |
| `MCCodeGenLayout` | | TLC instance, and acceptance against `L2Semantics` |
| `L2Machine` | the emitted instructions executed, `main()` and `allocate()` around them | `CodeGen` composed with a machine |
| `MCL2Machine` | | TLC instance |
| `SemiSpace` | `gc.cpp` as called by `allocate()` | the collector |
| `SemiSpaceProofs` | | TLAPS proofs of its invariants |
| `Collector` | the generated code on a collector that moves objects, which is not `gc.cpp` | `L2Machine` composed with the collector that the repository's README asks for |
| `MCCollector` | | TLC instance |
| `L2Tokens` | `token.h`, `token.cpp` | tokens |
| `NFA`, `NFAInfo` | the automata of `lexer.cpp` and how they are put together | recursive functions, no state |
| `Lexer` | `munch()` and `tokenize()` | the lexer, for any automata |
| `LexerProofs` | | TLAPS: its invariants, and that it finds the longest matches of any automata |
| `MCLexer` | | TLC instance, and the lexer against a definition of tokens without automata |
| `Parser` | `parser.cpp` | the recursive descent |
| `L2Syntax` | the concrete syntax of L2: which parts of a sequence of tokens spell which trees | reference definition, without recursion and without state |
| `ParserProofs` | | TLAPS: what the parser builds, for every sequence of tokens, and that it is what `L2Syntax` says |
| `L2Text` | the tokens of a syntax tree | reference definition, recursive |
| `Printer` | `AstNode::toString()`: `print_visitor.h` and the dispatch in `ast.cpp` | recursive operator, no state |
| `MCParser` | | TLC instance; the parser against `L2Text`, and what its tests can tell apart by `Printer` |

Mutants of a definition (names such as `AllocateVarInPlace`) stand before it;
they are not part of any specification, and serve to show that each property
notices a plausible mistake.

### FrameLayout

A behaviour is the generation of one program, any nesting of blocks,
temporaries, allocations and calls that the syntax allows. `ctx` is the chain of
`Context`s, outermost first: a scope's `vars` and `next` are `varInfo` and
`nextOffset`; `kind`, `args` and `arity` are bookkeeping of the model (which
construct opened the scope, which arguments of a call have been pushed).
`depth` is EBP − ESP after the instructions emitted so far, which the C++ code
never holds anywhere: keeping it is the point of the module. `leaked` counts the
bytes that nothing gives back. Actions correspond to visitors split where the
visitor visits something else:

| Actions | Code |
|---|---|
| `DefineFunction`, `FinishFunction` | `VisitFunctionDefExpr` before and after the body |
| `StartEntry`, `FinishEntry` | `VisitProgramExpr` from the label `Entry` |
| `EnterBody`, `EnterBlock`, `LeaveBlock` | `VisitBlockStmt`, at top level and not |
| `FreshTmp`, `FreeTmp` | `freshTmp`, `~TmpVar` |
| `VisitNew` | `VisitNewExpr` |
| `BeginCall`, `PushArg`, `FinishCall` | `VisitFunctionCallExpr` before, between and after its arguments |
| `RejectName`, `RejectDefinition` | the places that throw `CodeGenError` |

### CodeGen

The recursion of the visitor is the stack `todo` of what remains to be visited
or emitted. A step visits one node, up to the first child; the code between and
after children are tasks of their own, and so are the turns of the loop over the
arguments of a call (`VisitCall`, `NextArgument`, `PushArg`, `DoCall`). `insns` are the instructions, operands as
records; comments and assembler directives are left out. `tables`, `ctx`,
`names`, `inLhs`, `inTop` are the members of `CodeGen` and `SymbolTable`. An
error, wherever it is thrown, unwinds: destructors of temporaries run,
`inLhs` stays as it is. `GenerateCode` is the call of `generateCode()` on a new
object, with any program of `Programs`: `main.cpp:66` makes one `CodeGen` and
calls it once. An access path takes a step for its root (`VisitAccessPath`), one
for each field, which may be the one that throws (`FollowField`), and one for
the load at the end, if the path is not assigned to (`LoadPath`).

Two history variables record what the C++ code keeps nowhere: `depth`, EBP − ESP
after the instructions emitted, computed from the instructions alone
(`DepthAfter`); and `frame`, the definition that is being generated, the names of
its parameters, and how many functions have been begun. No guard reads them. A
label is its text and its number: identifiers are alphanumeric, so that a
numbered label, which has `_` before its number, is never the name of a function.

`CodeGenLayout` gives the refinement mapping: contexts to contexts, all
temporaries to one name, the definition in progress read off `frame`, the bytes
leaked as what `depth` exceeds the symbol table's offset by.

Root information and headers are words of 32 bits (`WordOf`), printed as signed
numbers, as the code does. Where `codegen.cpp:497-513` shifts a 1 by 32 or more,
from the 33rd declaration on, C++ leaves the result open; the model takes the
place modulo 32 as x86 does, and `RootInfoMatches` claims nothing of a list that long.

### L2Machine

Once a program is compiled, `Start` is `main()` calling `Entry`, and every
instruction is a step. Memory is a function from the addresses written so far; a
word never written, or below ESP after C++ code ran, reads as `Junk`.
`CallAllocate` is `allocate()` with `Alloc()` where no collection is needed (the
heap of the runs is large enough; `ResultCorrect` would be undefined past a
collection, which by `SemiSpace_AllocAnswers` does not come back). Values do not
wrap at 32 bits: the programs keep to small ones.

### Collector

`gc.cpp` holds a collector that is not finished: it moves nothing and its walk
does not end. That is what `SemiSpace` models, and its violation runs show where it
departs from the repository's README. What the generator does for a collector, the
root information, the header words, the zeroes in locals and fields, can
therefore not be judged by it. `Collector` puts another in its place, the one
`README.md` describes: two halves,
the reachable objects copied behind each other when an object does not fit, every root and
pointer field rewritten, `OutOfMemoryError` if there is still no room. Its actions
`Allocate` and `Collect` translate no line of `gc.cpp` and are marked external; a
property of this module says something of the emitted code only. Nor are the tables of collections
at the heads of `tests/*.l2` checked here: they can be met only by a collector that is
finished, and reported only by one that counts what it keeps.

The collector knows
of the program only what the generated code leaves in memory: the chain of
saved EBPs, the two words of root information, the headers. Everything else
(`Instruction`, the compilation before it) is that of `L2Machine`, whose
`CallAllocate` is the only action replaced.

`S!PointerInFlight` (in `L2Semantics`) is a program that holds a pointer in
a temporary, or in a pushed argument, while a later operand may allocate. No word
of root information describes these slots; for such programs the results are not
claimed. The exception is needed: without it `CollectedResult` is violated by
`HeldPointer` of `MCCollector`, and by no other program of the run.

### Lexer

A state is a set of states of one automaton, as in `munch()`, and each character
is a step (`Advance`). `munching` tells which automaton runs, in the call of
`munch` by `skipWhitespace` or by the loop of `tokenize`; when it can go no
further, `SkipWhitespace`, `TakeToken`, `NumberTooLarge` or `InvalidLexeme` is what
`tokenize` does with its answer. `spans` records where each token lies. The
automata are built from the parts of `lexer.cpp` by operators for its operators,
numbered as `genState` does, maps merged as `std::map::insert` does (an entry
that is there stays), since `+a` uses the states of `a` twice.

The comment at `lexer.cpp:434` announces "a set containing all characters but
null or newline", but `lexer.cpp:436` adds the tab to another set: a tab, a
carriage return or a character above 127 in a comment, like a comment that the end
of the file ends, is an invalid lexeme. The reference of `MCLexer` takes the comment's
word for it: a comment holds anything up to its newline. `EndsAsItShould` says where the
code departs from it: texts whose comments hold only characters of `nonLine` (which has all
of the code's but two: 127, and one that no module can quote) end as the reference says, and a text with
any other comment never ends with tokens.

### Parser

The activations of the parse methods are the stack `todo` of what remains to be
done: parse a nonterminal, match a token (and keep it), build a node. What the
methods return lies on the stack `values`. `head` is `Parser::head` + 1. Methods
that differ only in the tokens they look for share an action, told apart by the
nonterminal: `ParseChain` and `ParseRest` are the pairs `parseArithmeticExpr` and
`parseAExpPrime`, `parseATerm` and `parseATermPrime`, `parseRexp` and
`parseRexpPrime2`, and where they differ, in how a rest is joined to the operand before it,
`LinkNode` tells them apart; `GoOn` and `EndList` are the six `while` loops. The C++ copy
of a token behind the end of the vector is undefined: `LookPastEnd` lets it fail
or yield a token of any type.

A chain of operators groups from the right, for `-` as for `+`: `9 - 2 - 3`
parses as 9 - (2 - 3), which is 10. Nothing in the repository says otherwise,
so `L2Text` takes the right for the reference and asks for parentheses on the
left.

Two things the parser does not do as the repository says:

* `parseRexpPrime2` joins the rest of a chain by its own operator and never looks at the
  one the rest came with (`r.second`), as `parseAExpPrime` does: `a && b || c` becomes
  `a && (b && c)`, and `a || b && c` becomes `a || (b || c)`. `KeepsConnectives` shows it.
  `KeepsTokens` compares the connectives only of texts with one kind of them, and
  `L2Text` writes brackets around a chain of the other connective, so that `RoundTrip` is not
  about such chains.
* The loop of `parseFunArgs` goes on at a number, a name or an operator, so that an
  argument that begins with a parenthesis, `nil` or `new` is refused: `f(nil)`,
  `f((1 + 2) * 3)`. `RoundTrip` says so: a program's text ends in an error if it has such
  an argument (`RefusedArgument`), and gives the program back if it has none. `NoFalseAlarm` leaves
  these programs out, and no others.

### Printer

`Print…` operators are the visitors' formats, `toString` the dispatch. `Shown` is
the tree less what its printed form does not show: the type definitions, which
`VisitProgramExpr` does not visit, and where one argument of a call ends and the
next begins, since nothing is printed between them (`f(1, 2)` and `f(12)` are
both `f(12)`). The test of type definitions in `parser_test.cpp` would not notice
if the parser dropped them; `RoundTrip` does.

### SemiSpace

The L2 program is reduced to what it can do to the runtime: call and return
(moving the frame pointer) and request words. Addresses count words, since the
code does arithmetic on `intptr_t*`. What the walk finds below the stack is
unknown: whether `copy` takes four words or none is a choice at each frame, and
what it overwrites there is not modelled.

Three readings of the source are needed, because the file does not compile
as it stands: `gc.h` uses `std::runtime_error` without its header; `gc.cpp:37`
passes an `intptr_t` where a pointer is expected, and is read as if converted;
no value is returned to the walk from `copy`, and none is used.

The bootstrap calls `Alloc()` from L2 functions only. A collection then never ends, so that
`OutOfMemoryError` is never thrown. The interface also allows a request from frame
`base`, outside any function, where the walk ends at once. The constant
`OutsideCalls` says whether there are such requests: they are in the run that must
pass, whose properties hold with them too, and not in those that must find a violation, which speak of
L2 programs.

## 3. Checks

Runs that must pass:

| Run | Shows | Bounds |
|---|---|---|
| `FrameLayout` | `Accounting`, `SlotsDisjoint`, `SlotsInFrame`, `CallsSafeWithoutNew`, `OwnParams`, `LocalsGone`, `TypeOK` | 2 names (symmetric), lists of parameters and declarations of up to 2 (`NameLists`), 2 functions (`DefCounts`), 6 nested scopes (`Nestings`), 2 arguments (`ArgCounts`), 1 allocation in a frame (`Leaks`): two variables in two of every kind of scope, a call inside an argument of a call, a temporary above pushed arguments. The proofs cover the rest |
| `CodeGenLayout` | `FollowsLayout` (the refinement), `JumpsResolved`, `RootInfoMatches`, `RejectsOnlyIllFormed`, `AcceptsNothingElse`, `TypeOK` | about 150 programs, one of them with 32 parameters and 32 locals, so that each bit of the two words of root information is used; the bounds of the abstract side are what they need and more. The families cross every operator with nested operands, every statement with every other, one error of each kind |
| `L2Machine` | `ResultCorrect`, `StoresInPlace`, `RootsSound`, `Terminates`, `MachineTypeOK` | the executable programs among them; 8 nested calls in `RootsSound`, more than the deepest recursion |
| `Collector` | `CollectedResult`, `CollectedStores`, `CollectorTerminates`, `CollectorTypeOK` | the programs of `tests/*.l2` with heaps of the sizes they name and others; a recursion, a shared and cyclic structure, a frame of 32 locals with objects of 23 fields (where root information and header reach their last bit), each with heaps from one that cannot hold its live objects to one never collected |
| `SemiSpace` | `ObjectsDisjoint`, `CountsWords`, `TypeOK` | heaps of 2, 8, 12 words, requests of 0, 1, 3, from L2 functions and from outside: some that never fit, some that would fill the heap exactly and are not granted, heaps filled in several orders; 3 nested calls, 3 blocks of `malloc` (two collections) |
| `Parser` | `RoundTrip`, `KeepsTokens`, `NoFalseAlarm`, `PrintsApart`, `Terminates`, `TypeOK` | the programs of `CodeGenLayout`, so that each tree the generator is run on is one the parser builds, and two samples that between them use every rule; a call with each form of argument, alone, first and second; every chain of four comparisons, written without brackets; each prefix of a sample's text, each text with one token lost, and with one replaced by a token of each kind |
| `Lexer` | `MaximalMunch`, `TokensOfTheirText`, `OnlyBlanksBetween`, `EndsAsItShould`, `SpansInOrder`, `Terminates`, `TypeOK` | every text of up to 3 characters of 8 kinds, up to 5 of those of comments, up to 4 of digits and signs; every pair of words that might run together; comments plain, with a tab, and without end; every word of the language in one text, with each kind of separator; a largest integer of 127, so that numbers at and past the limit are short |

`JumpsResolved` leaves out programs that define a function called `Entry`: its
label is that of the code the bootstrap calls, and the assembler refuses the two.

Runs that must find a violation: each checks one statement of a comment, a
test or the repository's README that the code breaks.

| Run | Statement | What the code does |
|---|---|---|
| `L2Machine_NewInArguments` | arguments are pushed for the callee | `VisitNewExpr` subtracts 4 from ESP where it should add (`codegen.cpp:224`), so that the eight bytes lie between the arguments: 2 is printed for 9 |
| `FrameLayout_ParamsGone` | "remove parameters from current context" | `closeScope()` closes the scope of the body; `Entry` still sees the parameters of the last function |
| `SemiSpace_BumpPointerInHeap` | the bump pointer is in from space | it moves four words for each one counted |
| `SemiSpace_AllocAnswers` | `Alloc` returns or throws | the walk never ends but in a fault |
| `Parser_KeepsConnectives` | `LBinOp` tokens keep "the exact operator" | `parseRexpPrime2` does not look at it: `a && b \|\| c` becomes `a && (b && c)` |

More disagreements have no run that must find them, since the passing runs already say what the
code does:

* a text with a tab in a comment is refused, against `lexer.cpp:434` (`EndsAsItShould`);
* so is a call with an argument that begins with `(`, `nil` or `new`, against `ast.h:35`
  (`RoundTrip`);
* a text that ends one token after the sign of an assignment (`x := y`) makes `nextToken(2)` read
  behind the token vector (`parser.cpp:29`), where `parser_test.cpp:226` expects an
  `InvalidASTError`. In the model that read may fail or yield any token (`LookPastEnd`);
  whatever it yields, `TypeOK`, `KeepsTokens` and `Terminates` hold;
* `checkspace` compares with the whole heap (`gc.cpp:71`), and by `>=` refuses an object
  that would fill it exactly; the repository's README says that the heap size is "for the whole space, not for a
  semispace" (line 171), and that `Alloc` collects when from space is full. `CountsWords` says
  what bound the code keeps: fewer words than the whole heap.

The other properties hold of the code as it is written: slots are never shared,
`nextOffset` follows ESP but for allocations, code without allocations in
arguments is correct, objects do not overlap each other, the count of words
agrees with the bump pointer; what the parser accepts it keeps, but for mixed
connectives, and it ends; the lexer finds the longest tokens and nothing else; what the
generator emits for a collector is enough for one that moves objects.

**Fairness.** `CodeGen`, `L2Machine`, `Collector`, `Lexer` and `Parser` assume weak
fairness of their next step (`Step`, `Progress`, `CollectorProgress`), `SemiSpace` of the steps of a call of `Alloc()` in
progress (`Alloc`): a sequential program that runs does not stop between two
instructions. Calling `generateCode()`, and making requests, are not fair: no
one need do so.

**Deadlock** is checked in every run; programs that have ended stutter
explicitly (`Stopped`, `Idle`, `Ended`, `Finished`).

## 4. Proofs

What TLC checks for the programs, texts and bounds of the runs, these modules
prove for all of them. Each has an inductive invariant, called `IInv` where there
is one, from which its theorems follow.

**Frames** (`FrameLayoutProofs`): for any sets of names and any bounds, every
behaviour of `FrameLayout` satisfies the seven properties of its passing run.
`SlotsDisjoint` says nothing about how scopes lie relative to each other, so it
is not inductive. `IInv` adds:

* `ScopeOK`: each scope's slots lie between its base and its `next`, injectively;
* `Above` between every two nested scopes, `Inside` between neighbours: an inner
  scope begins at or above the `next` of each outer one;
* `ArgsInPlace`: pushed arguments are contiguous from the scope's base;
* `Accounting`, and that a call with pushed arguments and nothing leaked finds
  the stack where the first was pushed.

Three lemmas (`OpenKeeps`, `CloseKeeps`, `ReplaceKeeps`) say that the chain of
contexts stays sound when a scope is opened, closed or replaced at the top; each
action is one of these. Disjointness follows: a slot in an inner scope is at or
above `next` of the outer, a slot in the outer below it.

**Heap** (`SemiSpaceProofs`): for heaps, requests and call depths of any size (the
frames fit on the stack), with requests from outside L2 functions or without, the three properties of the passing run. `IInv` adds
`FramesInOrder` and `Phases`: what each stage of `Alloc()` may rely on, such as that a
collection that ends has moved the bump pointer to the start of its block. New words
lie at or above `heapcur`, all old ones below.

**Lexer** (`LexerProofs`): for any set of texts and any largest integer,

* the places of `tokenize` stay in order and inside the text (`TypeOK`), tokens
  are not empty and do not overlap (`SpansInOrder`), `currentIndex` never
  decreases (`NeverBack`). The strengthening is `MovesOn`: what the lexeme
  automaton has accepted ends behind where it began; without it a token could be
  empty;
* `epsClosure` returns the least set of states that contains those given and that
  no epsilon edge leaves, whatever the automaton (`EpsClosureIsLeast`), by
  induction on the states not yet in the set;
* the tokens are those of a definition without the loops (`Tokenizes`): between
  two tokens lies the longest text that the whitespace automaton accepts, each
  token is the longest text that the lexeme automaton accepts there, and the lexer
  stops only at the end, at a number that is too large, or where no text is
  accepted. What a call of `munch` in progress knows is `MunchKnows`: the states it
  is in are those that the text read so far leads to, and `lastAccept` is the last
  place where they were accepting.

Of L2's automata the proofs use that they are automata, and that the lexeme
automaton does not accept the empty text (`AutomataAssumption`, `LexemeAssumption`,
which TLC evaluates for the automata of `NFAInfo`).

**Trees** (`ProofBasics`): the theorems on parser and generator speak of all syntax
trees. The modules have no recursive set of trees; they say of a choice of sets
that it is `Closed` under the constructors of `ast.h`, or that everything in it is
`Made` by them. `AllTrees` is the union, over every natural number, of the trees of
that height, and `TreesExist` proves that it is both: the hypothesis
`Programs ⊆ ProgramTrees(AllTrees)` of the theorems below allows every program that
the parser can return, and no other value.

**Parser** (`ParserProofs`): for every sequence of tokens, not only those of
programs, `TypeOK` (no token behind the last is matched; a parse that succeeds
leaves one value) and

* `ParseReturnsProgram`: what is returned is a tree of a program, each node built
  from parts of the kinds that its constructor takes;
* `NoPartMissing`: no method builds a node before the calls that return its parts
  have returned;
* `NoStatementRefused`: the exception at the end of `parseStatementP` is never
  thrown, because the loop that calls it has seen a token that it asks for;
* `ParsesAsRead`: the program returned is one that the tokens matched, from the first
  one on, are read as by the rules of `L2Syntax`, chains of connectives joined as
  `parseRexpPrime2` joins them (`ReadsAs`);
* `ParsesByGrammar`: if the tokens have connectives of one kind only
  (`OneConnective`), the program is one that they spell by the rules as written
  (`Spells`). Without that condition it is false (`Parser_KeepsConnectives`).

None of the first four is inductive, since all depend on what the calling methods will do
with the value. `IInv` follows the kinds of values through the whole of `todo`:
there are kinds, one list for each task still to be done (`Stands`), the first
those of the values on the stack, the last one program, such that each task turns
one list into the next (`Does`). An action replaces the task on top by tasks that
together do the same (`Expands`).

`L2Syntax` is a grammar read as closure conditions. A phrase is a tree and the part
of the tokens that it spans; a choice of sets of phrases, one for each nonterminal,
obeys the rules (`Obeys`) if what the rules make of its phrases is in it; tokens
spell a program (`Spells`) if it is in every choice that obeys. One rule has two forms,
that of what stands behind a connective: joined by the connective between its parts
(`ChainsAsWritten`), or by the one before it (`ChainsAsRead`). With one kind of connective both make the
same, and that is how `ParsesByGrammar` follows from `ParsesAsRead`. The rules say
nothing of order or lookahead, and are what the parser's tables of first tokens,
its optional commas and its stack of values are judged by. The invariant `Spelled`
reads the parser's stack from its end: whatever the tasks in `todo` make of the
values there and the tokens left (`PerformsAll`) is a program that all the tokens
are read as. An action replaces the first task by tasks that perform no more than it
did (`Advances`); one lemma for each method shows that its rule makes a phrase of
the phrases its calls return. That the rules are not so loose that anything obeys
is `SpelledArePrograms`: `AllPhrases` obeys in both forms, so that tokens spell trees only that
the constructors of `ast.h` can build, and only if they end with a semicolon. The
other direction, that every text of a program is accepted, stays with TLC
(`RoundTrip`, `NoFalseAlarm`; it is false of calls with a `RefusedArgument`).

**Code generator** (`CodeGenProofs`): `TypeOK`, for every program. The visitor never
looks at what is left to do. That a temporary is freed in the scope that it
opened, that a function ends in its own scope, that ESP is moved back by what it
was moved, rests on the order of the calls. As in the parser, the invariant
follows a `View` of the symbol table (the kinds and offsets of the contexts, the
definition in progress) through `todo`: each task finds the view it needs and
leaves the one that the next needs (`Does`, `Runs`). `DepthOK` ties `depth` to the
offset of the innermost context: ESP is never above the slots given out.

**Refinement** (`CodeGenLayoutProofs`): `CodeFollowsLayout`, for every program,
with all strings as names and no bounds: `Spec => FollowsLayout`, that is,
`Spec => Layout!Spec`. Each action of `CodeGen` is shown to be an action of
`FrameLayout`, or to leave its variables alone. So what `FrameLayoutProofs` proves
of frames holds of the frames of the code for every program: slots are not
shared and lie inside the frame, `nextOffset` follows ESP, calls without `new` in
their arguments find them where they look, names resolve to the function's own
parameters, no local outlives its block. That last step is one of reading: the
prover does not instantiate theorems along a refinement mapping, so these seven
are not stated again for `CodeGen`.

**Root information** (`CodeGenLayoutProofs`, second half): `RootInfoHolds`, for every
program: while the code of a body is generated, a bit of the two words that the
prologue pushed is set if and only if the slot it stands for is that of a local or
a parameter that is not an int (`RootInfoMatches`). It is said of parameters if there
are at most 32, and of locals if their slots are the first 32: a word has no bit for
more. The words are put together from bits of 32, by position in the lists of
declarations (`codegen.cpp:497` to 513), while
slots are given out by name as the symbol table is filled, elsewhere; nothing in
the code compares the two. The invariant `RInv` says of the frame being
generated that its words are those of its declarations (`Noted`), and that its body is
the next task (`AwaitsBody`) or that the variables entered in it have the homes that
the positions in the words stand for (`InBody`, `Homes`); `Counted` says that a
function's names of parameters are as many as its declarations of them. `BitOfWord` proves that `WordOf`, the signed
32-bit word of a set of places, has its bits at these places and no others.

**Labels** (`CodeGenLabelProofs`): `LabelsResolved`, for every program: each label
is defined once, and every jump and call goes to one that is defined or to
`allocate`. `JumpsResolved` is about finished code. Its invariant `CodeComplete` is
about all code there will be, emitted or waiting in `todo`: it defines each label
once, numbered ones below `nextIndex`, and its jumps have their labels in it. A
call can go to a function whose code comes later, so the invariant also says
(`FunctionsOK`) that all functions are entered in the table before any is
generated, and are among the tasks.

**Assumptions.** Those named in the modules: a temporary's name is no identifier,
bounds are naturals, the frames allowed fit on the stack, texts have a length,
inputs of the parser are sequences of tokens, and the two about automata above. The
hypotheses of `CodeFollowsLayout`, `RootInfoHolds` and `LabelsResolved` are in their statements.

**Only model-checked**, and why:

* the properties of `L2Machine` and `Collector`. `ResultCorrect` and
  `CollectedResult` compare an execution with the recursive meaning of a program in
  `L2Semantics`. `MachineTypeOK`, `StoresInPlace` and `RootsSound` hold of well-typed
  programs only (a program may dereference an integer, and L2 has no checker to
  refuse it), so that a proof would need a type discipline that the code does not have;
* `RejectsOnlyIllFormed` and `AcceptsNothingElse` (`L2Semantics` again), `RoundTrip`,
  `KeepsTokens`, `NoFalseAlarm` and `PrintsApart` (`L2Text` and `Printer`): what a
  recursive definition computes for every tree is beyond the provers;
* `MaximalMunch`, `TokensOfTheirText`, `OnlyBlanksBetween`, `EndsAsItShould`: that
  the automata of L2 accept the words of L2, on texts; `TokenizesByLongestMatch`
  covers the rest of the way;
* liveness: `Terminates`, `CollectorTerminates`, `AllocAnswers`.

## 5. Not modelled

* `src/catch2/catch.hpp`, a vendored test framework of 17618 lines, four fifths of
  the repository, which no part of the compiler uses.
* The driver (`main.cpp`): files and calls of the assembler and linker, in
  sequence. It prints its usage for a missing input file and goes on with an
  empty text (`main.cpp:40-45`), which the parser refuses.
* `gen_tree_visitor.h`: no file includes it, and it does not fit the
  node classes of `ast.h` any more.
* The wording of errors, and with it printing of tokens; `TokenMismatchError`,
  which the parser cannot raise because it matches the type of a token before
  it takes the value; operations of `CharSet` and `NFA` that nothing calls.
* `reset()` and, in `gc.cpp`, `ReportGCStats()`, which nothing calls; failure of `malloc`.
* The second loop of `collect()`: it starts only after the walk has ended, that
  is, when nothing has been copied.
* 32-bit wrap-around of L2 integers. Root information of more than 32 declarations
  and headers of more than 23 fields, whose bits run into each other, are modelled
  (`PointerBits`, `Tag`), but no run has any and no property speaks of them.
* What a finished `gc.cpp` would report, which the tables of `tests/*.l2` list.
* What follows a complete program in the token vector: `parse()` ignores it,
  and no statement of the repository says that it should not.

## 6. Plan

Done: `FrameLayout`, `SemiSpace`, `Lexer` and their proofs; `Parser` and the proofs
that it builds trees, and those that the tokens spell; `CodeGen`, the proofs that it implements
`FrameLayout`, that its root information is right and that its labels are resolved;
`L2Machine`; `Collector`; `Printer`.

Next, in this order:

1. That the parser accepts every text that `L2Syntax` spells, as far as its lookahead
   is said to reach; and that the generator accepts every well-formed program.
2. That the heap of `L2Machine` implements `SemiSpace`, and that `Collect` keeps
   objects disjoint.
3. Growth of the frame: a bound on ESP that a loop with `new` breaks
   (`codegen.cpp:224`).
4. Words of 32 bits in `L2Machine`.
