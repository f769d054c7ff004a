# A TLA+ model of the Tiger compiler

The repository is a compiler for Appel's Tiger language: flex and bison turn a
text into a syntax tree, a symbol table and a type finder answer questions about
the tree, a checker lists what is wrong with it, and two back ends turn it into
Java source or a Java class file. This directory holds TLA+ modules that follow
the code operation by operation, TLC configurations that check them on small
inputs, and TLAPS proofs about each component that is modelled.

Paths below are relative to the directory `src/src` of the repository.

## 1. Inventory

Everything runs in one thread, each call to its end, and nothing survives the
process. What is hard here is not concurrency. It is recursion that leaves the
tree (a variable's type is that of its initial value, a procedure's that of its
body), loops whose end depends on the input (aliases), answers cached between
queries of different clients, static variables that one parse leaves to the
next, names that mean different things at different places, state restored on
the way out of a recursion, output written to several streams at once, and
numbers narrowed to 8 and 16 bits.

| Component | Keeps | Operations | Talks to | What makes it correct |
|---|---|---|---|---|
| Syntax tree (`syntax.h`) | the tree | `VisitChildren` | visited by everything | each child is visited once, in a fixed order |
| `SymbolTable` | scopes with three maps and a parent; the scope of each `Expr`, `Let`, function; the current scope while building | `Build`, six lookups | visits the tree; asked by type finder, checker, Java source | lookups give the static scoping rule and end; nothing recorded is lost; the current scope is restored |
| `TypeFinder` | a cache `Expr -> TypeId`, a reference to the client's error list | `operator()`, `GetLValueType` (mutually recursive) | asks the symbol table; asked by checker and Java source | answers agree with each other and are final; errors explain `NOTYPE`; calls return |
| Checker (`ListErrors`) | errors, the number of loops entered, seven visitors in turn | one traversal per visitor | asks table and finder | the rules of `checker.h:13-47`: a program breaking one is told so, others are accepted, and the call returns |
| Class file (`emit.h`, `emit.cc`) | constant pool, methods, the client's handles | `DefineStringConstant`, `DefineIntegerConstant`, `LookupLibraryFunction`, `Invocable::Call`, `DefineFunction`, `Emit` | a client, a stream | the file means what the client assembled; indices resolve and stay good |
| Java source (`java_source.cc`) | nested compilers with their streams, l-value and scopes; the methods to append | `Compile`, `GetScopePath` | asks table and finder | paths lead to the object that holds the variable; nothing is lost or printed twice; arrays fill the variable they belong to |
| Scanner (`scanner.ll`) | flex's buffer, start condition, comment depth, location | `yylex`, `scan_begin`, `scan_end` | called by the parser, hands errors to the driver | a parse reads its own file and all of it; positions are right |
| Parser (`parser.yy`) | bison's stack | `parse` | scanner, driver | precedences and associativity of the grammar |
| Driver (`driver.cc`) | result, trace flags | `parse`, `error` | owns scanner and parser | the result tells whether the file was a program |
| Command line (`tc.cc`) | nothing | `main` | driver, table, finder, Java source | code is generated for checked programs only |
| `DebugString`, `Std.java`, tests | nothing | | | |

`PROJECT.json` lists under `hazards` each place where one of these behaviours
bites, and which property watches it.

## 2. Modules

```
Syntax ── Lookups ─┬─ SymbolTable ── SymbolTable_proofs ── LookupsLexical_proofs
                   │      │ INSTANCE
                   ├─ JavaSource ── JavaSource_proofs ── JavaSight_proofs
                   │      │ INSTANCE
                   ├─ Inference ── TypeFinder ── TypeFinder_proofs
                   │                   │ INSTANCE
                   └─ Checker ── Checker_proofs
                                         Program   (abstract)
Scanner ── Scanner_proofs                   ▲ INSTANCE ... WITH
                                         ClassFile ── ClassFile_proofs

Trees (reads inputs)
MCSymbolTable  MCTypeFinder  MCChecker  MCJavaSource  MCClassFile  MCScanner
```

`Checker` runs on top of a running `TypeFinder`, and that, like `JavaSource`, on
top of a running `SymbolTable`: the lower modules' variables are the upper ones',
and one behaviour builds the table, then asks for types, then checks or prints.
`JavaSource` has no type finder running under it; it takes the answers from
`Inference`, which the finder is checked against. The
proofs go the same way: `JavaSource_proofs` and `TypeFinder_proofs` instantiate
`LookupsLexical_proofs`, `Checker_proofs` instantiates `TypeFinder_proofs`, and
each carries the lower module's inductive invariant over to its own behaviours.

### Syntax, Trees

A program is a sequence of nodes, numbered in the order `VisitChildren` reaches
them, so a node number stands for an object's address, and the nodes of a
subtree are an interval (`n .. prog[n].last`). `IsProgram` states what the parser
and `VisitChildren` guarantee; `ProgramsAssumption` of `SymbolTable` demands it
of `Programs`, and TLC evaluates it on each program checked. Those of `TypeFinder`, `Checker` and `JavaSource` add `IsTyped`: the
structs whose `TypeId` is no `optional` name a type. Literal values are
left out. Operators are told apart as far as the checker does. `Trees` reads
programs written as words in prefix notation into such sequences; only the MC
modules use it.

### Lookups, SymbolTable

| Code | Model |
|---|---|
| `scopes_`, `scope_by_*`, `current_` | `scopes`, `scope_by_expr`, `scope_by_let`, `scope_by_function`, `current` |
| the C++ call stack of the visitor | `stack`: node, next child, the `prev` a handler keeps in a local variable |
| `VisitLet`, `VisitFunctionDeclaration`, `VisitVariableDeclaration`, `VisitTypeDeclaration`, `VisitFor`, `VisitExpr` | actions of the same names (`VisitOther` for the default) |
| the code after the children's visit | `LeaveScope`, `LeaveOther` |
| `lookupFunction`, `lookupStorageLocation`, `lookupVariable`, `lookupType`, `getDefiningScope` | operators of the same names in `Lookups`, which the modules above share |

One step is one visit or one return from it. `VisitLet` keeps the pass over the
declarations that hoists functions and types *and* variables before any child
is visited. `std::visit` hands the builder the alternative inside the root
`Expr`, not the `Expr`: the root has no scope, and the model says so.

### Inference, TypeFinder

`Inference` is the inference rules of `type_finder.cc` as functions of the tree
and its table: whom a handler of `operator()` delegates to (`Delegate`), what it
answers itself (`OwnType`), what a walk along aliases ends at (`UnaliasedType`)
and what a call returns (`Answer`), a set that is empty when the call does not.

`operator()` and `GetLValueType` call each other, so the C++ call stack is a
variable, `calls`; every step is a call, a return or one turn of the loop over
aliases. Queries come from a client who may ask about any expression at any
time, and again (`Query`, `QueryLValue`); the cache and the error list live
across queries. `StackLimit` stands for the room of the process' stack: a call
beyond it sets `crashed`, and nothing happens afterwards.

### Checker

The seven checkers of `ListErrors` are traversals in the same order over the
same tree; `pass` and `at` say where they are. At a node a checker first asks
the type finder for the types its code asks for (`Ask`, `AskLValue`: real
queries, running in the `TypeFinder` module, which fill the shared cache and
add to the shared errors), then records its messages and goes on (`GoOn`). The
operands of a comparison and the branches of a conditional are asked about in
either order, because C++ leaves the order of evaluation of function arguments
open; the other places have their order. Where the code follows aliases in a
loop that does not end, the checker stays where it is for ever (`Lost`). The
wording of messages is abstracted to a label and the node it is about.

### JavaSource

`java::Compile` after `SymbolTable::Build`: it prints a class per scope
(`PrintClass`), then the code, `main` first. The printed text is kept as a
sequence of *items*: the name of a variable with the path to its object
(`field`), a call with the path it passes (`call`), a plain name (`local`), the
creation of a scope object and the line that links it to its parent, blocks,
loops, parameters, and the loop that fills an array.

| Code | Model |
|---|---|
| the C++ stack of visitors | `frames` |
| the `Compiler` objects: `local_scope`, `req_scope`, `current_lvalue`, `current_expr` | `compilers`, one record per nested object |
| their `ostream&`s, some of them string streams of a handler | `outs` |
| `post_body`, the methods appended after the class' other text | `post_body` |
| `head`, the scope classes | `head` |
| `GetScopePath` | `ScopePath`, over the scopes of the running symbol table |

`EnterX` is the part of a handler before it visits a child, `LeaveX` the part
behind. Whether a conditional is printed as a Java expression or as a statement
is the type finder's answer (`IsConditional`, `inline`). The names of Java types,
literals, operators, keywords, semicolons and layout are left out, but not the
searches for Java types: `GetJavaType` goes on from an array to its elements and
along aliases, and `types()` recurses, on trees no checker has seen, so each may
overflow the stack or never return. `JavaTypeEnds` says when the first ends and
`Answer` when the second does; `FieldTypesEnd` and `TypesEnd` are the guards of
the steps that ask, for a class's fields and in a handler, and where one of them
is false the process is `Lost`. What these searches look a name up from is part
of that: a parameter's type is looked up from the expression around the Let's
functions, so that a circle in the same Let does no harm there.

### Scanner

`Driver::parse` called again and again in one process, as the tests do. The
state that outlives a call is flex's buffer and start condition, and
`comment_depth`. A step is one match of a pattern, a refill of the buffer (flex
looks ahead as far as the longest match needs, which is where a file's end and
what a failed parse left behind matter) or the end of the file. A file is a
sequence of characters, of which the model tells apart what the patterns do: two
digits (one makes a number too large for an `int`), the operators, blank, newline,
the quote and `#` for a character without a pattern. On these the grammar is
numbers and strings with operators between them, and `Deliver` is bison's side: it takes a token or ends
the parse.

### Program, ClassFile

`Program` is what `emit.h` promises: constants and library functions are
values, a call is a list of instructions on values, a program is a list of
methods. `ClassFile` is `JvmProgram`: the vector `constant_pool`, its linear
searches (`Matches`, `IsFirst`, `Intern`: find or adopt), entries that refer to
one another by index, indices narrowed to `IndexLimit` values (2^16 in the
code), the choice between `ldc` and `ldc_w` at `ByteLimit` (2^8), handles that
stay good while the vector grows. `Emit` adds the constructor and the entries
it needs, as the code does, before it writes.

## 3. What is checked

### Passing runs

**symbol_table** (`MCSymbolTable`, 8356 states). Programs that declare the names
`x` and `f` again and again: a Let in a Let as initial value, function body or
body expression, loops before, after, around and inside them, plus one tree with
every kind of node. `LookupsAreLexical` compares each lookup at each expression
with the scoping rule written down independently, over the tree: the last
declaration of the innermost Let or function that declares the name.
`CurrentIsInnermost`, `ScopesAreLexical` and `TableIsComplete` say why that
works; `TablesOnlyGrow` is the action property. Two levels of nesting and two declarations of a name in
one Let are what the rule distinguishes; a third level repeats the argument of
the second, and the proofs below cover all depths.

**type_finder** (`MCTypeFinder`, 20631 states). Programs whose types come through
aliases, records, arrays, initial values, parameters and recursive functions,
with every error the finder reports, asked in every order by up to three
queries (`MaxQueries`): a query that fills the cache, one that meets it, and
one in between. `CacheAgrees` states the inference rules over the cache as a
whole, whatever interleaving of recursion filled it; `AnswersInferred`, that each
is what `Answer` gives for its expression, compound l-values included: the
mutual recursion with its stack, its cache and its walks along aliases in
single turns, against a function of tree and table. `AnswersStand`: no answer
changes, no error is taken back. `CallsReportedOnce` and `NotypeExplained` tie
the error list to the cache. `OverflowOnlyOnCycle` and `QueriesReturn`: a query
fails to return only if the program's types really lead back to themselves.
`StackLimit` = 30 is above what any of the programs needs without a cycle
(`StackAssumption` has TLC check it is at least the size of the largest tree).

**checker** (`MCChecker`, 2743 states). Programs that break each rule and
programs that break none, with nested loops, cycles of one to three aliases, a
tail that leads into a cycle, and declarations of one name twice; also programs
on which each walk does not end. `BreaksReported` and `CyclesReported` are
equivalences: the counter of loops and the walk of `HasIllegalCycle` against a
definition over the tree. `OwnLoopVariablesKept` and `ArgumentsMatch` hold
under conditions, which is what is left of two rules that do not hold without
(below): that the loop's Let or function has no other variable of the name, and
that the names of the program's types are clear (`TypeNamesClear`: none is
declared twice, none is used outside the Let that declares it, none is
`NOTYPE`). Two programs meet the second with calls in them and are accepted,
one of them with the call in a Let of its own. `UsedNamesDeclared`: in a program
without a message, every variable and function from which a used value takes
its type, over however many expressions and declarations, is declared. No
checker looks for that; it depends on one of them asking the finder, and one
program of the run (`NotUsed`) is accepted with an undeclared call that nobody
uses. `ListErrorsReturns`: the checker returns unless
aliases or initial values or procedures lead back to themselves.
`StackLimit` = 60 exceeds every recursion of these programs but the endless one;
`MaxQueries` = 200 is never reached.

**class_file** (`MCClassFile`, 104083 states). A client that asks for the string
`Std`, which is also the name of a class the file needs, for an integer, for a
library function and for one that does not exist, assembles calls, defines
`main` and emits. `MaxPool` = 17 entries with `ByteLimit` = 8: the pool passes
the limit of `ldc`, so both forms of the instruction are chosen. `IndexLimit` =
32 is not reached. `Implements` is the refinement of `Program`: the pool, the
code and the file, read back through the indices, are the values the client
asked for. `ReferencesResolve`, `EntriesShared` and `PoolOnlyGrows` are the
invariants behind it.

**java_source** (`MCJavaSource`, 941 states). Functions in Lets in functions that
share names and call each other across scopes; sibling Lets, in loop bounds too;
x are about the finished text and its meaning in Java.
`PathsReach`: a variable's path starts at an object in sight and its parent links
lead to the object of the scope that declares it, by the rule of the language
(not by the table). `ObjectsLinked` and `ClassesSuitCode` make those links good;
`CallsFindMethods` is Java's choice of an overload; `PrintedOnce` says what the
printer drops and that it drops nothing else; `FillsItsVariable` follows
`current_lvalue`. `CompilersFollowScopes` is the invariant about the nested
objects in the middle of the work. `CompileReturns`, the liveness property, is
about the programs that unwind: no expression's type comes from itself, and no
circle leads through aliases and arrays alone, wherever they are looked up from
(`Unwinds`, stated over sets of declarations and not by following them). The
nine programs do not unwind and are lost, each at the place it was made for. The
nesting is three functions deep, so that a path has none, one and two links.

**scanner** (`MCScanner`, 12449 states). All files of up to three characters out
of `1 / * newline`, and eight longer ones with comments that nest, overlap and do
not end, comments in strings, quotes in comments and a quote on its own, each
parsed after each (`MaxParses` = 2: one that leaves something and
one that finds it). `DepthTellsCondition` ties `comment_depth` to the start
condition; `CleanParsesReadTheFile` compares the tokens and their lines with a
reading of the text alone, whatever the refills; `LeftoversExplained` says when a later parse is not
clean; `ParseReturns` is the liveness property.

### Runs that find a disagreement

Each checks one property that the repository's own documents or comments state,
and TLC shows an execution of the code that does not have it.

| Run | Said | Done |
|---|---|---|
| variable_forward_reference | no forward reference to variables (`checker.h:29-32`) | all variables of a Let are stored before any initial value is visited |
| finder_never_overflows | returns the type or NOTYPE (`type_finder.h:20`) | a procedure that ends in a call of itself overflows the stack |
| alias_walks_end | aliases are unwound until a record, array or builtin is found (`symbol_table.h:62-65`) | each alias is looked up from where the walk began; a legal inner type of the same name makes it endless |
| loop_variables_kept | a loop's variable may not be assigned to (`checker.h:20`) | the variable is stored in the enclosing scope, and a later declaration of the name takes its place |
| zero_on_success | `parse` returns 0 on success (`driver.h:29-30`) | errors of the scanner are printed and recorded nowhere: an unterminated comment, an invalid character or a number out of range leaves the result at 0 |
| loop_variables_hoisted | variables of inner functions live in objects (`design.md:46`) | a loop's variable is a Java variable, and a function in the loop's body is another method, which does not see it (`symbol_table.cc:157-159` leaves this to be done) |

Smaller disagreements met on the way and not given a run:

- *Scopes.* A loop's variable is found after its loop (`symbol_table.h:14` says it
  is within the loop's scope). Functions and types are visible in the whole Let,
  not only in their sequence of declarations (`checker.h:24-27`, `44-45`).
- *Names.* An undeclared name whose type nobody asks for is not reported
  (`design.md:21`: "ensuring variables are declared before use").
- *Types.* Arguments and parameters are compared by the names of their types
  (`checker.cc:240`): two record types with one name are the same, and since
  only the parameter's type is unwound, a variable of alias type `t` is refused
  for a parameter of type `t`. The parameter's name is looked up from the call
  (`checker.cc:230`), where a function's unknown type may have become a known one.
  `NOTYPE` is a name like any other, so a variable of a declared type `NOTYPE`
  is an argument for every parameter. No checker compares the two sides of an
  assignment (`plan.md:51`). A comparison has its left operand's type, so
  `if "a" = "b"` is refused as a condition. A cycle of aliases across two
  sequences of declarations, or behind a duplicate, is not reported; one that is
  reported is then followed by the checker itself, which never returns, so that
  the message is not delivered (`plan.md:60`).
- *Scanner and driver.* `scan_begin` resets the location and nothing else:
  behind a syntax error or an unterminated comment, flex's buffer, condition and
  depth are those of the file before, and a well-formed file may be refused.
  Inside comments, columns are counted twice; in strings, lines are
  not counted.
- *Java source.* `main` creates the object of the first scope, whose class is
  never printed. A parameter's Java type is looked up outside the Let that may
  declare it; an alias names a class nobody declares. A method with a result
  never says `return`. The name of a record's field is not `Sanitized` where it
  is used. A variable named `parent` collides with the link. The initial values
  of a record literal's fields, and a Let with an empty body, are dropped with
  their effects. The end of a `for` is evaluated before each turn. An array
  literal in an argument puts a statement in the middle of a call.
- *Class file.* `IntegerConstant::Matches` answers false always, so that equal
  integers are stored again; `Emit` adds a constructor each time it is called;
  at 65535 entries the pool's count wraps.

### Fairness

The code is sequential: a call that can take its next step takes it. The
fairness is therefore weak fairness of the program's own steps: of the build
(`BuildStep`), of the type finder's steps once it is called (`Step`), of the
checker (`CheckerStep`), of the Java printer (`Build \/ CompileStep`), of the
scanner (`yylex`). Nothing obliges a client of the type finder or of the driver
to call (`Ask` in `TypeFinder` and `Parse` in `Scanner` have no fairness) and
`ClassFile` has none at all: its client may stop at any time. `Stop`
(`Terminating` in `SymbolTable`) is the stuttering of a program that has ended,
crashed or looped for ever, kept so that deadlock checking stays on.

## 4. What is proved

With TLAPS, for every value of the constants that satisfies the assumptions.

**SymbolTable_proofs**, from `ProgramsAssumption` (each program is a tree with
its children in visiting order): `TypeCorrect`, `LookupsEnd`,
`CurrentScopeRestored`, `StaticScoping`, `TablesNeverRevised`. None of the
invariants is inductive alone. The inductive one, `LexicalInv`, describes the
call stack: consecutive frames are parent and child (`Linked`); each frame's
saved `prev` is the scope outside its node (`PrevIsOuter`); the next child of
each frame, and everything behind it, has not been recorded (`NextIsUnvisited`,
`NextIsBeyond`); what is on the stack under a Let or function has that scope
opened (`NestedInOpened`). With these, `CurrentIsInnermost` survives a return
because the saved scope is the right one, and `ScopesAreLexical` survives a
visit because the current one is. `LookupsEnd` needs only that a scope's parent
is the current scope, which exists already. The proofs go through the actions
one by one.

Its last part proves `BuildForgetsNothing`, that
when `Build` returns every expression but the root, every Let and every function
has its scope (`TableIsComplete`). The invariant, `CompleteInv`, adds to
`LexicalInv` that what is unrecorded is still ahead of some frame: every node in
the part of a frame's subtree that is behind its next child has its entry
(`NothingMissed`, `OneScopeEach`). The tree enters through one conjunct of
`IsTree`: a node is its parent, a parameter, or below one of the children, so
that the end of the last child's visit is the end of the subtree.

**LookupsLexical_proofs**, from the same assumption: `LookupsFollowScoping`
(`LookupsAreLexical`), the static scoping of every lookup in a built table. The
invariant, `LookupInv`, adds to `CompleteInv` what a map holds while `Build` still
overwrites it (`MapsUpToDate`): of the declarations of a name in its Let or
function, none that has been visited is later than the entry. When nothing is
ahead the entry is the last one. That the walk along the parents of scopes and the
climb along the tree's Lets and functions then meet the same binders is argued
from a least counterexample, induction being out of the prover's reach.

**ClassFile_proofs**, from `LimitsAssumption` and `ClientAssumption`:
`TypeCorrect`, `IndicesStayGood`, and, with the pool's bound below the values of
an index (`MaxPool < IndexLimit`), `ReferencesGood` and `SearchesFind`. The
inductive invariant is `TypeOK` with `Sound(constant_pool)`: references resolve
*and* entries are shared. The core is a contract of the search-or-append
helpers, `Interned`: the new pool extends the old one, the result is an entry of
the right tag, and `Sound` is kept provided the indices still fit. It is proved
for `Intern` once and composed for every nesting of the `...Constant` functions
(`InternedThen`, `PairInterned`). The bound is a hypothesis, not a fact of the
code: nothing in `emit.cc` checks it.

`ClassFileImplements` is the refinement (`Implements`): every operation of
`JvmProgram` is one of the abstract `Program` or none. What an index means is
read through the pool, so what has to be shown is that meaning survives: an
entry's meaning depends on the entries before it only, a pool that extends
another gives each of its indices the same meaning, and the entry a search finds
or appends means what was asked for. `ProgramInv` adds to `TypeOK` and `Sound`
that each handle and each instruction means something, and that the methods in
the file are those assembled. Two hypotheses, both true of the repository's use
and neither checked by the code: `MaxPool + 1 < IndexLimit`, one less than
before since the file's count of entries is the length plus one and is narrowed
like the indices; and `MaxEmits <= 1`, since `Emit` appends a constructor each time
(the one caller, `emitTest.cc:30`, emits once).

**Scanner_proofs**, from `FilesAssumption` and `BoundAssumption`, for every set
of files and any number of parses: `ScannerTypes`; `CommentStateAgrees`
(`DepthTellsCondition`), which holds because the three patterns that change the
depth are matched in one condition each; `LeftoversAreExplained`, whose
invariant says that a parse that returns 0 has come to the end of its file with
an empty buffer.

**TypeFinder_proofs**, from `ProgramsAssumption`, `NamesAssumption`,
`StackAssumption` and `QueriesAssumption`: `FinderTypes`;
`CacheFollowsInference` (`CacheAgrees`); `AnswersNeverRevised` (`AnswersStand`);
`UnknownCallsReportedOnce` (`CallsReportedOnce`). What the finder is told by the
table is `LookupInv`, the invariant of `LookupsLexical_proofs`, instantiated:
a variable's lookup finds a variable, a loop or a parameter
(`LookupsFindDeclarations`). `FinderInv` adds the call stack: each frame but the
last waits for the one above it, and that is the one call its arguments make it
make (`Chained`); a waiting frame has no answer in the cache (`Waiting`); the
answer just returned is the one the rules give to the call made
(`AnswerTaken`). `AnswersStand` needs more, because nothing in the code stops an
expression from being asked for while it is being asked for: `Endlessly` says
that then the calls since are the same ones over again, and the last has not
looked at anything yet. So nothing that returns is on the stack twice, and the
entry it stores is its first.

`OnlyCyclesOverflow` (`OverflowOnlyOnCycle`) goes the other way. A stack deeper
than the program has nodes has two frames about one expression, because an
l-value is asked for by one expression only, so that between two frames about
one l-value there is its asker twice. The
expressions between two frames about one expression each take their type from
the next (`AsksFor`), so that asking on never ends: that is `Endless`. The hypothesis is
`StackAssumption`, that the stack has room for a frame per node of the largest
tree. `NoTypeWithoutReason` (`NotypeExplained`) has an invariant of its own,
`ExplainInv`: for each `NOTYPE` in the cache or just returned, the reason is in
the error list, or the type was taken from an expression for which that holds.
The attempt showed that the property needs a hypothesis the model had not
stated: a program that itself uses a type of the name `NOTYPE` gets that answer
with no error. The name is not reserved by the scanner, so the property now
says that the program does not use it.

**Checker_proofs**, from `ProgramsAssumption` and `FinderAssumption` (what the
type finder assumes). `CheckersAreClients`: each step of a checker is a step of
`TypeFinder`'s specification or leaves its variables alone, so that `FinderInv`
and what follows from it holds while the checkers run. `CheckerInv` adds to it
where the traversal is (`Places`), that the counter is the number of loop bodies
around the node the last checker is at (`LoopsCounted`), and, for each rule,
exactly which nodes have been reported among those the traversal has passed.
From it: `CheckerTypes`; `BreaksOutsideLoops` (`BreaksReported`); `LoopVariablesProtected`
(`OwnLoopVariablesKept`), which takes the table's static scoping from
`LookupInv`; `CirclesAreReported` (`CyclesReported`), for sequences of any length:
the walk follows one chain and gives up after as many steps as there are
declarations, and by a pigeonhole argument it is back at its start by then if it
ever will be.

`ArgumentsOfParametersTypes` (`ArgumentsMatch`) takes an invariant of its own,
`ArgumentsTold`: of each call `FunctionCallChecker` has gone on from, every walk
from a parameter's type has ended, every argument has its type in the cache, and
the argument has been reported unless the two agree; nothing of it depends on
what the later checkers change. The rest is about names. `LookupsLexical_proofs`
supplies what a name found in a scope may be used for elsewhere (`Sees`,
`SeesAsFound`): in a tree where a type is named only inside the Let that declares
it, what a declaration names is in scope wherever the declaration is found from,
and in the body of the function or the value of the variable itself. So a walk
along aliases goes the same way from the call, from the function and from the
variable (`SameWalk`). The attempt showed that the property was too strong as it
was first stated, that the declared types have distinct names: a parameter whose
type is declared inside, and so unknown, has it looked up from a call that is in
the scope of a declaration of that name, and a variable of a type `NOTYPE` suits
every parameter. Both are in `TypeNamesClear` now.

**JavaSource_proofs**, from `ProgramsAssumption`: `CompilerTypes` (`TypeOK`),
`CompilersFollow` (`CompilersFollowScopes`), `ClassesSuit` (`ClassesSuitCode`) and
`PathsLeadHome`, the half of `PathsReach` about the links: those printed in front
of a name or a call lead from the object they begin with to the scope of the
declaration static scoping means. The inductive invariant, `CompileInv`, has the
table's (`LookupInv`); the call stack, which is a path in the tree from the root
to the node in work, each frame's node handed out by the one below (`OnPath`,
`Handed`); the `current_expr` each frame saved, which is the expression around
the one in work (`ExprsSaved`); two numbers that the code has no variable for,
the compiler and the stream each frame works with, counted along the stack
(`Counts`), and what each of these compilers is about (`Suits`); and of every text,
finished or not, that each path in it leads home, each field belongs to the
class of its scope, and each link goes to the scope around (`TextsGood`). Without
the stack's part the last would not survive a single name: `GetScopePath` starts
at the scope of `current_expr`, and that this is the innermost scope is what the
nesting of frames, compilers and saved expressions says together.
`ClassesPrinted` says of the first pass that it has printed one class for each
scope behind it.

`CallsFindTheirMethods` (`CallsFindMethods`) has an invariant of its own on top of
that one. A call is printed long before the methods it may meet: a function's
body comes before the functions declared after it, and all methods are put
behind `main`. So `CallsInv` does not say that the methods are there but that none
is lost: of every Let that is open, each function is printed, or on the stack, or
at a place the Let has still to come to (`Awaited`, `LetsAwait`). When a call is
printed with a path, the Let of the function it means is open, which the
innermost scope around the call and the frames below it say together (`OpenNow`,
`WalkFindsOpen`); from then on its functions are awaited, and once `main` alone is
left on the stack nothing can be awaited but what is printed. The other half,
that a method's text begins with a parameter of the class of the scope around
its function, has to hold of the unfinished streams below the innermost one as
well (`MethodsStarted`), where the text of a left side is put behind what is
there. That the methods of a name and a class are no more than those of
one Let is the table's doing: different Lets have different scopes (`BuiltScopes`).

**JavaSight_proofs**, from the same assumption: `PathsStartInSight` (`PathsReach`)
and `ObjectsAreLinked` (`ObjectsLinked`). What `CompileInv` lacks for them is where
Java's blocks begin and end, and the invariant `SightInv` supplies it: there are
four sequences the code has no variables for (`Sighted` quantifies them), the
compiler and the stream of each frame, a layer for each frame, and for each
stream the scopes its text borrows from the stream it will be inserted in. A layer
says how deep in blocks its stream was when the frame was pushed, how deep it is
where the handler goes on, down to which depth the objects its Compiler may
name are declared, and of which scopes these are (`Layers`). `Layered` says that
the layers of a stream lie on each other and that what a layer needs is in
sight; `Provided`, that the scopes around a Compiler's, to the outermost or to the
one a function was handed, are those its layer needs (`Closed`), and so are the
paths of the l-value it keeps for later; `Lent`, that only the left side of an
assignment borrows, and only from the frame that will print it. Two handlers
make this delicate: a Let with a body raises the level, so that its object stays
in sight to the end of its block and no longer; and the l-value of an
assignment is written to a stream of its own, kept in a Compiler, and printed once
for each leaf of an `if` on the right side, deeper than where it was written. A
finished text borrows nothing (`FinishedTidy`), which gives both properties. The
texts of methods, which `java_source.cc` appends behind everything, borrow nothing
either: their function's parameters and the link of their own class are all they
start from.

Only model-checked: liveness (TLAPS does not reach fairness or ENABLED); the
words of a file (`CleanParsesReadTheFile`), which are a fold; that the finder's
answers are those of `Inference` (`AnswersInferred`, an induction over calls) and
that used names are declared (`UsedNamesDeclared`); of `JavaSource`,
`PrintedOnce` and `FillsItsVariable`.

## 5. What is not modelled

The grammar of `parser.yy` but for numbers and strings with operators between
them: its actions build nodes, its automaton is bison's, and what the other
modules take from it is the shape of trees (`IsShaped`). The flags of `tc.cc`,
and trace flags. `DebugString` and `Std.java`, which have no state; the tests, which are
read as documentation. In the modelled parts: literal values, texts of messages,
the order of messages within a checker, the bytes of the class file, access
flags, stack depth of methods, texts longer than 65535 bytes, the names of Java
types, layout of the Java text, identifiers and keywords in the scanner, `toString` functions.

## 6. Plan

1. Done: syntax, symbol table, type finder, checker, class file with its abstract
   program, Java source, scanner with driver; proofs about each of them.
2. A declarative module of Tiger's types (scopes as sets of declarations, types
   as declarations and not names) as the reference the type finder's cache and
   the checker's verdict are compared with.
3. The operator precedences of the grammar against a reference parser.
4. The names of Java types in `JavaSource`, so that a field, the method's
   parameter and the value stored in it can be compared.
5. Proofs: `PrintedOnce`, from `CompileInv` and an account of the nodes each text
   stands for; `FillsItsVariable`.

## 7. Running

    tlc -config MCSymbolTable.cfg MCSymbolTable
    tlapm SymbolTable_proofs.tla

`PROJECT.json` maps every definition to the lines it models and gives, for each
property, a mutation of the code under which TLC finds it violated.
