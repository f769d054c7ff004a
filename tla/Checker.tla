------------------------------ MODULE Checker ------------------------------
(***************************************************************************)
(* ListErrors of checker.cc over one program, on top of the symbol table   *)
(* and the type finder, both of which run as they are.                     *)
(*                                                                         *)
(* Seven checkers go over the tree one after the other, each in preorder,  *)
(* which is the order of the node numbers.  At a node a checker asks the   *)
(* type finder for the types it needs, one query at a time, walks along    *)
(* aliases, and records what is wrong.  A query of an expression already   *)
(* in the type finder's cache changes nothing and is left out.             *)
(*                                                                         *)
(* The walks along aliases are the loops of checker.cc:73, 231 and 294 and *)
(* lookupUnaliasedType.  One that never ends leaves the checker where it   *)
(* is.  A message is the rule that was broken and the node that broke it;  *)
(* their order in the list is left out.                                    *)
(***************************************************************************)
EXTENDS Lookups, FiniteSets

CONSTANTS Programs, StackLimit, MaxQueries, Uncached       \* see TypeFinder

VARIABLES scope_by_let, scope_by_function, current, stack, status,
                           \* module SymbolTable
          cache, errors, calls, returned, queries, crashed,
                           \* module TypeFinder
          pass,            \* the checker that is running
          at,              \* the node it has come to
          l_value_asked,   \* returned is the type of an assignment's l-value
          loops_entered,   \* member of StructureChecker
          reports          \* what ListErrors returns

tables == <<prog, scopes, scope_by_expr, scope_by_let, scope_by_function,
            current, stack, status>>
finder == <<cache, errors, calls, returned, queries, crashed>>
checker == <<pass, at, l_value_asked, loops_entered, reports>>
vars == <<tables, finder, checker>>

Tf == INSTANCE TypeFinder

ASSUME ProgramsAssumption == \A p \in Programs : IsProgram(p) /\ IsTyped(p)
ASSUME FinderAssumption ==
  /\ Tf!Reserved \subseteq Identifiers /\ Uncached \notin Identifiers
  /\ MaxQueries \in Nat /\ StackLimit \in Nat
  /\ \A p \in Programs : Len(p) <= StackLimit

Kids(n)   == {Kid(n, j) : j \in DOMAIN prog[n].kids}
IsNil(n)  == Kind(n) = "Nil"
Builtin   == {"int", "string"}     \* kBuiltinTypes

-----------------------------------------------------------------------------
(* Walks along aliases.                                                    *)

IsAlias(d) == d # Null /\ AliasOf(d) # NoType

\* The declaration a walk looking names up from expression e goes on from: an
\* alias, and not one for a name in stops.
GoesOn(d, stops) == IsAlias(d) /\ AliasOf(d) \notin stops
NextName(e, x, stops) ==
  LET d == lookupType(e, x) IN IF GoesOn(d, stops) THEN AliasOf(d) ELSE x

\* The one name a walk from name x has come to when it has met every
\* declaration of the program, if it gets that far.
Walked(e, x, stops) ==
  LET met[k \in 0 .. Len(prog)] ==
        IF k = 0 THEN {x} ELSE {NextName(e, y, stops) : y \in met[k-1]}
  IN  CHOOSE y \in met[Len(prog)] : TRUE

WalkEnds(e, x, stops) ==
  ~ GoesOn(lookupType(e, Walked(e, x, stops)), stops)

Unaliased(e, x) == Walked(e, x, {})
lookupUnaliasedType(e, x) == lookupType(e, Unaliased(e, x))
IsRecord(e, x) ==
  LET d == lookupUnaliasedType(e, x) IN d # Null /\ prog[d].form = "record"

Report(what, n) == [what |-> what, at |-> n]
Unless(ok, what, n) == IF ok THEN {} ELSE {Report(what, n)}

-----------------------------------------------------------------------------
(* DeclarationChecker.                                                     *)

\* The sequence of declarations of its kind that declaration j of Let l is
\* in; a variable is in a sequence of its own.
Group(l, j) ==
  {i \in DOMAIN prog[l].kids :
     \/ i = j
     \/ /\ Kind(Kid(l, j)) \in {"TypeDeclaration", "FunctionDeclaration"}
        /\ \A k \in DOMAIN prog[l].kids :
             (i <= k /\ k <= j) \/ (j <= k /\ k <= i) =>
               Kind(Kid(l, k)) = Kind(Kid(l, j))}

IsDuplicate(l, j) ==
  \E i \in Group(l, j) : i < j /\ prog[Kid(l, i)].id = prog[Kid(l, j)].id

\* Fault: only the declarations that follow are searched.
NextInGroupForward(l, j) ==
  LET named == {i \in Group(l, j) : i > j /\ prog[Kid(l, i)].id = AliasOf(Kid(l, j))}
  IN  IF named = {} THEN Null ELSE CHOOSE i \in named : \A k \in named : i <= k

\* The first declaration of the group with the name j is an alias for.
NextInGroup(l, j) ==
  LET named == {i \in Group(l, j) : prog[Kid(l, i)].id = AliasOf(Kid(l, j))}
  IN  IF named = {} THEN Null ELSE CHOOSE i \in named : \A k \in named : i <= k

HasIllegalCycle(l, j) ==
  LET met[k \in 0 .. Len(prog[l].kids)] ==
        IF k = 0 THEN {j} ELSE {NextInGroup(l, i) : i \in met[k-1]} \ {Null}
  IN  \E k \in 1 .. Len(prog[l].kids) : j \in met[k]

VariableReports(v) ==
  LET value == Kid(v, 1)
      declared == prog[v].type
  IN  IF IsNil(value)
      THEN Unless(declared # NoType /\ IsRecord(value, declared),
                  "Nil may only be used for records with known type", v)
      ELSE Unless(cache[value] # "NOTYPE",
                  "Variable initialized with no value", v)
           \cup Unless(\/ declared = NoType
                       \/ cache[value] \in {Unaliased(value, declared), "NOTYPE"},
                       "Variable initialized with another type", v)

FunctionReports(f) ==
  LET body == cache[Kid(f, 1)] IN
  IF prog[f].type # NoType
  THEN Unless(body = prog[f].type, "Body returns another type", f)
  ELSE Unless(body = "NOTYPE", "Procedure body must not return a value", f)

LetReports(l) ==
  UNION {Unless(~ IsDuplicate(l, j), "Duplicate definition", Kid(l, j))
         \cup Unless(~ HasIllegalCycle(l, j), "Illegal type cycle", Kid(l, j)) :
         j \in {i \in DOMAIN prog[l].kids :
                  Kind(Kid(l, i)) \in {"TypeDeclaration", "FunctionDeclaration"}}}

DeclarationReports(n) ==
  CASE Kind(n) = "Let" -> LetReports(n)
    [] Kind(n) = "VariableDeclaration" -> VariableReports(n)
    [] Kind(n) = "FunctionDeclaration" -> FunctionReports(n)
    [] OTHER -> {}

DeclarationAsks(n) ==
  {k \in Kids(n) : \/ Kind(n) = "FunctionDeclaration"
                   \/ Kind(n) = "VariableDeclaration" /\ ~ IsNil(k)}

-----------------------------------------------------------------------------
(* RecordFieldChecker.                                                     *)

RecordType(e) == lookupType(e, Walked(e, prog[e].type, Builtin))
IsRecordType(d) == d # Null /\ prog[d].form = "record"

\* Positions at which literal e and the record type d have the same field.
Matching(e, d) ==
  {j \in DOMAIN prog[e].kids :
     prog[prog[e].params[j]].id = prog[prog[d].params[j]].id}

AsManyFields(e, d) == Len(prog[e].kids) = Len(prog[d].params)

RecordFieldAsks(e) ==
  LET d == RecordType(e) IN
  IF Kind(e) = "RecordLiteral" /\ IsRecordType(d) /\ AsManyFields(e, d)
  THEN {Kid(e, j) : j \in Matching(e, d)} ELSE {}

RecordLiteralReports(e) ==
  LET d == RecordType(e) IN
  CASE d = Null -> {Report("Unknown record type", e)}
    [] d # Null /\ ~ IsRecordType(d) -> {Report("Type is not a record", e)}
    [] IsRecordType(d) /\ ~ AsManyFields(e, d) ->
         {Report("Type has another number of fields", e)}
    [] OTHER ->
         UNION {IF j \in Matching(e, d)
                THEN Unless(cache[Kid(e, j)] = prog[prog[d].params[j]].type,
                            "Different types for field", Kid(e, j))
                ELSE {Report("Different names for field", Kid(e, j))} :
                j \in DOMAIN prog[e].kids}

RecordFieldReports(e) ==
  IF Kind(e) = "RecordLiteral" THEN RecordLiteralReports(e) ELSE {}

-----------------------------------------------------------------------------
(* BinaryOpChecker, ConditionalChecker, NilChecker.                        *)

IsBinary(n, forms) == Kind(n) = "Binary" /\ prog[n].form \in forms

BinaryOpAsks(n) == {k \in Kids(n) : IsBinary(n, {"comparison", "logical"})}

BinaryOpReports(n) ==
  CASE IsBinary(n, {"comparison"}) ->
         (UNION {Unless(cache[k] \in Builtin,
                        "Operand must be int or string", k) : k \in Kids(n)})
         \cup Unless(cache[Kid(n, 1)] = cache[Kid(n, 2)],
                     "Types of operands should match", n)
    [] IsBinary(n, {"logical"}) ->
         UNION {Unless(cache[k] = "int", "Operand must be int", k) : k \in Kids(n)}
    [] OTHER -> {}

ConditionalAsks(n) ==
  {k \in Kids(n) : /\ Kind(n) \in {"IfThen", "IfThenElse", "While"}
                   /\ k = Kid(n, 1)}

ConditionalReports(n) ==
  UNION {Unless(cache[k] = "int", "Condition must be int", k) :
         k \in ConditionalAsks(n)}

\* The operands that are compared with, or combined with, nil.
NilAsks(n) ==
  {k \in Kids(n) : /\ Kind(n) = "Binary"
                   /\ \/ k = Kid(n, 2) /\ IsNil(Kid(n, 1))
                      \/ k = Kid(n, 1) /\ IsNil(Kid(n, 2))}

AssignsNil(n) == Kind(n) = "Assignment" /\ IsNil(Kid(n, 2))

NilReports(n) ==
  (UNION {Unless(IsRecord(n, cache[k]), "Type is not a record type", k) :
          k \in NilAsks(n)})
  \cup Unless(AssignsNil(n) => IsRecord(n, returned),
              "Type is not a record type", n)

-----------------------------------------------------------------------------
(* FunctionCallChecker.                                                    *)

Function(e) == lookupFunction(e, prog[e].id)
ParameterType(e, j) == prog[prog[Function(e)].params[j]].type

\* The arguments that have a parameter to be checked against.
Arguments(e) ==
  IF /\ Kind(e) = "FunctionCall" /\ Function(e) # Null
     /\ Len(prog[e].kids) = Len(prog[Function(e)].params)
  THEN DOMAIN prog[e].kids ELSE {}

\* An argument is asked about once the walk for the one before has ended.
FunctionCallAsks(e) ==
  {Kid(e, j) : j \in {i \in Arguments(e) :
     /\ ~ IsNil(Kid(e, i))
     /\ \A k \in 1 .. i-1 : WalkEnds(e, ParameterType(e, k), {})}}

\* Fault: the arguments are counted and not compared.
FunctionCallReportsByNumber(e) ==
  Unless(Kind(e) = "FunctionCall" /\ Function(e) # Null =>
           Len(prog[e].kids) = Len(prog[Function(e)].params),
         "Other number of arguments", e)

FunctionCallReports(e) ==
  IF Kind(e) # "FunctionCall" THEN {}
  ELSE Unless(\/ Function(e) = Null
              \/ Len(prog[e].kids) = Len(prog[Function(e)].params),
              "Other number of arguments", e)
       \cup UNION {IF IsNil(Kid(e, j))
                   THEN Unless(IsRecord(e, ParameterType(e, j)),
                               "Type is not a record type", Kid(e, j))
                   ELSE Unless(cache[Kid(e, j)] \in
                                 {Unaliased(e, ParameterType(e, j)), "NOTYPE"},
                               "Argument of another type", Kid(e, j)) :
                   j \in Arguments(e)}

-----------------------------------------------------------------------------
(* StructureChecker.                                                       *)

IsLoop(n) == Kind(n) \in {"While", "For"}
LoopBodies == {LastKid(n) : n \in {m \in Nodes : IsLoop(m)}}

StructureAsks(n) ==
  {k \in Kids(n) : \/ IsLoop(n) /\ k = LastKid(n)
                   \/ Kind(n) = "IfThenElse" /\ k # Kid(n, 1)}

\* Fault: the variable is not looked up beyond variable declarations.
AssignsLoopVariableOfLet(n) ==
  IF Kind(n) = "Assignment" /\ Kind(Kid(n, 1)) = "Identifier"
  THEN LET d == lookupVariable(n, prog[Kid(n, 1)].id) IN
       d # Null /\ Kind(d) = "For"
  ELSE FALSE

AssignsLoopVariable(n) ==
  IF Kind(n) = "Assignment" /\ Kind(Kid(n, 1)) = "Identifier"
  THEN LET d == lookupStorageLocation(n, prog[Kid(n, 1)].id) IN
       d # Null /\ Kind(d) = "For"
  ELSE FALSE

StructureReports(n) ==
  CASE IsLoop(n) -> Unless(cache[LastKid(n)] = "NOTYPE",
                           "Loop body must not return a value", n)
    [] Kind(n) = "IfThenElse" ->
         Unless(cache[Kid(n, 2)] = cache[Kid(n, 3)],
                "Branches must have same type", n)
    [] Kind(n) = "Break" ->
         Unless(loops_entered > 0, "Break must be inside a loop", n)
    [] Kind(n) = "Assignment" ->
         Unless(~ AssignsLoopVariable(n),
                "For loop variable may not be assigned to", n)
    [] OTHER -> {}

\* Fault: leaving nested loops at once leaves one of them only.
LoopsEnteredAfterOneLeft(n) ==
  loops_entered + (IF n + 1 \in LoopBodies THEN 1 ELSE 0)
                - (IF \E b \in LoopBodies : prog[b].last = n THEN 1 ELSE 0)

\* ++ before the body of a loop, -- after it.
LoopsEnteredAfter(n) ==
  loops_entered + (IF n + 1 \in LoopBodies THEN 1 ELSE 0)
                - Cardinality({b \in LoopBodies : prog[b].last = n})

-----------------------------------------------------------------------------
(* The traversals.                                                         *)

Passes == <<"DeclarationChecker", "RecordFieldChecker", "BinaryOpChecker",
            "ConditionalChecker", "NilChecker", "FunctionCallChecker",
            "StructureChecker">>
Done == pass > Len(Passes)
Pass == Passes[pass]
Working == Tf!Idle /\ ~ Done

\* The expressions whose types the checker asks for at node n.
Asks(n) ==
  CASE Pass = "DeclarationChecker"  -> DeclarationAsks(n)
    [] Pass = "RecordFieldChecker"  -> RecordFieldAsks(n)
    [] Pass = "BinaryOpChecker"     -> BinaryOpAsks(n)
    [] Pass = "ConditionalChecker"  -> ConditionalAsks(n)
    [] Pass = "NilChecker"          -> NilAsks(n)
    [] Pass = "FunctionCallChecker" -> FunctionCallAsks(n)
    [] Pass = "StructureChecker"    -> StructureAsks(n)
Unasked == {e \in Asks(at) : cache[e] = Uncached}

\* The walk along aliases it does there does not end.
WalksForever(n) ==
  CASE Pass = "DeclarationChecker" ->
         /\ Kind(n) = "VariableDeclaration" /\ prog[n].type # NoType
         /\ ~ WalkEnds(Kid(n, 1), prog[n].type, {})
    [] Pass = "RecordFieldChecker" ->
         Kind(n) = "RecordLiteral" /\ ~ WalkEnds(n, prog[n].type, Builtin)
    [] Pass = "NilChecker" ->
         \/ \E k \in NilAsks(n) : ~ WalkEnds(n, cache[k], {})
         \/ AssignsNil(n) /\ ~ WalkEnds(n, returned, {})
    [] Pass = "FunctionCallChecker" ->
         \E j \in Arguments(n) : ~ WalkEnds(n, ParameterType(n, j), {})
    [] OTHER -> FALSE

\* Whether the operands of a comparison, or the two branches of a conditional,
\* are asked about from left to right is up to the C++ compiler.
AnyOrder(n) ==
  IsBinary(n, {"comparison"}) \/ Pass = "StructureChecker"

Ask(e) ==
  /\ Working
  /\ e \in Unasked
  /\ AnyOrder(at) \/ \A other \in Unasked : e <= other
  /\ Tf!Query(e)
  /\ UNCHANGED <<tables, checker>>

AskLValue ==
  /\ Working
  /\ Pass = "NilChecker" /\ AssignsNil(at) /\ ~ l_value_asked
  /\ Tf!QueryLValue(at)
  /\ l_value_asked' = TRUE
  /\ UNCHANGED <<tables, pass, at, loops_entered, reports>>

\* Everything the checker asks for at its node has been answered.
Answered ==
  /\ Working
  /\ Unasked = {}
  /\ Pass = "NilChecker" /\ AssignsNil(at) => l_value_asked

\* Fault: the traversal starts over.
GoOnAgain ==
  /\ l_value_asked' = FALSE
  /\ IF at < Len(prog)
     THEN at' = at + 1 /\ UNCHANGED pass
     ELSE at' = 1 /\ UNCHANGED pass

\* Fault: one node too many.
GoOnTooFar ==
  /\ l_value_asked' = FALSE
  /\ IF at <= Len(prog)
     THEN at' = at + 1 /\ UNCHANGED pass
     ELSE at' = 1 /\ pass' = pass + 1

\* On to the next node, or to the next checker.
GoOn ==
  /\ l_value_asked' = FALSE
  /\ IF at < Len(prog)
     THEN at' = at + 1 /\ UNCHANGED pass
     ELSE at' = 1 /\ pass' = pass + 1

Check(name, what) ==
  /\ Answered
  /\ Pass = name
  /\ ~ WalksForever(at)
  /\ reports' = reports \cup what
  /\ GoOn
  /\ UNCHANGED <<tables, finder>>

CheckDeclaration ==
  Check("DeclarationChecker", DeclarationReports(at)) /\ UNCHANGED loops_entered
CheckRecordField ==
  Check("RecordFieldChecker", RecordFieldReports(at)) /\ UNCHANGED loops_entered
CheckBinaryOp ==
  Check("BinaryOpChecker", BinaryOpReports(at)) /\ UNCHANGED loops_entered
CheckConditional ==
  Check("ConditionalChecker", ConditionalReports(at)) /\ UNCHANGED loops_entered
CheckNil ==
  Check("NilChecker", NilReports(at)) /\ UNCHANGED loops_entered
CheckFunctionCall ==
  Check("FunctionCallChecker", FunctionCallReports(at)) /\ UNCHANGED loops_entered
CheckStructure ==
  /\ Check("StructureChecker", StructureReports(at))
  /\ loops_entered' = LoopsEnteredAfter(at)

CheckerStep ==
  \/ \E e \in Exprs : Ask(e)
  \/ AskLValue
  \/ CheckDeclaration
  \/ CheckRecordField
  \/ CheckBinaryOp
  \/ CheckConditional
  \/ CheckNil
  \/ CheckFunctionCall
  \/ CheckStructure

Infer == Tf!Step /\ UNCHANGED checker
Build == Tf!Build /\ UNCHANGED checker

\* ListErrors has returned, walks along aliases forever, or the process is
\* gone.
Lost == IF Working THEN Answered /\ WalksForever(at) ELSE FALSE
Stop == (Done \/ crashed \/ Lost) /\ UNCHANGED vars

Init ==
  /\ Tf!Init
  /\ pass = 1 /\ at = 1
  /\ l_value_asked = FALSE
  /\ loops_entered = 0
  /\ reports = {}

Next == Build \/ Infer \/ CheckerStep \/ Stop
Spec ==
  /\ Init /\ [][Next]_vars
  /\ WF_vars(Build) /\ WF_vars(Infer) /\ WF_vars(CheckerStep)

-----------------------------------------------------------------------------
(* Properties.                                                             *)

\* Shapes: there is a node to be at, and every message is about a node.
TypeOK ==
  /\ pass \in 1 .. Len(Passes) + 1
  /\ at \in Nodes
  /\ l_value_asked \in BOOLEAN
  /\ loops_entered \in 0 .. Len(prog)
  /\ \A r \in reports : r.at \in Nodes

\* Checker name has been at node n and gone on.
Passed(name, n) ==
  \/ Done
  \/ \E i \in DOMAIN Passes : /\ Passes[i] = name
                              /\ pass > i \/ (pass = i /\ n < at)

Within(n, m) == m <= n /\ n <= prog[m].last

\* A break is reported exactly when no loop has it in its body: the counter
\* is back at zero behind the last of nested loops, and a loop's condition
\* and bounds do not count as its body (checker.h, "Break expression is
\* illegal outside loop bodies").
BreaksReported ==
  \A n \in Nodes : Kind(n) = "Break" /\ Passed("StructureChecker", n) =>
    (Report("Break must be inside a loop", n) \in reports
       <=> ~ \E b \in LoopBodies : Within(n, b))

\* Aliases of one sequence of declarations each of which stands for another
\* of them, and no fewer of them do.
Circular(l, C) ==
  \A i \in C : \E j \in C : prog[Kid(l, j)].id = AliasOf(Kid(l, i))
IsCycle(l, C) ==
  /\ C # {} /\ Circular(l, C)
  /\ \A D \in (SUBSET C) \ {{}, C} : ~ Circular(l, D)

\* In a sequence of type declarations with distinct names, exactly those that
\* stand for each other in a circle are reported, whatever leads to them and
\* whatever records and arrays there are besides (checker.h, "Mutually
\* recursive type declarations must pass through a record or array type").
CyclesReported ==
  \A l \in Nodes : Kind(l) = "Let" /\ Passed("DeclarationChecker", l) =>
    \A j \in DOMAIN prog[l].kids :
      /\ Kind(Kid(l, j)) = "TypeDeclaration"
      /\ \A i \in Group(l, j) : ~ IsDuplicate(l, i)
      => (Report("Illegal type cycle", Kid(l, j)) \in reports
            <=> \E C \in SUBSET Group(l, j) : j \in C /\ IsCycle(l, C))

\* An assignment in the body of loop f to f's variable; nothing between the
\* two declares the name.
AssignsVariableOf(n, f) ==
  /\ Kind(n) = "Assignment" /\ Within(n, LastKid(f))
  /\ Kind(Kid(n, 1)) = "Identifier" /\ prog[Kid(n, 1)].id = prog[f].id
  /\ prog[n].binder = prog[f].binder

AssignmentReported(n) ==
  Report("For loop variable may not be assigned to", n) \in reports

\* What declares name x as a variable in the binder of node n.
DeclarationsBeside(n, x) ==
  {d \in Nodes :
     /\ prog[d].id = x
     /\ \/ Kind(d) \in {"VariableDeclaration", "For"} /\ prog[d].binder = prog[n].binder
        \/ prog[n].binder # 0 /\ Kind(prog[n].binder) = "FunctionDeclaration"
           /\ \E j \in DOMAIN prog[prog[n].binder].params :
                d = prog[prog[n].binder].params[j]}

\* An assignment to a loop's variable in its body is reported, unless the Let
\* or function around the loop has another variable of the name (checker.h,
\* "For loop variable may not be assigned to").
OwnLoopVariablesKept ==
  \A f, n \in Nodes :
    Kind(f) = "For" /\ Passed("StructureChecker", n) =>
      (AssignsVariableOf(n, f) /\ DeclarationsBeside(f, prog[f].id) = {f}
         => AssignmentReported(n))

Accepted == Done /\ reports = {} /\ errors = <<>>

\* The types' names tell them apart: none is declared twice in the program, none
\* is used outside the Let that declares it, where it would name no type, or an
\* unknown one, and none is the name the type finder gives to what has no type.
TypeNamesClear ==
  /\ \A c, d \in Nodes :
       Kind(c) = "TypeDeclaration" /\ Kind(d) = "TypeDeclaration" /\ c # d =>
         prog[c].id # prog[d].id
  /\ \A n, d \in Nodes :
       Kind(d) = "TypeDeclaration" /\ prog[n].type = prog[d].id =>
         Within(n, prog[d].binder)
  /\ \A n \in Nodes : prog[n].type # "NOTYPE"

\* The type of argument j of call e, where it is a variable with a declared
\* type, is the type of the parameter: each name means what it does at its own
\* declaration.
ArgumentMatches(e, j) ==
  LET arg == Kid(e, j)
      f   == Function(e)
      v   == IF Kind(arg) = "LValue" /\ Kind(Kid(arg, 1)) = "Identifier"
             THEN lookupVariable(arg, prog[Kid(arg, 1)].id) ELSE Null
      own == prog[v].type
      parameter == ParameterType(e, j)
  IN  v # Null /\ prog[v].type # NoType =>
        IF lookupUnaliasedType(Kid(v, 1), own) = Null
        THEN Unaliased(Kid(v, 1), own) = Unaliased(Kid(f, 1), parameter)
        ELSE lookupUnaliasedType(Kid(v, 1), own) =
               lookupUnaliasedType(Kid(f, 1), parameter)

\* In a program without a message whose type names are clear, a variable handed
\* to a function is of its parameter's type, though the parameter's is looked up
\* from the call (checker.cc:230).
ArgumentsMatch ==
  Accepted /\ TypeNamesClear =>
    \A e \in Exprs : \A j \in Arguments(e) : ArgumentMatches(e, j)

\* The expressions whose value the program uses: initial values, results,
\* conditions, branches, bodies of loops, operands that are compared or
\* combined, a record's fields and the arguments of a declared function.
Values(n) ==
  CASE Kind(n) \in {"VariableDeclaration", "FunctionDeclaration", "IfThen"} -> {Kid(n, 1)}
    [] Kind(n) \in {"IfThenElse", "While", "RecordLiteral"} -> Kids(n)
    [] Kind(n) = "For" -> {LastKid(n)}
    [] IsBinary(n, {"comparison", "logical"}) -> Kids(n)
    [] Kind(n) = "FunctionCall" /\ Function(n) # Null -> Kids(n)
    [] OTHER -> {}

\* e and the expressions its type comes from.
TypeSources(e) ==
  LET asked[k \in 0 .. Len(prog)] ==
        IF k = 0 THEN {e}
        ELSE UNION {{d, Tf!AsksFor(d)} : d \in asked[k-1]} \ {Null}
  IN  asked[Len(prog)]

\* In a program without a message, what a used value takes its type from is
\* declared, however many expressions and declarations are between the two: no
\* single checker sees to that, a name that stands alone is the type finder's
\* to report when one of them asks (checker.cc:216).
UsedNamesDeclared ==
  Accepted =>
    \A e \in UNION {Values(n) : n \in Nodes} : \A d \in TypeSources(e) :
      /\ Kind(d) = "FunctionCall" => Function(d) # Null
      /\ Kind(d) = "LValue" => Tf!VariableLocation(d) # Null

\* The program has neither aliases nor initial values nor procedures that
\* lead back to themselves.
Unwinds ==
  \A e \in Exprs : ~ Tf!Endless(e) /\ \A x \in Identifiers : WalkEnds(e, x, {})

\* ListErrors returns, for every program that unwinds.
Called == IF Tf!Idle /\ pass = 1 /\ at = 1 THEN Unwinds ELSE FALSE
ListErrorsReturns == Called ~> Done

-----------------------------------------------------------------------------
(* What the documentation says and the code does not do.                   *)

\* checker.h:20: "For loop variable may not be assigned to".
LoopVariablesKept ==
  \A f, n \in Nodes :
    Kind(f) = "For" /\ Passed("StructureChecker", n) =>
      (AssignsVariableOf(n, f) => AssignmentReported(n))
=============================================================================
