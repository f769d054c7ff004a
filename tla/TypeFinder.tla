----------------------------- MODULE TypeFinder -----------------------------
(***************************************************************************)
(* TypeFinder of type_finder.cc, asked again and again about the           *)
(* expressions of one program, after its symbol table has been built.      *)
(*                                                                         *)
(* Type inference recurses over the tree and, through declarations, across *)
(* it.  The variable calls is the C++ call stack: a frame "Expr" for       *)
(* operator() and a frame "LValue" for GetLValueType.  A call beyond       *)
(* StackLimit frames is a stack overflow, and the program is gone.  The    *)
(* walk along type aliases is a loop, one step per alias.                  *)
(*                                                                         *)
(* The binary operator of an expression, and the text of an error other    *)
(* than its beginning and the name in it, are left out.                    *)
(***************************************************************************)
EXTENDS Inference, FiniteSets

CONSTANTS Programs,       \* the programs whose types are asked for
          StackLimit,     \* calls the process' stack has room for
          MaxQueries,     \* bound: calls of the type finder's clients
          Uncached        \* an expression without an entry in cache

\* The names the type finder makes up are names a program may use.
Reserved == {"int", "string", "NOTYPE"}
ASSUME NamesAssumption == Reserved \subseteq Identifiers /\ Uncached \notin Identifiers

ASSUME QueriesAssumption == MaxQueries \in Nat
ASSUME ProgramsAssumption == \A p \in Programs : IsProgram(p) /\ IsTyped(p)

\* A stack too small for the deepest tree would overflow on any program.
ASSUME StackAssumption ==
  StackLimit \in Nat /\ \A p \in Programs : Len(p) <= StackLimit

VARIABLES scope_by_let, scope_by_function, current, stack, status,
                          \* module SymbolTable
          cache,          \* Expr -> its type
          errors,         \* the error list shared with the caller
          calls,          \* the call stack
          returned,       \* what the call that just ended returned
          queries,        \* queries so far
          crashed         \* the stack has overflown

tables == <<prog, scopes, scope_by_expr, scope_by_let, scope_by_function,
            current, stack, status>>
finder == <<cache, errors, calls, returned, queries, crashed>>
vars == <<tables, finder>>

St == INSTANCE SymbolTable

-----------------------------------------------------------------------------
(* Calls and returns.                                                      *)

Top == calls[Len(calls)]

\* fn "Expr":   node is the expression; "enter", then "wait" for a callee.
\* fn "LValue": node is the l-value, parent the expression it is looked up
\*   from; "enter", then "wait", then "unalias", where type is the type of
\*   the inner l-value and decl the declaration the walk has come to.
Frame(fn, node, parent) ==
  [fn |-> fn, node |-> node, parent |-> parent, phase |-> "enter",
   type |-> "NOTYPE", decl |-> Null]

At(fn, phase) == calls # <<>> /\ ~ crashed /\ Top.fn = fn /\ Top.phase = phase

\* The top frame's call of another; it goes on in phase "wait".
CallFromTop(frame) ==
  /\ IF Len(calls) < StackLimit
     THEN /\ calls' = Append([calls EXCEPT ![Len(calls)].phase = "wait"], frame)
          /\ UNCHANGED crashed
     ELSE crashed' = TRUE /\ UNCHANGED calls
  /\ UNCHANGED <<cache, errors, returned>>

Pop == calls' = SubSeq(calls, 1, Len(calls) - 1)

\* GetLValueType returns t.
ReturnLValue(t) ==
  /\ Pop
  /\ returned' = t
  /\ UNCHANGED <<cache, errors, crashed>>

\* Fault: the error list is assigned, not appended to.
FailReplacing(what, name) ==
  /\ Pop
  /\ returned' = "NOTYPE"
  /\ errors' = <<[what |-> what, name |-> name]>>
  /\ UNCHANGED <<cache, crashed>>

Fail(what, name) ==
  /\ Pop
  /\ returned' = "NOTYPE"
  /\ errors' = Append(errors, [what |-> what, name |-> name])
  /\ UNCHANGED <<cache, crashed>>

\* Fault: the result is returned and not stored.
ReturnUncached(e, t) ==
  /\ Pop
  /\ returned' = t
  /\ UNCHANGED <<cache, crashed>>

\* operator() stores t and returns it.
Return(e, t) ==
  /\ Pop
  /\ returned' = t
  /\ cache' = [cache EXCEPT ![e] = t]
  /\ UNCHANGED crashed

-----------------------------------------------------------------------------
(* operator()(const Expr&).                                                *)

FindCached ==
  /\ At("Expr", "enter")
  /\ cache[Top.node] # Uncached
  /\ Pop
  /\ returned' = cache[Top.node]
  /\ UNCHANGED <<cache, errors, crashed>>

Missed == At("Expr", "enter") /\ cache[Top.node] = Uncached

FindOwnType ==
  /\ Missed
  /\ Kind(Top.node) # "LValue"
  /\ Delegate(Top.node) = Null
  /\ ~ NotAFunction(Top.node)
  /\ Return(Top.node, OwnType(Top.node))
  /\ UNCHANGED errors

FunctionNotFound ==
  /\ Missed
  /\ NotAFunction(Top.node)
  /\ Return(Top.node, "NOTYPE")
  /\ errors' = Append(errors, [what |-> "Function not found",
                               name |-> prog[Top.node].id])

AskDelegate ==
  /\ Missed
  /\ Delegate(Top.node) # Null
  /\ CallFromTop(Frame("Expr", Delegate(Top.node), Null))

AskLValue ==
  /\ Missed
  /\ Kind(Top.node) = "LValue"
  /\ CallFromTop(Frame("LValue", Kid(Top.node, 1), Top.node))

\* Fault: the callee's result is dropped.
TakeNoType ==
  /\ At("Expr", "wait")
  /\ Return(Top.node, OwnType(Top.node))
  /\ UNCHANGED errors

TakeDelegateType ==
  /\ At("Expr", "wait")
  /\ Return(Top.node, returned)
  /\ UNCHANGED errors

-----------------------------------------------------------------------------
(* GetLValueType.                                                          *)

Location == lookupStorageLocation(Top.parent, prog[Top.node].id)

\* Fault: no error is recorded.
VariableNotFoundSilently ==
  /\ At("LValue", "enter")
  /\ Kind(Top.node) = "Identifier"
  /\ Location = Null
  /\ ReturnLValue("NOTYPE")

VariableNotFound ==
  /\ At("LValue", "enter")
  /\ Kind(Top.node) = "Identifier"
  /\ Location = Null
  /\ Fail("Variable not found", prog[Top.node].id)

\* Fault: the optional declared type is used without a test.
DeclaredTypeUntested ==
  /\ At("LValue", "enter")
  /\ Kind(Top.node) = "Identifier"
  /\ Location # Null
  /\ ReturnLValue(IF Kind(Location) = "For" THEN "int" ELSE prog[Location].type)

DeclaredType ==
  /\ At("LValue", "enter")
  /\ Kind(Top.node) = "Identifier"
  /\ Location # Null
  /\ \/ Kind(Location) = "For" /\ ReturnLValue("int")
     \/ /\ Kind(Location) # "For"
        /\ prog[Location].type # NoType
        /\ ReturnLValue(prog[Location].type)

AskInitialValue ==
  /\ At("LValue", "enter")
  /\ Kind(Top.node) = "Identifier"
  /\ Location # Null
  /\ Kind(Location) = "VariableDeclaration"
  /\ prog[Location].type = NoType
  /\ CallFromTop(Frame("Expr", Kid(Location, 1), Null))

TakeInitialValueType ==
  /\ At("LValue", "wait")
  /\ Kind(Top.node) = "Identifier"
  /\ ReturnLValue(returned)

\* Fault: the l-value itself is passed on, not the one inside it.
AskItself ==
  /\ At("LValue", "enter")
  /\ Kind(Top.node) # "Identifier"
  /\ CallFromTop(Frame("LValue", Top.node, Top.parent))

AskInner ==
  /\ At("LValue", "enter")
  /\ Kind(Top.node) # "Identifier"
  /\ CallFromTop(Frame("LValue", Kid(Top.node, 1), Top.parent))

\* lookupUnaliasedType starts with the declaration of the inner type...
StartUnalias ==
  /\ At("LValue", "wait")
  /\ Kind(Top.node) # "Identifier"
  /\ calls' = [calls EXCEPT ![Len(calls)] =
                 [@ EXCEPT !.phase = "unalias", !.type = returned,
                           !.decl = lookupType(Top.parent, returned)]]
  /\ UNCHANGED <<cache, errors, returned, crashed>>

IsAlias == Top.decl # Null /\ AliasOf(Top.decl) # NoType

\* Fault: the loop looks the first name up again.
FollowAliasOfFirst ==
  /\ At("LValue", "unalias")
  /\ IsAlias
  /\ calls' = [calls EXCEPT ![Len(calls)].decl =
                 lookupType(Top.parent, Top.type)]
  /\ UNCHANGED <<cache, errors, returned, crashed>>

\* ... and goes on as long as that is an alias.
FollowAlias ==
  /\ At("LValue", "unalias")
  /\ IsAlias
  /\ calls' = [calls EXCEPT ![Len(calls)].decl =
                 lookupType(Top.parent, AliasOf(Top.decl))]
  /\ UNCHANGED <<cache, errors, returned, crashed>>

TypeNotFound ==
  /\ At("LValue", "unalias")
  /\ Top.decl = Null
  /\ Fail("Type not found", Top.type)

Unaliased(form) ==
  /\ Top.decl # Null
  /\ ~ IsAlias
  /\ prog[Top.decl].form = form

SelectField ==
  /\ At("LValue", "unalias")
  /\ Kind(Top.node) = "RecordField"
  /\ \/ /\ Unaliased("array")
        /\ Fail("Record type expected", Top.type)
     \/ /\ Unaliased("record")
        /\ LET field == FieldNamed(Top.decl, prog[Top.node].id) IN
           IF field = Null
           THEN Fail("Record field not found", prog[Top.node].id)
           ELSE ReturnLValue(prog[field].type)

\* Fault: an element has the type of its array.
SelectElementAsArray ==
  /\ At("LValue", "unalias")
  /\ Kind(Top.node) = "ArrayElement"
  /\ \/ /\ Unaliased("record")
        /\ Fail("Array type expected", Top.type)
     \/ /\ Unaliased("array")
        /\ ReturnLValue(Top.type)

SelectElement ==
  /\ At("LValue", "unalias")
  /\ Kind(Top.node) = "ArrayElement"
  /\ \/ /\ Unaliased("record")
        /\ Fail("Array type expected", Top.type)
     \/ /\ Unaliased("array")
        /\ ReturnLValue(prog[Top.decl].type)

-----------------------------------------------------------------------------
(* The clients: checker.cc and java_source.cc.                             *)

Idle == St!Built /\ calls = <<>> /\ ~ crashed

Query(e) ==
  /\ Idle
  /\ queries < MaxQueries
  /\ queries' = queries + 1
  /\ calls' = <<Frame("Expr", e, Null)>>
  /\ UNCHANGED <<cache, errors, returned, crashed>>

\* NilChecker asks for the type of an assignment's l-value.
QueryLValue(e) ==
  /\ Idle
  /\ queries < MaxQueries
  /\ Kind(e) = "Assignment"
  /\ queries' = queries + 1
  /\ calls' = <<Frame("LValue", Kid(e, 1), e)>>
  /\ UNCHANGED <<cache, errors, returned, crashed>>

ExprStep ==
  \/ FindCached
  \/ FindOwnType
  \/ FunctionNotFound
  \/ AskDelegate
  \/ AskLValue
  \/ TakeDelegateType

LValueStep ==
  \/ VariableNotFound
  \/ DeclaredType
  \/ AskInitialValue
  \/ TakeInitialValueType
  \/ AskInner
  \/ StartUnalias
  \/ FollowAlias
  \/ TypeNotFound
  \/ SelectField
  \/ SelectElement

Step == (ExprStep \/ LValueStep) /\ UNCHANGED <<tables, queries>>
Build == St!BuildStep /\ UNCHANGED finder
Ask == (\E e \in Exprs : Query(e) \/ QueryLValue(e)) /\ UNCHANGED tables

\* The client asks no more, or the process is gone.
Stop ==
  /\ crashed \/ (Idle /\ queries = MaxQueries)
  /\ UNCHANGED vars

Init ==
  /\ St!Init
  /\ cache = [e \in Nodes |-> Uncached]
  /\ errors = <<>>
  /\ calls = <<>>
  /\ returned = "NOTYPE"
  /\ queries = 0
  /\ crashed = FALSE

Next == Build \/ Ask \/ Step \/ Stop
Spec == Init /\ [][Next]_vars /\ WF_vars(Build) /\ WF_vars(Step)

-----------------------------------------------------------------------------
(* Properties.                                                             *)

\* Shapes: types are names, frames are about nodes of the right sort.
TypeOK ==
  /\ cache \in [Nodes -> Identifiers \cup {Uncached}]
  /\ \A e \in Nodes \ Exprs : cache[e] = Uncached
  /\ \A i \in DOMAIN errors : errors[i].name \in Identifiers
  /\ \A i \in DOMAIN calls :
       /\ calls[i].fn = "Expr" => calls[i].node \in Exprs
       /\ calls[i].fn = "LValue" =>
            /\ Kind(calls[i].node) \in LValueKinds
            /\ calls[i].parent \in Exprs
       /\ calls[i].type \in Identifiers
       /\ calls[i].decl = Null \/ Kind(calls[i].decl) = "TypeDeclaration"
  /\ Len(calls) <= StackLimit
  /\ returned \in Identifiers
  /\ queries \in 0 .. MaxQueries
  /\ crashed \in BOOLEAN

\* However queries have interleaved with each other's recursion, the cache
\* holds the types the inference rules give: an expression has the type of
\* its delegate, of its variable's initial value, or its own.
CacheAgrees ==
  \A e \in Exprs : cache[e] # Uncached =>
    IF Delegate(e) # Null THEN cache[e] = cache[Delegate(e)]
    ELSE /\ Kind(e) # "LValue" => cache[e] = OwnType(e)
         /\ Kind(e) = "LValue" /\ Kind(Kid(e, 1)) = "Identifier" =>
              LET d == lookupStorageLocation(e, prog[Kid(e, 1)].id) IN
              cache[e] = IF d = Null THEN "NOTYPE"
                         ELSE IF Kind(d) = "For" THEN "int"
                         ELSE IF prog[d].type # NoType THEN prog[d].type
                         ELSE cache[Kid(d, 1)]

\* Whatever was asked before and found in the cache on the way, an answer is
\* the one the rules give to the expression alone, field by field and element
\* by element (GetLValueType), and no question has one that the rules leave
\* without.
AnswersInferred ==
  \A e \in Exprs : cache[e] # Uncached => Answer(e) = {cache[e]}

\* An answer once given is given again, and no error is ever taken back
\* (type_finder.h:7-9).
AnswersStand ==
  [][ /\ \A e \in Nodes : cache[e] # Uncached => cache'[e] = cache[e]
      /\ Len(errors) <= Len(errors')
      /\ \A i \in DOMAIN errors : errors'[i] = errors[i] ]_vars

Reported(what, x) == [what |-> what, name |-> x]
IsReported(what, x) == \E i \in DOMAIN errors : errors[i] = Reported(what, x)
CountOf(error) == Cardinality({i \in DOMAIN errors : errors[i] = error})

\* An unknown function is reported once for every call of it that a query
\* has come across, however many queries came across it: the cache is what
\* keeps a second query from reporting it again.
CallsReportedOnce ==
  \A x \in Identifiers :
    CountOf(Reported("Function not found", x)) =
      Cardinality({e \in Exprs : /\ cache[e] # Uncached
                                 /\ NotAFunction(e) /\ prog[e].id = x})

\* An expression without a type has an error to show for it, its own or that
\* of the expression its type comes from, unless it is one that has no value or
\* the program itself uses the name (type_finder.h:20, "NOTYPE" in case of
\* errors).
NotypeExplained ==
  (\A n \in Nodes : prog[n].type # "NOTYPE") =>
  \A e \in Exprs : cache[e] = "NOTYPE" /\ Kind(e) \in {"LValue", "FunctionCall"} =>
    \/ AsksFor(e) # Null /\ cache[AsksFor(e)] = "NOTYPE"
    \/ /\ NotAFunction(e)
       /\ IsReported("Function not found", prog[e].id)
    \/ /\ Kind(e) = "LValue" /\ VariableLocation(e) = Null
       /\ Kind(Kid(e, 1)) = "Identifier"
       /\ IsReported("Variable not found", prog[Kid(e, 1)].id)
    \/ /\ Kind(e) = "LValue" /\ Kind(Kid(e, 1)) # "Identifier"
       /\ \E i \in DOMAIN errors :
            errors[i].what \in {"Type not found", "Record type expected",
                               "Record field not found", "Array type expected"}

\* The stack is big enough for every query but those that ask for their own
\* answer: recursion alone never overflows it.
OverflowOnlyOnCycle ==
  crashed => \E i \in DOMAIN calls :
               calls[i].fn = "Expr" /\ Endless(calls[i].node)

\* The declaration an alias walk is at leads back to itself.
InAliasCycle ==
  IF At("LValue", "unalias")
  THEN LET walk[k \in 0 .. Len(prog)] ==
             IF k = 0 THEN Top.decl
             ELSE LET last == walk[k-1] IN
                  IF last = Null \/ AliasOf(last) = NoType THEN Null
                  ELSE lookupType(Top.parent, AliasOf(last))
       IN  walk[Len(prog)] # Null
  ELSE FALSE

\* Every query is answered, or it overflows the stack, or it walks in a cycle
\* of aliases: there is no other way to be stuck.
QueriesReturn ==
  calls # <<>> ~> (calls = <<>> \/ crashed \/ InAliasCycle)

-----------------------------------------------------------------------------
(* What the header says and the code does not do.                          *)

\* type_finder.h:20: operator() "returns the type-id of the given expression,
\* or "NOTYPE" in case of errors".
NeverOverflows == ~ crashed

\* symbol_table.h:62-65: lookupUnaliasedType "unwinds aliases until a Record,
\* Array, or Builtin type is found".
Unaliasing == IF calls = <<>> THEN FALSE ELSE At("LValue", "unalias")
AliasWalksEnd == Unaliasing ~> ~ Unaliasing
=============================================================================
