---------------------------- MODULE SymbolTable ----------------------------
(***************************************************************************)
(* SymbolTable::Build of symbol_table.cc.                                  *)
(*                                                                         *)
(* StBuilder is a recursive visitor.  Its C++ call stack is the variable   *)
(* stack: a frame per node whose VisitChildren is running, holding the     *)
(* node, the index of the child it hands over next, and the local variable *)
(* prev of the handlers that have one.  A step is the part of a handler    *)
(* before VisitChildren (Visit...), or the part after it (Leave...).       *)
(***************************************************************************)
EXTENDS Lookups

CONSTANT Programs             \* the trees Build may be called on

ASSUME ProgramsAssumption == \A p \in Programs : IsProgram(p)

VARIABLES scope_by_let,
          scope_by_function,
          current,
          stack,
          status              \* "unvisited", "visiting" or "built"

vars == <<prog, scopes, scope_by_expr, scope_by_let, scope_by_function,
          current, stack, status>>

-----------------------------------------------------------------------------
(* Scopes.                                                                 *)

NoNames == [x \in Identifiers |-> Null]

\* The node among S that comes last in the program: the one that is left
\* when they are stored into one map entry in order.
LastOf(S) ==
  IF \E n \in S : \A m \in S : m <= n
  THEN CHOOSE n \in S : \A m \in S : m <= n
  ELSE Null

Named(S, kind) ==
  [x \in Identifiers |-> LastOf({n \in S : Kind(n) = kind /\ prog[n].id = x})]

RangeOf(s) == {s[i] : i \in DOMAIN s}

EmptyScope(parent) ==
  [parent |-> parent, function |-> NoNames, storage |-> NoNames,
   type |-> NoNames]

\* The first pass over a Let's declarations: all of them, variables too.
LetScope(n) ==
  LET declaration == RangeOf(prog[n].kids) IN
  [parent   |-> current,
   function |-> Named(declaration, "FunctionDeclaration"),
   storage  |-> Named(declaration, "VariableDeclaration"),
   type     |-> Named(declaration, "TypeDeclaration")]

\* Fault: the parameters are not stored.
FunctionScopeWithoutParameters(n) == EmptyScope(current)

FunctionScope(n) ==
  [EmptyScope(current) EXCEPT
     !.storage = Named(RangeOf(prog[n].params), "TypeField")]

-----------------------------------------------------------------------------
(* The traversal.                                                          *)

Top == stack[Len(stack)]
HasNext(f) == f.next \in DOMAIN prog[f.node].kids

\* n is the node handed to the visitor next; Build hands over the root.
Visited(n) ==
  \/ status = "unvisited" /\ n = 1
  \/ /\ stack # <<>>
     /\ HasNext(Top)
     /\ n = prog[Top.node].kids[Top.next]

Frame(n) == [node |-> n, next |-> 1, prev |-> current]

\* VisitChildren(n) starts; the caller's own VisitChildren moves on.
Enter(n) ==
  /\ stack' = Append(IF stack = <<>> THEN stack
                     ELSE [stack EXCEPT ![Len(stack)].next = @ + 1], Frame(n))
  /\ status' = "visiting"
  /\ UNCHANGED prog

\* Fault: an expression gets the newest scope, not the current one.
RecordNewestScope(n) ==
  scope_by_expr' = IF IsExpr(n) /\ status = "visiting"
                   THEN [scope_by_expr EXCEPT ![n] = Len(scopes)]
                   ELSE scope_by_expr

\* operator()(const Expr&).  Build passes the root's alternative straight to
\* std::visit, so this handler never sees the root.
RecordScope(n) ==
  scope_by_expr' = IF IsExpr(n) /\ status = "visiting"
                   THEN [scope_by_expr EXCEPT ![n] = current]
                   ELSE scope_by_expr

\* Fault: the index of the new scope is taken after the vector has grown.
OpenOneTooFar(scope) ==
  /\ scopes' = Append(scopes, scope)
  /\ current' = Len(scopes') + 1

Open(scope) ==
  /\ scopes' = Append(scopes, scope)
  /\ current' = Len(scopes) + 1

StoreVariable(n) ==
  scopes' = [scopes EXCEPT ![current].storage[prog[n].id] = n]

VisitLet(n) ==
  /\ Kind(n) = "Let"
  /\ RecordScope(n)
  /\ Open(LetScope(n))
  /\ scope_by_let' = [scope_by_let EXCEPT ![n] = current']
  /\ Enter(n)
  /\ UNCHANGED scope_by_function

VisitFunctionDeclaration(n) ==
  /\ Kind(n) = "FunctionDeclaration"
  /\ scopes' = Append([scopes EXCEPT ![current].function[prog[n].id] = n],
                      FunctionScope(n))
  /\ current' = Len(scopes) + 1
  /\ scope_by_function' = [scope_by_function EXCEPT ![n] = current']
  /\ Enter(n)
  /\ UNCHANGED <<scope_by_expr, scope_by_let>>

VisitVariableDeclaration(n) ==
  /\ Kind(n) = "VariableDeclaration"
  /\ StoreVariable(n)
  /\ Enter(n)
  /\ UNCHANGED <<scope_by_expr, scope_by_let, scope_by_function, current>>

VisitTypeDeclaration(n) ==
  /\ Kind(n) = "TypeDeclaration"
  /\ scopes' = [scopes EXCEPT ![current].type[prog[n].id] = n]
  /\ Enter(n)
  /\ UNCHANGED <<scope_by_expr, scope_by_let, scope_by_function, current>>

\* Fault: a handler for For that takes the place of the one for Expr.
VisitForUnmapped(n) ==
  /\ Kind(n) = "For"
  /\ StoreVariable(n)
  /\ Enter(n)
  /\ UNCHANGED <<scope_by_expr, scope_by_let, scope_by_function, current>>

\* The loop variable goes to the scope the loop is in, there is none of its
\* own.
VisitFor(n) ==
  /\ Kind(n) = "For"
  /\ RecordScope(n)
  /\ StoreVariable(n)
  /\ Enter(n)
  /\ UNCHANGED <<scope_by_let, scope_by_function, current>>

\* The catch-all operator()(const T&).
VisitOther(n) ==
  /\ Kind(n) \notin {"Let", "For"} \cup DeclarationKinds
  /\ RecordScope(n)
  /\ Enter(n)
  /\ UNCHANGED <<scopes, scope_by_let, scope_by_function, current>>

Visit(n) ==
  /\ Visited(n)
  /\ \/ VisitLet(n)
     \/ VisitFunctionDeclaration(n)
     \/ VisitVariableDeclaration(n)
     \/ VisitTypeDeclaration(n)
     \/ VisitFor(n)
     \/ VisitOther(n)

Return ==
  /\ stack # <<>>
  /\ ~ HasNext(Top)
  /\ stack' = SubSeq(stack, 1, Len(stack) - 1)
  /\ status' = IF Len(stack) = 1 THEN "built" ELSE status
  /\ UNCHANGED <<prog, scopes, scope_by_expr, scope_by_let, scope_by_function>>

\* Fault: the handler returns without current = prev.
LeaveScopeOpen ==
  /\ Return
  /\ Opens(prog, Top.node)
  /\ UNCHANGED current

LeaveScope ==
  /\ Return
  /\ Opens(prog, Top.node)
  /\ current' = Top.prev

\* Fault: a loop takes its variable out of the shared scope when it ends.
LeaveForErasing ==
  /\ stack # <<>>
  /\ ~ HasNext(Top)
  /\ ~ Opens(prog, Top.node)
  /\ stack' = SubSeq(stack, 1, Len(stack) - 1)
  /\ status' = IF Len(stack) = 1 THEN "built" ELSE status
  /\ scopes' = IF Kind(Top.node) = "For"
               THEN [scopes EXCEPT ![current].storage[prog[Top.node].id] = Null]
               ELSE scopes
  /\ UNCHANGED <<prog, scope_by_expr, scope_by_let, scope_by_function, current>>

LeaveOther ==
  /\ Return
  /\ ~ Opens(prog, Top.node)
  /\ UNCHANGED current

BuildStep == LeaveScope \/ LeaveOther \/ \E n \in Nodes : Visit(n)
Built == status = "built"
Terminating == stack = <<>> /\ status # "unvisited" /\ UNCHANGED vars

Init ==
  /\ prog \in Programs
  /\ scopes = <<EmptyScope(NoScope)>>
  /\ scope_by_expr = [n \in Nodes |-> NoScope]
  /\ scope_by_let = [n \in Nodes |-> NoScope]
  /\ scope_by_function = [n \in Nodes |-> NoScope]
  /\ current = 1
  /\ stack = <<>>
  /\ status = "unvisited"

Next == BuildStep \/ Terminating
Spec == Init /\ [][Next]_vars /\ WF_vars(BuildStep)

-----------------------------------------------------------------------------
(* Properties.                                                             *)

Binder(n) == prog[n].binder

\* The scope a Let or function declaration opened, the first scope when b is
\* 0: what is declared directly under b belongs there.
ScopeOpenedBy(b) ==
  IF b = 0 THEN 1
  ELSE IF Kind(b) = "Let" THEN scope_by_let[b] ELSE scope_by_function[b]

\* Every variable keeps its shape, and the stack holds nodes under visit.
ScopeNumbers == 0 .. Len(scopes)
NameMap == [Identifiers -> 0 .. Len(prog)]
ScopeRecord ==
  [parent : Nat, function : NameMap, storage : NameMap, type : NameMap]
StackFrame == [node : Nodes, next : Nat \ {0}, prev : DOMAIN scopes]
TypeOK ==
  /\ scopes \in Seq(ScopeRecord)
  /\ current \in DOMAIN scopes
  /\ scope_by_expr \in [Nodes -> ScopeNumbers]
  /\ scope_by_let \in [Nodes -> ScopeNumbers]
  /\ scope_by_function \in [Nodes -> ScopeNumbers]
  /\ stack \in Seq(StackFrame)
  /\ status \in {"unvisited", "visiting", "built"}

\* The parent chain of every scope ends: a scope is older than its children,
\* so no lookup loops (the for loops of class St).
ParentsAreOlder ==
  \A s \in DOMAIN scopes : scopes[s].parent < s

\* Whatever is entered and left in between, current is the scope of the
\* innermost Let or function whose handler is running, and the first scope
\* again when Build returns (the current = prev of the two handlers).
CurrentIsInnermost ==
  current = IF stack = <<>> THEN 1
            ELSE IF Opens(prog, Top.node) THEN ScopeOpenedBy(Top.node)
            ELSE ScopeOpenedBy(Binder(Top.node))

\* An expression is mapped to the scope of the Let or function it is written
\* in, and scopes are nested as their Lets and functions are.
ScopesAreLexical ==
  /\ \A e \in Exprs : scope_by_expr[e] # NoScope =>
       scope_by_expr[e] = ScopeOpenedBy(Binder(e))
  /\ \A b \in Nodes : (Opens(prog, b) /\ ScopeOpenedBy(b) # NoScope) =>
       scopes[ScopeOpenedBy(b)].parent = ScopeOpenedBy(Binder(b))

\* Build forgets nothing: every Expr but the root, every Let and every
\* function has its scope, and no scope is shared or left over.
TableIsComplete ==
  Built =>
    /\ \A e \in Exprs \ {1} : scope_by_expr[e] # NoScope
    /\ scope_by_expr[1] = NoScope
    /\ LET binders == {b \in Nodes : Opens(prog, b)} IN
       /\ {ScopeOpenedBy(b) : b \in binders} = 2 .. Len(scopes)
       /\ \A a, b \in binders : ScopeOpenedBy(a) = ScopeOpenedBy(b) => a = b

\* What is declared directly under a binder, by map.
FunctionsOf(b, x) ==
  {n \in Nodes : /\ Kind(n) = "FunctionDeclaration"
                 /\ Binder(n) = b /\ prog[n].id = x}
TypesOf(b, x) ==
  {n \in Nodes : /\ Kind(n) = "TypeDeclaration"
                 /\ Binder(n) = b /\ prog[n].id = x}
StorageOf(b, x) ==
  {n \in Nodes : /\ prog[n].id = x
                 /\ \/ Kind(n) \in {"VariableDeclaration", "For"}
                       /\ Binder(n) = b
                    \/ /\ b # 0
                       /\ Kind(b) = "FunctionDeclaration"
                       /\ n \in RangeOf(prog[b].params)}

\* The last declaration under the innermost binder around n that has one.
Innermost(n, DeclaredIn(_)) ==
  LET search[b \in 0 .. Len(prog)] ==
        IF DeclaredIn(b) # {} THEN LastOf(DeclaredIn(b))
        ELSE IF b = 0 THEN Null ELSE search[Binder(b)]
  IN  search[Binder(n)]

\* The maps, written in visiting order with a hoisting pass before, give the
\* static scoping rule: a name means the last declaration of the innermost
\* Let or function that declares it, wherever in that Let the use is.  A For
\* counts as a declaration of the Let or function it is written in.
LookupsAreLexical ==
  Built =>
    \A e \in Exprs \ {1}, x \in Identifiers :
      /\ lookupFunction(e, x) = Innermost(e, LAMBDA b : FunctionsOf(b, x))
      /\ lookupType(e, x) = Innermost(e, LAMBDA b : TypesOf(b, x))
      /\ lookupStorageLocation(e, x) =
           Innermost(e, LAMBDA b : StorageOf(b, x))

\* What the table says is never revised: a scope or an expression's scope
\* once recorded stays, scopes keep their parent, and a name in a scope may
\* be redefined by a later declaration but never disappears.
TablesOnlyGrow ==
  [][ /\ \A n \in Nodes :
           /\ scope_by_expr[n] # NoScope =>
                scope_by_expr'[n] = scope_by_expr[n]
           /\ scope_by_let[n] # NoScope => scope_by_let'[n] = scope_by_let[n]
           /\ scope_by_function[n] # NoScope =>
                scope_by_function'[n] = scope_by_function[n]
      /\ \A s \in DOMAIN scopes :
           /\ s \in DOMAIN scopes'
           /\ scopes'[s].parent = scopes[s].parent
           /\ \A x \in Identifiers :
                /\ scopes[s].function[x] # Null =>
                     scopes'[s].function[x] # Null
                /\ scopes[s].type[x] # Null => scopes'[s].type[x] # Null
                /\ scopes[s].storage[x] # Null =>
                     scopes'[s].storage[x] # Null ]_vars

-----------------------------------------------------------------------------
(* What the headers say of scopes and the table does not do.               *)

\* checker.h:29-32: "there is no forward reference to variables": no
\* expression up to the end of its declaration finds a variable.
NoForwardReference ==
  Built =>
    \A e \in Exprs \ {1}, x \in Identifiers :
      LET d == lookupVariable(e, x) IN d # Null => prog[d].last < e
=============================================================================
