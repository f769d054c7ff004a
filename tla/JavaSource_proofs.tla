------------------------- MODULE JavaSource_proofs -------------------------
(***************************************************************************)
(* Proofs about module JavaSource, for every set of trees.                 *)
(*                                                                         *)
(* Part one carries over the invariant of the symbol table, and says what  *)
(* a built table tells a compiler.  Part two is about the tree, part three *)
(* about the walks along the parents of scopes.  Then come the inductive   *)
(* invariant, CompileInv, what each action does to it, and the theorems    *)
(* that follow from it.  The last parts are about methods.  Their          *)
(* invariant, CallsInv, on top of CompileInv, says that every function a   *)
(* printed call may meet has been printed, is being printed, or is still   *)
(* to come in a Let that is open, and that a method's text begins with its *)
(* first parameter.                                                        *)
(***************************************************************************)
EXTENDS JavaSource, FiniteSetTheorems, TLAPS

Table == INSTANCE LookupsLexical_proofs

-----------------------------------------------------------------------------
(* The symbol table.                                                       *)

LEMMA TreesOnly == \A p \in Programs : Table!IsProgram(p)
<1>1. \A p : IsTree(p) <=> Table!IsTree(p)
  BY Zenon DEF IsTree, NodesOf, Opens, ParamsOf, Below, Table!IsTree,
               Table!NodesOf, Table!Opens, Table!ParamsOf, Table!Below
<1>3. \A p : IsShaped(p) <=> Table!IsShaped(p)
  BY Zenon DEF IsShaped, NodesOf, ParamsOf, Vectors, ExprKinds, DeclarationKinds,
               LValueKinds, Children, Childless, Table!IsShaped, Table!NodesOf,
               Table!ParamsOf, Table!Vectors, Table!ExprKinds,
               Table!DeclarationKinds, Table!LValueKinds, Table!Children,
               Table!Childless
<1>4. \A p : Node(p) = Table!Node(p)
  BY Zenon DEF Node, NodesOf, NodeKinds, ExprKinds, LValueKinds, DeclarationKinds, Forms,
               Table!Node, Table!NodesOf, Table!NodeKinds, Table!ExprKinds,
               Table!LValueKinds, Table!DeclarationKinds, Table!Forms
<1> QED BY <1>1, <1>3, <1>4, ProgramsAssumption, Zenon
        DEF IsProgram, ExprKinds, Table!IsProgram, Table!ExprKinds

LEMMA SameInit == St!Init <=> Table!Init
BY DEF St!Init, St!EmptyScope, St!NoNames, St!Nodes, St!NodesOf, St!NoScope, St!Null,
       Table!Init, Table!EmptyScope, Table!NoNames, Table!Nodes, Table!NodesOf,
       Table!NoScope, Table!Null

LEMMA SameReturn == St!LeaveScope \/ St!LeaveOther <=> Table!LeaveScope \/ Table!LeaveOther
BY DEF St!LeaveScope, St!LeaveOther, St!Return, St!HasNext, St!Top, St!Opens,
       Table!LeaveScope, Table!LeaveOther, Table!Return, Table!HasNext, Table!Top,
       Table!Opens

LEMMA SameScopes ==
  ASSUME NEW n
  PROVE  St!LetScope(n) = Table!LetScope(n) /\ St!FunctionScope(n) = Table!FunctionScope(n)
BY Zenon DEF St!LetScope, St!FunctionScope, St!EmptyScope, St!NoNames, St!Named, St!LastOf,
       St!RangeOf, St!Kind, St!Null, Table!LetScope, Table!FunctionScope,
       Table!EmptyScope, Table!NoNames, Table!Named, Table!LastOf, Table!RangeOf,
       Table!Kind, Table!Null

LEMMA SameEnter ==
  ASSUME NEW n
  PROVE  /\ St!Enter(n) <=> Table!Enter(n)
         /\ St!RecordScope(n) <=> Table!RecordScope(n)
         /\ St!StoreVariable(n) <=> Table!StoreVariable(n)
         /\ St!Visited(n) <=> Table!Visited(n)
BY Zenon DEF St!Enter, St!Frame, St!RecordScope, St!IsExpr, St!Kind, St!ExprKinds,
       St!StoreVariable, St!Visited, St!HasNext, St!Top, Table!Enter, Table!Frame,
       Table!RecordScope, Table!IsExpr, Table!Kind, Table!ExprKinds,
       Table!StoreVariable, Table!Visited, Table!HasNext, Table!Top

LEMMA SameVisit == ASSUME NEW n PROVE St!Visit(n) <=> Table!Visit(n)
BY SameScopes, SameEnter, Zenon
   DEF St!Visit, St!VisitLet, St!VisitFunctionDeclaration, St!VisitVariableDeclaration,
       St!VisitTypeDeclaration, St!VisitFor, St!VisitOther, St!Kind, St!Open,
       St!DeclarationKinds, Table!Visit, Table!VisitLet,
       Table!VisitFunctionDeclaration, Table!VisitVariableDeclaration,
       Table!VisitTypeDeclaration, Table!VisitFor, Table!VisitOther, Table!Kind,
       Table!Open, Table!DeclarationKinds

LEMMA TableInit == St!Init => Table!LookupInv
BY SameInit, TreesOnly, Table!InitLookup, Zenon

LEMMA TableStep == Table!LookupInv /\ St!BuildStep => Table!LookupInv'
<1>1. St!BuildStep <=> Table!BuildStep
  BY SameReturn, SameVisit, Zenon
     DEF St!BuildStep, Table!BuildStep, St!Nodes, Table!Nodes, St!NodesOf, Table!NodesOf
<1> QED BY <1>1, TreesOnly, Table!StepLookup, Zenon DEF Table!Next

LEMMA TableStays == Table!LookupInv /\ UNCHANGED tables => Table!LookupInv'
BY TreesOnly, Table!StepLookup, Zenon DEF tables, Table!vars

LEMMA BuildEnds == Table!LookupInv /\ St!BuildStep => ~ St!Built
<1> SUFFICES ASSUME Table!LookupInv, St!BuildStep PROVE ~ St!Built
  OBVIOUS
<1>1. stack # <<>> \/ status = "unvisited"
  BY DEF St!BuildStep, St!LeaveScope, St!LeaveOther, St!Return, St!Visit, St!Visited
<1>2. Table!NextIsUnvisited
  BY DEF Table!LookupInv, Table!CompleteInv, Table!LexicalInv
<1>3. status = "built" => stack = <<>>
  BY <1>2 DEF Table!NextIsUnvisited
<1> QED BY <1>1, <1>3 DEF St!Built

\* Lets and functions, and the scopes they have when the table is built.
Openers == {b \in Nodes : Opener(b)}

LEMMA SameNames ==
  /\ Nodes = Table!Nodes /\ Exprs = Table!Exprs /\ Openers = Table!Binders
  /\ \A b : ScopeOpenedBy(b) = Table!ScopeOpenedBy(b) /\ Binder(b) = Table!Binder(b)
  /\ St!Built <=> Table!Built
<1>1. Nodes = Table!Nodes /\ ExprKinds = Table!ExprKinds
  BY Zenon DEF Nodes, NodesOf, ExprKinds, Table!Nodes, Table!NodesOf, Table!ExprKinds
<1> QED BY <1>1, Zenon
        DEF Exprs, IsExpr, Kind, Openers, Opener, ScopeOpenedBy, Binder, St!Built,
            Table!Exprs, Table!IsExpr, Table!Kind, Table!Binders, Table!Opens,
            Table!ScopeOpenedBy, Table!Binder, Table!Built

LEMMA ScopesTyped ==
  ASSUME Table!LookupInv
  PROVE  /\ prog \in Programs
         /\ Len(scopes) \in Nat /\ Len(scopes) >= 1 /\ DOMAIN scopes = 1 .. Len(scopes)
         /\ \A s \in DOMAIN scopes : scopes[s].parent \in 0 .. Len(scopes)
         /\ \A s \in DOMAIN scopes : scopes[s].parent < s
<1>1. /\ prog \in Programs /\ scopes \in Seq(Table!ScopeRecord) /\ Len(scopes) \in Nat
      /\ DOMAIN scopes = 1 .. Len(scopes) /\ current \in 1 .. Len(scopes)
  BY TreesOnly, Table!TablesTyping
     DEF Table!LookupInv, Table!CompleteInv, Table!LexicalInv
<1>2. \A s \in DOMAIN scopes : scopes[s] \in Table!ScopeRecord
  BY <1>1
<1>3. \A s \in DOMAIN scopes : scopes[s].parent \in Nat /\ scopes[s].parent < s
  BY <1>2 DEF Table!ScopeRecord, Table!LookupInv, Table!ParentsAreOlder
<1> QED BY <1>1, <1>3

LEMMA BuiltScopes ==
  ASSUME Table!LookupInv, St!Built
  PROVE  /\ \A b \in Openers \cup {0} : ScopeOpenedBy(b) \in DOMAIN scopes
         /\ \A b \in Openers : scopes[ScopeOpenedBy(b)].parent = ScopeOpenedBy(Binder(b))
         /\ \A b \in Openers : Binder(b) \in Openers \cup {0}
         /\ \A a, b \in Openers \cup {0} : ScopeOpenedBy(a) = ScopeOpenedBy(b) => a = b
         /\ \A s \in DOMAIN scopes : \E b \in Openers \cup {0} : s = ScopeOpenedBy(b)
         /\ \A e \in Exprs \ {1} : /\ Binder(e) \in Openers \cup {0}
                                   /\ scope_by_expr[e] = ScopeOpenedBy(Binder(e))
<1>1. Table!TableIsComplete /\ Table!Built
  BY SameNames, TreesOnly, Table!CompleteTable DEF Table!LookupInv
<1>2. /\ \A b \in Openers : ScopeOpenedBy(b) \in 2 .. Len(scopes)
      /\ \A a, b \in Openers : ScopeOpenedBy(a) = ScopeOpenedBy(b) => a = b
  <2>1. Openers = {b \in Table!Nodes : Table!Opens(prog, b)}
    BY SameNames, Zenon DEF Table!Binders
  <2>2. /\ {Table!ScopeOpenedBy(b) : b \in Openers} = 2 .. Len(scopes)
        /\ \A a, b \in Openers :
             Table!ScopeOpenedBy(a) = Table!ScopeOpenedBy(b) => a = b
    BY <1>1, <2>1, Zenon DEF Table!TableIsComplete
  <2> QED BY <2>2, SameNames
<1>3. ScopeOpenedBy(0) = 1 /\ 0 \notin Openers
  BY DEF ScopeOpenedBy, Openers, Nodes, NodesOf
<1>4. \A b \in Openers : scopes[ScopeOpenedBy(b)].parent = ScopeOpenedBy(Binder(b))
  <2>1. Table!ScopesAreLexical
    BY DEF Table!LookupInv, Table!CompleteInv, Table!LexicalInv
  <2> SUFFICES ASSUME NEW b \in Openers
               PROVE  scopes[ScopeOpenedBy(b)].parent = ScopeOpenedBy(Binder(b))
    OBVIOUS
  <2>2. b \in Table!Nodes /\ Table!Opens(prog, b)
    BY SameNames DEF Table!Binders
  <2>3. Table!ScopeOpenedBy(b) # Table!NoScope
    BY <1>2, SameNames, ScopesTyped DEF Table!NoScope
  <2> QED BY <2>1, <2>2, <2>3, SameNames DEF Table!ScopesAreLexical
<1>5. \A b \in Openers : Binder(b) \in Openers \cup {0}
  <2> SUFFICES ASSUME NEW b \in Openers PROVE Binder(b) \in Openers \cup {0}
    OBVIOUS
  <2>1. b \in Table!Nodes /\ ~ Table!IsParam(b) /\ prog \in Programs
    BY SameNames, ScopesTyped DEF Openers, Opener, Kind, Table!IsParam, Table!Kind
  <2> QED BY <2>1, TreesOnly, SameNames, Table!BinderFacts
<1>6. \A e \in Exprs \ {1} : /\ Binder(e) \in Openers \cup {0}
                             /\ scope_by_expr[e] = ScopeOpenedBy(Binder(e))
  BY TreesOnly, SameNames, Table!ExprScope
<1>7. \A s \in DOMAIN scopes : \E b \in Openers \cup {0} : s = ScopeOpenedBy(b)
  BY TreesOnly, SameNames, ScopesTyped, Table!ScopesAreBinders
<1>8. \A b \in Openers \cup {0} : ScopeOpenedBy(b) \in DOMAIN scopes
  BY <1>2, <1>3, ScopesTyped
<1>9. \A a, b \in Openers \cup {0} : ScopeOpenedBy(a) = ScopeOpenedBy(b) => a = b
  BY <1>2, <1>3, ScopesTyped
<1> QED BY <1>4, <1>5, <1>6, <1>7, <1>8, <1>9

LEMMA Lookups ==
  ASSUME Table!LookupInv, St!Built, NEW e \in Exprs, NEW x \in Identifiers
  PROVE  /\ lookupFunction(e, x) # Null =>
              /\ lookupFunction(e, x) \in Nodes
              /\ Kind(lookupFunction(e, x)) = "FunctionDeclaration"
         /\ lookupStorageLocation(e, x) # Null =>
              /\ lookupStorageLocation(e, x) \in Nodes
              /\ Kind(lookupStorageLocation(e, x))
                   \in {"VariableDeclaration", "For", "TypeField"}
<1>1. /\ lookupFunction(e, x) = Table!lookupFunction(e, x)
      /\ lookupStorageLocation(e, x) = Table!lookupStorageLocation(e, x)
  BY Zenon DEF lookupFunction, lookupStorageLocation, FirstScope,
         NoScope, Null, Table!lookupFunction, Table!lookupStorageLocation,
         Table!FirstScope, Table!NoScope, Table!Null
<1> QED BY <1>1, SameNames, TreesOnly, Table!LookupsFindDeclarations
        DEF Null, Kind, Table!Null, Table!Kind

-----------------------------------------------------------------------------
(* The tree.                                                               *)

LEMMA NodeFacts ==
  ASSUME prog \in Programs, NEW n \in Nodes
  PROVE  /\ Len(prog) \in Nat /\ Nodes = 1 .. Len(prog) /\ n # Null /\ 1 \in Nodes
         /\ prog[n].id \in Identifiers
         /\ prog[n].kids \in Seq(Nodes)
         /\ prog[n].params \in Seq(Nodes)
         /\ prog[n].binder \in 0 .. Len(prog)
         /\ Kind(n) \in NodeKinds
<1>1. prog \in Seq(Node(prog)) /\ Len(prog) > 0
  BY ProgramsAssumption DEF IsProgram
<1>2. n \in 1 .. Len(prog) /\ Nodes = 1 .. Len(prog)
  BY DEF Nodes, NodesOf
<1>3. prog[n] \in Node(prog) /\ Len(prog) \in Nat
  BY <1>1, <1>2
<1>4. /\ prog[n].kind \in NodeKinds /\ prog[n].id \in Identifiers
      /\ prog[n].kids \in Seq(NodesOf(prog)) /\ prog[n].params \in Seq(NodesOf(prog))
      /\ prog[n].binder \in 0 .. Len(prog)
  BY <1>3 DEF Node
<1> QED BY <1>1, <1>2, <1>3, <1>4 DEF Nodes, Null, Kind

LEMMA RootFacts ==
  ASSUME prog \in Programs
  PROVE  1 \in Exprs /\ Binder(1) = 0
<1>1. 1 \in Nodes
  BY ProgramsAssumption DEF IsProgram, Nodes, NodesOf
<1> QED BY <1>1, ProgramsAssumption DEF IsProgram, Exprs, IsExpr, Kind, Binder

LEMMA KidFacts ==
  ASSUME prog \in Programs, NEW n \in Nodes, NEW j \in DOMAIN prog[n].kids
  PROVE  /\ Kid(n, j) \in Nodes /\ n < Kid(n, j)
         /\ Binder(Kid(n, j)) = IF Opener(n) THEN n ELSE Binder(n)
<1>1. IsTree(prog)
  BY ProgramsAssumption DEF IsProgram
<1>2. n \in NodesOf(prog) /\ Kid(n, j) \in Nodes
  BY NodeFacts DEF Nodes, Kid
<1>3. n < Kid(n, j) /\ prog[Kid(n, j)].binder = IF Opens(prog, n) THEN n ELSE prog[n].binder
  BY <1>1, <1>2, Zenon DEF IsTree, Kid
<1> QED BY <1>2, <1>3 DEF Binder, Opens, Opener, Kind

\* What the kinds of node have for children.
LEMMA KidSorts ==
  ASSUME prog \in Programs, NEW n \in Nodes
  PROVE  /\ Kind(n) = "Assignment" =>
              /\ DOMAIN prog[n].kids = 1 .. 2
              /\ Kind(Kid(n, 1)) \in LValueKinds /\ Kind(Kid(n, 2)) \in ExprKinds
         /\ Kind(n) = "FunctionDeclaration" =>
              DOMAIN prog[n].kids = 1 .. 1 /\ Kid(n, 1) \in Exprs
         /\ \A j \in DOMAIN prog[n].kids :
              /\ Kind(Kid(n, j)) \in ExprKinds \cup LValueKinds \cup DeclarationKinds
              /\ Kind(Kid(n, j)) \in LValueKinds =>
                   Kind(n) \in {"LValue", "RecordField", "ArrayElement", "Assignment"}
              /\ Kind(Kid(n, j)) \in DeclarationKinds => Kind(n) = "Let"
         /\ \A j \in DOMAIN prog[n].params : Kind(prog[n].params[j]) \in {"TypeField", "FieldAssignment"}
<1>1. IsShaped(prog) /\ n \in NodesOf(prog)
  BY ProgramsAssumption DEF IsProgram, Nodes
<1>2. \A j \in DOMAIN prog[n].kids : Kid(n, j) \in Nodes
  BY NodeFacts DEF Kid
<1>3. Kind(n) \notin Vectors =>
        /\ DOMAIN prog[n].kids = DOMAIN Children(Kind(n))
        /\ \A j \in DOMAIN prog[n].kids : Kind(Kid(n, j)) \in Children(Kind(n))[j]
  BY <1>1, Zenon DEF IsShaped, Kind, Kid
<1>4. Kind(n) \in Vectors \ {"Let"} =>
        \A j \in DOMAIN prog[n].kids : Kind(Kid(n, j)) \in ExprKinds
  BY <1>1, Zenon DEF IsShaped, Kind, Kid
<1>5. Kind(n) = "Let" =>
        \A j \in DOMAIN prog[n].kids : Kind(Kid(n, j)) \in ExprKinds \cup DeclarationKinds
  BY <1>1, Zenon DEF IsShaped, Kind, Kid
<1>6. ASSUME Kind(n) = "Assignment"
      PROVE  /\ DOMAIN prog[n].kids = 1 .. 2
             /\ Kind(Kid(n, 1)) \in LValueKinds /\ Kind(Kid(n, 2)) \in ExprKinds
  <2>1. Kind(n) \notin Vectors /\ Children(Kind(n)) = <<LValueKinds, ExprKinds>>
    BY <1>6 DEF Vectors, Children, Childless
  <2>2. DOMAIN Children(Kind(n)) = 1 .. 2
    BY <2>1
  <2> QED BY <1>3, <2>1, <2>2
<1>7. ASSUME Kind(n) = "FunctionDeclaration"
      PROVE  DOMAIN prog[n].kids = 1 .. 1 /\ Kid(n, 1) \in Exprs
  <2>1. Kind(n) \notin Vectors /\ Children(Kind(n)) = <<ExprKinds>>
    BY <1>7 DEF Vectors, Children, Childless
  <2>2. DOMAIN Children(Kind(n)) = 1 .. 1
    BY <2>1
  <2> QED BY <1>2, <1>3, <2>1, <2>2 DEF Exprs, IsExpr
<1>8. ASSUME NEW j \in DOMAIN prog[n].kids
      PROVE  /\ Kind(Kid(n, j)) \in ExprKinds \cup LValueKinds \cup DeclarationKinds
             /\ Kind(Kid(n, j)) \in LValueKinds =>
                  Kind(n) \in {"LValue", "RecordField", "ArrayElement", "Assignment"}
             /\ Kind(Kid(n, j)) \in DeclarationKinds => Kind(n) = "Let"
  <2>1. Kind(n) \in NodeKinds /\ prog[n].kids \in Seq(Nodes)
    BY NodeFacts
  <2>2. ExprKinds \cap LValueKinds = {} /\ ExprKinds \cap DeclarationKinds = {}
        /\ LValueKinds \cap DeclarationKinds = {}
    BY DEF ExprKinds, LValueKinds, DeclarationKinds
  <2>3. CASE Kind(n) \in Vectors
    BY <1>4, <1>5, <2>2, <2>3
  <2>4. CASE Kind(n) \notin Vectors
    <3>1. j \in DOMAIN Children(Kind(n)) /\ Kind(Kid(n, j)) \in Children(Kind(n))[j]
      BY <1>3, <2>4
    <3>2. CASE Kind(n) \in Childless \cup DeclarationKinds
      <4>1. Children(Kind(n)) \in {<<>>, <<ExprKinds>>}
        BY <3>2 DEF Children, Childless, DeclarationKinds
      <4> QED BY <2>2, <3>1, <4>1
    <3>3. CASE Kind(n) \notin Childless \cup DeclarationKinds
      <4>1. /\ Kind(n) \in {"LValue", "RecordField"} => Children(Kind(n)) = <<LValueKinds>>
            /\ Kind(n) \in {"ArrayElement", "Assignment"} =>
                 Children(Kind(n)) = <<LValueKinds, ExprKinds>>
            /\ Kind(n) \notin {"LValue", "RecordField", "ArrayElement", "Assignment"} =>
                 Children(Kind(n)) \in {<<ExprKinds>>, <<ExprKinds, ExprKinds>>,
                                        <<ExprKinds, ExprKinds, ExprKinds>>}
        BY <2>1, <2>4, <3>3
           DEF Children, Childless, Vectors, DeclarationKinds, NodeKinds, ExprKinds, LValueKinds
      <4> QED BY <2>2, <3>1, <4>1
    <3> QED BY <3>2, <3>3
  <2> QED BY <2>3, <2>4
<1>9. \A j \in DOMAIN prog[n].params :
        Kind(prog[n].params[j]) \in {"TypeField", "FieldAssignment"}
  <2>1. \A m \in ParamsOf(prog, n) : prog[m].kind \in {"TypeField", "FieldAssignment"}
    BY <1>1, Zenon DEF IsShaped
  <2> QED BY <2>1 DEF ParamsOf, Kind
<1> QED BY <1>6, <1>7, <1>8, <1>9

\* The scope taken from a body's first expression is the one the Let or
\* function has opened.
LEMMA BodyScopes ==
  ASSUME Table!LookupInv, St!Built, NEW n \in Nodes
  PROVE  /\ Kind(n) = "Let" /\ HasBody(n) => BodyScope(n) = ScopeOpenedBy(n)
         /\ Kind(n) = "FunctionDeclaration" => FnScope(n) = ScopeOpenedBy(n)
<1>1. prog \in Programs
  BY ScopesTyped
<1>2. ASSUME NEW j \in DOMAIN prog[n].kids, IsExpr(Kid(n, j)), Opener(n)
      PROVE  scope_by_expr[Kid(n, j)] = ScopeOpenedBy(n)
  <2>1. Kid(n, j) \in Exprs \ {1} /\ Binder(Kid(n, j)) = n
    BY <1>1, <1>2, KidFacts, NodeFacts DEF Exprs
  <2> QED BY <2>1, BuiltScopes
<1>3. ASSUME Kind(n) = "Let", HasBody(n) PROVE BodyScope(n) = ScopeOpenedBy(n)
  <2> DEFINE body == {j \in DOMAIN prog[n].kids : IsExpr(Kid(n, j))}
             first == CHOOSE j \in body : \A i \in body : j <= i
  <2>1. body # {} /\ BodyScope(n) = scope_by_expr[Kid(n, first)]
    BY <1>3 DEF HasBody, BodyScope
  <2>2. body \in SUBSET Nat
    BY <1>1, NodeFacts
  <2>3. \E j \in body : \A i \in body : j <= i
    <3> HIDE DEF body
    <3> QED BY <2>1, <2>2, TreesOnly, Table!LeastNatural
  <2>4. first \in body
    BY <2>3
  <2> QED BY <1>2, <1>3, <2>1, <2>4 DEF Opener
<1>4. ASSUME Kind(n) = "FunctionDeclaration" PROVE FnScope(n) = ScopeOpenedBy(n)
  <2>1. 1 \in DOMAIN prog[n].kids /\ IsExpr(Kid(n, 1))
    BY <1>1, <1>4, KidSorts DEF Exprs
  <2> QED BY <1>2, <1>4, <2>1 DEF FnScope, Opener
<1> QED BY <1>3, <1>4

\* The variables and parameters a binder declares are its class's fields.
LEMMA StorageIsField ==
  ASSUME prog \in Programs, NEW b \in Openers \cup {0}, NEW x,
         NEW d \in St!StorageOf(b, x), Kind(d) # "For"
  PROVE  b \in Openers /\ x \in Fields(b) /\ prog[d].id = x
<1>1. /\ d \in Nodes /\ prog[d].id = x
      /\ \/ Kind(d) = "VariableDeclaration" /\ Binder(d) = b
         \/ /\ b # 0 /\ Kind(b) = "FunctionDeclaration"
            /\ \E j \in DOMAIN prog[b].params : d = prog[b].params[j]
  BY DEF St!StorageOf, St!Nodes, St!NodesOf, St!Kind, St!Binder, St!RangeOf, Nodes, NodesOf,
         Kind, Binder
<1>2. CASE Kind(d) = "VariableDeclaration" /\ Binder(d) = b
  <2>1. d # 1
    BY <1>2, RootFacts DEF Exprs, IsExpr, ExprKinds
  <2>2. PICK a \in Nodes : \/ d \in Table!ParamsOf(prog, a)
                           \/ \E j \in DOMAIN Table!Kids(a) : d = Table!Kids(a)[j]
    BY <1>1, <2>1, SameNames, TreesOnly, Table!OwnerExists
  <2>3. d \notin Table!ParamsOf(prog, a)
    BY <1>2, KidSorts DEF Table!ParamsOf
  <2>4. PICK j \in DOMAIN prog[a].kids : d = Kid(a, j)
    BY <2>2, <2>3 DEF Table!Kids, Kid
  <2>5. Kind(a) = "Let" /\ Binder(d) = a
    BY <1>2, <2>4, KidSorts, KidFacts DEF DeclarationKinds, Opener
  <2> QED BY <1>1, <1>2, <2>4, <2>5 DEF Openers, Opener, Fields
<1>3. CASE /\ b # 0 /\ Kind(b) = "FunctionDeclaration"
           /\ \E j \in DOMAIN prog[b].params : d = prog[b].params[j]
  BY <1>1, <1>3 DEF Openers, Fields
<1> QED BY <1>1, <1>2, <1>3

\* What getDefiningScope gives for a name that is not a loop's: the scope of
\* a class with that field, found on the way up from the expression's.
LEMMA DefiningScope ==
  ASSUME Table!LookupInv, St!Built, NEW e \in Exprs, NEW x \in Identifiers,
         lookupStorageLocation(e, x) # Null, Kind(lookupStorageLocation(e, x)) # "For"
  PROVE  LET target == getDefiningScope(e, x) IN
         /\ e # 1
         /\ \E b \in Openers : target = ScopeOpenedBy(b) /\ x \in Fields(b)
         /\ \E g, V : Table!WalksUp(g, V) /\ g[scope_by_expr[e]] = target
<1> DEFINE Up(g) == Table!Search(g, "storage", x)
           target == getDefiningScope(e, x)
<1>1. /\ prog \in Programs /\ Len(scopes) \in Nat
      /\ DOMAIN scopes = 1 .. Len(scopes)
      /\ scope_by_expr[e] \in 0 .. Len(scopes)
  <2>1. scope_by_expr \in [Table!Nodes -> 0 .. Len(scopes)]
    BY TreesOnly, Table!TablesTyping
       DEF Table!LookupInv, Table!CompleteInv, Table!LexicalInv
  <2> QED BY <2>1, SameNames, ScopesTyped DEF Exprs
<1>2. PICK up : up = (CHOOSE g : Up(g))
  OBVIOUS
<1>3. FirstScope(e, "storage", x) = Table!FirstScope(e, "storage", x)
  BY Zenon DEF FirstScope, NoScope, Null, Table!FirstScope, Table!NoScope, Table!Null
<1>4. target = up[scope_by_expr[e]]
  BY <1>2, <1>3, TreesOnly, Table!FirstFound DEF getDefiningScope
<1>5. PICK V : V = [s \in 0 .. Len(scopes) |-> scopes[s].storage[x]]
  OBVIOUS
<1>6. Table!WalksUp(up, V)
  <2>1. PICK g : Table!WalksUp(g, V)
    BY TreesOnly, Table!ScopeWalk
  <2>2. Up(g)
    BY <1>5, <2>1 DEF Table!WalksUp, Table!Search, Table!Null, Table!NoScope
  <2>3. Up(up)
    BY <1>2, <2>2
  <2> QED BY <1>5, <2>3 DEF Table!WalksUp, Table!Search, Table!Null, Table!NoScope
<1>7. target \in 0 .. Len(scopes)
  BY <1>1, <1>4, <1>6, TreesOnly, Table!WalkEndsInScope
<1>8. /\ target # NoScope
      /\ lookupStorageLocation(e, x) = scopes[target].storage[x]
  BY DEF lookupStorageLocation, getDefiningScope
<1>9. e # 1
  <2>1. Table!TableIsComplete /\ Table!Built
    BY SameNames, TreesOnly, Table!CompleteTable DEF Table!LookupInv
  <2>2. scope_by_expr[1] = 0
    BY <2>1 DEF Table!TableIsComplete, Table!NoScope
  <2>3. up[0] = 0
    BY <1>1, <1>6 DEF Table!WalksUp, Table!NoScope
  <2> QED BY <1>4, <1>8, <2>2, <2>3 DEF NoScope
<1>10. PICK b \in Openers \cup {0} : target = ScopeOpenedBy(b)
  BY <1>1, <1>7, <1>8, BuiltScopes DEF NoScope
<1>11. lookupStorageLocation(e, x) \in St!StorageOf(b, x)
  <2>1. PICK D \in SUBSET Nodes : D = Table!StorageOf(b, x)
    BY SameNames DEF Table!StorageOf
  <2>2. scopes[target].storage[x] = Table!LastOf(D)
    BY <1>10, <2>1, SameNames, TreesOnly, Table!BuiltMaps
  <2>3. Table!LastOf(D) = Null \/ Table!LastOf(D) \in D
    BY <1>1, TreesOnly, SameNames, Table!LastOfFacts DEF Null, Table!Null
  <2>4. St!StorageOf(b, x) = Table!StorageOf(b, x)
    BY Zenon DEF St!StorageOf, St!Nodes, St!NodesOf, St!Kind, St!Binder, St!RangeOf,
           Table!StorageOf, Table!Nodes, Table!NodesOf, Table!Kind, Table!Binder,
           Table!RangeOf
  <2> QED BY <1>8, <2>1, <2>2, <2>3, <2>4
<1>12. b \in Openers /\ x \in Fields(b)
  BY <1>1, <1>11, StorageIsField
<1> QED BY <1>4, <1>6, <1>9, <1>10, <1>12

-----------------------------------------------------------------------------
(* Walks along the parents.                                                *)

\* The recursive functions in Hops, Locals and Reach, as equations.
Counting(g, target) ==
  g = [t \in 0 .. Len(scopes) |->
         IF t = NoScope \/ t = target THEN 0 ELSE 1 + g[scopes[t].parent]]
Collecting(g) ==
  g = [t \in 0 .. Len(scopes) |->
         IF t = NoScope \/ t = ReqScope THEN {} ELSE {t} \cup g[scopes[t].parent]]
Climbing(g, s, last) ==
  g = [k \in 0 .. last |-> IF k = 0 THEN s ELSE scopes[g[k - 1]].parent]

LEMMA WalksMeant ==
  /\ \A s, target : Hops(s, target) = (CHOOSE g : Counting(g, target))[s]
  /\ \A s : Locals(s) = (CHOOSE g : Collecting(g))[s]
  /\ \A it : Reach(it) = (CHOOSE g : Climbing(g, it.scope, it.arg))[it.arg]
BY Zenon DEF Hops, Locals, Reach, Counting, Collecting, Climbing

LEMMA CountingExists ==
  ASSUME Table!LookupInv, NEW target PROVE \E g : Counting(g, target)
<1>1. PICK N \in Nat : N = Len(scopes)
  BY ScopesTyped
<1>2. PICK up : up = [s \in 0 .. N |-> scopes[s].parent]
  OBVIOUS
<1> DEFINE Walk(g, n) ==
             g = [t \in 0 .. n |-> IF t = NoScope \/ t = target THEN 0 ELSE 1 + g[up[t]]]
           Bad == {n \in 0 .. N : ~ \E g : Walk(g, n)}
<1>3. SUFFICES ASSUME Bad # {} PROVE FALSE
  <2>1. N \in 0 .. N
    OBVIOUS
  <2>2. PICK g : Walk(g, N)
    BY <1>3, <2>1
  <2>3. Counting(g, target)
    <3>1. [t \in 0 .. N |-> IF t = NoScope \/ t = target THEN 0 ELSE 1 + g[up[t]]]
            = [t \in 0 .. N |-> IF t = NoScope \/ t = target THEN 0
                                ELSE 1 + g[scopes[t].parent]]
      BY <1>2
    <3> QED BY <1>1, <2>2, <3>1 DEF Counting
  <2> QED BY <2>3
<1>4. PICK n \in Bad : \A k \in Bad : n <= k
  <2>1. Bad \in SUBSET Nat
    OBVIOUS
  <2> HIDE DEF Bad
  <2> QED BY <1>3, <2>1, TreesOnly, Table!LeastNatural
<1>5. n \in 0 .. N /\ ~ \E g : Walk(g, n)
  OBVIOUS
<1>6. PICK g : n = 0 \/ Walk(g, n - 1)
  <2>1. n # 0 => n - 1 \in 0 .. N /\ n - 1 \notin Bad
    <3>1. n \in 0 .. N
      BY <1>5
    <3> HIDE DEF Bad
    <3> QED BY <1>1, <1>4, <3>1
  <2>2. n # 0 => \E g : Walk(g, n - 1)
    BY <2>1, Zenon
  <2> QED BY <2>2, Zenon
<1> DEFINE h == [t \in 0 .. n |-> IF t = NoScope \/ t = target THEN 0 ELSE 1 + g[up[t]]]
<1>7. ASSUME NEW s \in 0 .. n, s # NoScope PROVE h[up[s]] = g[up[s]]
  <2>1. up[s] \in 0 .. n - 1 /\ n # 0
    BY <1>1, <1>2, <1>5, <1>7, ScopesTyped DEF NoScope
  <2>2. up[s] \in 0 .. n
    BY <1>5, <2>1
  <2> QED BY <1>6, <2>1, <2>2
<1>8. Walk(h, n)
  BY <1>7
<1> QED BY <1>5, <1>8

LEMMA CollectingExists == ASSUME Table!LookupInv PROVE \E g : Collecting(g)
<1>1. PICK N \in Nat : N = Len(scopes)
  BY ScopesTyped
<1>2. PICK up : up = [s \in 0 .. N |-> scopes[s].parent]
  OBVIOUS
<1>0. PICK req : req = ReqScope
  OBVIOUS
<1> DEFINE Walk(g, n) ==
             g = [t \in 0 .. n |-> IF t = NoScope \/ t = req THEN {} ELSE {t} \cup g[up[t]]]
           Bad == {n \in 0 .. N : ~ \E g : Walk(g, n)}
<1>3. SUFFICES ASSUME Bad # {} PROVE FALSE
  <2>1. N \in 0 .. N
    OBVIOUS
  <2>2. PICK g : Walk(g, N)
    BY <1>3, <2>1
  <2>3. Collecting(g)
    <3>1. [t \in 0 .. N |-> IF t = NoScope \/ t = req THEN {} ELSE {t} \cup g[up[t]]]
            = [t \in 0 .. N |-> IF t = NoScope \/ t = req THEN {}
                                ELSE {t} \cup g[scopes[t].parent]]
      BY <1>2
    <3> QED BY <1>0, <1>1, <2>2, <3>1 DEF Collecting
  <2> QED BY <2>3
<1>4. PICK n \in Bad : \A k \in Bad : n <= k
  <2>1. Bad \in SUBSET Nat
    OBVIOUS
  <2> HIDE DEF Bad
  <2> QED BY <1>3, <2>1, TreesOnly, Table!LeastNatural
<1>5. n \in 0 .. N /\ ~ \E g : Walk(g, n)
  OBVIOUS
<1>6. PICK g : n = 0 \/ Walk(g, n - 1)
  <2>1. n # 0 => n - 1 \in 0 .. N /\ n - 1 \notin Bad
    <3>1. n \in 0 .. N
      BY <1>5
    <3> HIDE DEF Bad
    <3> QED BY <1>1, <1>4, <3>1
  <2>2. n # 0 => \E g : Walk(g, n - 1)
    BY <2>1, Zenon
  <2> QED BY <2>2, Zenon
<1> DEFINE h == [t \in 0 .. n |-> IF t = NoScope \/ t = req THEN {} ELSE {t} \cup g[up[t]]]
<1>7. ASSUME NEW s \in 0 .. n, s # NoScope PROVE h[up[s]] = g[up[s]]
  <2>1. up[s] \in 0 .. n - 1 /\ n # 0
    BY <1>1, <1>2, <1>5, <1>7, ScopesTyped DEF NoScope
  <2>2. up[s] \in 0 .. n
    BY <1>5, <2>1
  <2> QED BY <1>6, <2>1, <2>2
<1>8. Walk(h, n)
  BY <1>7
<1> QED BY <1>5, <1>8

LEMMA ClimbingExists ==
  ASSUME NEW s, NEW last \in Nat PROVE \E g : Climbing(g, s, last)
<1> DEFINE Bad == {n \in 0 .. last : ~ \E g : Climbing(g, s, n)}
<1>1. SUFFICES ASSUME Bad # {} PROVE FALSE
  <2>1. last \in 0 .. last
    OBVIOUS
  <2> QED BY <1>1, <2>1
<1>2. PICK n \in Bad : \A k \in Bad : n <= k
  <2>1. Bad \in SUBSET Nat
    OBVIOUS
  <2> HIDE DEF Bad
  <2> QED BY <1>1, <2>1, TreesOnly, Table!LeastNatural
<1>3. n \in 0 .. last /\ ~ \E g : Climbing(g, s, n)
  OBVIOUS
<1>4. PICK g : n = 0 \/ Climbing(g, s, n - 1)
  <2>1. n # 0 => n - 1 \in 0 .. last /\ n - 1 \notin Bad
    <3> HIDE DEF Bad
    <3> QED BY <1>2, <1>3
  <2> QED BY <2>1, Zenon
<1> DEFINE h == [k \in 0 .. n |-> IF k = 0 THEN s ELSE scopes[g[k - 1]].parent]
<1>5. ASSUME NEW k \in 0 .. n, k # 0 PROVE h[k - 1] = g[k - 1]
  <2>1. k - 1 \in 0 .. n - 1 /\ k - 1 \in 0 .. n /\ n # 0
    BY <1>3, <1>5
  <2>2. g[k - 1] = IF k - 1 = 0 THEN s ELSE scopes[g[k - 1 - 1]].parent
    BY <1>4, <2>1 DEF Climbing
  <2> QED BY <2>1, <2>2
<1>6. Climbing(h, s, n)
  BY <1>5 DEF Climbing
<1> QED BY <1>3, <1>6

\* A path has no more links than there are scopes.
LEMMA HopsBound ==
  ASSUME Table!LookupInv, NEW g, NEW target, Counting(g, target)
  PROVE  \A t \in 0 .. Len(scopes) : g[t] \in 0 .. t
<1> DEFINE Bad == {t \in 0 .. Len(scopes) : g[t] \notin 0 .. t}
<1>1. SUFFICES ASSUME Bad # {} PROVE FALSE
  OBVIOUS
<1>2. PICK t \in Bad : \A k \in Bad : t <= k
  <2>1. Bad \in SUBSET Nat
    BY ScopesTyped
  <2> HIDE DEF Bad
  <2> QED BY <1>1, <2>1, TreesOnly, Table!LeastNatural
<1>3. g[t] = IF t = NoScope \/ t = target THEN 0 ELSE 1 + g[scopes[t].parent]
  BY DEF Counting
<1>4. t # NoScope /\ t # target
  BY <1>3, ScopesTyped DEF NoScope
<1>5. PICK p : p = scopes[t].parent /\ p \in 0 .. Len(scopes) /\ p < t
  BY <1>4, ScopesTyped DEF NoScope
<1>6. g[p] \in 0 .. p
  BY <1>2, <1>5, ScopesTyped
<1> QED BY <1>3, <1>4, <1>5, <1>6, ScopesTyped

\* What a lookup finds on its way up, and no local object is of, it finds on
\* its way up from the scope the method was handed, too.
LEMMA PastLocals ==
  ASSUME Table!LookupInv, NEW g, NEW V, Table!WalksUp(g, V),
         NEW s \in 0 .. Len(scopes), NEW target, target # NoScope, g[s] = target,
         target \notin Locals(s)
  PROVE  ReqScope \in 0 .. Len(scopes) /\ g[ReqScope] = target
<1>1. PICK local : local = (CHOOSE h : Collecting(h))
  OBVIOUS
<1>2. Collecting(local) /\ Locals(s) = local[s]
  BY <1>1, CollectingExists, WalksMeant
<1> DEFINE Bad == {t \in 0 .. Len(scopes) : g[t] = target /\ target \notin local[t]}
<1>3. PICK t \in Bad : \A k \in Bad : t <= k
  <2>1. Bad \in SUBSET Nat /\ s \in Bad
    BY <1>2, ScopesTyped
  <2> HIDE DEF Bad
  <2> QED BY <2>1, TreesOnly, Table!LeastNatural
<1>4. t \in 0 .. Len(scopes) /\ g[t] = target /\ target \notin local[t]
  OBVIOUS
<1>5. SUFFICES ASSUME t # ReqScope PROVE FALSE
  BY <1>4
<1>6. /\ t # NoScope
      /\ g[t] = IF V[t] # Null THEN t ELSE g[scopes[t].parent]
      /\ local[t] = {t} \cup local[scopes[t].parent]
  <2>1. g[t] = IF t = NoScope \/ V[t] # Null THEN t ELSE g[scopes[t].parent]
    BY <1>4 DEF Table!WalksUp, Table!NoScope, Table!Null, NoScope, Null
  <2>2. t # NoScope
    BY <1>4, <2>1
  <2>3. local[t] = IF t = NoScope \/ t = ReqScope THEN {}
                   ELSE {t} \cup local[scopes[t].parent]
    BY <1>2, <1>4 DEF Collecting
  <2> QED BY <1>5, <2>1, <2>2, <2>3
<1>7. t # target /\ g[scopes[t].parent] = target /\ target \notin local[scopes[t].parent]
  BY <1>4, <1>6
<1>8. scopes[t].parent \in 0 .. Len(scopes) /\ scopes[t].parent < t
  BY <1>4, <1>6, ScopesTyped DEF NoScope
<1>9. scopes[t].parent \in Bad
  BY <1>7, <1>8
<1> HIDE DEF Bad
<1> QED BY <1>3, <1>4, <1>8, <1>9, ScopesTyped

\* The links GetScopePath counts lead to the scope it was asked for.
LEMMA PathLeads ==
  ASSUME Table!LookupInv, NEW g, NEW V, Table!WalksUp(g, V),
         NEW s \in 0 .. Len(scopes), NEW target, target # NoScope, g[s] = target,
         NEW it, it.scope = s, it.arg = Hops(s, target)
  PROVE  it.arg \in 0 .. Len(scopes) /\ Reach(it) = target
<1>1. PICK hops : hops = (CHOOSE h : Counting(h, target))
  OBVIOUS
<1>2. Counting(hops, target) /\ it.arg = hops[s]
  BY <1>1, CountingExists, WalksMeant
<1>3. PICK last \in 0 .. Len(scopes) : last = it.arg
  BY <1>2, HopsBound, ScopesTyped
<1>4. PICK up : up = (CHOOSE h : Climbing(h, s, last))
  OBVIOUS
<1>5. Climbing(up, s, last) /\ Reach(it) = up[last]
  <2>1. last \in Nat
    BY ScopesTyped
  <2>2. Climbing(up, s, last)
    BY <1>4, <2>1, ClimbingExists
  <2>3. Reach(it) = (CHOOSE h : Climbing(h, s, last))[last]
    BY <1>3, WalksMeant, Zenon
  <2> QED BY <1>4, <2>2, <2>3
<1> DEFINE Good(k) == /\ up[k] \in 0 .. Len(scopes) /\ g[up[k]] = target
                      /\ hops[up[k]] = last - k
           Bad == {k \in 0 .. last : ~ Good(k)}
<1>6. Bad = {}
  <2>1. SUFFICES ASSUME Bad # {} PROVE FALSE
    OBVIOUS
  <2>2. PICK k \in Bad : \A i \in Bad : k <= i
    <3>1. Bad \in SUBSET Nat
      OBVIOUS
    <3> HIDE DEF Bad
    <3> QED BY <2>1, <3>1, TreesOnly, Table!LeastNatural
  <2>3. k # 0
    BY <1>2, <1>3, <1>5 DEF Climbing
  <2>4. Good(k - 1) /\ k \in 1 .. last
    <3>1. k \in 0 .. last
      OBVIOUS
    <3>2. k - 1 \in 0 .. last /\ k - 1 \notin Bad
      <4> HIDE DEF Bad
      <4> QED BY <2>2, <2>3, <3>1
    <3> QED BY <2>3, <3>1, <3>2
  <2>5. PICK t \in 0 .. Len(scopes) : t = up[k - 1]
    BY <2>4
  <2>6. g[t] = target /\ hops[t] = last - (k - 1) /\ last - (k - 1) > 0
    BY <2>4, <2>5
  <2>7. /\ t # NoScope /\ t # target
        /\ hops[t] = 1 + hops[scopes[t].parent]
    BY <1>2, <2>6 DEF Counting
  <2>8. g[t] = IF t = NoScope \/ V[t] # Null THEN t ELSE g[scopes[t].parent]
    BY DEF Table!WalksUp, Table!NoScope, Table!Null, NoScope, Null
  <2>9. g[scopes[t].parent] = target
    BY <2>6, <2>7, <2>8
  <2>10. up[k] = scopes[t].parent
    BY <1>5, <2>4, <2>5 DEF Climbing
  <2>11. scopes[t].parent \in 0 .. Len(scopes)
    BY <2>7, ScopesTyped DEF NoScope
  <2>12. hops[scopes[t].parent] \in Nat
    BY <1>2, <2>11, HopsBound
  <2>13. hops[scopes[t].parent] = last - k
    BY <2>4, <2>6, <2>7, <2>12
  <2> QED BY <2>9, <2>10, <2>11, <2>13
<1>7. Good(last)
  BY <1>6
<1>8. PICK t \in 0 .. Len(scopes) : t = up[last]
  BY <1>7
<1>9. g[t] = target /\ hops[t] = 0
  BY <1>7, <1>8
<1>10. t = NoScope \/ t = target
  <2>1. t # NoScope => scopes[t].parent \in 0 .. Len(scopes)
    BY ScopesTyped DEF NoScope
  <2>2. t # NoScope => hops[scopes[t].parent] \in Nat
    BY <1>2, <2>1, HopsBound
  <2>3. hops[t] = IF t = NoScope \/ t = target THEN 0 ELSE 1 + hops[scopes[t].parent]
    BY <1>2 DEF Counting
  <2> QED BY <1>9, <2>2, <2>3
<1>11. t # NoScope
  <2>1. g[t] = IF t = NoScope \/ V[t] # Null THEN t ELSE g[scopes[t].parent]
    BY DEF Table!WalksUp, Table!NoScope, Table!Null, NoScope, Null
  <2> QED BY <1>9, <2>1
<1> QED BY <1>3, <1>5, <1>8, <1>10, <1>11

\* Scopes S are all that a method working with Compiler c can start a path
\* at: with each of them S has the one around it, but for the one handed over.
Closed(S, c) ==
  /\ c.local \in S
  /\ c.req # NoScope => c.req \in S
  /\ \A s \in S \ {NoScope, c.req} : scopes[s].parent = NoScope \/ scopes[s].parent \in S

LEMMA LocalsWithin ==
  ASSUME Table!LookupInv, LocalScope \in DOMAIN scopes, NEW S, Closed(S, C)
  PROVE  Locals(LocalScope) \subseteq S
<1>1. PICK local : local = (CHOOSE h : Collecting(h))
  OBVIOUS
<1>2. Collecting(local) /\ Locals(LocalScope) = local[LocalScope]
  BY <1>1, CollectingExists, WalksMeant
<1> DEFINE Bad == {t \in 0 .. Len(scopes) : t \in S /\ ~ local[t] \subseteq S}
<1>3. SUFFICES ASSUME Bad # {} PROVE FALSE
  <2>1. LocalScope \in S /\ LocalScope \in 0 .. Len(scopes)
    BY ScopesTyped DEF Closed, LocalScope
  <2> QED BY <1>2, <2>1
<1>4. PICK t \in Bad : \A k \in Bad : t <= k
  <2>1. Bad \in SUBSET Nat
    BY ScopesTyped
  <2> HIDE DEF Bad
  <2> QED BY <1>3, <2>1, TreesOnly, Table!LeastNatural
<1>5. t \in 0 .. Len(scopes) /\ t \in S /\ ~ local[t] \subseteq S
  OBVIOUS
<1>6. \A k \in 0 .. Len(scopes) :
        local[k] = IF k = NoScope \/ k = ReqScope THEN {} ELSE {k} \cup local[scopes[k].parent]
  BY <1>2 DEF Collecting
<1>7. t # NoScope /\ t # ReqScope /\ local[t] = {t} \cup local[scopes[t].parent]
  BY <1>5, <1>6
<1>8. PICK p : p = scopes[t].parent
  OBVIOUS
<1>9. p \in 0 .. Len(scopes) /\ p < t
  BY <1>5, <1>7, <1>8, ScopesTyped DEF NoScope
<1>10. p = NoScope \/ p \in S
  BY <1>5, <1>7, <1>8 DEF Closed, ReqScope
<1>11. ~ local[p] \subseteq S
  BY <1>5, <1>7, <1>8
<1>12. p # NoScope
  BY <1>6, <1>9, <1>11
<1>13. p \in Bad
  BY <1>9, <1>10, <1>11, <1>12
<1> HIDE DEF Bad
<1> QED BY <1>4, <1>5, <1>9, <1>13, ScopesTyped

\* GetScopePath, from where the lookup begins, prints a path to where it ends,
\* and begins it at a scope of the method.
LEMMA ScopePathReaches ==
  ASSUME Table!LookupInv, NEW g, NEW V, Table!WalksUp(g, V),
         LocalScope \in DOMAIN scopes, NEW target \in DOMAIN scopes,
         g[LocalScope] = target, NEW item, NEW n
  PROVE  LET it == ScopePath(item, n, target) IN
         /\ it = [item |-> item, node |-> n, scope |-> it.scope, arg |-> it.arg]
         /\ it.scope \in ScopeNumbers \ {NoScope} /\ it.arg \in ScopeNumbers
         /\ Reach(it) = target
         /\ \A S : Closed(S, C) => it.scope \in S
<1>1. /\ DOMAIN scopes = 1 .. Len(scopes) /\ Len(scopes) \in Nat
      /\ target # NoScope
  BY ScopesTyped DEF NoScope
<1>2. CASE target \in Locals(LocalScope) \/ ReqScope = NoScope
  <2>1. PICK it : it = ScopePath(item, n, target)
    OBVIOUS
  <2>2. it = [item |-> item, node |-> n, scope |-> target, arg |-> 0]
    BY <1>2, <2>1 DEF ScopePath, Item
  <2>3. PICK up : up = (CHOOSE h : Climbing(h, target, 0))
    OBVIOUS
  <2>4. Climbing(up, target, 0)
    BY <2>3, ClimbingExists
  <2>5. it.scope = target /\ it.arg = 0
    BY <2>2
  <2>6. Reach(it) = (CHOOSE h : Climbing(h, target, 0))[0]
    BY <2>5, WalksMeant, Zenon
  <2>7. Reach(it) = target
    BY <2>3, <2>4, <2>6 DEF Climbing
  <2>8. ASSUME NEW S, Closed(S, C) PROVE target \in S
    <3>1. CASE target \in Locals(LocalScope)
      BY <2>8, <3>1, LocalsWithin
    <3>2. CASE target \notin Locals(LocalScope)
      <4>1. ReqScope = NoScope /\ LocalScope \in 0 .. Len(scopes)
        BY <1>1, <1>2, <3>2
      <4>2. g[NoScope] = target /\ NoScope \in 0 .. Len(scopes)
        BY <1>1, <3>2, <4>1, PastLocals
      <4>3. g[NoScope] = NoScope
        BY <4>2 DEF Table!WalksUp, Table!NoScope, NoScope
      <4> QED BY <1>1, <4>2, <4>3
    <3> QED BY <3>1, <3>2
  <2> QED BY <1>1, <2>1, <2>2, <2>7, <2>8 DEF ScopeNumbers
<1>3. CASE ~ (target \in Locals(LocalScope) \/ ReqScope = NoScope)
  <2>1. PICK it : it = ScopePath(item, n, target)
    OBVIOUS
  <2>2. it = [item |-> item, node |-> n, scope |-> ReqScope, arg |-> Hops(ReqScope, target)]
    BY <1>3, <2>1 DEF ScopePath, Item
  <2>3. LocalScope \in 0 .. Len(scopes)
    BY <1>1
  <2>4. ReqScope \in 0 .. Len(scopes) /\ g[ReqScope] = target
    BY <1>1, <1>3, <2>3, PastLocals
  <2>5. it.scope = ReqScope /\ it.arg = Hops(ReqScope, target)
    BY <2>2
  <2>6. it.arg \in 0 .. Len(scopes) /\ Reach(it) = target
    BY <1>1, <2>4, <2>5, PathLeads
  <2>7. \A S : Closed(S, C) => ReqScope \in S
    BY <1>3 DEF Closed, ReqScope
  <2> QED BY <1>1, <1>3, <2>1, <2>2, <2>4, <2>6, <2>7 DEF ScopeNumbers
<1> QED BY <1>2, <1>3

-----------------------------------------------------------------------------
(* What names mean.                                                        *)

\* The climb along the binders in Innermost, as an equation.
OutwardStorage(g, x) ==
  g = [b \in 0 .. Len(prog) |->
         IF St!StorageOf(b, x) # {} THEN St!LastOf(St!StorageOf(b, x))
         ELSE IF b = 0 THEN Null ELSE g[Binder(b)]]

OutwardFunctions(g, x) ==
  g = [b \in 0 .. Len(prog) |->
         IF St!FunctionsOf(b, x) # {} THEN St!LastOf(St!FunctionsOf(b, x))
         ELSE IF b = 0 THEN Null ELSE g[Binder(b)]]

LEMMA MeantUnfolded ==
  ASSUME NEW n
  PROVE  /\ Kind(n) = "VariableDeclaration" => Meant(n) = n
         /\ Kind(n) = "FunctionCall" =>
              Meant(n) = (CHOOSE g : OutwardFunctions(g, prog[n].id))[Binder(n)]
         /\ Kind(n) = "Identifier" =>
              Meant(n) = (CHOOSE g : OutwardStorage(g, prog[n].id))[Binder(n)]
BY Zenon DEF Meant, St!Innermost, OutwardFunctions, OutwardStorage, Binder, St!Binder, Null,
      St!Null

LEMMA MeantFound ==
  ASSUME Table!LookupInv, St!Built, NEW e \in Exprs \ {1}, NEW x \in Identifiers
  PROVE  /\ lookupFunction(e, x) = (CHOOSE g : OutwardFunctions(g, x))[Binder(e)]
         /\ lookupStorageLocation(e, x) = (CHOOSE g : OutwardStorage(g, x))[Binder(e)]
<1>1. /\ Table!lookupFunction(e, x)
           = Table!Innermost(e, LAMBDA b : Table!FunctionsOf(b, x))
      /\ Table!lookupStorageLocation(e, x)
           = Table!Innermost(e, LAMBDA b : Table!StorageOf(b, x))
  BY SameNames, TreesOnly, Table!FunctionLookups, Table!StorageLookups
<1>2. /\ lookupFunction(e, x) = Table!lookupFunction(e, x)
      /\ lookupStorageLocation(e, x) = Table!lookupStorageLocation(e, x)
  BY Zenon DEF lookupFunction, lookupStorageLocation, FirstScope,
         NoScope, Null, Table!lookupFunction, Table!lookupStorageLocation,
         Table!FirstScope, Table!NoScope, Table!Null
<1>3. /\ Table!Innermost(e, LAMBDA b : Table!FunctionsOf(b, x))
           = (CHOOSE g : OutwardFunctions(g, x))[Binder(e)]
  BY Zenon DEF Table!Innermost, OutwardFunctions, Binder, Table!Binder, Null, Table!Null,
       Table!FunctionsOf, St!FunctionsOf, Table!Nodes, Table!NodesOf, St!Nodes, St!NodesOf,
       Table!Kind, St!Kind, St!Binder, Table!LastOf, St!LastOf, St!Null
<1>4. /\ Table!Innermost(e, LAMBDA b : Table!StorageOf(b, x))
           = (CHOOSE g : OutwardStorage(g, x))[Binder(e)]
  BY Zenon DEF Table!Innermost, OutwardStorage, Binder, Table!Binder, Null, Table!Null,
       Table!StorageOf, St!StorageOf, Table!Nodes, Table!NodesOf, St!Nodes, St!NodesOf,
       Table!Kind, St!Kind, St!Binder, Table!LastOf, St!LastOf, St!Null, Table!RangeOf,
       St!RangeOf
<1> QED BY <1>1, <1>2, <1>3, <1>4

\* Outside of every Let and function nothing but loops' variables is declared.
LEMMA MeantOutside ==
  ASSUME Table!LookupInv, NEW n \in Nodes, Binder(n) = 0
  PROVE  /\ Kind(n) = "FunctionCall" => Meant(n) = Null
         /\ Kind(n) = "Identifier" => Meant(n) = Null \/ Kind(Meant(n)) = "For"
<1>1. prog \in Programs /\ 0 \in 0 .. Len(prog) /\ prog[n].id \in Identifiers
  BY ScopesTyped, NodeFacts
<1>2. PICK x \in Identifiers : x = prog[n].id
  BY <1>1
<1>3. \A d \in Nodes : Binder(d) = 0 => Kind(d) \notin DeclarationKinds
  <2> SUFFICES ASSUME NEW d \in Nodes, Binder(d) = 0, Kind(d) \in DeclarationKinds PROVE FALSE
    OBVIOUS
  <2>1. d # 1
    BY <1>1, RootFacts DEF Exprs, IsExpr, ExprKinds, DeclarationKinds
  <2>2. PICK a \in Nodes : \/ d \in Table!ParamsOf(prog, a)
                           \/ \E j \in DOMAIN Table!Kids(a) : d = Table!Kids(a)[j]
    BY <1>1, <2>1, SameNames, TreesOnly, Table!OwnerExists
  <2>3. d \notin Table!ParamsOf(prog, a)
    BY <1>1, KidSorts DEF Table!ParamsOf, DeclarationKinds
  <2>4. PICK j \in DOMAIN prog[a].kids : d = Kid(a, j)
    BY <2>2, <2>3 DEF Table!Kids, Kid
  <2>5. Kind(a) = "Let" /\ Binder(d) = a
    BY <1>1, <2>4, KidSorts, KidFacts DEF Opener
  <2> QED BY <1>1, <2>5, NodeFacts DEF Null
<1>4. St!FunctionsOf(0, x) = {}
  BY <1>3 DEF St!FunctionsOf, St!Nodes, St!NodesOf, St!Kind, St!Binder, Nodes, NodesOf, Kind,
              Binder, DeclarationKinds
<1>5. \A d \in St!StorageOf(0, x) : d \in Nodes /\ Kind(d) = "For"
  BY <1>3 DEF St!StorageOf, St!Nodes, St!NodesOf, St!Kind, St!Binder, Nodes, NodesOf, Kind,
              Binder, DeclarationKinds
<1>6. ASSUME Kind(n) = "FunctionCall" PROVE Meant(n) = Null
  <2>1. PICK out : out = (CHOOSE g : OutwardFunctions(g, x))
    OBVIOUS
  <2>2. \E g : OutwardFunctions(g, x)
    <3>1. PICK D : D = [b \in 0 .. Len(prog) |-> Table!FunctionsOf(b, x)]
      OBVIOUS
    <3>2. PICK g : Table!WalksOut(g, D)
      BY <1>1, TreesOnly, Table!BinderWalk
    <3>3. \A b : St!FunctionsOf(b, x) = Table!FunctionsOf(b, x)
      BY Zenon DEF Table!FunctionsOf, St!FunctionsOf, Table!Nodes, Table!NodesOf,
             St!Nodes, St!NodesOf, Table!Kind, St!Kind, St!Binder, Table!Binder
    <3>4. \A S : St!LastOf(S) = Table!LastOf(S)
      BY Zenon DEF St!LastOf, Table!LastOf, St!Null, Table!Null
    <3>5. OutwardFunctions(g, x)
      BY <3>1, <3>2, <3>3, <3>4 DEF OutwardFunctions, Table!WalksOut, Binder, Table!Binder,
             Null, Table!Null
    <3> QED BY <3>5
  <2>3. OutwardFunctions(out, x)
    BY <2>1, <2>2
  <2>4. Meant(n) = out[0]
    BY <1>2, <1>6, <2>1, MeantUnfolded
  <2> QED BY <1>1, <1>4, <2>3, <2>4 DEF OutwardFunctions
<1>7. ASSUME Kind(n) = "Identifier" PROVE Meant(n) = Null \/ Kind(Meant(n)) = "For"
  <2>1. PICK out : out = (CHOOSE g : OutwardStorage(g, x))
    OBVIOUS
  <2>2. \E g : OutwardStorage(g, x)
    <3>1. PICK D : D = [b \in 0 .. Len(prog) |-> Table!StorageOf(b, x)]
      OBVIOUS
    <3>2. PICK g : Table!WalksOut(g, D)
      BY <1>1, TreesOnly, Table!BinderWalk
    <3>3. \A b : St!StorageOf(b, x) = Table!StorageOf(b, x)
      BY Zenon DEF Table!StorageOf, St!StorageOf, Table!Nodes, Table!NodesOf, St!Nodes,
             St!NodesOf, Table!Kind, St!Kind, St!Binder, Table!Binder, Table!RangeOf,
             St!RangeOf
    <3>4. \A S : St!LastOf(S) = Table!LastOf(S)
      BY Zenon DEF St!LastOf, Table!LastOf, St!Null, Table!Null
    <3>5. OutwardStorage(g, x)
      BY <3>1, <3>2, <3>3, <3>4 DEF OutwardStorage, Table!WalksOut, Binder, Table!Binder,
             Null, Table!Null
    <3> QED BY <3>5
  <2>3. OutwardStorage(out, x)
    BY <2>1, <2>2
  <2>4. Meant(n) = out[0]
    BY <1>2, <1>7, <2>1, MeantUnfolded
  <2>5. Meant(n) = IF St!StorageOf(0, x) # {} THEN St!LastOf(St!StorageOf(0, x)) ELSE Null
    BY <1>1, <2>3, <2>4 DEF OutwardStorage
  <2>6. PICK S \in SUBSET Nodes : S = St!StorageOf(0, x)
    BY <1>5
  <2>7. St!LastOf(S) = Table!LastOf(S)
    BY Zenon DEF St!LastOf, Table!LastOf, St!Null, Table!Null
  <2>8. S # {} => Table!LastOf(S) \in S
    BY <1>1, SameNames, TreesOnly, Table!LastOfFacts
  <2> QED BY <1>5, <2>5, <2>6, <2>7, <2>8
<1> QED BY <1>6, <1>7

\* The scope a function is found in is the one it is declared in, and the
\* lookup comes to it on its way up.
LEMMA FunctionScope ==
  ASSUME Table!LookupInv, St!Built, NEW e \in Exprs, NEW x \in Identifiers,
         lookupFunction(e, x) # Null
  PROVE  LET f == lookupFunction(e, x)
             target == scopes[FnScope(f)].parent
         IN  /\ e # 1
             /\ target = ScopeOpenedBy(Binder(f))
             /\ target \in DOMAIN scopes
             /\ \E g, V : Table!WalksUp(g, V) /\ g[scope_by_expr[e]] = target
<1> DEFINE Up(g) == Table!Search(g, "function", x)
<1>1. /\ prog \in Programs /\ Len(scopes) \in Nat
      /\ DOMAIN scopes = 1 .. Len(scopes)
      /\ scope_by_expr[e] \in 0 .. Len(scopes)
  <2>1. scope_by_expr \in [Table!Nodes -> 0 .. Len(scopes)]
    BY TreesOnly, Table!TablesTyping
       DEF Table!LookupInv, Table!CompleteInv, Table!LexicalInv
  <2> QED BY <2>1, SameNames, ScopesTyped DEF Exprs
<1>2. PICK up : up = (CHOOSE g : Up(g))
  OBVIOUS
<1>3. FirstScope(e, "function", x) = Table!FirstScope(e, "function", x)
  BY Zenon DEF FirstScope, NoScope, Null, Table!FirstScope, Table!NoScope, Table!Null
<1>4. PICK r : r = FirstScope(e, "function", x) /\ r = up[scope_by_expr[e]]
  BY <1>2, <1>3, TreesOnly, Table!FirstFound
<1>5. PICK V : V = [s \in 0 .. Len(scopes) |-> scopes[s].function[x]]
  OBVIOUS
<1>6. Table!WalksUp(up, V)
  <2>1. PICK g : Table!WalksUp(g, V)
    BY TreesOnly, Table!ScopeWalk
  <2>2. Up(g)
    BY <1>5, <2>1 DEF Table!WalksUp, Table!Search, Table!Null, Table!NoScope
  <2>3. Up(up)
    BY <1>2, <2>2
  <2> QED BY <1>5, <2>3 DEF Table!WalksUp, Table!Search, Table!Null, Table!NoScope
<1>7. r \in 0 .. Len(scopes)
  BY <1>1, <1>4, <1>6, TreesOnly, Table!WalkEndsInScope
<1>8. /\ r # NoScope
      /\ lookupFunction(e, x) = scopes[r].function[x]
  BY <1>4 DEF lookupFunction
<1>9. e # 1
  <2>1. Table!TableIsComplete /\ Table!Built
    BY SameNames, TreesOnly, Table!CompleteTable DEF Table!LookupInv
  <2>2. scope_by_expr[1] = 0
    BY <2>1 DEF Table!TableIsComplete, Table!NoScope
  <2>3. up[0] = 0
    BY <1>1, <1>6 DEF Table!WalksUp, Table!NoScope
  <2> QED BY <1>4, <1>8, <2>2, <2>3 DEF NoScope
<1>10. PICK b \in Openers \cup {0} : r = ScopeOpenedBy(b)
  BY <1>1, <1>7, <1>8, BuiltScopes DEF NoScope
<1>11. PICK f \in Nodes : f = lookupFunction(e, x) /\ Kind(f) = "FunctionDeclaration"
  BY Lookups
<1>12. Binder(f) = b
  <2>1. PICK D \in SUBSET Nodes : D = Table!FunctionsOf(b, x)
    BY SameNames DEF Table!FunctionsOf
  <2>2. scopes[r].function[x] = Table!LastOf(D)
    BY <1>10, <2>1, SameNames, TreesOnly, Table!BuiltMaps
  <2>3. Table!LastOf(D) = Null \/ Table!LastOf(D) \in D
    BY <1>1, TreesOnly, SameNames, Table!LastOfFacts DEF Null, Table!Null
  <2>4. f \in Table!FunctionsOf(b, x)
    BY <1>8, <1>11, <2>1, <2>2, <2>3
  <2> QED BY <2>4, SameNames DEF Table!FunctionsOf
<1>13. scopes[FnScope(f)].parent = ScopeOpenedBy(Binder(f))
  BY <1>11, BodyScopes, BuiltScopes DEF Openers, Opener
<1>14. r \in DOMAIN scopes
  BY <1>10, BuiltScopes
<1> QED BY <1>4, <1>6, <1>9, <1>10, <1>11, <1>12, <1>13, <1>14

-----------------------------------------------------------------------------
(* Items.                                                                  *)

Items == [item : ItemKinds, node : Nodes \cup {Main}, scope : ScopeNumbers,
          arg : ScopeNumbers]

\* A path leads to the scope of the declaration that is meant, and a plain
\* name means a loop's variable or nothing; a field is one of its class; a
\* link is one to the scope around.
GoodItem(it) ==
  /\ it.item \in {"field", "call", "local"} =>
       IF it.scope # NoScope THEN Reach(it) = Home(it.node)
       ELSE Meant(it.node) = Null \/ Kind(Meant(it.node)) = "For"
  /\ it.item = "field" =>
       \E b \in Openers : Reach(it) = ScopeOpenedBy(b) /\ prog[it.node].id \in Fields(b)
  /\ it.item = "link" =>
       \E b \in Openers : it.scope = ScopeOpenedBy(b) /\ it.arg = ScopeOpenedBy(Binder(b))
GoodText(t) == t \in Seq(Items) /\ \A i \in DOMAIN t : GoodItem(t[i])

LEMMA ParamsBinder ==
  ASSUME prog \in Programs, NEW n \in Nodes, NEW j \in DOMAIN prog[n].params, Opener(n)
  PROVE  Binder(prog[n].params[j]) = n
<1>1. IsTree(prog) /\ n \in NodesOf(prog)
  BY ProgramsAssumption DEF IsProgram, Nodes
<1>2. \A m \in ParamsOf(prog, n) : prog[m].binder = IF Opens(prog, n) THEN n ELSE prog[n].binder
  BY <1>1, Zenon DEF IsTree
<1> QED BY <1>2 DEF ParamsOf, Binder, Opens, Opener, Kind

\* Names and calls are printed as they are meant.
LEMMA MentionGood ==
  ASSUME Table!LookupInv, St!Built, C.expr \in Exprs, NEW n \in Nodes,
         Kind(n) = "Identifier", Binder(n) = Binder(C.expr),
         LocalScope = ScopeOpenedBy(Binder(n))
  PROVE  /\ Mention(n) \in Items /\ GoodItem(Mention(n))
         /\ Mention(n).item \in {"field", "local"}
         /\ \A S : Closed(S, C) => Mention(n).scope \in S \cup {NoScope}
<1>1. PICK e \in Exprs : e = C.expr
  OBVIOUS
<1>2. PICK x \in Identifiers : x = prog[n].id
  BY ScopesTyped, NodeFacts
<1>3. PICK d : d = lookupStorageLocation(e, x)
  OBVIOUS
<1>4. prog \in Programs /\ Len(scopes) \in Nat /\ DOMAIN scopes = 1 .. Len(scopes)
  BY ScopesTyped
<1>9. e # 1 => Meant(n) = lookupStorageLocation(e, x)
  <2>1. Meant(n) = (CHOOSE g : OutwardStorage(g, x))[Binder(n)]
    BY <1>2, MeantUnfolded
  <2>2. e # 1 =>
          lookupStorageLocation(e, x) = (CHOOSE g : OutwardStorage(g, x))[Binder(e)]
    BY MeantFound
  <2> QED BY <1>1, <2>1, <2>2, Zenon
<1>5. CASE d # Null /\ Kind(d) # "For"
  <2>1. PICK target : target = getDefiningScope(e, x)
    OBVIOUS
  <2>2. e # 1
    BY <1>3, <1>5, DefiningScope
  <2>3. PICK b \in Openers : target = ScopeOpenedBy(b) /\ x \in Fields(b)
    BY <1>3, <1>5, <2>1, DefiningScope
  <2>4. PICK g, V : Table!WalksUp(g, V) /\ g[scope_by_expr[e]] = target
    BY <1>3, <1>5, <2>1, DefiningScope
  <2>5. PICK it : it = Mention(n)
    OBVIOUS
  <2>6. it = ScopePath("field", n, target)
    BY <1>1, <1>2, <1>3, <1>5, <2>1, <2>5 DEF Mention
  <2>7. LocalScope = scope_by_expr[e] /\ LocalScope \in DOMAIN scopes /\ target \in DOMAIN scopes
    BY <1>1, <2>2, <2>3, BuiltScopes
  <2>8. /\ it = [item |-> "field", node |-> n, scope |-> it.scope, arg |-> it.arg]
        /\ it.scope \in ScopeNumbers \ {NoScope} /\ it.arg \in ScopeNumbers
        /\ Reach(it) = target
        /\ \A S : Closed(S, C) => it.scope \in S
    BY <2>4, <2>6, <2>7, ScopePathReaches
  <2>9. it.item = "field" /\ it.node = n
    BY <2>8
  <2>10. it \in Items
    BY <2>8 DEF Items, ItemKinds
  <2>11. Meant(n) = d
    BY <1>9, <1>3, <2>2
  <2>12. Home(n) = target
    <3>1. PICK D \in SUBSET Nodes : D = Table!StorageOf(b, x)
      BY SameNames DEF Table!StorageOf
    <3>2. scopes[target].storage[x] = Table!LastOf(D)
      BY <2>3, <3>1, SameNames, TreesOnly, Table!BuiltMaps
    <3>3. d = scopes[target].storage[x]
      BY <1>3, <1>5, <2>1 DEF lookupStorageLocation, getDefiningScope
    <3>4. Table!LastOf(D) = Null \/ Table!LastOf(D) \in D
      BY <1>4, TreesOnly, SameNames, Table!LastOfFacts DEF Null, Table!Null
    <3>5. d \in Table!StorageOf(b, x)
      BY <1>5, <3>1, <3>2, <3>3, <3>4
    <3>6. \/ Binder(d) = b
          \/ \E j \in DOMAIN prog[b].params : d = prog[b].params[j]
      BY <3>5, SameNames DEF Table!StorageOf, Table!RangeOf
    <3>7. Binder(d) = b
      BY <1>4, <3>6, ParamsBinder DEF Openers
    <3> QED BY <2>3, <2>11, <3>7 DEF Home
  <2>13. GoodItem(it)
    BY <1>2, <2>3, <2>8, <2>9, <2>12 DEF GoodItem
  <2> QED BY <2>5, <2>8, <2>9, <2>10, <2>13
<1>6. CASE d = Null \/ Kind(d) = "For"
  <2>1. PICK it : it = Mention(n)
    OBVIOUS
  <2>2. it = [item |-> "local", node |-> n, scope |-> NoScope, arg |-> 0]
    BY <1>1, <1>2, <1>3, <1>6, <2>1 DEF Mention, Plain, Item
  <2>3. it \in Items
    BY <1>4, <2>2 DEF Items, ItemKinds, ScopeNumbers, NoScope
  <2>4. Meant(n) = Null \/ Kind(Meant(n)) = "For"
    <3>1. CASE e = 1
      BY <1>1, <1>4, <3>1, RootFacts, MeantOutside
    <3>2. CASE e # 1
      <4>1. Meant(n) = d
        BY <1>9, <1>3, <3>2
      <4> QED BY <1>6, <4>1
    <3> QED BY <3>1, <3>2
  <2>5. GoodItem(it)
    BY <2>2, <2>4 DEF GoodItem
  <2> QED BY <2>1, <2>2, <2>3, <2>5
<1> QED BY <1>5, <1>6

LEMMA CallGood ==
  ASSUME Table!LookupInv, St!Built, NEW n \in Exprs,
         Kind(n) = "FunctionCall", LocalScope = ScopeOpenedBy(Binder(n))
  PROVE  /\ Call(n) \in Items /\ GoodItem(Call(n)) /\ Call(n).item = "call"
         /\ \A S : Closed(S, C) => Call(n).scope \in S \cup {NoScope}
<1>1. PICK x \in Identifiers : x = prog[n].id
  BY ScopesTyped, NodeFacts DEF Exprs
<1>2. PICK f : f = lookupFunction(n, x)
  OBVIOUS
<1>3. prog \in Programs /\ Len(scopes) \in Nat /\ DOMAIN scopes = 1 .. Len(scopes) /\ n \in Nodes
  BY ScopesTyped DEF Exprs
<1>4. PICK it : it = Call(n)
  OBVIOUS
<1>5. CASE f # Null
  <2>1. PICK target : target = scopes[FnScope(f)].parent
    OBVIOUS
  <2>2. n # 1 /\ target = ScopeOpenedBy(Binder(f)) /\ target \in DOMAIN scopes
    BY <1>2, <1>5, <2>1, FunctionScope
  <2>3. PICK g, V : Table!WalksUp(g, V) /\ g[scope_by_expr[n]] = target
    BY <1>2, <1>5, <2>1, FunctionScope
  <2>4. it = ScopePath("call", n, target)
    BY <1>1, <1>2, <1>4, <1>5, <2>1 DEF Call
  <2>5. LocalScope = scope_by_expr[n] /\ LocalScope \in DOMAIN scopes
    BY <2>2, BuiltScopes
  <2>6. /\ it = [item |-> "call", node |-> n, scope |-> it.scope, arg |-> it.arg]
        /\ it.scope \in ScopeNumbers \ {NoScope} /\ it.arg \in ScopeNumbers
        /\ Reach(it) = target
        /\ \A S : Closed(S, C) => it.scope \in S
    BY <2>2, <2>3, <2>4, <2>5, ScopePathReaches
  <2>7. it.item = "call" /\ it.node = n
    BY <2>6
  <2>8. it \in Items
    BY <1>3, <2>6 DEF Items, ItemKinds
  <2>9. Meant(n) = f
    BY <1>1, <1>2, <1>3, <2>2, MeantUnfolded, MeantFound
  <2>10. GoodItem(it)
    BY <2>2, <2>6, <2>7, <2>9 DEF GoodItem, Home
  <2> QED BY <1>4, <2>6, <2>7, <2>8, <2>10
<1>6. CASE f = Null
  <2>1. it = [item |-> "call", node |-> n, scope |-> NoScope, arg |-> 0]
    BY <1>1, <1>2, <1>4, <1>6 DEF Call, Plain, Item
  <2>2. it \in Items
    BY <1>3, <2>1 DEF Items, ItemKinds, ScopeNumbers, NoScope
  <2>3. Meant(n) = Null
    <3>1. CASE n = 1
      BY <1>3, <3>1, RootFacts, MeantOutside
    <3>2. CASE n # 1
      BY <1>1, <1>2, <1>3, <1>6, <3>2, MeantUnfolded, MeantFound
    <3> QED BY <3>1, <3>2
  <2>4. GoodItem(it)
    BY <2>1, <2>3 DEF GoodItem
  <2> QED BY <1>4, <2>1, <2>2, <2>4
<1> QED BY <1>5, <1>6

-----------------------------------------------------------------------------
(* The invariant.                                                          *)

Compilers == [local : DOMAIN scopes, req : ScopeNumbers, lvalue : Text,
              expr : Nodes \cup {Null}]
Frames == [node : Nodes \cup {Main}, kind : NodeKinds \cup {"main"},
           next : Nat \ {0}, inline : BOOLEAN, saved : Nodes \cup {Null}]
Classes == [scope : DOMAIN scopes, parent : DOMAIN scopes, fields : SUBSET Identifiers]
Methods == [node : Nodes, text : Text]

\* The frame at height k is of a Let with a body or of a function, and the
\* innermost of them at that height.
Scoping == {"Let", "FunctionDeclaration"}
OpensAt(k, kinds) ==
  frames[k].kind \in kinds /\ (frames[k].kind = "Let" => HasBody(frames[k].node))
IsInnermost(b, k, kinds) ==
  /\ b = 0 \/ \E i \in 1 .. k : OpensAt(i, kinds) /\ frames[i].node = b
  /\ \A i \in 1 .. k : OpensAt(i, kinds) => frames[i].node <= b
Inner(k) ==
  IF OpensAt(k, Scoping) THEN frames[k].node
  ELSE IF k = 1 THEN 0 ELSE prog[frames[k].node].binder

\* The current_expr that the frame's handler works with.
InForce(k) == IF frames[k].kind \in ExprKinds THEN frames[k].node ELSE frames[k].saved

\* The frames whose handlers have a Compiler, or a stream, of their own.
OnLeftSideAt(k) ==
  /\ frames[k].kind = "Assignment"
  /\ frames[k].next = 1 \/ (frames[k].next = 2 /\ k < Len(frames))
MakesCompiler(k) == OpensAt(k, Scoping) \/ OnLeftSideAt(k)
MakesStream(k) == frames[k].kind = "FunctionDeclaration" \/ OnLeftSideAt(k)

\* A frame's node is the part of the one below that was handed over last.
Handed(k) ==
  LET f == frames[k - 1] IN
  IF k = 2 THEN frames[k].node = 1
  ELSE /\ f.next - 1 \in DOMAIN prog[f.node].kids
       /\ frames[k].node = Kid(f.node, f.next - 1)
       /\ f.kind = "Let" => HasBody(f.node)

OnPath ==
  /\ frames \in Seq(Frames) /\ frames # <<>>
  /\ frames[1].kind = "main" /\ frames[1].node = Main
  /\ \A k \in 2 .. Len(frames) :
       /\ frames[k].node \in Nodes /\ frames[k].kind = Kind(frames[k].node)
       /\ Handed(k)
  /\ \A i, k \in DOMAIN frames : i < k => frames[i].node < frames[k].node

\* current_expr is an expression of the same Let or function.
ExprsSaved ==
  /\ frames[1].saved = Null
  /\ \A k \in 2 .. Len(frames) :
       /\ frames[k].saved = InForce(k - 1)
       /\ InForce(k) \in Exprs
       /\ frames[k].kind \in LValueKinds => Binder(InForce(k)) = Binder(frames[k].node)

\* using[k] is the Compiler frame k works with, writing[k] its stream.
Rising(s) == \A i, k \in DOMAIN s : i <= k => s[i] <= s[k]
Counts(using, writing) ==
  /\ using \in Seq(Nat) /\ Len(using) = Len(frames) /\ Rising(using)
  /\ writing \in Seq(Nat) /\ Len(writing) = Len(frames) /\ Rising(writing)
  /\ using[1] = 1 /\ writing[1] = 1
  /\ \A k \in 2 .. Len(frames) :
       /\ using[k] = IF MakesCompiler(k) THEN using[k - 1] + 1 ELSE using[k - 1]
       /\ writing[k] = IF MakesStream(k) THEN writing[k - 1] + 1 ELSE writing[k - 1]
  /\ using[Len(frames)] = Len(compilers) /\ writing[Len(frames)] = Len(outs)

\* A Compiler's scopes are those of the frames that work with it.
Scoped(k, c) ==
  /\ c.local = ScopeOpenedBy(Inner(k))
  /\ \E f \in {0} \cup Nodes :
       /\ IsInnermost(f, k, {"FunctionDeclaration"})
       /\ c.req = IF f = 0 THEN NoScope ELSE ScopeOpenedBy(Binder(f))
Suits(using) ==
  /\ C.expr = InForce(Len(frames))
  /\ \A k \in DOMAIN frames :
       /\ MakesCompiler(k) => compilers[using[k] - 1].expr = InForce(k)
       /\ Scoped(k, compilers[using[k]])
       /\ IsInnermost(Inner(k), k, Scoping)

AtWork ==
  /\ OnPath /\ ExprsSaved
  /\ compilers \in Seq(Compilers)
  /\ \E using, writing : Counts(using, writing) /\ Suits(using)

TextsGood ==
  /\ outs \in Seq(Text) /\ \A i \in DOMAIN outs : GoodText(outs[i])
  /\ \A i \in DOMAIN compilers : GoodText(compilers[i].lvalue)
  /\ post_body \in Seq(Methods) /\ \A i \in DOMAIN post_body : GoodText(post_body[i].text)

ClassesPrinted ==
  /\ head \in Seq(Classes)
  /\ \A i \in DOMAIN head : \E n \in Openers : head[i] = Class(n)

CompileInv ==
  /\ Table!LookupInv
  /\ phase \in {"table", "classes", "code", "compiled"}
  /\ IF phase = "table" THEN head = <<>> ELSE St!Built /\ ClassesPrinted
  /\ IF phase \in {"table", "classes"}
     THEN frames = <<>> /\ outs = <<>> /\ compilers = <<>> /\ post_body = <<>>
     ELSE Unprinted = {} /\ AtWork /\ TextsGood
  /\ phase = "compiled" => Len(frames) = 1

-----------------------------------------------------------------------------
(* The call stack.                                                         *)

LEMMA StackFacts ==
  ASSUME prog \in Programs, OnPath
  PROVE  /\ Len(frames) \in Nat /\ Len(frames) >= 1 /\ DOMAIN frames = 1 .. Len(frames)
         /\ \A k \in DOMAIN frames : frames[k] \in Frames
         /\ Top = frames[Len(frames)] /\ Top \in Frames
         /\ Top.kind = "main" <=> Len(frames) = 1
         /\ Len(frames) > 1 => Top.node \in Nodes /\ Top.kind = Kind(Top.node)
<1>1. /\ Len(frames) \in Nat /\ Len(frames) >= 1 /\ DOMAIN frames = 1 .. Len(frames)
      /\ \A k \in DOMAIN frames : frames[k] \in Frames
  BY DEF OnPath
<1>2. Len(frames) > 1 => Top.node \in Nodes /\ Top.kind = Kind(Top.node)
  BY <1>1 DEF OnPath, Top
<1>3. Len(frames) > 1 => Top.kind # "main"
  <2>1. \A n \in Nodes : Kind(n) # "main"
    BY NodeFacts DEF NodeKinds, ExprKinds, LValueKinds, DeclarationKinds
  <2> QED BY <1>2, <2>1
<1>4. Len(frames) = 1 => Top.kind = "main"
  BY DEF OnPath, Top
<1> QED BY <1>1, <1>2, <1>3, <1>4 DEF Top

LEMMA ReachedFacts ==
  ASSUME prog \in Programs, OnPath, NEW n, Reached(n)
  PROVE  /\ n \in Nodes
         /\ \A k \in DOMAIN frames : frames[k].node < n
         /\ Len(frames) = 1 => n = 1
         /\ Len(frames) > 1 =>
              /\ Top.next \in DOMAIN prog[Top.node].kids
              /\ n = Kid(Top.node, Top.next)
              /\ Top.kind = "Let" => HasBody(Top.node)
         /\ Binder(n) = Inner(Len(frames))
<1>1. Top.next \in DOMAIN PartsOfTop /\ n = PartsOfTop[Top.next]
  BY DEF Reached, HasNext
<1>2. CASE Len(frames) = 1
  <2>1. Top.kind = "main" /\ n = 1
    BY <1>1, <1>2, StackFacts DEF PartsOfTop
  <2>2. frames[1].node = 0 /\ DOMAIN frames = 1 .. 1 /\ ~ OpensAt(1, Scoping)
    BY <1>2, StackFacts DEF OnPath, Main, Null, OpensAt, Scoping
  <2> QED BY <1>2, <2>1, <2>2, RootFacts DEF Inner, Exprs
<1>3. CASE Len(frames) # 1
  <2>1. /\ Top.kind # "main" /\ Top.node \in Nodes /\ Top.kind = Kind(Top.node)
        /\ Len(frames) \in Nat /\ Len(frames) > 1 /\ Top = frames[Len(frames)]
        /\ DOMAIN frames = 1 .. Len(frames)
    BY <1>3, StackFacts
  <2>2. Top.next \in DOMAIN Parts(Top.node) /\ n = Parts(Top.node)[Top.next]
    BY <1>1, <2>1 DEF PartsOfTop
  <2>3. /\ Top.next \in DOMAIN prog[Top.node].kids
        /\ n = Kid(Top.node, Top.next)
        /\ Top.kind = "Let" => HasBody(Top.node)
    <3>1. CASE Kind(Top.node) = "RecordLiteral" \/ (Kind(Top.node) = "Let" /\ ~ HasBody(Top.node))
      BY <2>2, <3>1 DEF Parts
    <3>2. CASE /\ ~ (Kind(Top.node) = "RecordLiteral" \/ (Kind(Top.node) = "Let" /\ ~ HasBody(Top.node)))
               /\ Kind(Top.node) = "ArrayLiteral" /\ C.lvalue = <<>>
      <4>1. DOMAIN prog[Top.node].kids = 1 .. 2
        <5>1. IsShaped(prog) /\ Top.node \in NodesOf(prog)
          BY <2>1, ProgramsAssumption DEF IsProgram, Nodes
        <5>2. Kind(Top.node) \notin Vectors =>
                DOMAIN prog[Top.node].kids = DOMAIN Children(Kind(Top.node))
          BY <5>1, Zenon DEF IsShaped, Kind
        <5>3. Children(Kind(Top.node)) = <<ExprKinds, ExprKinds>>
          BY <3>2 DEF Children, Childless
        <5>4. DOMAIN Children(Kind(Top.node)) = 1 .. 2
          BY <5>3
        <5> QED BY <3>2, <5>2, <5>4 DEF Vectors
      <4>2. Parts(Top.node) = <<Kid(Top.node, 1)>>
        BY <3>2 DEF Parts
      <4> QED BY <2>1, <2>2, <3>2, <4>1, <4>2
    <3>3. CASE /\ ~ (Kind(Top.node) = "RecordLiteral" \/ (Kind(Top.node) = "Let" /\ ~ HasBody(Top.node)))
               /\ ~ (Kind(Top.node) = "ArrayLiteral" /\ C.lvalue = <<>>)
      <4>1. Parts(Top.node) = prog[Top.node].kids
        BY <3>3 DEF Parts
      <4> QED BY <2>1, <2>2, <3>3, <4>1 DEF Kid
    <3> QED BY <3>1, <3>2, <3>3
  <2>4. /\ n \in Nodes /\ Top.node < n
        /\ Binder(n) = IF Opener(Top.node) THEN Top.node ELSE Binder(Top.node)
    BY <2>1, <2>3, KidFacts
  <2>5. \A k \in DOMAIN frames : frames[k].node < n
    <3>1. \A k \in DOMAIN frames : k < Len(frames) => frames[k].node < Top.node
      BY <2>1 DEF OnPath
    <3>2. \A k \in DOMAIN frames : frames[k].node \in Nat
      BY StackFacts DEF Frames, Nodes, NodesOf, Main, Null
    <3> QED BY <2>1, <2>4, <3>1, <3>2 DEF Nodes, NodesOf
  <2>6. Binder(n) = Inner(Len(frames))
    BY <2>1, <2>3, <2>4 DEF Inner, OpensAt, Scoping, Opener, Binder
  <2> QED BY <1>3, <2>3, <2>4, <2>5, <2>6
<1> QED BY <1>2, <1>3

\* What a push leaves as it is.
LEMMA PushFrames ==
  ASSUME prog \in Programs, OnPath, NEW n, Reached(n), NEW inline \in BOOLEAN, Push(n, inline)
  PROVE  LET N == Len(frames) IN
         /\ Len(frames') = N + 1 /\ frames' # <<>>
         /\ frames'[N + 1] = Frame(n, Kind(n), inline, C.expr)
         /\ \A k \in 1 .. N :
              /\ frames'[k].node = frames[k].node /\ frames'[k].kind = frames[k].kind
              /\ frames'[k].saved = frames[k].saved
              /\ frames'[k].next = IF k = N THEN Top.next + 1 ELSE frames[k].next
              /\ frames[k].next \in Nat \ {0}
         /\ (C.expr \in Nodes \cup {Null} => frames' \in Seq(Frames))
<1>1. PICK N \in Nat \ {0} : N = Len(frames) /\ DOMAIN frames = 1 .. N
  <2>1. Len(frames) \in Nat \ {0} /\ DOMAIN frames = 1 .. Len(frames)
    BY StackFacts
  <2> QED BY <2>1
<1>2. PICK f : f = Frame(n, Kind(n), inline, C.expr)
  OBVIOUS
<1>3. PICK s : s = [frames EXCEPT ![N].next = @ + 1]
  OBVIOUS
<1>4. frames' = Append(s, f)
  BY <1>1, <1>2, <1>3 DEF Push
<1>5. \A k \in 1 .. N : frames[k] \in Frames
  BY <1>1, StackFacts
<1>6. s \in Seq(Frames) /\ Len(s) = N
      /\ \A k \in 1 .. N : s[k] = IF k = N THEN [frames[k] EXCEPT !.next = @ + 1] ELSE frames[k]
  <2>1. \A g \in Frames : [g EXCEPT !.next = @ + 1] \in Frames
    BY DEF Frames
  <2>2. frames \in Seq(Frames)
    BY DEF OnPath
  <2> QED BY <1>1, <1>3, <1>5, <2>1, <2>2
<1>7. Len(frames') = N + 1 /\ frames'[N + 1] = f /\ \A k \in 1 .. N : frames'[k] = s[k]
  BY <1>4, <1>6
<1>8. \A k \in 1 .. N :
        /\ frames'[k].node = frames[k].node /\ frames'[k].kind = frames[k].kind
        /\ frames'[k].saved = frames[k].saved
        /\ frames'[k].next = IF k = N THEN Top.next + 1 ELSE frames[k].next
        /\ frames[k].next \in Nat \ {0}
  <2>1. \A g \in Frames : LET h == [g EXCEPT !.next = @ + 1] IN
          /\ h.node = g.node /\ h.kind = g.kind /\ h.saved = g.saved
          /\ h.next = g.next + 1 /\ g.next \in Nat \ {0}
    BY DEF Frames
  <2>2. Top = frames[N]
    BY <1>1 DEF Top
  <2> SUFFICES ASSUME NEW k \in 1 .. N
               PROVE  /\ frames'[k].node = frames[k].node /\ frames'[k].kind = frames[k].kind
                      /\ frames'[k].saved = frames[k].saved
                      /\ frames'[k].next = IF k = N THEN Top.next + 1 ELSE frames[k].next
                      /\ frames[k].next \in Nat \ {0}
    OBVIOUS
  <2>3. CASE k = N
    <3>1. frames'[k] = [Top EXCEPT !.next = @ + 1] /\ Top = frames[k] /\ Top \in Frames
      BY <1>5, <1>6, <1>7, <2>2, <2>3
    <3> QED BY <2>1, <2>3, <3>1
  <2>4. CASE k # N
    <3>1. frames'[k] = frames[k]
      BY <1>6, <1>7, <2>4
    <3>2. frames[k].next \in Nat \ {0}
      BY <1>5, <2>1
    <3> QED BY <2>4, <3>1, <3>2
  <2> QED BY <2>3, <2>4
<1>9. C.expr \in Nodes \cup {Null} => frames' \in Seq(Frames)
  <2>1. n \in Nodes /\ Kind(n) \in NodeKinds
    BY ReachedFacts, NodeFacts
  <2>2. C.expr \in Nodes \cup {Null} => f \in Frames
    BY <1>2, <2>1 DEF Frame, Frames
  <2> QED BY <1>4, <1>6, <2>2
<1> QED BY <1>1, <1>2, <1>4, <1>7, <1>8, <1>9

\* What Meant climbs to, by the kind of the node.
FunctionsMeant(n) == (CHOOSE g : OutwardFunctions(g, prog[n].id))[Binder(n)]
StorageMeant(n) == (CHOOSE g : OutwardStorage(g, prog[n].id))[Binder(n)]

\* The tables stay what they are while a program is compiled, and what a name
\* means with them.
LEMMA MeantStays ==
  ASSUME UNCHANGED tables
  PROVE  \A n : Meant(n)' = Meant(n)
<1>1. prog' = prog /\ scopes' = scopes /\ Nodes' = Nodes
  BY DEF tables, Nodes, NodesOf
<1>2. \A n : Kind(n)' = Kind(n) /\ Binder(n)' = Binder(n)
  BY DEF tables, Kind, Binder
<1>3. \A b, x : /\ St!FunctionsOf(b, x)' = St!FunctionsOf(b, x)
                /\ St!StorageOf(b, x)' = St!StorageOf(b, x)
  BY <1>1 DEF St!FunctionsOf, St!StorageOf, St!Nodes, St!NodesOf, St!Kind, St!Binder,
              St!RangeOf
<1>4. \A S : St!LastOf(S)' = St!LastOf(S)
  BY DEF St!LastOf
<1>5. \A n : Meant(n) =
        IF Kind(n) = "VariableDeclaration" THEN n
        ELSE IF Kind(n) = "FunctionCall" THEN FunctionsMeant(n) ELSE StorageMeant(n)
  BY Zenon DEF Meant, FunctionsMeant, StorageMeant, St!Innermost, OutwardFunctions,
               OutwardStorage, Binder, St!Binder, Null, St!Null
<1>6. \A n : Meant(n)' =
        IF Kind(n)' = "VariableDeclaration" THEN n
        ELSE IF Kind(n)' = "FunctionCall" THEN FunctionsMeant(n)' ELSE StorageMeant(n)'
  BY Zenon DEF Meant, FunctionsMeant, StorageMeant, St!Innermost, OutwardFunctions,
               OutwardStorage, Binder, St!Binder, Null, St!Null
<1>7. \A n : FunctionsMeant(n)' = FunctionsMeant(n) /\ StorageMeant(n)' = StorageMeant(n)
  BY <1>1, <1>2, <1>3, <1>4
     DEF FunctionsMeant, StorageMeant, OutwardFunctions, OutwardStorage, Null
<1> QED BY <1>2, <1>5, <1>6, <1>7

LEMMA TablesStay ==
  ASSUME UNCHANGED tables
  PROVE  /\ prog' = prog /\ scopes' = scopes /\ Nodes' = Nodes /\ Exprs' = Exprs
         /\ Compilers' = Compilers /\ Frames' = Frames /\ Items' = Items /\ Text' = Text
         /\ Openers' = Openers /\ ScopeNumbers' = ScopeNumbers /\ Methods' = Methods
         /\ Classes' = Classes
         /\ \A n : /\ Kind(n)' = Kind(n) /\ Binder(n)' = Binder(n)
                   /\ HasBody(n)' <=> HasBody(n)
                   /\ ScopeOpenedBy(n)' = ScopeOpenedBy(n)
                   /\ Class(n)' = Class(n)
                   /\ Fields(n)' = Fields(n)
                   /\ \A j : Kid(n, j)' = Kid(n, j)
         /\ \A it : GoodItem(it)' <=> GoodItem(it)
         /\ \A t : GoodText(t)' <=> GoodText(t)
<1>1. prog' = prog /\ scopes' = scopes /\ Nodes' = Nodes /\ Exprs' = Exprs
      /\ ScopeNumbers' = ScopeNumbers /\ Openers' = Openers
  BY DEF tables, Nodes, NodesOf, Exprs, IsExpr, Kind, ScopeNumbers, Openers, Opener
<1>2. /\ Compilers' = Compilers /\ Frames' = Frames /\ Items' = Items /\ Text' = Text
      /\ Methods' = Methods /\ Classes' = Classes
  BY <1>1 DEF Compilers, Frames, Items, Text, Methods, Classes
<1>3. \A n : /\ Kind(n)' = Kind(n) /\ Binder(n)' = Binder(n)
             /\ ScopeOpenedBy(n)' = ScopeOpenedBy(n)
             /\ \A j : Kid(n, j)' = Kid(n, j)
  BY DEF tables, Kind, Binder, ScopeOpenedBy, Kid
<1>4. \A n : HasBody(n)' <=> HasBody(n)
  BY DEF tables, HasBody, BodyScope, IsExpr, Kind, Kid
<1>5. \A n : Fields(n)' = Fields(n)
  BY DEF tables, Fields, Kind, Kid
<1>6. \A n : Class(n)' = Class(n)
  BY <1>5 DEF tables, Class, ScopeOf, Kind
<1>7. \A it : Reach(it)' = Reach(it)
  BY DEF tables, Reach
<1>8. \A n : Meant(n)' = Meant(n)
  BY MeantStays
<1>9. \A n : Home(n)' = Home(n)
  BY <1>3, <1>8 DEF Home
<1>10. \A it : GoodItem(it)' <=> GoodItem(it)
  BY <1>1, <1>3, <1>5, <1>7, <1>8, <1>9 DEF GoodItem
<1>11. \A t : GoodText(t)' <=> GoodText(t)
  BY <1>2, <1>10 DEF GoodText
<1> QED BY <1>1, <1>2, <1>3, <1>4, <1>5, <1>6, <1>10, <1>11

LEMMA InnerStep ==
  ASSUME prog \in Programs, OnPath
  PROVE  /\ Inner(1) = 0 /\ ~ OpensAt(1, Scoping) /\ ~ MakesCompiler(1) /\ ~ MakesStream(1)
         /\ \A k \in 2 .. Len(frames) : Binder(frames[k].node) = Inner(k - 1)
<1>1. Inner(1) = 0 /\ ~ OpensAt(1, Scoping) /\ ~ MakesCompiler(1) /\ ~ MakesStream(1)
  BY DEF OnPath, Inner, OpensAt, Scoping, MakesCompiler, MakesStream, OnLeftSideAt
<1>2. ASSUME NEW k \in 2 .. Len(frames) PROVE Binder(frames[k].node) = Inner(k - 1)
  <2>1. CASE k = 2
    BY <1>1, <2>1, RootFacts DEF OnPath, Handed
  <2>2. CASE k # 2
    <3>1. PICK i \in 2 .. Len(frames) : i = k - 1
      BY <1>2, <2>2, StackFacts
    <3>2. PICK m \in Nodes : m = frames[i].node /\ Kind(m) = frames[i].kind
      BY <3>1 DEF OnPath
    <3>3. PICK j \in DOMAIN prog[m].kids :
            frames[k].node = Kid(m, j) /\ (frames[i].kind = "Let" => HasBody(m))
      BY <1>2, <2>2, <3>1, <3>2 DEF OnPath, Handed
    <3>4. Binder(frames[k].node) = IF Opener(m) THEN m ELSE Binder(m)
      BY <3>2, <3>3, KidFacts
    <3> QED BY <3>1, <3>2, <3>3, <3>4 DEF Inner, OpensAt, Scoping, Opener, Binder
  <2> QED BY <2>1, <2>2
<1> QED BY <1>1, <1>2

\* What is said of the frames up to k is a matter of these frames.
LEMMA FramesKept ==
  ASSUME UNCHANGED tables, NEW k \in Nat, k > 0,
         \A i \in 1 .. k : /\ frames'[i].node = frames[i].node
                           /\ frames'[i].kind = frames[i].kind
                           /\ frames'[i].saved = frames[i].saved
  PROVE  /\ \A kinds : OpensAt(k, kinds)' <=> OpensAt(k, kinds)
         /\ InForce(k)' = InForce(k) /\ Inner(k)' = Inner(k)
         /\ \A b, kinds : IsInnermost(b, k, kinds)' <=> IsInnermost(b, k, kinds)
         /\ \A c : Scoped(k, c)' <=> Scoped(k, c)
<1>1. \A kinds : \A i \in 1 .. k : OpensAt(i, kinds)' <=> OpensAt(i, kinds)
  BY TablesStay DEF OpensAt
<1>2. InForce(k)' = InForce(k)
  BY DEF InForce
<1>3. Inner(k)' = Inner(k)
  BY <1>1, TablesStay DEF Inner, Scoping
<1>4. \A b, kinds : IsInnermost(b, k, kinds)' <=> IsInnermost(b, k, kinds)
  BY <1>1 DEF IsInnermost
<1>5. \A c : Scoped(k, c)' <=> Scoped(k, c)
  BY <1>3, <1>4, TablesStay DEF Scoped
<1> QED BY <1>1, <1>2, <1>3, <1>4, <1>5

LEMMA PushSame ==
  ASSUME prog \in Programs, UNCHANGED tables, OnPath, NEW n, Reached(n), NEW inline \in BOOLEAN,
         Push(n, inline), NEW N, N = Len(frames)
  PROVE  /\ \A k \in 1 .. N :
              /\ OpensAt(k, Scoping)' <=> OpensAt(k, Scoping)
              /\ InForce(k)' = InForce(k) /\ Inner(k)' = Inner(k)
              /\ \A b, kinds : IsInnermost(b, k, kinds)' <=> IsInnermost(b, k, kinds)
              /\ \A c : Scoped(k, c)' <=> Scoped(k, c)
              /\ MakesCompiler(k)' <=> MakesCompiler(k)
              /\ MakesStream(k)' <=> MakesStream(k)
         /\ \A kinds : OpensAt(N + 1, kinds)' <=>
                         Kind(n) \in kinds /\ (Kind(n) = "Let" => HasBody(n))
         /\ InForce(N + 1)' = IF IsExpr(n) THEN n ELSE C.expr
         /\ OnLeftSideAt(N + 1)' <=> Kind(n) = "Assignment"
         /\ frames'[N + 1].node = n /\ frames'[N + 1].kind = Kind(n)
         /\ frames'[N + 1].saved = C.expr
<1>1. N \in Nat \ {0} /\ N = Len(frames)
  BY StackFacts
<1>2. /\ frames'[N + 1] = Frame(n, Kind(n), inline, C.expr) /\ Len(frames') = N + 1
      /\ \A k \in 1 .. N :
           /\ frames'[k].node = frames[k].node /\ frames'[k].kind = frames[k].kind
           /\ frames'[k].saved = frames[k].saved
           /\ frames'[k].next = IF k = N THEN Top.next + 1 ELSE frames[k].next
           /\ frames[k].next \in Nat \ {0}
  BY <1>1, PushFrames
<1>3. ASSUME NEW k \in 1 .. N
      PROVE  /\ OpensAt(k, Scoping)' <=> OpensAt(k, Scoping)
             /\ InForce(k)' = InForce(k) /\ Inner(k)' = Inner(k)
             /\ \A b, kinds : IsInnermost(b, k, kinds)' <=> IsInnermost(b, k, kinds)
             /\ \A c : Scoped(k, c)' <=> Scoped(k, c)
             /\ MakesCompiler(k)' <=> MakesCompiler(k)
             /\ MakesStream(k)' <=> MakesStream(k)
  <2>1. k \in Nat /\ k > 0 /\ \A i \in 1 .. k : i \in 1 .. N
    OBVIOUS
  <2>2. /\ \A kinds : OpensAt(k, kinds)' <=> OpensAt(k, kinds)
        /\ InForce(k)' = InForce(k) /\ Inner(k)' = Inner(k)
        /\ \A b, kinds : IsInnermost(b, k, kinds)' <=> IsInnermost(b, k, kinds)
        /\ \A c : Scoped(k, c)' <=> Scoped(k, c)
    BY <1>2, <2>1, FramesKept
  <2>3. OnLeftSideAt(k)' <=> OnLeftSideAt(k)
    <3>1. Top = frames[N]
      BY <1>1 DEF Top
    <3> QED BY <1>1, <1>2, <3>1 DEF OnLeftSideAt
  <2> QED BY <1>2, <2>2, <2>3 DEF MakesCompiler, MakesStream, Scoping
<1>4. /\ frames'[N + 1].node = n /\ frames'[N + 1].kind = Kind(n)
      /\ frames'[N + 1].saved = C.expr /\ frames'[N + 1].next = 1
  BY <1>2 DEF Frame
<1>5. \A kinds : OpensAt(N + 1, kinds)' <=>
                         Kind(n) \in kinds /\ (Kind(n) = "Let" => HasBody(n))
  BY <1>4, TablesStay DEF OpensAt
<1>6. InForce(N + 1)' = IF IsExpr(n) THEN n ELSE C.expr
  BY <1>4 DEF InForce, IsExpr
<1>7. OnLeftSideAt(N + 1)' <=> Kind(n) = "Assignment"
  BY <1>4 DEF OnLeftSideAt
<1> QED BY <1>1, <1>3, <1>4, <1>5, <1>6, <1>7

LEMMA PushOnPath ==
  ASSUME prog \in Programs, UNCHANGED tables, OnPath, C.expr \in Nodes \cup {Null},
         NEW n, Reached(n), NEW inline \in BOOLEAN, Push(n, inline)
  PROVE  OnPath'
<1>1. Len(frames) \in Nat \ {0} /\ DOMAIN frames = 1 .. Len(frames)
  BY StackFacts
<1>2. PICK N \in Nat \ {0} : N = Len(frames)
  BY <1>1
<1>3. /\ Len(frames') = N + 1 /\ frames' # <<>> /\ frames' \in Seq(Frames)
      /\ \A k \in 1 .. N :
           /\ frames'[k].node = frames[k].node /\ frames'[k].kind = frames[k].kind
           /\ frames'[k].next = IF k = N THEN Top.next + 1 ELSE frames[k].next
  BY <1>2, PushFrames
<1>4. frames'[N + 1].node = n /\ frames'[N + 1].kind = Kind(n)
  BY <1>2, PushSame
<1>5. /\ n \in Nodes
      /\ \A k \in 1 .. N : frames[k].node < n
      /\ N = 1 => n = 1
      /\ N > 1 => /\ Top.next \in DOMAIN prog[Top.node].kids
                  /\ n = Kid(Top.node, Top.next)
                  /\ Top.kind = "Let" => HasBody(Top.node)
  BY <1>1, <1>2, ReachedFacts
<1>6. /\ Frames' = Frames /\ Nodes' = Nodes
      /\ \A m : /\ Kind(m)' = Kind(m) /\ (HasBody(m)' <=> HasBody(m))
                /\ \A j : Kid(m, j)' = Kid(m, j)
      /\ prog' = prog
  BY TablesStay
<1>7. frames'[1].kind = "main" /\ frames'[1].node = Main
  BY <1>2, <1>3 DEF OnPath
<1>8. ASSUME NEW k \in 2 .. N + 1
      PROVE  /\ frames'[k].node \in Nodes /\ frames'[k].kind = Kind(frames'[k].node)
             /\ Handed(k)'
  <2>1. CASE k = N + 1
    <3>1. frames'[N].next - 1 = Top.next /\ frames'[N].node = Top.node
          /\ frames'[N].kind = Top.kind
      <4>1. Top.next \in Nat /\ Top = frames[N]
        BY <1>2, StackFacts DEF Frames
      <4> QED BY <1>2, <1>3, <4>1
    <3>2. Handed(N + 1)'
      BY <1>2, <1>4, <1>5, <1>6, <3>1 DEF Handed
    <3> QED BY <1>4, <1>5, <2>1, <3>2
  <2>2. CASE k # N + 1
    <3>1. k \in 2 .. N /\ k - 1 \in 1 .. N /\ k - 1 # N /\ k \in 1 .. N
      BY <1>2, <2>2
    <3>2. frames[k].node \in Nodes /\ frames[k].kind = Kind(frames[k].node) /\ Handed(k)
      BY <1>2, <3>1 DEF OnPath
    <3>3. Handed(k)'
      BY <1>3, <1>6, <3>1, <3>2 DEF Handed
    <3> QED BY <1>3, <3>1, <3>2, <3>3
  <2> QED BY <2>1, <2>2
<1>9. \A i, k \in DOMAIN frames' : i < k => frames'[i].node < frames'[k].node
  <2>1. DOMAIN frames' = 1 .. N + 1
    BY <1>3
  <2>2. \A i, k \in 1 .. N : i < k => frames[i].node < frames[k].node
    BY <1>1, <1>2 DEF OnPath
  <2> QED BY <1>2, <1>3, <1>4, <1>5, <2>1, <2>2
<1> QED BY <1>3, <1>6, <1>7, <1>8, <1>9 DEF OnPath

LEMMA PushExprs ==
  ASSUME prog \in Programs, UNCHANGED tables, OnPath, ExprsSaved, C.expr = InForce(Len(frames)),
         NEW n, Reached(n), NEW inline \in BOOLEAN, Push(n, inline)
  PROVE  ExprsSaved'
<1>1. Len(frames) \in Nat \ {0} /\ DOMAIN frames = 1 .. Len(frames)
  BY StackFacts
<1>2. PICK N \in Nat \ {0} : N = Len(frames)
  BY <1>1
<1>3. /\ Len(frames') = N + 1
      /\ \A k \in 1 .. N :
           /\ frames'[k].node = frames[k].node /\ frames'[k].kind = frames[k].kind
           /\ frames'[k].saved = frames[k].saved
  BY <1>2, PushFrames
<1>4. /\ \A k \in 1 .. N : InForce(k)' = InForce(k)
      /\ InForce(N + 1)' = IF IsExpr(n) THEN n ELSE C.expr
      /\ frames'[N + 1].node = n /\ frames'[N + 1].kind = Kind(n)
      /\ frames'[N + 1].saved = C.expr
  BY <1>2, PushSame
<1>5. /\ n \in Nodes
      /\ N = 1 => n = 1
      /\ N > 1 => Top.next \in DOMAIN prog[Top.node].kids /\ n = Kid(Top.node, Top.next)
  BY <1>1, <1>2, ReachedFacts
<1>6. Exprs' = Exprs /\ \A m : Binder(m)' = Binder(m)
  BY TablesStay
<1>7. /\ N > 1 => /\ InForce(N) \in Exprs /\ Top.node \in Nodes /\ Top.kind = Kind(Top.node)
                  /\ Top.kind \in LValueKinds => Binder(InForce(N)) = Binder(Top.node)
  BY <1>2, StackFacts DEF ExprsSaved, Top
<1>8. InForce(N + 1)' \in Exprs
  <2>1. CASE IsExpr(n)
    BY <1>4, <1>5, <2>1 DEF Exprs
  <2>2. CASE ~ IsExpr(n)
    <3>1. N > 1
      BY <1>2, <1>5, <2>2, RootFacts DEF Exprs
    <3> QED BY <1>2, <1>4, <1>7, <2>2, <3>1
  <2> QED BY <2>1, <2>2
<1>9. Kind(n) \in LValueKinds => Binder(InForce(N + 1)') = Binder(n)
  <2> SUFFICES ASSUME Kind(n) \in LValueKinds PROVE Binder(InForce(N + 1)') = Binder(n)
    OBVIOUS
  <2>1. ~ IsExpr(n)
    BY DEF IsExpr, LValueKinds, ExprKinds
  <2>2. N > 1
    BY <1>2, <1>5, <2>1, RootFacts DEF Exprs
  <2>3. Kind(Top.node) \in {"LValue", "RecordField", "ArrayElement", "Assignment"}
    BY <1>5, <1>7, <2>2, KidSorts
  <2>4. Binder(n) = Binder(Top.node)
    BY <1>5, <1>7, <2>2, <2>3, KidFacts DEF Opener
  <2>5. InForce(N + 1)' = InForce(N)
    BY <1>2, <1>4, <2>1
  <2>6. Binder(InForce(N)) = Binder(Top.node)
    <3>1. CASE Top.kind \in LValueKinds
      BY <1>7, <2>2, <3>1
    <3>2. CASE Top.kind \notin LValueKinds
      <4>1. Top.kind \in ExprKinds
        BY <1>7, <2>2, <2>3, <3>2 DEF LValueKinds, ExprKinds
      <4> QED BY <1>2, <4>1 DEF InForce, Top
    <3> QED BY <3>1, <3>2
  <2> QED BY <2>4, <2>5, <2>6
<1>10. frames'[1].saved = Null
  BY <1>2, <1>3 DEF ExprsSaved
<1>11. ASSUME NEW k \in 2 .. N + 1
       PROVE  /\ frames'[k].saved = InForce(k - 1)'
              /\ InForce(k)' \in Exprs
              /\ frames'[k].kind \in LValueKinds => Binder(InForce(k)') = Binder(frames'[k].node)
  <2>1. CASE k = N + 1
    <3>1. N \in 1 .. N /\ k - 1 = N
      BY <2>1
    <3> QED BY <1>2, <1>4, <1>8, <1>9, <2>1, <3>1
  <2>2. CASE k # N + 1
    <3>1. k \in 2 .. N /\ k - 1 \in 1 .. N /\ k \in 1 .. N
      BY <1>2, <2>2
    <3>2. /\ frames[k].saved = InForce(k - 1) /\ InForce(k) \in Exprs
          /\ frames[k].kind \in LValueKinds => Binder(InForce(k)) = Binder(frames[k].node)
      BY <1>2, <3>1 DEF ExprsSaved
    <3> QED BY <1>3, <1>4, <3>1, <3>2
  <2> QED BY <2>1, <2>2
<1>12. \A k \in 2 .. Len(frames') : Binder(InForce(k))' = Binder(InForce(k)')
  BY TablesStay DEF Binder
<1> QED BY <1>3, <1>6, <1>10, <1>11, <1>12 DEF ExprsSaved

LEMMA RisingOn ==
  ASSUME NEW s \in Seq(Nat), s # <<>>, Rising(s), NEW last \in Nat, last >= s[Len(s)]
  PROVE  /\ Append(s, last) \in Seq(Nat) /\ Len(Append(s, last)) = Len(s) + 1
         /\ Rising(Append(s, last)) /\ Append(s, last)[Len(s) + 1] = last
         /\ \A k \in 1 .. Len(s) : Append(s, last)[k] = s[k]
<1>1. /\ Len(s) \in Nat /\ Len(s) >= 1 /\ DOMAIN s = 1 .. Len(s)
      /\ \A k \in 1 .. Len(s) : s[k] \in Nat
  OBVIOUS
<1>2. /\ Append(s, last) \in Seq(Nat) /\ Len(Append(s, last)) = Len(s) + 1
      /\ Append(s, last)[Len(s) + 1] = last
      /\ \A k \in 1 .. Len(s) : Append(s, last)[k] = s[k]
      /\ DOMAIN Append(s, last) = 1 .. Len(s) + 1
  OBVIOUS
<1>3. \A k \in 1 .. Len(s) : s[k] <= last
  BY <1>1 DEF Rising
<1>4. Rising(Append(s, last))
  BY <1>1, <1>2, <1>3 DEF Rising
<1> QED BY <1>2, <1>4

LEMMA PushCounts ==
  ASSUME prog \in Programs, UNCHANGED tables, OnPath, NEW n, Reached(n), NEW inline \in BOOLEAN,
         Push(n, inline), NEW N, N = Len(frames),
         NEW using, NEW writing, Counts(using, writing),
         NEW u \in Nat, u = Len(compilers'),
         u = IF MakesCompiler(N + 1)' THEN Len(compilers) + 1 ELSE Len(compilers),
         NEW w \in Nat, w = Len(outs'),
         w = IF MakesStream(N + 1)' THEN Len(outs) + 1 ELSE Len(outs)
  PROVE  Counts(Append(using, u), Append(writing, w))'
<1>1. Len(frames) \in Nat \ {0}
  BY StackFacts
<1>2. N \in Nat \ {0} /\ N = Len(frames)
  BY <1>1
<1>3. Len(frames') = N + 1
  BY <1>2, PushFrames
<1>4. \A k \in 1 .. N : /\ MakesCompiler(k)' <=> MakesCompiler(k)
                        /\ MakesStream(k)' <=> MakesStream(k)
  BY <1>2, PushSame
<1>5. /\ using \in Seq(Nat) /\ Len(using) = N /\ Rising(using) /\ using[1] = 1
      /\ writing \in Seq(Nat) /\ Len(writing) = N /\ Rising(writing) /\ writing[1] = 1
      /\ using[N] = Len(compilers) /\ writing[N] = Len(outs)
      /\ \A k \in 2 .. N :
           /\ using[k] = IF MakesCompiler(k) THEN using[k - 1] + 1 ELSE using[k - 1]
           /\ writing[k] = IF MakesStream(k) THEN writing[k - 1] + 1 ELSE writing[k - 1]
  BY <1>2 DEF Counts
<1>6. using[N] \in Nat /\ writing[N] \in Nat /\ using # <<>> /\ writing # <<>>
  BY <1>2, <1>5
<1>7. u >= using[N] /\ w >= writing[N]
  BY <1>5, <1>6
<1>8. PICK us : us = Append(using, u)
  OBVIOUS
<1>9. PICK ws : ws = Append(writing, w)
  OBVIOUS
<1>10. /\ us \in Seq(Nat) /\ Len(us) = N + 1 /\ Rising(us) /\ us[N + 1] = u
       /\ \A k \in 1 .. N : us[k] = using[k]
  BY <1>5, <1>6, <1>7, <1>8, RisingOn
<1>11. /\ ws \in Seq(Nat) /\ Len(ws) = N + 1 /\ Rising(ws) /\ ws[N + 1] = w
       /\ \A k \in 1 .. N : ws[k] = writing[k]
  BY <1>5, <1>6, <1>7, <1>9, RisingOn
<1>12. us[1] = 1 /\ ws[1] = 1
  <2>1. 1 \in 1 .. N
    BY <1>2
  <2> QED BY <1>5, <1>10, <1>11, <2>1
<1>13. ASSUME NEW k \in 2 .. N + 1
       PROVE  /\ us[k] = IF MakesCompiler(k)' THEN us[k - 1] + 1 ELSE us[k - 1]
              /\ ws[k] = IF MakesStream(k)' THEN ws[k - 1] + 1 ELSE ws[k - 1]
  <2>1. CASE k = N + 1
    <3>1. N \in 1 .. N /\ k - 1 = N
      BY <1>2, <2>1
    <3>2. us[N] = Len(compilers) /\ ws[N] = Len(outs)
      BY <1>5, <1>10, <1>11, <3>1
    <3>3. u = IF MakesCompiler(k)' THEN Len(compilers) + 1 ELSE Len(compilers)
      BY <1>2, <2>1
    <3>4. w = IF MakesStream(k)' THEN Len(outs) + 1 ELSE Len(outs)
      BY <1>2, <2>1
    <3> QED BY <1>10, <1>11, <2>1, <3>1, <3>2, <3>3, <3>4
  <2>2. CASE k # N + 1
    <3>1. k \in 2 .. N /\ k \in 1 .. N /\ k - 1 \in 1 .. N
      BY <1>2, <2>2
    <3> QED BY <1>4, <1>5, <1>10, <1>11, <3>1
  <2> QED BY <2>1, <2>2
<1> QED BY <1>3, <1>8, <1>9, <1>10, <1>11, <1>12, <1>13 DEF Counts

LEMMA CountsFacts ==
  ASSUME OnPath, prog \in Programs, NEW using, NEW writing, Counts(using, writing)
  PROVE  /\ Len(compilers) \in Nat /\ Len(compilers) >= 1
         /\ Len(outs) \in Nat /\ Len(outs) >= 1
         /\ \A k \in 1 .. Len(frames) : /\ using[k] \in 1 .. Len(compilers)
                                        /\ writing[k] \in 1 .. Len(outs)
         /\ \A k \in 2 .. Len(frames) : /\ MakesCompiler(k) => using[k] > 1
                                        /\ MakesStream(k) => writing[k] > 1
<1>1. Len(frames) \in Nat /\ Len(frames) >= 1
  BY StackFacts
<1>2. PICK N \in Nat \ {0} : N = Len(frames)
  BY <1>1
<1>3. ASSUME NEW s \in Seq(Nat), Len(s) = N, Rising(s), s[1] = 1
      PROVE  s[N] \in Nat /\ s[N] >= 1 /\ \A k \in 1 .. N : s[k] \in 1 .. s[N]
  <2>1. 1 \in DOMAIN s /\ N \in DOMAIN s /\ \A k \in DOMAIN s : s[k] \in Nat
    BY <1>2, <1>3
  <2>2. \A k \in DOMAIN s : s[1] <= s[k] /\ s[k] <= s[N]
    BY <1>2, <1>3, <2>1 DEF Rising
  <2> QED BY <1>2, <1>3, <2>1, <2>2
<1>4. /\ using[N] \in Nat /\ using[N] >= 1 /\ \A k \in 1 .. N : using[k] \in 1 .. using[N]
      /\ writing[N] \in Nat /\ writing[N] >= 1
      /\ \A k \in 1 .. N : writing[k] \in 1 .. writing[N]
  BY <1>2, <1>3 DEF Counts
<1>5. \A k \in 2 .. N : k - 1 \in 1 .. N
  BY <1>2
<1>6. ASSUME NEW k \in 2 .. N
      PROVE  /\ MakesCompiler(k) => using[k] > 1
             /\ MakesStream(k) => writing[k] > 1
  <2>1. /\ using[k - 1] \in Nat /\ using[k - 1] >= 1
        /\ writing[k - 1] \in Nat /\ writing[k - 1] >= 1
    BY <1>4, <1>5
  <2>2. /\ using[k] = IF MakesCompiler(k) THEN using[k - 1] + 1 ELSE using[k - 1]
        /\ writing[k] = IF MakesStream(k) THEN writing[k - 1] + 1 ELSE writing[k - 1]
    BY <1>2 DEF Counts
  <2> QED BY <2>1, <2>2
<1> QED BY <1>2, <1>4, <1>6 DEF Counts

LEMMA PushInnermost ==
  ASSUME prog \in Programs, UNCHANGED tables, OnPath, NEW n, Reached(n), NEW inline \in BOOLEAN,
         Push(n, inline), NEW N, N = Len(frames)
  PROVE  /\ \A b, kinds : IsInnermost(b, N, kinds) =>
              IF OpensAt(N + 1, kinds)' THEN IsInnermost(n, N + 1, kinds)'
              ELSE IsInnermost(b, N + 1, kinds)'
         /\ Inner(N + 1)' = IF OpensAt(N + 1, Scoping)' THEN n ELSE Inner(N)
<1>1. N \in Nat \ {0} /\ DOMAIN frames = 1 .. N
  BY StackFacts
<1>2. /\ frames'[N + 1].node = n /\ frames'[N + 1].kind = Kind(n)
      /\ \A k \in 1 .. N : frames'[k].node = frames[k].node /\ frames'[k].kind = frames[k].kind
      /\ n \in Nodes /\ \A k \in 1 .. N : frames[k].node < n
      /\ Binder(n) = Inner(N)
  <2>1. frames'[N + 1].node = n /\ frames'[N + 1].kind = Kind(n)
    BY PushSame
  <2>2. \A k \in 1 .. N : frames'[k].node = frames[k].node /\ frames'[k].kind = frames[k].kind
    BY PushFrames
  <2>3. n \in Nodes /\ (\A k \in 1 .. N : frames[k].node < n) /\ Binder(n) = Inner(N)
    BY <1>1, ReachedFacts
  <2> QED BY <2>1, <2>2, <2>3
<1>3. Inner(N + 1)' = IF OpensAt(N + 1, Scoping)' THEN n ELSE Inner(N)
  <2>1. prog' = prog /\ N + 1 # 1
    BY <1>1, TablesStay
  <2> QED BY <1>2, <2>1 DEF Inner, Binder
<1>4. ASSUME NEW b, NEW kinds, IsInnermost(b, N, kinds)
      PROVE  IF OpensAt(N + 1, kinds)' THEN IsInnermost(n, N + 1, kinds)'
             ELSE IsInnermost(b, N + 1, kinds)'
  <2>1. \A k \in 1 .. N : OpensAt(k, kinds)' <=> OpensAt(k, kinds)
    BY <1>2, TablesStay DEF OpensAt
  <2>2. \A k \in 1 .. N + 1 : k \in 1 .. N \/ k = N + 1
    BY <1>1
  <2>3. 1 .. N \subseteq 1 .. N + 1 /\ N + 1 \in 1 .. N + 1
    BY <1>1
  <2>4. \A k \in 1 .. N : frames[k].node <= n
    <3>1. \A k \in 1 .. N : frames[k].node \in Nat
      BY <1>1, StackFacts DEF Frames, Nodes, NodesOf, Main, Null
    <3> QED BY <1>2, <3>1 DEF Nodes, NodesOf
  <2>5. CASE OpensAt(N + 1, kinds)'
    <3>1. n <= n
      BY <1>2 DEF Nodes, NodesOf
    <3>2. \A i \in 1 .. N + 1 : frames'[i].node <= n
      BY <1>2, <2>2, <2>4, <3>1
    <3>3. IsInnermost(n, N + 1, kinds)'
      BY <1>2, <2>3, <2>5, <3>2 DEF IsInnermost
    <3> QED BY <2>5, <3>3
  <2>6. CASE ~ OpensAt(N + 1, kinds)'
    <3>1. \A i \in 1 .. N : OpensAt(i, kinds) => frames[i].node <= b
      BY <1>4 DEF IsInnermost
    <3>2. \A i \in 1 .. N + 1 : OpensAt(i, kinds)' => frames'[i].node <= b
      BY <1>2, <2>1, <2>2, <2>6, <3>1
    <3>3. b = 0 \/ \E i \in 1 .. N + 1 : OpensAt(i, kinds)' /\ frames'[i].node = b
      BY <1>2, <1>4, <2>1, <2>3 DEF IsInnermost
    <3>4. IsInnermost(b, N + 1, kinds)'
      BY <3>2, <3>3 DEF IsInnermost
    <3> QED BY <2>6, <3>4
  <2> QED BY <2>5, <2>6
<1> QED BY <1>3, <1>4

LEMMA PushSuits ==
  ASSUME prog \in Programs, UNCHANGED tables, OnPath, NEW n, Reached(n), NEW inline \in BOOLEAN,
         Push(n, inline), NEW N, N = Len(frames), NEW L, L = Len(compilers),
         NEW using, NEW writing, Counts(using, writing), Suits(using),
         NEW u \in Nat, u = Len(compilers'), u = IF MakesCompiler(N + 1)' THEN L + 1 ELSE L,
         \A i \in 1 .. L :
           /\ compilers'[i].local = compilers[i].local /\ compilers'[i].req = compilers[i].req
           /\ compilers'[i].expr = IF i = L /\ IsExpr(n) THEN n ELSE compilers[i].expr,
         MakesCompiler(N + 1)' =>
           /\ compilers'[u].expr = InForce(N + 1)'
           /\ compilers'[u].local = IF OpensAt(N + 1, Scoping)' THEN ScopeOpenedBy(n)
                                    ELSE LocalScope
           /\ compilers'[u].req = IF Kind(n) = "FunctionDeclaration"
                                  THEN ScopeOpenedBy(Binder(n)) ELSE ReqScope
  PROVE  Suits(Append(using, u))'
<1>1. /\ N \in Nat \ {0} /\ L \in Nat \ {0}
      /\ \A k \in 1 .. N : using[k] \in 1 .. L
      /\ \A k \in 2 .. N : MakesCompiler(k) => using[k] > 1
      /\ DOMAIN frames = 1 .. N
  BY StackFacts, CountsFacts
<1>2. PICK us : us = Append(using, u)
  OBVIOUS
<1>3. us[N + 1] = u /\ \A k \in 1 .. N : us[k] = using[k]
  <2>1. using \in Seq(Nat) /\ Len(using) = N
    BY DEF Counts
  <2> QED BY <1>1, <1>2, <2>1
<1>4. /\ using[N] = L /\ C = compilers[L] /\ C' = compilers'[u]
      /\ C.expr = InForce(N)
      /\ \A k \in 1 .. N : /\ MakesCompiler(k) => compilers[using[k] - 1].expr = InForce(k)
                           /\ Scoped(k, compilers[using[k]])
                           /\ IsInnermost(Inner(k), k, Scoping)
  BY <1>1 DEF Suits, C, Counts
<1>5. /\ \A k \in 1 .. N :
           /\ InForce(k)' = InForce(k) /\ Inner(k)' = Inner(k)
           /\ \A b, kinds : IsInnermost(b, k, kinds)' <=> IsInnermost(b, k, kinds)
           /\ \A c : Scoped(k, c)' <=> Scoped(k, c)
           /\ MakesCompiler(k)' <=> MakesCompiler(k)
      /\ InForce(N + 1)' = IF IsExpr(n) THEN n ELSE C.expr
      /\ OnLeftSideAt(N + 1)' <=> Kind(n) = "Assignment"
      /\ \A kinds : OpensAt(N + 1, kinds)' <=>
                         Kind(n) \in kinds /\ (Kind(n) = "Let" => HasBody(n))
  BY PushSame
<1>6. ASSUME NEW k, NEW c, NEW d, c.local = d.local, c.req = d.req
      PROVE  Scoped(k, c) => Scoped(k, d)
  BY <1>6 DEF Scoped
<1>7. C'.expr = InForce(N + 1)'
  <2>1. CASE MakesCompiler(N + 1)'
    BY <1>4, <2>1
  <2>2. CASE ~ MakesCompiler(N + 1)'
    <3>1. L \in 1 .. L
      BY <1>1
    <3> QED BY <1>4, <1>5, <2>2, <3>1
  <2> QED BY <2>1, <2>2
<1>8. ASSUME NEW k \in 1 .. N
      PROVE  /\ MakesCompiler(k)' => compilers'[us[k] - 1].expr = InForce(k)'
             /\ Scoped(k, compilers[us[k]])'
             /\ IsInnermost(Inner(k), k, Scoping)'
  <2>1. MakesCompiler(k)' => compilers'[us[k] - 1].expr = InForce(k)'
    <3> SUFFICES ASSUME MakesCompiler(k) PROVE compilers'[using[k] - 1].expr = InForce(k)
      BY <1>3, <1>5
    <3>1. k # 1
      BY InnerStep
    <3>2. using[k] - 1 \in 1 .. L /\ using[k] - 1 # L
      BY <1>1, <3>1
    <3> QED BY <1>4, <3>2
  <2>2. Scoped(k, compilers'[using[k]])
    <3>1. using[k] \in 1 .. L /\ Scoped(k, compilers[using[k]])
      BY <1>1, <1>4
    <3> QED BY <1>6, <3>1
  <2>3. Scoped(k, compilers[us[k]])'
    <3>1. PICK c : c = compilers'[us[k]]
      OBVIOUS
    <3>2. Scoped(k, c)'
      BY <1>3, <1>5, <2>2, <3>1
    <3> QED BY <3>1, <3>2 DEF Scoped
  <2>4. IsInnermost(Inner(k), k, Scoping)'
    <3>1. PICK b : b = Inner(k)
      OBVIOUS
    <3>2. IsInnermost(b, k, Scoping)'
      BY <1>4, <1>5, <3>1
    <3> QED BY <1>5, <3>1, <3>2 DEF IsInnermost
  <2> QED BY <2>1, <2>3, <2>4, Zenon
<1>9. /\ MakesCompiler(N + 1)' => compilers'[us[N + 1] - 1].expr = InForce(N + 1)'
      /\ Scoped(N + 1, compilers[us[N + 1]])'
      /\ IsInnermost(Inner(N + 1), N + 1, Scoping)'
  <2>1. MakesCompiler(N + 1)' => compilers'[us[N + 1] - 1].expr = InForce(N + 1)'
    <3>1. L \in 1 .. L /\ L + 1 - 1 = L
      BY <1>1
    <3> QED BY <1>3, <1>4, <1>5, <3>1
  <2>2. /\ Inner(N + 1)' = IF OpensAt(N + 1, Scoping)' THEN n ELSE Inner(N)
        /\ \A b, kinds : IsInnermost(b, N, kinds) =>
              IF OpensAt(N + 1, kinds)' THEN IsInnermost(n, N + 1, kinds)'
              ELSE IsInnermost(b, N + 1, kinds)'
    BY PushInnermost
  <2>3. PICK b : b = Inner(N + 1)'
    OBVIOUS
  <2>4. IsInnermost(Inner(N), N, Scoping)
    <3>1. N \in 1 .. N
      BY <1>1
    <3> QED BY <1>4, <3>1
  <2>5. IsInnermost(b, N + 1, Scoping)'
    BY <2>2, <2>3, <2>4
  <2>6. IsInnermost(Inner(N + 1), N + 1, Scoping)'
    BY <2>3, <2>5 DEF IsInnermost
  <2>7. PICK c : c = compilers'[u]
    OBVIOUS
  <2>8. Scoped(N, compilers[L])
    <3>1. N \in 1 .. N
      BY <1>1
    <3> QED BY <1>4, <3>1
  <2>9. c.local = ScopeOpenedBy(b)
    <3>1. CASE MakesCompiler(N + 1)'
      <4>1. LocalScope = ScopeOpenedBy(Inner(N))
        BY <1>4, <2>8 DEF Scoped, LocalScope
      <4> QED BY <2>2, <2>3, <2>7, <3>1, <4>1
    <3>2. CASE ~ MakesCompiler(N + 1)'
      <4>1. ~ OpensAt(N + 1, Scoping)'
        BY <3>2 DEF MakesCompiler
      <4>2. c.local = compilers[L].local
        BY <1>1, <2>7, <3>2
      <4> QED BY <2>2, <2>3, <2>8, <4>1, <4>2 DEF Scoped
    <3> QED BY <3>1, <3>2
  <2>10. \E f \in {0} \cup Nodes :
           /\ IsInnermost(f, N + 1, {"FunctionDeclaration"})'
           /\ c.req = IF f = 0 THEN NoScope ELSE ScopeOpenedBy(Binder(f))
    <3>1. PICK f \in {0} \cup Nodes :
            /\ IsInnermost(f, N, {"FunctionDeclaration"})
            /\ compilers[L].req = IF f = 0 THEN NoScope ELSE ScopeOpenedBy(Binder(f))
      BY <2>8 DEF Scoped
    <3>2. CASE Kind(n) = "FunctionDeclaration"
      <4>1. OpensAt(N + 1, {"FunctionDeclaration"})' /\ OpensAt(N + 1, Scoping)'
        BY <1>5, <3>2 DEF Scoping
      <4>2. MakesCompiler(N + 1)'
        BY <4>1 DEF MakesCompiler
      <4>3. n \in Nodes /\ n # 0
        BY ReachedFacts DEF Nodes, NodesOf
      <4> QED BY <2>2, <2>7, <3>1, <3>2, <4>1, <4>2, <4>3
    <3>3. CASE Kind(n) # "FunctionDeclaration"
      <4>1. ~ OpensAt(N + 1, {"FunctionDeclaration"})'
        BY <1>5, <3>3
      <4>2. c.req = compilers[L].req
        BY <1>1, <1>4, <2>7, <3>3 DEF ReqScope
      <4> QED BY <2>2, <3>1, <4>1, <4>2
    <3> QED BY <3>2, <3>3
  <2>11. us[N + 1] = u
    BY <1>3
  <2>12. Scoped(N + 1, compilers[us[N + 1]])'
    <3>1. /\ Nodes' = Nodes /\ ScopeOpenedBy(b)' = ScopeOpenedBy(b)
          /\ \A f : Binder(f)' = Binder(f) /\ ScopeOpenedBy(Binder(f))' = ScopeOpenedBy(Binder(f))
      <4>1. \A m : ScopeOpenedBy(m)' = ScopeOpenedBy(m)
        BY TablesStay
      <4>2. \A f : Binder(f)' = Binder(f)
        BY TablesStay
      <4>3. \A f : ScopeOpenedBy(Binder(f))' = ScopeOpenedBy(Binder(f))
        BY DEF tables, ScopeOpenedBy, Binder, Kind
      <4> QED BY <4>1, <4>2, <4>3, TablesStay
    <3>2. c.local = ScopeOpenedBy(Inner(N + 1))'
      <4>1. ScopeOpenedBy(Inner(N + 1))' = ScopeOpenedBy(b)'
        BY <2>3 DEF ScopeOpenedBy, Kind
      <4> QED BY <2>9, <3>1, <4>1
    <3>3. \E f \in {0} \cup Nodes' :
           /\ IsInnermost(f, N + 1, {"FunctionDeclaration"})'
           /\ c.req = IF f = 0 THEN NoScope ELSE ScopeOpenedBy(Binder(f))'
      BY <2>10, <3>1
    <3> QED BY <2>7, <2>11, <3>2, <3>3 DEF Scoped
  <2> QED BY <2>1, <2>6, <2>12
<1>10. Len(frames') = N + 1 /\ DOMAIN frames' = 1 .. N + 1
  <2>1. Len(frames') = N + 1
    BY PushFrames
  <2>2. frames \in Seq(Frames)
    BY DEF OnPath
  <2> QED BY <1>1, <2>1, <2>2 DEF Push
<1>11. ASSUME NEW k \in 1 .. N + 1
       PROVE  /\ MakesCompiler(k)' => compilers'[us[k] - 1].expr = InForce(k)'
              /\ Scoped(k, compilers[us[k]])'
              /\ IsInnermost(Inner(k), k, Scoping)'
  <2>1. CASE k = N + 1
    BY <1>9, <2>1, Zenon
  <2>2. CASE k # N + 1
    <3>1. k \in 1 .. N
      BY <1>1, <2>2
    <3> QED BY <1>8, <3>1, Zenon
  <2> QED BY <2>1, <2>2
<1>12. C'.expr = InForce(Len(frames))'
  BY <1>7, <1>10 DEF InForce
<1> QED BY <1>2, <1>10, <1>11, <1>12 DEF Suits

\* A node whose handler makes a Compiler, and one that suits the node.
MakesOne(n) ==
  Kind(n) \in {"Assignment", "FunctionDeclaration"} \/ (Kind(n) = "Let" /\ HasBody(n))
IsCompilerOf(n, c) ==
  /\ c.expr = IF IsExpr(n) THEN n ELSE C.expr
  /\ c.local = IF Opener(n) THEN ScopeOpenedBy(n) ELSE LocalScope
  /\ c.req = IF Kind(n) = "FunctionDeclaration" THEN ScopeOpenedBy(Binder(n)) ELSE ReqScope

\* A handler that begins keeps the invariant of the call stack when the
\* Compilers below its own stay in their scopes.
LEMMA Pushed ==
  ASSUME prog \in Programs, UNCHANGED tables, AtWork, NEW n, Reached(n),
         NEW inline \in BOOLEAN, Push(n, inline), compilers' \in Seq(Compilers),
         Len(compilers') = IF MakesOne(n) THEN Len(compilers) + 1 ELSE Len(compilers),
         \A i \in 1 .. Len(compilers) :
           /\ compilers'[i].local = compilers[i].local /\ compilers'[i].req = compilers[i].req
           /\ compilers'[i].expr = IF i = Len(compilers) /\ IsExpr(n) THEN n
                                   ELSE compilers[i].expr,
         MakesOne(n) => IsCompilerOf(n, compilers'[Len(compilers) + 1]),
         Len(outs') = IF Kind(n) \in {"Assignment", "FunctionDeclaration"}
                      THEN Len(outs) + 1 ELSE Len(outs)
  PROVE  AtWork'
<1>1. OnPath /\ ExprsSaved /\ compilers \in Seq(Compilers)
  BY DEF AtWork
<1>2. PICK using, writing : Counts(using, writing) /\ Suits(using)
  BY DEF AtWork
<1>3. /\ Len(frames) \in Nat \ {0} /\ Len(compilers) \in Nat \ {0} /\ Len(outs) \in Nat
  BY <1>1, <1>2, StackFacts, CountsFacts
<1>4. PICK N \in Nat \ {0} : N = Len(frames)
  BY <1>3
<1>5. PICK L \in Nat \ {0} : L = Len(compilers)
  BY <1>3
<1>6. PICK u \in Nat : u = Len(compilers')
  <2>1. Len(compilers') \in Nat
    BY <1>3
  <2> QED BY <2>1
<1>7. PICK w \in Nat : w = Len(outs')
  <2>1. Len(outs') \in Nat
    BY <1>3
  <2> QED BY <2>1
<1>8. C.expr = InForce(N) /\ C.expr \in Nodes \cup {Null}
  <2>1. compilers[L] \in Compilers /\ C = compilers[L]
    BY <1>1, <1>5 DEF C
  <2> QED BY <1>2, <1>4, <2>1 DEF Suits, Compilers
<1>9. /\ InForce(N + 1)' = IF IsExpr(n) THEN n ELSE C.expr
      /\ OnLeftSideAt(N + 1)' <=> Kind(n) = "Assignment"
      /\ \A kinds : OpensAt(N + 1, kinds)' <=>
                         Kind(n) \in kinds /\ (Kind(n) = "Let" => HasBody(n))
      /\ frames'[N + 1].kind = Kind(n)
  BY <1>1, <1>4, PushSame
<1>10. /\ MakesCompiler(N + 1)' <=> MakesOne(n)
       /\ MakesStream(N + 1)' <=> Kind(n) \in {"Assignment", "FunctionDeclaration"}
       /\ MakesOne(n) => (OpensAt(N + 1, Scoping)' <=> Opener(n))
  BY <1>9 DEF MakesCompiler, MakesOne, MakesStream, Scoping, Opener
<1>11. OnPath'
  BY <1>1, <1>8, PushOnPath
<1>12. ExprsSaved'
  BY <1>1, <1>4, <1>8, PushExprs
<1>13. compilers' \in Seq(Compilers')
  BY TablesStay
<1>14. u = IF MakesCompiler(N + 1)' THEN L + 1 ELSE L
  BY <1>5, <1>6, <1>10
<1>15. Counts(Append(using, u), Append(writing, w))'
  <2>1. w = IF MakesStream(N + 1)' THEN Len(outs) + 1 ELSE Len(outs)
    BY <1>7, <1>10
  <2> QED BY <1>1, <1>2, <1>4, <1>5, <1>6, <1>7, <1>14, <2>1, PushCounts
<1>16. Suits(Append(using, u))'
  <2>1. MakesCompiler(N + 1)' =>
           /\ compilers'[u].expr = InForce(N + 1)'
           /\ compilers'[u].local = IF OpensAt(N + 1, Scoping)' THEN ScopeOpenedBy(n)
                                    ELSE LocalScope
           /\ compilers'[u].req = IF Kind(n) = "FunctionDeclaration"
                                  THEN ScopeOpenedBy(Binder(n)) ELSE ReqScope
    BY <1>5, <1>9, <1>10, <1>14 DEF IsCompilerOf
  <2> QED BY <1>1, <1>2, <1>4, <1>5, <1>6, <1>14, <2>1, PushSuits
<1> QED BY <1>11, <1>12, <1>13, <1>15, <1>16, Zenon DEF AtWork

\* What a return leaves as it is.
LEMMA PopFrames ==
  ASSUME prog \in Programs, OnPath, Top.kind # "main", Pop, NEW N, N = Len(frames)
  PROVE  /\ N \in Nat /\ N > 1 /\ Len(frames') = N - 1 /\ DOMAIN frames' = 1 .. N - 1
         /\ frames' \in Seq(Frames) /\ frames' # <<>>
         /\ \A k \in 1 .. N - 1 : frames'[k] = frames[k]
<1>1. N \in Nat /\ N > 1
  BY StackFacts
<1>2. frames' = SubSeq(frames, 1, N - 1) /\ frames \in Seq(Frames)
  BY DEF Pop, OnPath
<1>3. PICK s : s = SubSeq(frames, 1, N - 1)
  OBVIOUS
<1>4. s \in Seq(Frames) /\ Len(s) = N - 1 /\ \A k \in 1 .. N - 1 : s[k] = frames[k]
  BY <1>1, <1>2, <1>3
<1>5. DOMAIN s = 1 .. N - 1 /\ s # <<>>
  BY <1>1, <1>4
<1> QED BY <1>1, <1>2, <1>3, <1>4, <1>5

LEMMA LeftSide ==
  ASSUME prog \in Programs, OnPath, Top.kind # "main", NEW N, N = Len(frames)
  PROVE  /\ OnLeftSideAt(N - 1) <=> IsLeftSide
         /\ IsLeftSide => /\ N > 2 /\ Top.kind \in LValueKinds
                          /\ ~ MakesCompiler(N) /\ ~ MakesStream(N)
                          /\ ~ OpensAt(N - 1, Scoping) /\ frames[N - 1].kind = "Assignment"
<1>1. N \in Nat /\ N > 1
  BY StackFacts
<1>2. N = 2 => frames[N - 1].kind = "main"
  BY DEF OnPath
<1>3. ASSUME N > 2, frames[N - 1].kind = "Assignment"
      PROVE  /\ frames[N - 1].next \in Nat /\ frames[N - 1].next # 1
             /\ frames[N - 1].next = 2 => Top.kind \in LValueKinds
  <2>1. PICK k \in 2 .. N : k = N - 1
    BY <1>1, <1>3
  <2>2. PICK m \in Nodes : m = frames[k].node /\ Kind(m) = "Assignment"
    BY <1>3, <2>1 DEF OnPath
  <2>3. Handed(N) /\ Top = frames[N] /\ Top.kind = Kind(Top.node)
    BY <1>1 DEF OnPath, Top
  <2>4. frames[k].next - 1 \in 1 .. 2 /\ Top.node = Kid(m, frames[k].next - 1)
    <3>1. DOMAIN prog[m].kids = 1 .. 2
      BY <2>2, KidSorts
    <3>2. N # 2 /\ frames[N - 1] = frames[k]
      BY <1>1, <1>3, <2>1
    <3> QED BY <2>2, <2>3, <3>1, <3>2 DEF Handed
  <2>5. frames[k].next \in Nat
    BY <1>1, <2>1, StackFacts DEF Frames
  <2>6. Kind(Kid(m, 1)) \in LValueKinds
    BY <2>2, KidSorts
  <2> QED BY <2>1, <2>3, <2>4, <2>5, <2>6
<1>4. OnLeftSideAt(N - 1) <=> IsLeftSide
  BY <1>1, <1>2, <1>3 DEF OnLeftSideAt, IsLeftSide
<1>5. IsLeftSide => N > 2 /\ Top.kind \in LValueKinds /\ frames[N - 1].kind = "Assignment"
  BY <1>1, <1>2, <1>3 DEF IsLeftSide
<1>6. Top.kind \in LValueKinds => ~ MakesCompiler(N) /\ ~ MakesStream(N)
  BY DEF Top, LValueKinds, MakesCompiler, MakesStream, OpensAt, Scoping, OnLeftSideAt
<1>7. frames[N - 1].kind = "Assignment" => ~ OpensAt(N - 1, Scoping)
  BY DEF OpensAt, Scoping
<1> QED BY <1>4, <1>5, <1>6, <1>7

LEMMA PopSame ==
  ASSUME prog \in Programs, UNCHANGED tables, OnPath, Top.kind # "main", Pop,
         NEW N, N = Len(frames)
  PROVE  \A k \in 1 .. N - 1 :
              /\ OpensAt(k, Scoping)' <=> OpensAt(k, Scoping)
              /\ InForce(k)' = InForce(k) /\ Inner(k)' = Inner(k)
              /\ \A b, kinds : IsInnermost(b, k, kinds)' <=> IsInnermost(b, k, kinds)
              /\ \A c : Scoped(k, c)' <=> Scoped(k, c)
              /\ MakesCompiler(k)' <=> MakesCompiler(k) /\ (k = N - 1 => ~ IsLeftSide)
              /\ MakesStream(k)' <=> MakesStream(k) /\ (k = N - 1 => ~ IsLeftSide)
<1>1. /\ N \in Nat /\ N > 1 /\ Len(frames') = N - 1
      /\ \A k \in 1 .. N - 1 : frames'[k] = frames[k]
  BY PopFrames
<1> SUFFICES ASSUME NEW k \in 1 .. N - 1
             PROVE  /\ OpensAt(k, Scoping)' <=> OpensAt(k, Scoping)
                    /\ InForce(k)' = InForce(k) /\ Inner(k)' = Inner(k)
                    /\ \A b, kinds : IsInnermost(b, k, kinds)' <=> IsInnermost(b, k, kinds)
                    /\ \A c : Scoped(k, c)' <=> Scoped(k, c)
                    /\ MakesCompiler(k)' <=> MakesCompiler(k) /\ (k = N - 1 => ~ IsLeftSide)
                    /\ MakesStream(k)' <=> MakesStream(k) /\ (k = N - 1 => ~ IsLeftSide)
  OBVIOUS
<1>2. k \in Nat /\ k > 0 /\ \A i \in 1 .. k : i \in 1 .. N - 1
  BY <1>1
<1>3. /\ \A kinds : OpensAt(k, kinds)' <=> OpensAt(k, kinds)
      /\ InForce(k)' = InForce(k) /\ Inner(k)' = Inner(k)
      /\ \A b, kinds : IsInnermost(b, k, kinds)' <=> IsInnermost(b, k, kinds)
      /\ \A c : Scoped(k, c)' <=> Scoped(k, c)
  <2>1. \A i \in 1 .. k : /\ frames'[i].node = frames[i].node
                          /\ frames'[i].kind = frames[i].kind
                          /\ frames'[i].saved = frames[i].saved
    BY <1>1, <1>2
  <2> QED BY <1>2, <2>1, FramesKept
<1>4. OpensAt(k, Scoping)' <=> OpensAt(k, Scoping)
  BY <1>3
<1>5. CASE k # N - 1
  <2>1. k < Len(frames) /\ k < Len(frames')
    BY <1>1, <1>5
  <2>2. OnLeftSideAt(k)' <=> OnLeftSideAt(k)
    BY <1>1, <2>1 DEF OnLeftSideAt
  <2>3. /\ MakesCompiler(k)' <=> MakesCompiler(k)
        /\ MakesStream(k)' <=> MakesStream(k)
    BY <1>1, <1>4, <2>2 DEF MakesCompiler, MakesStream
  <2> QED BY <1>3, <1>4, <1>5, <2>3
<1>6. CASE k = N - 1
  <2>1. /\ OnLeftSideAt(k) <=> IsLeftSide
        /\ IsLeftSide => ~ OpensAt(k, Scoping) /\ frames[k].kind = "Assignment"
    BY <1>6, LeftSide
  <2>2. ~ OnLeftSideAt(k)'
    <3>1. OnLeftSideAt(k)' => frames[k].kind = "Assignment" /\ frames[k].next = 1
      BY <1>1, <1>6 DEF OnLeftSideAt
    <3>2. frames[k].kind = "Assignment" /\ frames[k].next = 1 => OnLeftSideAt(k) /\ ~ IsLeftSide
      BY <1>6 DEF OnLeftSideAt, IsLeftSide
    <3> QED BY <2>1, <3>1, <3>2
  <2>3. /\ MakesCompiler(k)' <=> MakesCompiler(k) /\ ~ IsLeftSide
        /\ MakesStream(k)' <=> MakesStream(k) /\ ~ IsLeftSide
    BY <1>1, <1>4, <2>1, <2>2 DEF MakesCompiler, MakesStream
  <2> QED BY <1>3, <1>4, <1>6, <2>3
<1> QED BY <1>5, <1>6

LEMMA PopOnPath ==
  ASSUME prog \in Programs, UNCHANGED tables, OnPath, ExprsSaved, Top.kind # "main", Pop
  PROVE  OnPath' /\ ExprsSaved'
<1>1. PICK N : N = Len(frames)
  OBVIOUS
<1>2. /\ N \in Nat /\ N > 1 /\ Len(frames') = N - 1 /\ DOMAIN frames' = 1 .. N - 1
      /\ frames' \in Seq(Frames) /\ frames' # <<>>
      /\ \A k \in 1 .. N - 1 : frames'[k] = frames[k]
  BY <1>1, PopFrames
<1>3. \A k \in 1 .. N - 1 : InForce(k)' = InForce(k)
  BY <1>1, PopSame
<1>4. /\ Frames' = Frames /\ Nodes' = Nodes /\ Exprs' = Exprs
      /\ \A m : /\ Kind(m)' = Kind(m) /\ (HasBody(m)' <=> HasBody(m))
                /\ Binder(m)' = Binder(m)
                /\ \A j : Kid(m, j)' = Kid(m, j)
      /\ prog' = prog
  BY TablesStay
<1>5. 1 \in 1 .. N - 1 /\ \A k \in 2 .. N - 1 : /\ k \in 2 .. N /\ k \in 1 .. N - 1
                                                /\ k - 1 \in 1 .. N - 1
  BY <1>2
<1>6. ASSUME NEW k \in 2 .. N - 1
      PROVE  /\ frames'[k].node \in Nodes /\ frames'[k].kind = Kind(frames'[k].node)
             /\ Handed(k)'
             /\ frames'[k].saved = InForce(k - 1)' /\ InForce(k)' \in Exprs
             /\ frames'[k].kind \in LValueKinds =>
                  Binder(InForce(k))' = Binder(frames'[k].node)
  <2>1. frames'[k] = frames[k] /\ frames'[k - 1] = frames[k - 1] /\ k \in 2 .. Len(frames)
    BY <1>1, <1>2, <1>5
  <2>2. frames[k].node \in Nodes /\ frames[k].kind = Kind(frames[k].node) /\ Handed(k)
    BY <2>1 DEF OnPath
  <2>3. /\ frames[k].saved = InForce(k - 1) /\ InForce(k) \in Exprs
        /\ frames[k].kind \in LValueKinds => Binder(InForce(k)) = Binder(frames[k].node)
    BY <2>1 DEF ExprsSaved
  <2>4. Handed(k)'
    BY <1>4, <2>1, <2>2 DEF Handed
  <2>5. InForce(k - 1)' = InForce(k - 1) /\ InForce(k)' = InForce(k)
    BY <1>3, <1>5
  <2>6. Binder(InForce(k))' = Binder(InForce(k))
    BY <1>4, <2>5 DEF Binder
  <2> QED BY <2>1, <2>2, <2>3, <2>4, <2>5, <2>6
<1>7. frames'[1] = frames[1]
  BY <1>2, <1>5
<1>8. OnPath'
  <2>1. \A i, k \in 1 .. N - 1 : i < k => frames'[i].node < frames'[k].node
    <3>1. \A k \in 1 .. N - 1 : k \in DOMAIN frames
      BY <1>1, <1>2, StackFacts
    <3> QED BY <1>2, <3>1 DEF OnPath
  <2>2. frames'[1].kind = "main" /\ frames'[1].node = Main
    BY <1>7 DEF OnPath
  <2> QED BY <1>2, <1>4, <1>6, <2>1, <2>2 DEF OnPath
<1>9. ExprsSaved'
  <2>1. frames'[1].saved = Null
    BY <1>7 DEF ExprsSaved
  <2>2. \A k \in 1 .. N - 1 : Binder(frames[k].node)' = Binder(frames'[k].node)
    BY <1>4 DEF Binder
  <2>3. Len(frames)' = N - 1
    BY <1>2
  <2>4. \A k \in 2 .. N - 1 :
          /\ frames'[k].saved = InForce(k - 1)' /\ InForce(k)' \in Exprs
          /\ frames'[k].kind \in LValueKinds =>
               Binder(InForce(k))' = Binder(frames[k].node)'
    BY <1>5, <1>6, <2>2
  <2> QED BY <1>4, <2>1, <2>3, <2>4 DEF ExprsSaved
<1> QED BY <1>8, <1>9

\* After a return the frame that is left works with the Compiler and the
\* stream that are left.
Lowered(s, N, last) == [k \in 1 .. N - 1 |-> IF k = N - 1 THEN last ELSE s[k]]

LEMMA LoweredFacts ==
  ASSUME NEW N \in Nat, N > 1, NEW s \in Seq(Nat), Len(s) = N, Rising(s), NEW last \in Nat,
         last = s[N - 1] \/ (N > 2 /\ last = s[N - 2])
  PROVE  /\ Lowered(s, N, last) \in Seq(Nat) /\ Len(Lowered(s, N, last)) = N - 1
         /\ Rising(Lowered(s, N, last))
         /\ \A k \in 1 .. N - 1 : Lowered(s, N, last)[k] = IF k = N - 1 THEN last ELSE s[k]
         /\ \A k \in 1 .. N - 1 : Lowered(s, N, last)[k] <= last
<1>1. PICK t : t = Lowered(s, N, last)
  OBVIOUS
<1>2. \A k \in 1 .. N : s[k] \in Nat
  OBVIOUS
<1>3. /\ DOMAIN t = 1 .. N - 1 /\ \A k \in 1 .. N - 1 : t[k] = IF k = N - 1 THEN last ELSE s[k]
      /\ t \in [1 .. N - 1 -> Nat]
  BY <1>1, <1>2 DEF Lowered
<1>4. t \in Seq(Nat) /\ Len(t) = N - 1
  BY <1>3
<1>5. DOMAIN s = 1 .. N
  OBVIOUS
<1>6. \A i, k \in 1 .. N : i <= k => s[i] <= s[k]
  BY <1>5 DEF Rising
<1>7. \A k \in 1 .. N - 1 : k # N - 1 => s[k] <= last
  <2>1. CASE last = s[N - 1]
    BY <1>6, <2>1
  <2>2. CASE N > 2 /\ last = s[N - 2]
    BY <1>6, <2>2
  <2> QED BY <2>1, <2>2
<1>8. \A k \in 1 .. N - 1 : t[k] <= last
  BY <1>3, <1>7
<1>9. \A i, k \in 1 .. N - 1 : i <= k => t[i] <= t[k]
  BY <1>3, <1>6, <1>7
<1> QED BY <1>1, <1>3, <1>4, <1>8, <1>9 DEF Rising

\* The Compiler and the stream in use after a return.
Landing(N, using, writing, u, w) ==
  /\ u = IF IsLeftSide THEN using[N - 2] ELSE using[N - 1]
  /\ w = IF IsLeftSide THEN writing[N - 2] ELSE writing[N - 1]
  /\ u \in Nat \ {0} /\ w \in Nat \ {0}

LEMMA LastLowered ==
  ASSUME prog \in Programs, OnPath, Top.kind # "main", NEW N, N = Len(frames),
         NEW using, NEW writing, Counts(using, writing),
         NEW u, u = IF MakesCompiler(N) \/ IsLeftSide THEN Len(compilers) - 1 ELSE Len(compilers),
         NEW w, w = IF MakesStream(N) \/ IsLeftSide THEN Len(outs) - 1 ELSE Len(outs)
  PROVE  Landing(N, using, writing, u, w)
<1>1. N \in Nat /\ N > 1
  BY StackFacts
<1>2. /\ using[N] = Len(compilers) /\ writing[N] = Len(outs)
      /\ \A k \in 2 .. N :
         /\ using[k] = IF MakesCompiler(k) THEN using[k - 1] + 1 ELSE using[k - 1]
         /\ writing[k] = IF MakesStream(k) THEN writing[k - 1] + 1 ELSE writing[k - 1]
  BY DEF Counts
<1>3. \A k \in 1 .. N : using[k] \in Nat \ {0} /\ writing[k] \in Nat \ {0}
  <2>1. \A k \in 1 .. N : using[k] \in 1 .. Len(compilers) /\ writing[k] \in 1 .. Len(outs)
    BY CountsFacts
  <2> QED BY <2>1
<1>4. N \in 2 .. N /\ N - 1 \in 1 .. N
  BY <1>1
<1>5. CASE ~ IsLeftSide
  <2>1. /\ using[N] = IF MakesCompiler(N) THEN using[N - 1] + 1 ELSE using[N - 1]
        /\ writing[N] = IF MakesStream(N) THEN writing[N - 1] + 1 ELSE writing[N - 1]
    BY <1>2, <1>4
  <2>2. using[N - 1] \in Nat \ {0} /\ writing[N - 1] \in Nat \ {0}
    BY <1>3, <1>4
  <2>3. u = using[N - 1]
    BY <1>2, <1>5, <2>1, <2>2
  <2>4. w = writing[N - 1]
    BY <1>2, <1>5, <2>1, <2>2
  <2> QED BY ONLY <1>5, <2>2, <2>3, <2>4 DEF Landing
<1>6. CASE IsLeftSide
  <2>1. /\ N > 2 /\ ~ MakesCompiler(N) /\ ~ MakesStream(N)
        /\ MakesCompiler(N - 1) /\ MakesStream(N - 1)
    BY <1>6, LeftSide DEF MakesCompiler, MakesStream
  <2>2. N - 1 \in 2 .. N /\ N - 2 \in 1 .. N /\ N - 1 - 1 = N - 2
    BY <1>1, <2>1
  <2>3. using[N] = using[N - 1] /\ writing[N] = writing[N - 1]
    BY <1>2, <1>4, <2>1
  <2>4. using[N - 1] = using[N - 2] + 1 /\ writing[N - 1] = writing[N - 2] + 1
    BY <1>2, <2>1, <2>2
  <2>5. using[N - 2] \in Nat \ {0} /\ writing[N - 2] \in Nat \ {0}
    BY <1>3, <2>2
  <2>6. u = using[N - 2]
    <3>1. u = Len(compilers) - 1 /\ Len(compilers) = using[N - 2] + 1
      BY <1>2, <1>6, <2>3, <2>4
    <3> QED BY ONLY <2>5, <3>1
  <2>7. w = writing[N - 2]
    <3>1. w = Len(outs) - 1 /\ Len(outs) = writing[N - 2] + 1
      BY <1>2, <1>6, <2>3, <2>4
    <3> QED BY ONLY <2>5, <3>1
  <2> QED BY <1>6, <2>5, <2>6, <2>7, Zenon DEF Landing
<1> QED BY <1>5, <1>6

LEMMA PopCounts ==
  ASSUME prog \in Programs, UNCHANGED tables, OnPath, Top.kind # "main", Pop,
         NEW N, N = Len(frames), NEW using, NEW writing, Counts(using, writing),
         NEW u, u = IF MakesCompiler(N) \/ IsLeftSide THEN Len(compilers) - 1 ELSE Len(compilers),
         NEW w, w = IF MakesStream(N) \/ IsLeftSide THEN Len(outs) - 1 ELSE Len(outs),
         u = Len(compilers'), w = Len(outs')
  PROVE  Counts(Lowered(using, N, u), Lowered(writing, N, w))'
<1>1. N \in Nat /\ N > 1 /\ Len(frames') = N - 1
  BY PopFrames
<1>2. /\ u = IF IsLeftSide THEN using[N - 2] ELSE using[N - 1]
      /\ w = IF IsLeftSide THEN writing[N - 2] ELSE writing[N - 1]
      /\ u \in Nat \ {0} /\ w \in Nat \ {0}
  <2>1. Landing(N, using, writing, u, w)
    BY LastLowered
  <2> QED BY ONLY <2>1 DEF Landing
<1>3. /\ using \in Seq(Nat) /\ Len(using) = N /\ Rising(using) /\ using[1] = 1
      /\ writing \in Seq(Nat) /\ Len(writing) = N /\ Rising(writing) /\ writing[1] = 1
      /\ \A k \in 2 .. N :
         /\ using[k] = IF MakesCompiler(k) THEN using[k - 1] + 1 ELSE using[k - 1]
         /\ writing[k] = IF MakesStream(k) THEN writing[k - 1] + 1 ELSE writing[k - 1]
  BY DEF Counts
<1>4. IsLeftSide => N > 2
  BY LeftSide
<1>5. PICK us : us = Lowered(using, N, u)
  OBVIOUS
<1>6. PICK ws : ws = Lowered(writing, N, w)
  OBVIOUS
<1>13. /\ u = using[N - 1] \/ (N > 2 /\ u = using[N - 2])
       /\ w = writing[N - 1] \/ (N > 2 /\ w = writing[N - 2])
  BY <1>2, <1>4
<1>7. /\ us \in Seq(Nat) /\ Len(us) = N - 1 /\ Rising(us)
      /\ \A k \in 1 .. N - 1 : us[k] = IF k = N - 1 THEN u ELSE using[k]
  <2>1. /\ using \in Seq(Nat) /\ Len(using) = N /\ Rising(using) /\ u \in Nat
    BY <1>2, <1>3
  <2>2. u = using[N - 1] \/ (N > 2 /\ u = using[N - 2])
    BY <1>13
  <2>3. /\ Lowered(using, N, u) \in Seq(Nat) /\ Len(Lowered(using, N, u)) = N - 1
        /\ Rising(Lowered(using, N, u))
    BY ONLY <1>1, <2>1, <2>2, LoweredFacts
  <2>4. \A k \in 1 .. N - 1 : Lowered(using, N, u)[k] = IF k = N - 1 THEN u ELSE using[k]
    BY DEF Lowered
  <2> QED BY ONLY <1>5, <2>3, <2>4, Zenon
<1>8. /\ ws \in Seq(Nat) /\ Len(ws) = N - 1 /\ Rising(ws)
      /\ \A k \in 1 .. N - 1 : ws[k] = IF k = N - 1 THEN w ELSE writing[k]
  <2>1. /\ writing \in Seq(Nat) /\ Len(writing) = N /\ Rising(writing) /\ w \in Nat
    BY <1>2, <1>3
  <2>2. w = writing[N - 1] \/ (N > 2 /\ w = writing[N - 2])
    BY <1>13
  <2>3. /\ Lowered(writing, N, w) \in Seq(Nat) /\ Len(Lowered(writing, N, w)) = N - 1
        /\ Rising(Lowered(writing, N, w))
    BY ONLY <1>1, <2>1, <2>2, LoweredFacts
  <2>4. \A k \in 1 .. N - 1 : Lowered(writing, N, w)[k] = IF k = N - 1 THEN w ELSE writing[k]
    BY DEF Lowered
  <2> QED BY ONLY <1>6, <2>3, <2>4, Zenon
<1>9. \A k \in 1 .. N - 1 :
        /\ MakesCompiler(k)' <=> MakesCompiler(k) /\ (k = N - 1 => ~ IsLeftSide)
        /\ MakesStream(k)' <=> MakesStream(k) /\ (k = N - 1 => ~ IsLeftSide)
  BY PopSame
<1>10. us[1] = 1 /\ ws[1] = 1
  <2>1. 1 \in 1 .. N - 1 /\ (N = 2 => ~ IsLeftSide /\ N - 1 = 1)
    BY <1>1, <1>4
  <2>2. CASE N = 2
    <3>1. u = using[1] /\ w = writing[1]
      BY <1>2, <2>1, <2>2
    <3> QED BY <1>3, <1>7, <1>8, <2>1, <2>2, <3>1
  <2>3. CASE N # 2 /\ 1 # N - 1
    BY <1>3, <1>7, <1>8, <2>1, <2>3
  <2> QED BY <1>1, <2>2, <2>3
<1>11. ASSUME NEW k \in 2 .. N - 1
       PROVE  /\ us[k] = IF MakesCompiler(k)' THEN us[k - 1] + 1 ELSE us[k - 1]
              /\ ws[k] = IF MakesStream(k)' THEN ws[k - 1] + 1 ELSE ws[k - 1]
  <2>1. k \in 1 .. N - 1 /\ k - 1 \in 1 .. N - 1 /\ k - 1 # N - 1 /\ k \in 2 .. N
    BY <1>1
  <2>2. us[k - 1] = using[k - 1] /\ ws[k - 1] = writing[k - 1]
    BY <1>7, <1>8, <2>1
  <2>3. /\ using[k] = IF MakesCompiler(k) THEN using[k - 1] + 1 ELSE using[k - 1]
        /\ writing[k] = IF MakesStream(k) THEN writing[k - 1] + 1 ELSE writing[k - 1]
    BY <1>3, <2>1
  <2>4. CASE k = N - 1 /\ IsLeftSide
    <3>1. us[k] = using[k - 1] /\ ws[k] = writing[k - 1]
      <4>1. k - 1 = N - 2
        BY <2>4
      <4> QED BY <1>2, <1>7, <1>8, <2>1, <2>4, <4>1
    <3> QED BY <1>9, <2>1, <2>2, <2>4, <3>1
  <2>5. CASE ~ (k = N - 1 /\ IsLeftSide)
    <3>1. us[k] = using[k] /\ ws[k] = writing[k]
      BY <1>2, <1>7, <1>8, <2>1, <2>5
    <3> QED BY <1>9, <2>1, <2>2, <2>3, <2>5, <3>1
  <2> QED BY <2>4, <2>5
<1>12. us[N - 1] = u /\ ws[N - 1] = w
  <2>1. N - 1 \in 1 .. N - 1
    BY <1>1
  <2> QED BY <1>7, <1>8, <2>1
<1> QED BY <1>1, <1>5, <1>6, <1>7, <1>8, <1>10, <1>11, <1>12 DEF Counts

\* A frame that makes no scope is in those of the one below it.
LEMMA ScopedAbove ==
  ASSUME prog \in Programs, OnPath, NEW k \in 2 .. Len(frames), ~ OpensAt(k, Scoping),
         NEW c, Scoped(k - 1, c)
  PROVE  Scoped(k, c)
<1>1. PICK i : i = k - 1
  OBVIOUS
<1>2. /\ i \in Nat /\ i > 0 /\ k = i + 1 /\ Scoped(i, c)
      /\ \A j \in 1 .. k : j \in 1 .. i \/ j = k
      /\ 1 .. i \subseteq 1 .. k
  BY <1>1
<1>3. Inner(k) = Inner(i)
  BY <1>1, <1>2, InnerStep DEF Inner, Binder
<1>4. ~ OpensAt(k, {"FunctionDeclaration"})
  BY DEF OpensAt, Scoping
<1>5. ASSUME NEW f, IsInnermost(f, i, {"FunctionDeclaration"})
      PROVE  IsInnermost(f, k, {"FunctionDeclaration"})
  BY <1>2, <1>4, <1>5 DEF IsInnermost
<1> QED BY <1>2, <1>3, <1>5 DEF Scoped

LEMMA PopSuits ==
  ASSUME prog \in Programs, UNCHANGED tables, OnPath, ExprsSaved, Top.kind # "main", Pop,
         NEW N, N = Len(frames), NEW using, NEW writing, Counts(using, writing), Suits(using),
         NEW u, u = IF MakesCompiler(N) \/ IsLeftSide THEN Len(compilers) - 1 ELSE Len(compilers),
         u = Len(compilers'),
         \A i \in 1 .. u :
           /\ compilers'[i].local = compilers[i].local /\ compilers'[i].req = compilers[i].req
           /\ i # u => compilers'[i].expr = compilers[i].expr,
         compilers'[u].expr = Top.saved
  PROVE  Suits(Lowered(using, N, u))'
<1>1. N \in Nat /\ N > 1 /\ Len(frames') = N - 1 /\ DOMAIN frames' = 1 .. N - 1
      /\ DOMAIN frames = 1 .. N
  BY PopFrames, StackFacts
<1>2. /\ u = IF IsLeftSide THEN using[N - 2] ELSE using[N - 1]
      /\ u \in Nat \ {0}
  <2>1. PICK w : w = IF MakesStream(N) \/ IsLeftSide THEN Len(outs) - 1 ELSE Len(outs)
    OBVIOUS
  <2>2. Landing(N, using, writing, u, w)
    BY <2>1, LastLowered
  <2> QED BY ONLY <2>2 DEF Landing
<1>3. PICK us : us = Lowered(using, N, u)
  OBVIOUS
<1>4. \A k \in 1 .. N - 1 : us[k] = IF k = N - 1 THEN u ELSE using[k]
  BY <1>3 DEF Lowered
<1>5. \A k \in 1 .. N - 1 :
        /\ InForce(k)' = InForce(k) /\ Inner(k)' = Inner(k)
        /\ \A b, kinds : IsInnermost(b, k, kinds)' <=> IsInnermost(b, k, kinds)
        /\ \A c : Scoped(k, c)' <=> Scoped(k, c)
        /\ MakesCompiler(k)' <=> MakesCompiler(k) /\ (k = N - 1 => ~ IsLeftSide)
  BY PopSame
<1>6. \A k \in 1 .. N : /\ MakesCompiler(k) => compilers[using[k] - 1].expr = InForce(k)
                        /\ Scoped(k, compilers[using[k]])
                        /\ IsInnermost(Inner(k), k, Scoping)
  BY <1>1 DEF Suits
<1>7. C'.expr = InForce(N - 1)'
  <2>1. C' = compilers'[u]
    BY DEF C
  <2>2. Top.saved = InForce(N - 1)
    BY <1>1 DEF Top, ExprsSaved
  <2>3. N - 1 \in 1 .. N - 1
    BY <1>1
  <2> QED BY <1>5, <2>1, <2>2, <2>3
<1>8. /\ \A k \in 1 .. N : using[k] \in Nat \ {0}
      /\ \A k \in 2 .. N : MakesCompiler(k) => using[k] > 1
      /\ \A i, k \in 1 .. N : i <= k => using[i] <= using[k]
  <2>1. /\ \A k \in 1 .. N : using[k] \in 1 .. Len(compilers)
        /\ \A k \in 2 .. N : MakesCompiler(k) => using[k] > 1
    BY CountsFacts
  <2>2. using \in Seq(Nat) /\ Len(using) = N /\ Rising(using)
    BY DEF Counts
  <2>3. DOMAIN using = 1 .. N
    BY <2>2
  <2>4. \A i, k \in 1 .. N : i <= k => using[i] <= using[k]
    BY <2>2, <2>3 DEF Rising
  <2>5. \A k \in 1 .. N : using[k] \in Nat \ {0}
    BY <2>1
  <2> QED BY <2>1, <2>4, <2>5
<1>9. ASSUME NEW k \in 1 .. N - 1 PROVE us[k] \in Nat \ {0} /\ us[k] <= u /\ us[k] \in 1 .. u
  <2>1. CASE k = N - 1
    <3>1. us[k] = u
      BY <1>4, <2>1
    <3>2. u \in Nat \ {0}
      BY <1>2
    <3> QED BY ONLY <3>1, <3>2
  <2>2. CASE k # N - 1
    <3>1. /\ k \in 1 .. N /\ N - 1 \in 1 .. N /\ k <= N - 1
          /\ N - 2 \in 1 .. N /\ k <= N - 2
      BY <1>1, <2>2
    <3>2. using[k] \in Nat \ {0} /\ using[k] <= using[N - 1] /\ using[k] <= using[N - 2]
      BY <1>8, <3>1
    <3>3. us[k] = using[k] /\ (u = using[N - 1] \/ u = using[N - 2])
      BY <1>2, <1>4, <2>2
    <3> QED BY <1>2, <3>2, <3>3
  <2> QED BY <2>1, <2>2
<1>10. ASSUME NEW k \in 1 .. N - 1
       PROVE  /\ MakesCompiler(k)' => compilers'[us[k] - 1].expr = InForce(k)'
              /\ Scoped(k, compilers[us[k]])'
              /\ IsInnermost(Inner(k), k, Scoping)'
  <2>1. k \in 1 .. N
    BY <1>1
  <2>2. MakesCompiler(k)' => compilers'[us[k] - 1].expr = InForce(k)'
    <3> SUFFICES ASSUME MakesCompiler(k)' PROVE compilers'[us[k] - 1].expr = InForce(k)
      BY <1>5
    <3>1. MakesCompiler(k) /\ (k = N - 1 => ~ IsLeftSide)
      BY <1>5
    <3>2. us[k] = using[k] /\ k # 1 /\ k \in 2 .. N
      BY <1>1, <1>2, <1>4, <3>1, InnerStep
    <3>3. us[k] - 1 \in 1 .. u /\ us[k] - 1 # u
      <4>1. us[k] \in Nat /\ us[k] <= u
        BY <1>9
      <4>2. us[k] > 1
        BY <1>8, <3>1, <3>2
      <4> QED BY <1>2, <4>1, <4>2
    <3> QED BY <1>6, <2>1, <3>1, <3>2, <3>3
  <2>3. Scoped(k, compilers[us[k]])
    <3>1. CASE us[k] = using[k]
      BY <1>6, <2>1, <3>1
    <3>2. CASE us[k] # using[k]
      <4>1. k = N - 1 /\ IsLeftSide /\ us[k] = using[N - 2]
        BY <1>2, <1>4, <3>2
      <4>2. N > 2 /\ ~ OpensAt(k, Scoping)
        BY <4>1, LeftSide
      <4>3. k \in 2 .. Len(frames) /\ k - 1 = N - 2 /\ N - 2 \in 1 .. N
        BY <1>1, <4>1, <4>2
      <4>4. Scoped(k - 1, compilers[us[k]])
        BY <1>6, <4>1, <4>3
      <4> QED BY <4>2, <4>3, <4>4, ScopedAbove
    <3> QED BY <3>1, <3>2
  <2>4. PICK c : c = compilers'[us[k]]
    OBVIOUS
  <2>5. c.local = compilers[us[k]].local /\ c.req = compilers[us[k]].req
    <3>1. us[k] \in 1 .. u
      BY <1>9
    <3> QED BY <2>4, <3>1
  <2>6. Scoped(k, c)
    BY <2>3, <2>5 DEF Scoped
  <2>7. Scoped(k, compilers[us[k]])'
    <3>1. Scoped(k, c)'
      BY <1>5, <2>6
    <3> QED BY <2>4, <3>1 DEF Scoped
  <2>8. IsInnermost(Inner(k), k, Scoping)'
    <3>1. PICK b : b = Inner(k)
      OBVIOUS
    <3>2. IsInnermost(b, k, Scoping)'
      BY <1>5, <1>6, <2>1, <3>1
    <3> QED BY <1>5, <3>1, <3>2 DEF IsInnermost
  <2> QED BY <2>2, <2>7, <2>8, Zenon
<1>11. C'.expr = InForce(Len(frames))'
  BY <1>1, <1>7 DEF InForce
<1> QED BY <1>1, <1>3, <1>10, <1>11 DEF Suits

\* A handler that returns keeps the invariant of the call stack when it takes
\* its own Compiler away and puts current_expr back.
LEMMA Popped ==
  ASSUME prog \in Programs, UNCHANGED tables, AtWork, Top.kind # "main", Pop,
         compilers' \in Seq(Compilers),
         NEW u, u = IF MakesCompiler(Len(frames)) \/ IsLeftSide THEN Len(compilers) - 1
                    ELSE Len(compilers),
         NEW w, w = IF MakesStream(Len(frames)) \/ IsLeftSide THEN Len(outs) - 1 ELSE Len(outs),
         u = Len(compilers'), w = Len(outs'),
         \A i \in 1 .. u :
           /\ compilers'[i].local = compilers[i].local /\ compilers'[i].req = compilers[i].req
           /\ i # u => compilers'[i].expr = compilers[i].expr,
         compilers'[u].expr = Top.saved
  PROVE  AtWork'
<1>1. OnPath /\ ExprsSaved /\ compilers \in Seq(Compilers)
  BY DEF AtWork
<1>2. PICK using, writing : Counts(using, writing) /\ Suits(using)
  BY DEF AtWork
<1>3. PICK N : N = Len(frames)
  OBVIOUS
<1>4. OnPath' /\ ExprsSaved'
  BY <1>1, PopOnPath
<1>5. compilers' \in Seq(Compilers')
  BY TablesStay
<1>6. Counts(Lowered(using, N, u), Lowered(writing, N, w))'
  BY <1>1, <1>2, <1>3, PopCounts
<1>7. Suits(Lowered(using, N, u))'
  BY <1>1, <1>2, <1>3, PopSuits
<1> QED BY <1>4, <1>5, <1>6, <1>7, Zenon DEF AtWork

-----------------------------------------------------------------------------
(* The texts.                                                              *)

LEMMA GoodJoin ==
  ASSUME NEW s, GoodText(s), NEW t, GoodText(t)
  PROVE  GoodText(s \o t)
<1>1. s \in Seq(Items) /\ t \in Seq(Items)
  BY DEF GoodText
<1>2. PICK r : r = s \o t
  OBVIOUS
<1>3. /\ r \in Seq(Items) /\ DOMAIN r = 1 .. Len(s) + Len(t)
      /\ \A i \in DOMAIN r : r[i] = IF i <= Len(s) THEN s[i] ELSE t[i - Len(s)]
  BY <1>1, <1>2
<1>4. ASSUME NEW i \in DOMAIN r PROVE GoodItem(r[i])
  <2>1. CASE i <= Len(s)
    <3>1. i \in DOMAIN s /\ r[i] = s[i]
      BY <1>1, <1>3, <2>1
    <3> QED BY <3>1 DEF GoodText
  <2>2. CASE ~ i <= Len(s)
    <3>1. i - Len(s) \in DOMAIN t /\ r[i] = t[i - Len(s)]
      BY <1>1, <1>3, <2>2
    <3> QED BY <3>1 DEF GoodText
  <2> QED BY <2>1, <2>2
<1> QED BY <1>2, <1>3, <1>4 DEF GoodText

LEMMA GoodOnes ==
  /\ GoodText(<< >>)
  /\ \A a \in Items : GoodItem(a) => GoodText(<<a>>)
  /\ \A a, b \in Items : GoodItem(a) /\ GoodItem(b) => GoodText(<<a, b>>)
  /\ \A a, b, c \in Items :
       GoodItem(a) /\ GoodItem(b) /\ GoodItem(c) => GoodText(<<a, b, c>>)
<1>1. GoodText(<< >>)
  BY DEF GoodText
<1>2. ASSUME NEW a \in Items, GoodItem(a) PROVE GoodText(<<a>>)
  <2>1. <<a>> \in Seq(Items) /\ DOMAIN <<a>> = {1} /\ <<a>>[1] = a
    OBVIOUS
  <2> QED BY <1>2, <2>1 DEF GoodText
<1>3. ASSUME NEW a \in Items, GoodItem(a), NEW b \in Items, GoodItem(b)
      PROVE  GoodText(<<a, b>>)
  <2>1. /\ <<a, b>> \in Seq(Items) /\ DOMAIN <<a, b>> = {1, 2}
        /\ <<a, b>>[1] = a /\ <<a, b>>[2] = b
    OBVIOUS
  <2> QED BY <1>3, <2>1 DEF GoodText
<1>4. ASSUME NEW a \in Items, GoodItem(a), NEW b \in Items, GoodItem(b), NEW c \in Items,
             GoodItem(c)
      PROVE  GoodText(<<a, b, c>>)
  <2>1. /\ <<a, b, c>> \in Seq(Items) /\ DOMAIN <<a, b, c>> = {1, 2, 3}
        /\ <<a, b, c>>[1] = a /\ <<a, b, c>>[2] = b /\ <<a, b, c>>[3] = c
    OBVIOUS
  <2> QED BY <1>4, <2>1 DEF GoodText
<1> QED BY <1>1, <1>2, <1>3, <1>4

\* Braces, objects and parameters are always good.
LEMMA GoodPlain ==
  ASSUME Table!LookupInv, NEW item \in {"open", "close", "for", "fill", "param", "object"},
         NEW n \in Nodes \cup {Main}, NEW s \in ScopeNumbers
  PROVE  Item(item, n, s, 0) \in Items /\ GoodItem(Item(item, n, s, 0))
<1>1. 0 \in ScopeNumbers
  BY ScopesTyped DEF ScopeNumbers
<1>2. item \in ItemKinds
  BY DEF ItemKinds
<1>3. PICK it : it = Item(item, n, s, 0)
  OBVIOUS
<1>4. it \in Items /\ it.item = item
  BY <1>1, <1>2, <1>3 DEF Item, Items
<1>5. it.item \notin {"field", "call", "local", "link"}
  BY <1>4
<1> QED BY <1>3, <1>4, <1>5 DEF GoodItem

LEMMA GoodLink ==
  ASSUME Table!LookupInv, St!Built, NEW b \in Openers, NEW s, NEW to,
         s = ScopeOpenedBy(b), to = ScopeOpenedBy(Binder(b))
  PROVE  Link(b, s, to) \in Items /\ GoodItem(Link(b, s, to))
<1>1. s \in ScopeNumbers /\ to \in ScopeNumbers /\ b \in Nodes
  <2>1. s \in DOMAIN scopes /\ to \in DOMAIN scopes
    BY BuiltScopes
  <2> QED BY <2>1, ScopesTyped DEF ScopeNumbers, Openers
<1>2. PICK it : it = Link(b, s, to)
  OBVIOUS
<1>3. /\ it \in Items /\ it.item = "link" /\ it.scope = s /\ it.arg = to
  BY <1>1, <1>2 DEF Link, Item, Items, ItemKinds
<1> QED BY <1>2, <1>3 DEF GoodItem

\* A sequence with one element replaced, and one without its last.
LEMMA Replaced ==
  ASSUME NEW T, NEW s \in Seq(T), NEW i \in DOMAIN s, NEW new \in T, NEW t,
         t = [s EXCEPT ![i] = new]
  PROVE  /\ t \in Seq(T) /\ Len(t) = Len(s) /\ DOMAIN t = 1 .. Len(s)
         /\ Len(s) \in Nat \ {0} /\ DOMAIN s = 1 .. Len(s)
         /\ \A k \in 1 .. Len(s) : t[k] = IF k = i THEN new ELSE s[k]
<1>1. Len(s) \in Nat \ {0} /\ DOMAIN s = 1 .. Len(s) /\ \A k \in 1 .. Len(s) : s[k] \in T
  OBVIOUS
<1>2. PICK N \in Nat : N = Len(s)
  BY <1>1
<1>3. t \in [1 .. N -> T]
  BY <1>1, <1>2
<1>4. t \in Seq(T)
  BY ONLY <1>3
<1>5. Len(t) = N
  BY ONLY <1>3
<1> QED BY <1>1, <1>2, <1>3, <1>4, <1>5

LEMMA WithoutLast ==
  ASSUME NEW T, NEW s \in Seq(T), s # <<>>, NEW t, t = Outer(s)
  PROVE  /\ t \in Seq(T) /\ Len(t) = Len(s) - 1 /\ DOMAIN t = 1 .. Len(s) - 1
         /\ Len(s) \in Nat \ {0} /\ DOMAIN s = 1 .. Len(s)
         /\ \A k \in 1 .. Len(s) - 1 : t[k] = s[k] /\ k \in DOMAIN s
<1>1. Len(s) \in Nat \ {0} /\ DOMAIN s = 1 .. Len(s) /\ \A k \in 1 .. Len(s) : s[k] \in T
  OBVIOUS
<1>2. t = SubSeq(s, 1, Len(s) - 1)
  BY DEF Outer
<1>3. t \in Seq(T) /\ Len(t) = Len(s) - 1 /\ \A k \in 1 .. Len(s) - 1 : t[k] = s[k]
  BY <1>1, <1>2
<1>4. DOMAIN t = 1 .. Len(s) - 1
  BY <1>3
<1>5. \A k \in 1 .. Len(s) - 1 : k \in DOMAIN s
  BY <1>1
<1> QED BY <1>1, <1>3, <1>4, <1>5

LEMMA WithOneMore ==
  ASSUME NEW T, NEW s \in Seq(T), NEW new \in T, NEW t, t = Append(s, new)
  PROVE  /\ t \in Seq(T) /\ Len(t) = Len(s) + 1 /\ DOMAIN t = 1 .. Len(s) + 1
         /\ Len(s) \in Nat /\ DOMAIN s = 1 .. Len(s)
         /\ \A k \in 1 .. Len(s) : t[k] = s[k]
         /\ t[Len(s) + 1] = new
OBVIOUS

LEMMA WriteGood ==
  ASSUME outs \in Seq(Text), outs # <<>>, \A i \in DOMAIN outs : GoodText(outs[i]),
         NEW text, GoodText(text), NEW written,
         written = [outs EXCEPT ![Len(outs)] = @ \o text]
  PROVE  /\ written \in Seq(Text) /\ Len(written) = Len(outs)
         /\ \A i \in DOMAIN written : GoodText(written[i])
<1>1. Len(outs) \in DOMAIN outs
  OBVIOUS
<1>2. PICK new : new = outs[Len(outs)] \o text
  OBVIOUS
<1>3. GoodText(new)
  BY <1>1, <1>2, GoodJoin
<1>4. new \in Text
  BY <1>3 DEF GoodText, Text, Items
<1>5. written = [outs EXCEPT ![Len(outs)] = new]
  BY <1>2
<1>6. /\ written \in Seq(Text) /\ Len(written) = Len(outs)
      /\ DOMAIN written = 1 .. Len(outs) /\ DOMAIN outs = 1 .. Len(outs)
      /\ \A k \in 1 .. Len(outs) : written[k] = IF k = Len(outs) THEN new ELSE outs[k]
  <2>1. outs \in Seq(Text)
    OBVIOUS
  <2> QED BY ONLY <1>1, <1>4, <1>5, <2>1, Replaced
<1> QED BY <1>3, <1>6

LEMMA TextsNext ==
  ASSUME UNCHANGED tables, outs' \in Seq(Text), \A i \in DOMAIN outs' : GoodText(outs'[i]),
         \A i \in DOMAIN compilers' : GoodText(compilers'[i].lvalue),
         post_body' \in Seq(Methods), \A i \in DOMAIN post_body' : GoodText(post_body'[i].text)
  PROVE  TextsGood'
<1>1. Text' = Text /\ Methods' = Methods /\ \A t : GoodText(t)' <=> GoodText(t)
  BY TablesStay
<1>2. \A i : /\ GoodText(outs[i])' <=> GoodText(outs'[i])
             /\ GoodText(compilers[i].lvalue)' <=> GoodText(compilers'[i].lvalue)
             /\ GoodText(post_body[i].text)' <=> GoodText(post_body'[i].text)
  <2> SUFFICES ASSUME NEW i
               PROVE  /\ GoodText(outs[i])' <=> GoodText(outs'[i])
                      /\ GoodText(compilers[i].lvalue)' <=> GoodText(compilers'[i].lvalue)
                      /\ GoodText(post_body[i].text)' <=> GoodText(post_body'[i].text)
    OBVIOUS
  <2>1. GoodText(outs[i])' <=> GoodText(outs'[i])
    BY <1>1
  <2>2. GoodText(compilers[i].lvalue)' <=> GoodText(compilers'[i].lvalue)
    BY <1>1
  <2>3. GoodText(post_body[i].text)' <=> GoodText(post_body'[i].text)
    BY <1>1
  <2> QED BY <2>1, <2>2, <2>3
<1> QED BY <1>1, <1>2 DEF TextsGood

-----------------------------------------------------------------------------
(* What holds while code is printed.                                       *)

LEMMA CodeFacts ==
  ASSUME CompileInv, phase = "code"
  PROVE  /\ Table!LookupInv /\ St!Built /\ prog \in Programs
         /\ AtWork /\ OnPath /\ ExprsSaved /\ TextsGood
         /\ compilers \in Seq(Compilers) /\ compilers # <<>> /\ outs # <<>>
         /\ Len(compilers) \in Nat \ {0} /\ DOMAIN compilers = 1 .. Len(compilers)
         /\ Len(outs) \in Nat \ {0} /\ DOMAIN outs = 1 .. Len(outs)
         /\ C \in Compilers /\ C = compilers[Len(compilers)] /\ GoodText(C.lvalue)
         /\ Len(frames) \in Nat \ {0}
         /\ C.expr = InForce(Len(frames)) /\ Scoped(Len(frames), C)
         /\ Top.node \in Nodes \cup {Main}
<1>1. /\ Table!LookupInv /\ St!Built /\ AtWork /\ TextsGood
  BY DEF CompileInv
<1>2. prog \in Programs /\ OnPath /\ ExprsSaved /\ compilers \in Seq(Compilers)
  BY <1>1, ScopesTyped DEF AtWork
<1>3. PICK using, writing : Counts(using, writing) /\ Suits(using)
  BY <1>1 DEF AtWork
<1>4. Len(compilers) \in Nat \ {0} /\ Len(outs) \in Nat \ {0} /\ outs \in Seq(Text)
  BY <1>1, <1>2, <1>3, CountsFacts DEF TextsGood
<1>5. /\ Len(frames) \in Nat \ {0} /\ Top.node \in Nodes \cup {Main}
      /\ Len(frames) \in DOMAIN frames
  BY <1>2, StackFacts DEF Frames
<1>6. C = compilers[Len(compilers)]
  BY DEF C
<1>7. using[Len(frames)] = Len(compilers)
  BY <1>3 DEF Counts
<1>8. C.expr = InForce(Len(frames)) /\ Scoped(Len(frames), C)
  BY <1>3, <1>5, <1>6, <1>7 DEF Suits
<1>9. /\ DOMAIN compilers = 1 .. Len(compilers) /\ compilers # <<>>
      /\ DOMAIN outs = 1 .. Len(outs) /\ outs # <<>>
  BY <1>2, <1>4
<1>10. C \in Compilers /\ GoodText(C.lvalue)
  BY <1>1, <1>2, <1>4, <1>6, <1>9 DEF TextsGood
<1> QED BY <1>1, <1>2, <1>4, <1>5, <1>6, <1>8, <1>9, <1>10

LEMMA StaysAtWork ==
  ASSUME CompileInv, phase = "code", phase' = "code", UNCHANGED tables, UNCHANGED head,
         AtWork', TextsGood'
  PROVE  CompileInv'
<1>1. Table!LookupInv /\ St!Built /\ ClassesPrinted /\ Unprinted = {}
  BY DEF CompileInv
<1>2. Table!LookupInv'
  BY <1>1, TableStays
<1>3. St!Built'
  BY <1>1 DEF tables, St!Built
<1>4. ClassesPrinted'
  <2>1. /\ Classes' = Classes /\ Openers' = Openers /\ \A n : Class(n)' = Class(n)
    BY TablesStay
  <2> QED BY <1>1, <2>1 DEF ClassesPrinted
<1>5. Unprinted' = {}
  <2>1. Unprinted' = Unprinted
    BY DEF tables, Unprinted, Nodes, Opener, Kind, ScopeOf
  <2> QED BY <1>1, <2>1
<1> QED BY <1>2, <1>3, <1>4, <1>5 DEF CompileInv

LEMMA Here ==
  ASSUME CompileInv, phase = "code", NEW n, Reached(n)
  PROVE  /\ n \in Nodes /\ LocalScope = ScopeOpenedBy(Binder(n))
         /\ LocalScope \in DOMAIN scopes /\ ReqScope \in ScopeNumbers
         /\ C.expr \in Nodes \cup {Null}
<1>1. n \in Nodes /\ Binder(n) = Inner(Len(frames))
  BY CodeFacts, ReachedFacts
<1>2. LocalScope = ScopeOpenedBy(Inner(Len(frames)))
  BY CodeFacts DEF Scoped, LocalScope
<1>3. C \in Compilers
  BY CodeFacts
<1> QED BY <1>1, <1>2, <1>3 DEF Compilers, LocalScope, ReqScope

\* Text before and after the parts of a node.
LEMMA AroundParts ==
  ASSUME CompileInv, phase = "code"
  PROVE  GoodText(Separator) /\ GoodText(Ending)
<1>1. Table!LookupInv /\ Top.node \in Nodes \cup {Main} /\ GoodText(C.lvalue)
  BY CodeFacts
<1>2. NoScope \in ScopeNumbers
  BY <1>1, ScopesTyped DEF ScopeNumbers, NoScope
<1>3. \A item \in {"open", "close", "fill"} :
        Plain(item, Top.node) \in Items /\ GoodItem(Plain(item, Top.node))
  BY <1>1, <1>2, GoodPlain DEF Plain
<1>4. /\ GoodText(<<Plain("open", Top.node)>>)
      /\ GoodText(<<Plain("close", Top.node)>>)
      /\ GoodText(<<Plain("fill", Top.node)>>)
      /\ GoodText(<< >>)
  BY <1>3, GoodOnes
<1>5. GoodText(<<Plain("close", Top.node), Plain("open", Top.node)>>)
  BY <1>3, GoodOnes
<1>7. GoodText(<<Plain("fill", Top.node)>> \o C.lvalue)
  BY <1>1, <1>4, GoodJoin
<1>8. GoodText(Separator)
  BY <1>4, <1>5, <1>7 DEF Separator
<1>9. GoodText(Ending)
  BY <1>4 DEF Ending
<1> QED BY <1>8, <1>9

LEMMA EnteredFacts ==
  ASSUME CompileInv, phase = "code", NEW n \in Nodes, NEW e, e = Entered(n)
  PROVE  /\ e \in Seq(Compilers) /\ Len(e) = Len(compilers) /\ DOMAIN e = 1 .. Len(compilers)
         /\ \A i \in 1 .. Len(compilers) :
              /\ e[i].local = compilers[i].local /\ e[i].req = compilers[i].req
              /\ e[i].lvalue = compilers[i].lvalue
              /\ e[i].expr = IF i = Len(compilers) /\ IsExpr(n) THEN n ELSE compilers[i].expr
<1>1. PICK new : new = [C EXCEPT !.expr = IF IsExpr(n) THEN n ELSE @]
  OBVIOUS
<1>2. /\ compilers \in Seq(Compilers) /\ C \in Compilers /\ C = compilers[Len(compilers)]
      /\ Len(compilers) \in DOMAIN compilers
  BY CodeFacts
<1>3. /\ new \in Compilers /\ new.local = C.local /\ new.req = C.req /\ new.lvalue = C.lvalue
      /\ new.expr = IF IsExpr(n) THEN n ELSE C.expr
  BY <1>1, <1>2 DEF Compilers
<1>4. e = [compilers EXCEPT ![Len(compilers)] = new]
  BY <1>1, <1>2 DEF Entered
<1>5. /\ e \in Seq(Compilers) /\ Len(e) = Len(compilers) /\ DOMAIN e = 1 .. Len(compilers)
      /\ \A i \in 1 .. Len(compilers) : e[i] = IF i = Len(compilers) THEN new ELSE compilers[i]
  BY <1>2, <1>3, <1>4, Replaced
<1> QED BY <1>2, <1>3, <1>5

-----------------------------------------------------------------------------
(* The actions.                                                            *)

\* The expression whose handler looks an l-value's names up is in the l-value's
\* Let or function.
LEMMA LValueHere ==
  ASSUME CompileInv, phase = "code", NEW n, Reached(n), UNCHANGED tables,
         NEW inline \in BOOLEAN, Push(n, inline), ExprsSaved', Kind(n) \in LValueKinds
  PROVE  C.expr \in Exprs /\ Binder(n) = Binder(C.expr)
<1>1. prog \in Programs /\ OnPath /\ Len(frames) \in Nat \ {0}
  BY CodeFacts
<1>2. PICK N \in Nat \ {0} : N = Len(frames)
  BY <1>1
<1>3. Len(frames') = N + 1
  BY <1>1, <1>2, PushFrames
<1>4. /\ InForce(N + 1)' = IF IsExpr(n) THEN n ELSE C.expr
      /\ frames'[N + 1].node = n /\ frames'[N + 1].kind = Kind(n)
  BY <1>1, <1>2, PushSame
<1>5. PICK k \in 2 .. Len(frames') : k = N + 1
  BY <1>2, <1>3
<1>6. /\ InForce(k)' \in Exprs'
      /\ frames'[k].kind \in LValueKinds => Binder(InForce(k))' = Binder(frames[k].node)'
  BY <1>5 DEF ExprsSaved
<1>7. ~ IsExpr(n)
  BY DEF IsExpr, LValueKinds, ExprKinds
<1>8. InForce(k)' = C.expr /\ frames'[k].node = n /\ frames'[k].kind = Kind(n)
  BY <1>4, <1>5, <1>7
<1>9. prog' = prog /\ Exprs' = Exprs
  BY TablesStay
<1> QED BY <1>6, <1>8, <1>9 DEF Binder

\* A node starts with nothing or with one item, which mentions a scope of the
\* method or none.
StartsWith(n, it) ==
  /\ it \in Items /\ GoodItem(it) /\ it.item \in {"for", "field", "local", "call"}
  /\ it.item = "for" <=> Kind(n) = "For"
  /\ \A S : Closed(S, C) => it.scope \in S \cup {NoScope}

LEMMA BeginningGood ==
  ASSUME CompileInv, phase = "code", NEW n, Reached(n), UNCHANGED tables,
         NEW inline \in BOOLEAN, Push(n, inline), ExprsSaved'
  PROVE  /\ GoodText(Beginning(n))
         /\ \/ Beginning(n) = << >> /\ Kind(n) # "For"
            \/ \E it : StartsWith(n, it) /\ Beginning(n) = <<it>>
<1>1. /\ Table!LookupInv /\ St!Built /\ n \in Nodes /\ LocalScope = ScopeOpenedBy(Binder(n))
  BY CodeFacts, Here
<1>2. CASE Kind(n) = "Identifier"
  <2>1. Kind(n) \in LValueKinds
    BY <1>2 DEF LValueKinds
  <2>2. C.expr \in Exprs /\ Binder(n) = Binder(C.expr)
    BY <2>1, LValueHere
  <2>3. PICK it : it = Mention(n)
    OBVIOUS
  <2>4. /\ it \in Items /\ GoodItem(it) /\ it.item \in {"field", "local"}
        /\ \A S : Closed(S, C) => it.scope \in S \cup {NoScope}
    BY <1>1, <1>2, <2>2, <2>3, MentionGood
  <2>5. Beginning(n) = <<it>>
    BY <1>2, <2>3 DEF Beginning
  <2> QED BY <1>2, <2>4, <2>5, GoodOnes DEF StartsWith
<1>3. CASE Kind(n) = "FunctionCall"
  <2>1. n \in Exprs
    BY <1>1, <1>3 DEF Exprs, IsExpr, ExprKinds
  <2>2. PICK it : it = Call(n)
    OBVIOUS
  <2>3. /\ it \in Items /\ GoodItem(it) /\ it.item = "call"
        /\ \A S : Closed(S, C) => it.scope \in S \cup {NoScope}
    BY <1>1, <1>3, <2>1, <2>2, CallGood
  <2>4. Beginning(n) = <<it>>
    BY <1>3, <2>2 DEF Beginning
  <2> QED BY <1>3, <2>3, <2>4, GoodOnes DEF StartsWith
<1>4. CASE Kind(n) = "For"
  <2>1. NoScope \in ScopeNumbers
    BY <1>1, ScopesTyped DEF ScopeNumbers, NoScope
  <2>2. PICK it : it = Plain("for", n)
    OBVIOUS
  <2>3. it \in Items /\ GoodItem(it) /\ it.item = "for" /\ it.scope = NoScope
    BY <1>1, <2>1, <2>2, GoodPlain DEF Plain, Item
  <2>4. Beginning(n) = <<it>>
    BY <1>4, <2>2 DEF Beginning
  <2> QED BY <1>4, <2>3, <2>4, GoodOnes DEF StartsWith
<1>5. CASE Kind(n) \notin {"Identifier", "FunctionCall", "For"}
  <2>1. Beginning(n) = << >> /\ Kind(n) # "For"
    BY <1>5 DEF Beginning
  <2> QED BY <2>1, GoodOnes
<1> QED BY <1>2, <1>3, <1>4, <1>5

LEMMA StepEnterOther ==
  ASSUME CompileInv, NEW n, EnterOther(n)
  PROVE  CompileInv'
<1>1. PICK inline \in BOOLEAN : Push(n, inline)
  BY DEF EnterOther, IsConditional
<1>2. /\ phase = "code" /\ phase' = "code" /\ UNCHANGED tables /\ UNCHANGED head
      /\ Reached(n) /\ compilers' = Entered(n)
      /\ Kind(n) \notin {"Let", "Assignment"} \cup DeclarationKinds
      /\ UNCHANGED post_body
  BY <1>1 DEF EnterOther, Push, Reached
<1>3. /\ Table!LookupInv /\ St!Built /\ prog \in Programs /\ AtWork /\ OnPath /\ TextsGood
      /\ outs # <<>> /\ DOMAIN compilers = 1 .. Len(compilers)
  BY <1>2, CodeFacts
<1>4. n \in Nodes /\ LocalScope = ScopeOpenedBy(Binder(n))
  BY <1>2, Here
<1>5. ~ MakesOne(n) /\ Kind(n) \notin {"Assignment", "FunctionDeclaration"}
  BY <1>2 DEF MakesOne, DeclarationKinds
<1>6. /\ compilers' \in Seq(Compilers) /\ Len(compilers') = Len(compilers)
      /\ DOMAIN compilers' = 1 .. Len(compilers)
      /\ \A i \in 1 .. Len(compilers) :
           /\ compilers'[i].local = compilers[i].local
           /\ compilers'[i].req = compilers[i].req
           /\ compilers'[i].lvalue = compilers[i].lvalue
           /\ compilers'[i].expr = IF i = Len(compilers) /\ IsExpr(n) THEN n
                                   ELSE compilers[i].expr
  BY <1>2, <1>4, EnteredFacts
<1>7. outs' = [outs EXCEPT ![Len(outs)] = @ \o (Separator \o Beginning(n))]
  BY DEF EnterOther, Write
<1>8. outs \in Seq(Text) /\ \A i \in DOMAIN outs : GoodText(outs[i])
  BY <1>3 DEF TextsGood
<1>9. Len(outs') = Len(outs)
  BY <1>3, <1>7, <1>8
<1>10. AtWork'
  BY <1>1, <1>2, <1>3, <1>5, <1>6, <1>9, Pushed
<1>11. GoodText(Beginning(n))
  BY <1>1, <1>2, <1>10, BeginningGood DEF AtWork
<1>12. GoodText(Separator \o Beginning(n))
  BY <1>2, <1>11, AroundParts, GoodJoin
<1>13. outs' \in Seq(Text) /\ \A i \in DOMAIN outs' : GoodText(outs'[i])
  <2>1. PICK text : text = Separator \o Beginning(n)
    OBVIOUS
  <2> QED BY <1>3, <1>7, <1>8, <1>12, <2>1, WriteGood
<1>14. TextsGood'
  <2>1. /\ \A i \in DOMAIN compilers : GoodText(compilers[i].lvalue)
        /\ post_body \in Seq(Methods)
        /\ \A i \in DOMAIN post_body : GoodText(post_body[i].text)
    BY <1>3 DEF TextsGood
  <2>2. \A i \in DOMAIN compilers' : GoodText(compilers'[i].lvalue)
    BY <1>3, <1>6, <2>1
  <2> QED BY <1>2, <1>13, <2>1, <2>2, TextsNext
<1> QED BY <1>2, <1>10, <1>14, StaysAtWork

LEMMA ReachAtOnce == ASSUME NEW it, it.arg = 0 PROVE Reach(it) = it.scope
<1>1. PICK g : Climbing(g, it.scope, 0)
  BY ClimbingExists
<1>2. PICK h : h = (CHOOSE g_1 : Climbing(g_1, it.scope, it.arg))
  OBVIOUS
<1>3. Climbing(h, it.scope, 0)
  BY <1>1, <1>2, Zenon
<1>4. h[0] = it.scope
  BY <1>3 DEF Climbing
<1>5. Reach(it) = h[0]
  BY <1>2, WalksMeant, Zenon
<1> QED BY <1>4, <1>5

LEMMA VariableGood ==
  ASSUME CompileInv, phase = "code", NEW n, Reached(n), Kind(n) = "VariableDeclaration"
  PROVE  LET it == Item("field", n, LocalScope, 0) IN it \in Items /\ GoodItem(it)
<1>1. /\ Table!LookupInv /\ prog \in Programs /\ OnPath /\ Len(frames) \in Nat \ {0}
      /\ n \in Nodes /\ LocalScope = ScopeOpenedBy(Binder(n)) /\ LocalScope \in DOMAIN scopes
  BY CodeFacts, Here
<1>2. PICK it : it = Item("field", n, LocalScope, 0)
  OBVIOUS
<1>3. /\ LocalScope \in ScopeNumbers \ {NoScope} /\ 0 \in ScopeNumbers
  BY <1>1, ScopesTyped DEF ScopeNumbers, NoScope
<1>4. /\ it \in Items /\ it.item = "field" /\ it.node = n /\ it.scope = LocalScope
      /\ it.arg = 0
  BY <1>1, <1>2, <1>3 DEF Item, Items, ItemKinds
<1>5. Reach(it) = LocalScope
  BY <1>4, ReachAtOnce
<1>6. Home(n) = LocalScope
  <2>1. Meant(n) = n
    BY MeantUnfolded
  <2> QED BY <1>1, <2>1 DEF Home
<1>7. Len(frames) > 1
  <2>1. Len(frames) = 1 => n = 1
    BY <1>1, ReachedFacts
  <2>2. Kind(1) \in ExprKinds
    BY <1>1, RootFacts DEF Exprs, IsExpr
  <2>3. Kind(n) \notin ExprKinds
    BY DEF ExprKinds
  <2>4. Len(frames) # 1
    BY <2>1, <2>2, <2>3
  <2>5. Len(frames) \in Nat \ {0}
    BY <1>1
  <2> QED BY <2>4, <2>5
<1>8. PICK m, j : m \in Nodes /\ j \in DOMAIN prog[m].kids /\ n = Kid(m, j)
  <2>1. Top.node \in Nodes
    BY <1>1, <1>7, StackFacts
  <2>2. Top.next \in DOMAIN prog[Top.node].kids /\ n = Kid(Top.node, Top.next)
    BY <1>1, <1>7, ReachedFacts
  <2> QED BY <2>1, <2>2
<1>9. Kind(m) = "Let"
  <2>1. Kind(Kid(m, j)) \in DeclarationKinds
    BY <1>8 DEF DeclarationKinds
  <2>2. \A i \in DOMAIN prog[m].kids :
          Kind(Kid(m, i)) \in DeclarationKinds => Kind(m) = "Let"
    BY <1>1, <1>8, KidSorts
  <2> QED BY <1>8, <2>1, <2>2
<1>10. m \in Openers /\ Binder(n) = m
  BY <1>1, <1>8, <1>9, KidFacts DEF Openers, Opener
<1>11. prog[n].id \in Fields(m)
  <2>1. j \in {i \in DOMAIN prog[m].kids : Kind(Kid(m, i)) = "VariableDeclaration"}
    BY <1>8
  <2> QED BY <1>8, <1>9, <2>1 DEF Fields
<1>12. GoodItem(it)
  BY <1>1, <1>3, <1>4, <1>5, <1>6, <1>10, <1>11 DEF GoodItem
<1> QED BY <1>2, <1>4, <1>12

LEMMA StepEnterVariable ==
  ASSUME CompileInv, NEW n, EnterVariable(n)
  PROVE  CompileInv'
<1>1. /\ phase = "code" /\ phase' = "code" /\ UNCHANGED tables /\ UNCHANGED head
      /\ Reached(n) /\ Kind(n) = "VariableDeclaration" /\ Push(n, FALSE)
      /\ UNCHANGED post_body
  BY DEF EnterVariable, Push, Reached
<1>2. /\ Table!LookupInv /\ St!Built /\ prog \in Programs /\ AtWork /\ OnPath /\ TextsGood
      /\ compilers \in Seq(Compilers) /\ Len(compilers) \in DOMAIN compilers
      /\ outs # <<>> /\ C \in Compilers /\ C = compilers[Len(compilers)]
  BY <1>1, CodeFacts
<1>3. PICK lval : lval = <<Item("field", n, LocalScope, 0)>>
  OBVIOUS
<1>4. GoodText(lval)
  BY <1>1, <1>3, VariableGood, GoodOnes
<1>5. PICK new : new = [C EXCEPT !.lvalue = lval]
  OBVIOUS
<1>6. /\ new \in Compilers /\ new.local = C.local /\ new.req = C.req /\ new.expr = C.expr
      /\ new.lvalue = lval
  <2>1. lval \in Text
    BY <1>4 DEF GoodText, Text, Items
  <2> QED BY <1>2, <1>5, <2>1 DEF Compilers
<1>7. compilers' = [compilers EXCEPT ![Len(compilers)] = new]
  BY <1>2, <1>3, <1>5 DEF EnterVariable
<1>8. /\ compilers' \in Seq(Compilers) /\ Len(compilers') = Len(compilers)
      /\ DOMAIN compilers' = 1 .. Len(compilers) /\ DOMAIN compilers = 1 .. Len(compilers)
      /\ \A i \in 1 .. Len(compilers) :
           compilers'[i] = IF i = Len(compilers) THEN new ELSE compilers[i]
  BY <1>2, <1>6, <1>7, Replaced
<1>9. ~ MakesOne(n) /\ ~ IsExpr(n) /\ Kind(n) \notin {"Assignment", "FunctionDeclaration"}
  BY <1>1 DEF MakesOne, IsExpr, ExprKinds
<1>10. /\ outs \in Seq(Text) /\ \A i \in DOMAIN outs : GoodText(outs[i])
       /\ \A i \in DOMAIN compilers : GoodText(compilers[i].lvalue)
       /\ post_body \in Seq(Methods)
       /\ \A i \in DOMAIN post_body : GoodText(post_body[i].text)
  BY <1>2 DEF TextsGood
<1>11. outs' = [outs EXCEPT ![Len(outs)] = @ \o lval]
  BY <1>3 DEF EnterVariable, Write
<1>12. /\ outs' \in Seq(Text) /\ Len(outs') = Len(outs)
       /\ \A i \in DOMAIN outs' : GoodText(outs'[i])
  BY <1>2, <1>4, <1>10, <1>11, WriteGood
<1>13. AtWork'
  <2>1. \A i \in 1 .. Len(compilers) :
           /\ compilers'[i].local = compilers[i].local
           /\ compilers'[i].req = compilers[i].req
           /\ compilers'[i].expr = IF i = Len(compilers) /\ IsExpr(n) THEN n
                                   ELSE compilers[i].expr
    BY <1>2, <1>6, <1>8, <1>9
  <2> QED BY <1>1, <1>2, <1>8, <1>9, <1>12, <2>1, Pushed
<1>14. TextsGood'
  <2>1. \A i \in DOMAIN compilers' : GoodText(compilers'[i].lvalue)
    BY <1>4, <1>6, <1>8, <1>10
  <2> QED BY <1>1, <1>10, <1>12, <2>1, TextsNext
<1> QED BY <1>1, <1>13, <1>14, StaysAtWork

LEMMA NewCompiler ==
  ASSUME NEW local \in DOMAIN scopes, NEW req \in ScopeNumbers, NEW e \in Nodes \cup {Null},
         NEW c, c = Compiler(local, req, e)
  PROVE  /\ c \in Compilers /\ c.local = local /\ c.req = req /\ c.expr = e
         /\ GoodText(c.lvalue)
<1>1. << >> \in Text
  BY DEF Text
<1>2. c \in Compilers /\ c.local = local /\ c.req = req /\ c.expr = e /\ c.lvalue = << >>
  BY <1>1 DEF Compiler, Compilers
<1> QED BY <1>2, GoodOnes

\* A handler that makes a Compiler, whatever it writes.
LEMMA NewAtWork ==
  ASSUME CompileInv, phase = "code", UNCHANGED tables, NEW n, Reached(n), Push(n, FALSE),
         MakesOne(n), NEW c \in Compilers, IsCompilerOf(n, c), GoodText(c.lvalue),
         compilers' = Append(Entered(n), c),
         Len(outs') = IF Kind(n) \in {"Assignment", "FunctionDeclaration"}
                      THEN Len(outs) + 1 ELSE Len(outs)
  PROVE  AtWork' /\ \A i \in DOMAIN compilers' : GoodText(compilers'[i].lvalue)
<1>1. /\ prog \in Programs /\ AtWork /\ TextsGood /\ Len(compilers) \in Nat \ {0}
      /\ n \in Nodes /\ DOMAIN compilers = 1 .. Len(compilers)
  BY CodeFacts, Here
<1>2. PICK L \in Nat \ {0} : L = Len(compilers)
  BY <1>1
<1>3. PICK e : e = Entered(n)
  OBVIOUS
<1>4. /\ e \in Seq(Compilers) /\ Len(e) = L
      /\ \A i \in 1 .. L :
           /\ e[i].local = compilers[i].local /\ e[i].req = compilers[i].req
           /\ e[i].lvalue = compilers[i].lvalue
           /\ e[i].expr = IF i = L /\ IsExpr(n) THEN n ELSE compilers[i].expr
  <2>1. /\ e \in Seq(Compilers) /\ Len(e) = Len(compilers)
        /\ \A i \in 1 .. Len(compilers) :
             /\ e[i].local = compilers[i].local /\ e[i].req = compilers[i].req
             /\ e[i].lvalue = compilers[i].lvalue
             /\ e[i].expr = IF i = Len(compilers) /\ IsExpr(n) THEN n
                            ELSE compilers[i].expr
    BY <1>1, <1>3, EnteredFacts, Zenon
  <2> QED BY <1>2, <2>1, Zenon
<1>5. /\ compilers' \in Seq(Compilers) /\ Len(compilers') = L + 1
      /\ DOMAIN compilers' = 1 .. L + 1
      /\ compilers'[L + 1] = c /\ \A i \in 1 .. L : compilers'[i] = e[i]
  <2>1. compilers' = Append(e, c)
    BY <1>3
  <2> QED BY ONLY <1>2, <1>4, <2>1, c \in Compilers, WithOneMore
<1>6. AtWork'
  <2>1. \A i \in 1 .. L :
           /\ compilers'[i].local = compilers[i].local
           /\ compilers'[i].req = compilers[i].req
           /\ compilers'[i].expr = IF i = L /\ IsExpr(n) THEN n ELSE compilers[i].expr
    BY <1>4, <1>5
  <2>2. Len(compilers') = IF MakesOne(n) THEN Len(compilers) + 1 ELSE Len(compilers)
    BY <1>2, <1>5
  <2>3. IsCompilerOf(n, compilers'[Len(compilers) + 1])
    BY <1>2, <1>5
  <2> QED BY <1>1, <1>2, <1>5, <2>1, <2>2, <2>3, Pushed
<1>7. \A i \in 1 .. L : GoodText(compilers[i].lvalue)
  BY <1>1, <1>2 DEF TextsGood
<1>8. \A i \in DOMAIN compilers' : GoodText(compilers'[i].lvalue)
  BY <1>2, <1>4, <1>5, <1>7
<1> QED BY <1>6, <1>8

\* A handler that opens a stream of its own.
LEMMA NewStream ==
  ASSUME NEW T, NEW s \in Seq(T), \A i \in DOMAIN s : GoodText(s[i]), NEW text \in T,
         GoodText(text), NEW t, t = Append(s, text)
  PROVE  /\ t \in Seq(T) /\ Len(t) = Len(s) + 1
         /\ \A i \in DOMAIN t : GoodText(t[i])
BY WithOneMore

LEMMA StepEnterAssignment ==
  ASSUME CompileInv, NEW n, EnterAssignment(n)
  PROVE  CompileInv'
<1>1. /\ phase = "code" /\ phase' = "code" /\ UNCHANGED tables /\ UNCHANGED head
      /\ Reached(n) /\ Kind(n) = "Assignment" /\ Push(n, FALSE)
      /\ UNCHANGED post_body
  BY DEF EnterAssignment, Push, Reached
<1>2. /\ TextsGood /\ outs # <<>> /\ n \in Nodes
      /\ LocalScope \in DOMAIN scopes /\ ReqScope \in ScopeNumbers
  BY <1>1, CodeFacts, Here
<1>3. PICK c : c = Compiler(LocalScope, ReqScope, n)
  OBVIOUS
<1>4. /\ c \in Compilers /\ c.local = LocalScope /\ c.req = ReqScope /\ c.expr = n
      /\ GoodText(c.lvalue)
  <2>1. n \in Nodes \cup {Null}
    BY <1>2
  <2> QED BY <1>2, <1>3, <2>1, NewCompiler
<1>5. MakesOne(n) /\ IsCompilerOf(n, c)
  BY <1>1, <1>4 DEF MakesOne, IsCompilerOf, IsExpr, ExprKinds, Opener
<1>6. compilers' = Append(Entered(n), c)
  BY <1>3 DEF EnterAssignment
<1>7. /\ outs \in Seq(Text) /\ \A i \in DOMAIN outs : GoodText(outs[i])
      /\ post_body \in Seq(Methods)
      /\ \A i \in DOMAIN post_body : GoodText(post_body[i].text)
  BY <1>2 DEF TextsGood
<1>8. PICK s : s = [outs EXCEPT ![Len(outs)] = @ \o Separator]
  OBVIOUS
<1>9. s \in Seq(Text) /\ Len(s) = Len(outs) /\ \A i \in DOMAIN s : GoodText(s[i])
  <2>1. GoodText(Separator)
    BY <1>1, AroundParts
  <2> QED BY <1>2, <1>7, <1>8, <2>1, WriteGood
<1>10. /\ outs' \in Seq(Text) /\ Len(outs') = Len(outs) + 1
       /\ \A i \in DOMAIN outs' : GoodText(outs'[i])
  <2>1. outs' = Append(s, << >>)
    BY <1>8 DEF EnterAssignment
  <2>2. << >> \in Text /\ GoodText(<< >>)
    BY GoodOnes DEF GoodText, Text, Items
  <2>3. /\ outs' \in Seq(Text) /\ Len(outs') = Len(s) + 1
        /\ \A i \in DOMAIN outs' : GoodText(outs'[i])
    BY ONLY <1>9, <2>1, <2>2, NewStream
  <2> QED BY <1>9, <2>3
<1>11. AtWork' /\ \A i \in DOMAIN compilers' : GoodText(compilers'[i].lvalue)
  BY <1>1, <1>4, <1>5, <1>6, <1>10, NewAtWork
<1>12. TextsGood'
  BY <1>1, <1>7, <1>10, <1>11, TextsNext
<1> QED BY <1>1, <1>11, <1>12, StaysAtWork

LEMMA StepEnterFunction ==
  ASSUME CompileInv, NEW n, EnterFunction(n)
  PROVE  CompileInv'
<1>1. /\ phase = "code" /\ phase' = "code" /\ UNCHANGED tables /\ UNCHANGED head
      /\ Reached(n) /\ Kind(n) = "FunctionDeclaration" /\ Push(n, FALSE)
      /\ UNCHANGED post_body
  BY DEF EnterFunction, Push, Reached
<1>2. /\ TextsGood /\ n \in Nodes /\ C.expr \in Nodes \cup {Null} /\ C \in Compilers
      /\ Table!LookupInv /\ St!Built
  BY <1>1, CodeFacts, Here
<1>3. n \in Openers
  BY <1>1, <1>2 DEF Openers, Opener
<1>4. PICK s : s = FnScope(n)
  OBVIOUS
<1>5. PICK req : req = scopes[s].parent
  OBVIOUS
<1>6. s = ScopeOpenedBy(n) /\ req = ScopeOpenedBy(Binder(n))
  BY <1>1, <1>2, <1>3, <1>4, <1>5, BodyScopes, BuiltScopes
<1>7. s \in DOMAIN scopes /\ req \in DOMAIN scopes
  BY <1>2, <1>3, <1>6, BuiltScopes
<1>8. s \in ScopeNumbers /\ req \in ScopeNumbers
  BY <1>2, <1>7, ScopesTyped DEF ScopeNumbers
<1>9. PICK c : c = Compiler(s, req, C.expr)
  OBVIOUS
<1>10. /\ c \in Compilers /\ c.local = s /\ c.req = req /\ c.expr = C.expr
       /\ GoodText(c.lvalue)
  BY <1>2, <1>7, <1>8, <1>9, NewCompiler
<1>11. MakesOne(n) /\ IsCompilerOf(n, c) /\ ~ IsExpr(n)
  BY <1>1, <1>6, <1>10 DEF MakesOne, IsCompilerOf, IsExpr, ExprKinds, Opener
<1>12. compilers' = Append(Entered(n), c)
  <2>1. compilers' = Append(compilers, c)
    BY <1>4, <1>5, <1>9 DEF EnterFunction
  <2>2. Entered(n) = compilers
    <3>1. compilers \in Seq(Compilers) /\ Len(compilers) \in DOMAIN compilers
      BY <1>1, CodeFacts
    <3>2. Entered(n) = [compilers EXCEPT ![Len(compilers)] = C]
      <4>1. [C EXCEPT !.expr = C.expr] = C
        BY <1>2 DEF Compilers
      <4> QED BY <1>11, <3>1, <4>1 DEF Entered, C
    <3> QED BY <3>1, <3>2 DEF C
  <2> QED BY <2>1, <2>2
<1>13. /\ outs \in Seq(Text) /\ \A i \in DOMAIN outs : GoodText(outs[i])
       /\ post_body \in Seq(Methods)
       /\ \A i \in DOMAIN post_body : GoodText(post_body[i].text)
  BY <1>2 DEF TextsGood
<1>14. PICK text : text = <<Item("param", n, req, 0), Object(n, s), Link(n, s, req)>>
  OBVIOUS
<1>15. GoodText(text)
  <2>1. Item("param", n, req, 0) \in Items /\ GoodItem(Item("param", n, req, 0))
    BY <1>2, <1>8, GoodPlain
  <2>2. Object(n, s) \in Items /\ GoodItem(Object(n, s))
    BY <1>2, <1>8, GoodPlain DEF Object
  <2>3. Link(n, s, req) \in Items /\ GoodItem(Link(n, s, req))
    BY <1>2, <1>3, <1>6, GoodLink
  <2> QED BY <1>14, <2>1, <2>2, <2>3, GoodOnes
<1>16. /\ outs' \in Seq(Text) /\ Len(outs') = Len(outs) + 1
       /\ \A i \in DOMAIN outs' : GoodText(outs'[i])
  <2>1. outs' = Append(outs, text)
    BY <1>4, <1>5, <1>14 DEF EnterFunction
  <2>2. text \in Text
    BY <1>15 DEF GoodText, Text, Items
  <2> QED BY ONLY <1>13, <1>15, <2>1, <2>2, NewStream
<1>17. AtWork' /\ \A i \in DOMAIN compilers' : GoodText(compilers'[i].lvalue)
  BY <1>1, <1>10, <1>11, <1>12, <1>16, NewAtWork
<1>18. TextsGood'
  BY <1>1, <1>13, <1>16, <1>17, TextsNext
<1> QED BY <1>1, <1>17, <1>18, StaysAtWork

LEMMA StepEnterLet ==
  ASSUME CompileInv, NEW n, EnterLet(n)
  PROVE  CompileInv'
<1>1. /\ phase = "code" /\ phase' = "code" /\ UNCHANGED tables /\ UNCHANGED head
      /\ Reached(n) /\ Kind(n) = "Let" /\ Push(n, FALSE)
      /\ UNCHANGED post_body
  BY DEF EnterLet, Push, Reached
<1>2. /\ TextsGood /\ outs # <<>> /\ n \in Nodes /\ Table!LookupInv /\ St!Built
      /\ LocalScope = ScopeOpenedBy(Binder(n)) /\ prog \in Programs /\ AtWork
      /\ LocalScope \in DOMAIN scopes /\ ReqScope \in ScopeNumbers
      /\ DOMAIN compilers = 1 .. Len(compilers)
  BY <1>1, CodeFacts, Here
<1>3. /\ outs \in Seq(Text) /\ \A i \in DOMAIN outs : GoodText(outs[i])
      /\ post_body \in Seq(Methods)
      /\ \A i \in DOMAIN post_body : GoodText(post_body[i].text)
      /\ \A i \in DOMAIN compilers : GoodText(compilers[i].lvalue)
  BY <1>2 DEF TextsGood
<1>4. GoodText(Separator)
  BY <1>1, AroundParts
<1>5. /\ Kind(n) \notin {"Assignment", "FunctionDeclaration"} /\ IsExpr(n)
      /\ n \in Openers
  BY <1>1, <1>2 DEF IsExpr, ExprKinds, Openers, Opener
<1>6. CASE ~ HasBody(n)
  <2>1. compilers' = Entered(n) /\ outs' = [outs EXCEPT ![Len(outs)] = @ \o Separator]
    BY <1>6 DEF EnterLet, Write
  <2>2. /\ compilers' \in Seq(Compilers) /\ Len(compilers') = Len(compilers)
        /\ DOMAIN compilers' = 1 .. Len(compilers)
        /\ \A i \in 1 .. Len(compilers) :
             /\ compilers'[i].local = compilers[i].local
             /\ compilers'[i].req = compilers[i].req
             /\ compilers'[i].lvalue = compilers[i].lvalue
             /\ compilers'[i].expr = IF i = Len(compilers) /\ IsExpr(n) THEN n
                                     ELSE compilers[i].expr
    BY <1>1, <1>2, <2>1, EnteredFacts
  <2>3. /\ outs' \in Seq(Text) /\ Len(outs') = Len(outs)
        /\ \A i \in DOMAIN outs' : GoodText(outs'[i])
    BY <1>2, <1>3, <1>4, <2>1, WriteGood
  <2>4. ~ MakesOne(n)
    BY <1>1, <1>6 DEF MakesOne
  <2>5. AtWork'
    BY <1>1, <1>2, <1>5, <2>2, <2>3, <2>4, Pushed
  <2>6. \A i \in DOMAIN compilers' : GoodText(compilers'[i].lvalue)
    BY <1>2, <1>3, <2>2
  <2>7. TextsGood'
    BY <1>1, <1>3, <2>3, <2>6, TextsNext
  <2> QED BY <1>1, <2>5, <2>7, StaysAtWork
<1>7. CASE HasBody(n)
  <2>1. PICK s : s = BodyScope(n)
    OBVIOUS
  <2>2. s = ScopeOpenedBy(n)
    BY <1>1, <1>2, <1>7, <2>1, BodyScopes
  <2>3. s \in DOMAIN scopes /\ s \in ScopeNumbers
    <3>1. s \in DOMAIN scopes
      BY <1>2, <1>5, <2>2, BuiltScopes
    <3> QED BY <1>2, <3>1, ScopesTyped DEF ScopeNumbers
  <2>4. PICK c : c = Compiler(s, ReqScope, n)
    OBVIOUS
  <2>5. /\ c \in Compilers /\ c.local = s /\ c.req = ReqScope /\ c.expr = n
        /\ GoodText(c.lvalue)
    <3>1. n \in Nodes \cup {Null}
      BY <1>2
    <3> QED BY <1>2, <2>3, <2>4, <3>1, NewCompiler
  <2>6. MakesOne(n) /\ IsCompilerOf(n, c)
    BY <1>1, <1>5, <1>7, <2>2, <2>5 DEF MakesOne, IsCompilerOf, Opener
  <2>7. PICK text : text = <<Plain("open", n), Object(n, s), Link(n, s, LocalScope)>>
    OBVIOUS
  <2>8. /\ compilers' = Append(Entered(n), c)
        /\ outs' = [outs EXCEPT ![Len(outs)] = @ \o (Separator \o text)]
    BY <1>7, <2>1, <2>4, <2>7 DEF EnterLet, Write
  <2>9. GoodText(text)
    <3>1. NoScope \in ScopeNumbers
      BY <1>2, ScopesTyped DEF ScopeNumbers, NoScope
    <3>2. Plain("open", n) \in Items /\ GoodItem(Plain("open", n))
      BY <1>2, <3>1, GoodPlain DEF Plain
    <3>3. Object(n, s) \in Items /\ GoodItem(Object(n, s))
      BY <1>2, <2>3, GoodPlain DEF Object
    <3>4. Link(n, s, LocalScope) \in Items /\ GoodItem(Link(n, s, LocalScope))
      BY <1>2, <1>5, <2>2, GoodLink
    <3> QED BY <2>7, <3>2, <3>3, <3>4, GoodOnes
  <2>10. GoodText(Separator \o text)
    BY <1>4, <2>9, GoodJoin
  <2>11. /\ outs' \in Seq(Text) /\ Len(outs') = Len(outs)
         /\ \A i \in DOMAIN outs' : GoodText(outs'[i])
    <3>1. PICK all : all = Separator \o text
      OBVIOUS
    <3> QED BY <1>2, <1>3, <2>8, <2>10, <3>1, WriteGood
  <2>12. AtWork' /\ \A i \in DOMAIN compilers' : GoodText(compilers'[i].lvalue)
    BY <1>1, <1>5, <2>5, <2>6, <2>8, <2>11, NewAtWork
  <2>13. TextsGood'
    BY <1>1, <1>3, <2>11, <2>12, TextsNext
  <2> QED BY <1>1, <2>12, <2>13, StaysAtWork
<1> QED BY <1>6, <1>7

\* A type declaration is passed over: only the count of parts handed over and,
\* for a record, the text after main change.
LEMMA PassedOver ==
  ASSUME prog \in Programs, UNCHANGED tables, AtWork, NEW n, Reached(n),
         Kind(n) = "TypeDeclaration", UNCHANGED <<outs, compilers>>,
         frames' = [frames EXCEPT ![Len(frames)].next = @ + 1]
  PROVE  AtWork'
<1>1. /\ OnPath /\ ExprsSaved /\ compilers \in Seq(Compilers)
  BY DEF AtWork
<1>2. PICK using, writing : Counts(using, writing) /\ Suits(using)
  BY DEF AtWork
<1>3. PICK N \in Nat \ {0} : N = Len(frames)
  <2>1. Len(frames) \in Nat \ {0}
    BY <1>1, StackFacts
  <2> QED BY <2>1
<1>4. /\ frames \in Seq(Frames) /\ N \in DOMAIN frames /\ frames[N] \in Frames
      /\ Top = frames[N] /\ DOMAIN frames = 1 .. N
      /\ N > 1 => Top.node \in Nodes /\ Top.kind = Kind(Top.node)
  BY <1>1, <1>3, StackFacts DEF OnPath
<1>5. Top.kind \notin {"Assignment", "FunctionDeclaration"}
  <2>1. CASE N = 1
    BY <1>1, <1>3, <1>4, <2>1 DEF OnPath
  <2>2. CASE N # 1
    <3>1. /\ Top.next \in DOMAIN prog[Top.node].kids /\ n = Kid(Top.node, Top.next)
          /\ Top.node \in Nodes /\ Top.kind = Kind(Top.node)
      BY <1>1, <1>3, <1>4, <2>2, ReachedFacts
    <3>2. Kind(Kid(Top.node, Top.next)) \in DeclarationKinds
      BY <3>1 DEF DeclarationKinds
    <3>3. \A i \in DOMAIN prog[Top.node].kids :
            Kind(Kid(Top.node, i)) \in DeclarationKinds => Kind(Top.node) = "Let"
      BY <3>1, KidSorts
    <3> QED BY <3>1, <3>2, <3>3
  <2> QED BY <2>1, <2>2
<1>6. PICK new : new = [Top EXCEPT !.next = @ + 1]
  OBVIOUS
<1>7. /\ new \in Frames /\ new.node = Top.node /\ new.kind = Top.kind
      /\ new.saved = Top.saved
  BY <1>4, <1>6 DEF Frames
<1>8. /\ frames' \in Seq(Frames) /\ Len(frames') = N /\ DOMAIN frames' = 1 .. N
      /\ \A k \in 1 .. N : frames'[k] = IF k = N THEN new ELSE frames[k]
  <2>1. frames' = [frames EXCEPT ![N] = new]
    BY <1>3, <1>4, <1>6
  <2> QED BY ONLY <1>3, <1>4, <1>7, <2>1, Replaced
<1>9. \A k \in 1 .. N : /\ frames'[k].node = frames[k].node
                        /\ frames'[k].kind = frames[k].kind
                        /\ frames'[k].saved = frames[k].saved
                        /\ k # N => frames'[k].next = frames[k].next
  BY <1>4, <1>7, <1>8
<1>10. ASSUME NEW k \in 1 .. N
       PROVE  /\ OpensAt(k, Scoping)' <=> OpensAt(k, Scoping)
              /\ InForce(k)' = InForce(k) /\ Inner(k)' = Inner(k)
              /\ \A b, kinds : IsInnermost(b, k, kinds)' <=> IsInnermost(b, k, kinds)
              /\ \A c : Scoped(k, c)' <=> Scoped(k, c)
              /\ MakesCompiler(k)' <=> MakesCompiler(k)
              /\ MakesStream(k)' <=> MakesStream(k)
  <2>1. k \in Nat /\ k > 0 /\ \A i \in 1 .. k : i \in 1 .. N
    BY <1>3
  <2>2. \A i \in 1 .. k : /\ frames'[i].node = frames[i].node
                          /\ frames'[i].kind = frames[i].kind
                          /\ frames'[i].saved = frames[i].saved
    BY <1>9, <2>1
  <2>3. /\ \A kinds : OpensAt(k, kinds)' <=> OpensAt(k, kinds)
        /\ InForce(k)' = InForce(k) /\ Inner(k)' = Inner(k)
        /\ \A b, kinds : IsInnermost(b, k, kinds)' <=> IsInnermost(b, k, kinds)
        /\ \A c : Scoped(k, c)' <=> Scoped(k, c)
    BY <2>1, <2>2, FramesKept
  <2>4. OpensAt(k, Scoping)' <=> OpensAt(k, Scoping)
    BY <2>3
  <2>5. OnLeftSideAt(k)' <=> OnLeftSideAt(k)
    BY <1>3, <1>4, <1>5, <1>8, <1>9 DEF OnLeftSideAt
  <2> QED BY <1>9, <2>3, <2>4, <2>5 DEF MakesCompiler, MakesStream
<1>11. /\ Frames' = Frames /\ Nodes' = Nodes /\ Exprs' = Exprs /\ prog' = prog
       /\ Compilers' = Compilers
       /\ \A m : /\ Kind(m)' = Kind(m) /\ (HasBody(m)' <=> HasBody(m))
                 /\ Binder(m)' = Binder(m)
                 /\ \A j : Kid(m, j)' = Kid(m, j)
  BY TablesStay
<1>12. OnPath'
  <2>1. frames'[1].kind = "main" /\ frames'[1].node = Main /\ frames' # <<>>
    <3>1. 1 \in 1 .. N
      BY <1>3
    <3> QED BY <1>1, <1>8, <1>9, <3>1 DEF OnPath
  <2>2. ASSUME NEW k \in 2 .. N
        PROVE  /\ frames'[k].node \in Nodes /\ frames'[k].kind = Kind(frames'[k].node)
               /\ Handed(k)'
    <3>1. k \in 1 .. N /\ k - 1 \in 1 .. N /\ k - 1 # N
      BY <1>3
    <3>2. frames[k].node \in Nodes /\ frames[k].kind = Kind(frames[k].node) /\ Handed(k)
      BY <1>1, <1>3 DEF OnPath
    <3>3. Handed(k)'
      BY <1>9, <1>11, <3>1, <3>2 DEF Handed
    <3> QED BY <1>9, <3>1, <3>2, <3>3
  <2>3. \A i, k \in 1 .. N : i < k => frames'[i].node < frames'[k].node
    BY <1>1, <1>4, <1>9 DEF OnPath
  <2> QED BY <1>8, <1>11, <2>1, <2>2, <2>3 DEF OnPath
<1>13. ExprsSaved'
  <2>1. frames'[1].saved = Null
    <3>1. 1 \in 1 .. N
      BY <1>3
    <3> QED BY <1>1, <1>9, <3>1 DEF ExprsSaved
  <2>2. ASSUME NEW k \in 2 .. N
        PROVE  /\ frames'[k].saved = InForce(k - 1)' /\ InForce(k)' \in Exprs
               /\ frames'[k].kind \in LValueKinds =>
                    Binder(InForce(k))' = Binder(frames[k].node)'
    <3>1. k \in 1 .. N /\ k - 1 \in 1 .. N
      BY <1>3
    <3>2. /\ frames[k].saved = InForce(k - 1) /\ InForce(k) \in Exprs
          /\ frames[k].kind \in LValueKinds => Binder(InForce(k)) = Binder(frames[k].node)
      BY <1>1, <1>3 DEF ExprsSaved
    <3>3. InForce(k)' = InForce(k) /\ InForce(k - 1)' = InForce(k - 1)
      BY <1>10, <3>1
    <3>4. /\ Binder(InForce(k))' = Binder(InForce(k))
          /\ Binder(frames[k].node)' = Binder(frames[k].node)
      BY <1>9, <1>11, <3>1, <3>3 DEF Binder
    <3> QED BY <1>9, <3>1, <3>2, <3>3, <3>4
  <2> QED BY <1>8, <1>11, <2>1, <2>2 DEF ExprsSaved
<1>14. Counts(using, writing)'
  <2>1. \A k \in 2 .. N : k \in 1 .. N
    BY <1>3
  <2> QED BY <1>2, <1>3, <1>8, <1>10, <2>1 DEF Counts
<1>15. Suits(using)'
  <2>1. C.expr = InForce(N) /\ \A k \in 1 .. N :
          /\ MakesCompiler(k) => compilers[using[k] - 1].expr = InForce(k)
          /\ Scoped(k, compilers[using[k]])
          /\ IsInnermost(Inner(k), k, Scoping)
    BY <1>2, <1>3, <1>4 DEF Suits
  <2>2. ASSUME NEW k \in 1 .. N
        PROVE  /\ MakesCompiler(k)' => compilers'[using[k] - 1].expr = InForce(k)'
               /\ Scoped(k, compilers[using[k]])'
               /\ IsInnermost(Inner(k), k, Scoping)'
    <3>1. PICK c : c = compilers[using[k]]
      OBVIOUS
    <3>2. Scoped(k, c)'
      BY <1>10, <2>1, <3>1
    <3>3. Scoped(k, compilers[using[k]])'
      BY <3>1, <3>2 DEF Scoped
    <3>4. PICK b : b = Inner(k)
      OBVIOUS
    <3>5. IsInnermost(b, k, Scoping)'
      BY <1>10, <2>1, <3>4
    <3>6. IsInnermost(Inner(k), k, Scoping)'
      BY <1>10, <3>4, <3>5 DEF IsInnermost
    <3>7. MakesCompiler(k)' => compilers'[using[k] - 1].expr = InForce(k)'
      BY <1>10, <2>1
    <3> QED BY <3>3, <3>6, <3>7, Zenon
  <2>3. C'.expr = InForce(Len(frames))'
    <3>1. C' = C /\ N \in 1 .. N
      BY <1>3 DEF C
    <3>2. InForce(N)' = InForce(N)
      BY <1>10, <3>1
    <3> QED BY <1>8, <2>1, <3>1, <3>2 DEF InForce
  <2> QED BY <1>8, <2>2, <2>3 DEF Suits
<1> QED BY <1>1, <1>11, <1>12, <1>13, <1>14, <1>15, Zenon DEF AtWork

LEMMA StepEnterType ==
  ASSUME CompileInv, NEW n, EnterType(n)
  PROVE  CompileInv'
<1>1. /\ phase = "code" /\ phase' = "code" /\ UNCHANGED tables /\ UNCHANGED head
      /\ Reached(n) /\ Kind(n) = "TypeDeclaration" /\ UNCHANGED <<outs, compilers>>
      /\ frames' = [frames EXCEPT ![Len(frames)].next = @ + 1]
  BY DEF EnterType, Reached
<1>2. prog \in Programs /\ AtWork /\ TextsGood /\ n \in Nodes
  BY <1>1, CodeFacts, Here
<1>3. AtWork'
  BY <1>1, <1>2, PassedOver
<1>4. /\ outs \in Seq(Text) /\ \A i \in DOMAIN outs : GoodText(outs[i])
      /\ post_body \in Seq(Methods)
      /\ \A i \in DOMAIN post_body : GoodText(post_body[i].text)
      /\ \A i \in DOMAIN compilers : GoodText(compilers[i].lvalue)
  BY <1>2 DEF TextsGood
<1>5. /\ post_body' \in Seq(Methods)
      /\ \A i \in DOMAIN post_body' : GoodText(post_body'[i].text)
  <2>1. CASE prog[n].form = "record"
    <3>1. PICK m : m = [node |-> n, text |-> << >>]
      OBVIOUS
    <3>2. m \in Methods /\ GoodText(m.text)
      BY <1>2, <3>1, GoodOnes DEF Methods, Text
    <3>3. post_body' = Append(post_body, m)
      BY <2>1, <3>1 DEF EnterType
    <3>4. /\ post_body' \in Seq(Methods) /\ DOMAIN post_body' = 1 .. Len(post_body) + 1
          /\ Len(post_body) \in Nat /\ DOMAIN post_body = 1 .. Len(post_body)
          /\ \A k \in 1 .. Len(post_body) : post_body'[k] = post_body[k]
          /\ post_body'[Len(post_body) + 1] = m
      BY ONLY <1>4, <3>2, <3>3, WithOneMore
    <3> QED BY <1>4, <3>2, <3>4
  <2>2. CASE prog[n].form # "record"
    <3>1. post_body' = post_body
      BY <2>2 DEF EnterType
    <3> QED BY <1>4, <3>1
  <2> QED BY <2>1, <2>2
<1>6. TextsGood'
  <2>1. /\ outs' \in Seq(Text) /\ \A i \in DOMAIN outs' : GoodText(outs'[i])
        /\ \A i \in DOMAIN compilers' : GoodText(compilers'[i].lvalue)
    BY <1>1, <1>4
  <2> QED BY <1>1, <1>5, <2>1, TextsNext
<1> QED BY <1>1, <1>3, <1>6, StaysAtWork

\* What a handler that returns finds.
LEMMA ReturnFacts ==
  ASSUME CompileInv, NEW kinds, kinds \subseteq NodeKinds, Finished(kinds),
         NEW N, N = Len(frames), NEW L, L = Len(compilers)
  PROVE  /\ phase = "code" /\ Top.kind \in kinds /\ Top.kind # "main" /\ Top.node \in Nodes
         /\ Top.kind = Kind(Top.node) /\ Top.saved \in Nodes \cup {Null}
         /\ MakesCompiler(N) <=> /\ Top.kind \in Scoping
                                 /\ Top.kind = "Let" => HasBody(Top.node)
         /\ MakesStream(N) <=> Top.kind = "FunctionDeclaration"
         /\ IsLeftSide => Top.kind \in LValueKinds
         /\ Top.kind \notin ExprKinds => C.expr = Top.saved
         /\ MakesCompiler(N) \/ IsLeftSide => L > 1
         /\ MakesStream(N) \/ IsLeftSide => Len(outs) > 1
         /\ Top.kind = "FunctionDeclaration" \/ IsLeftSide =>
              compilers[L - 1].expr = Top.saved
<1>1. /\ phase = "code" /\ Top.kind \in kinds /\ ~ HasNext
  BY DEF Finished
<1>2. Top.kind # "main"
  BY <1>1 DEF NodeKinds, ExprKinds, LValueKinds, DeclarationKinds
<1>3. /\ prog \in Programs /\ AtWork /\ OnPath /\ ExprsSaved /\ C.expr = InForce(N)
      /\ L \in Nat \ {0} /\ Len(outs) \in Nat \ {0}
  BY <1>1, CodeFacts
<1>4. PICK using, writing : Counts(using, writing) /\ Suits(using)
  BY <1>3 DEF AtWork
<1>5. /\ N \in Nat /\ N > 1 /\ Top = frames[N] /\ Top \in Frames /\ DOMAIN frames = 1 .. N
      /\ Top.node \in Nodes /\ Top.kind = Kind(Top.node)
  BY <1>2, <1>3, StackFacts
<1>6. Top.saved \in Nodes \cup {Null} /\ Top.next \in Nat \ {0}
  BY <1>5 DEF Frames
<1>7. ~ OnLeftSideAt(N)
  <2>1. CASE Top.kind = "Assignment"
    <3>1. PartsOfTop = prog[Top.node].kids
      BY <1>2, <1>5, <2>1 DEF PartsOfTop, Parts
    <3>2. DOMAIN prog[Top.node].kids = 1 .. 2
      BY <1>3, <1>5, <2>1, KidSorts
    <3>3. Top.next # 1
      BY <1>1, <3>1, <3>2 DEF HasNext
    <3> QED BY <1>5, <3>3 DEF OnLeftSideAt
  <2> QED BY <1>5, <2>1 DEF OnLeftSideAt
<1>8. /\ MakesCompiler(N) <=> /\ Top.kind \in Scoping
                              /\ Top.kind = "Let" => HasBody(Top.node)
      /\ MakesStream(N) <=> Top.kind = "FunctionDeclaration"
  BY <1>5, <1>7 DEF MakesCompiler, MakesStream, OpensAt
<1>9. IsLeftSide => Top.kind \in LValueKinds
  BY <1>2, <1>3, <1>5, LeftSide
<1>10. Top.kind \notin ExprKinds => InForce(N) = Top.saved
  BY <1>5 DEF InForce
<1>11. /\ MakesCompiler(N) \/ IsLeftSide => L - 1 \in Nat \ {0}
       /\ MakesStream(N) \/ IsLeftSide => Len(outs) - 1 \in Nat \ {0}
  <2>1. PICK u : u = IF MakesCompiler(N) \/ IsLeftSide THEN Len(compilers) - 1
                     ELSE Len(compilers)
    OBVIOUS
  <2>2. PICK w : w = IF MakesStream(N) \/ IsLeftSide THEN Len(outs) - 1 ELSE Len(outs)
    OBVIOUS
  <2>3. u \in Nat \ {0} /\ w \in Nat \ {0}
    <3>1. PICK us, ws : Landing(N, us, ws, u, w)
      BY <1>2, <1>3, <1>4, <2>1, <2>2, LastLowered
    <3> QED BY ONLY <3>1 DEF Landing
  <2> QED BY <2>1, <2>2, <2>3
<1>12. using[N] = L /\ \A k \in 1 .. N : MakesCompiler(k) =>
         compilers[using[k] - 1].expr = InForce(k)
  BY <1>4, <1>5 DEF Counts, Suits
<1>13. N \in 1 .. N /\ N - 1 \in 1 .. N /\ N \in 2 .. N
  BY <1>5
<1>14. Top.kind = "FunctionDeclaration" => compilers[L - 1].expr = Top.saved
  <2> SUFFICES ASSUME Top.kind = "FunctionDeclaration"
               PROVE  compilers[L - 1].expr = Top.saved
    OBVIOUS
  <2>1. MakesCompiler(N) /\ Top.kind \notin ExprKinds
    BY <1>8 DEF Scoping, ExprKinds
  <2> QED BY <1>10, <1>12, <1>13, <2>1
<1>15. IsLeftSide => compilers[L - 1].expr = Top.saved
  <2> SUFFICES ASSUME IsLeftSide PROVE compilers[L - 1].expr = Top.saved
    OBVIOUS
  <2>1. OnLeftSideAt(N - 1) /\ ~ MakesCompiler(N)
    BY <1>2, <1>3, <1>5, LeftSide
  <2>2. MakesCompiler(N - 1)
    BY <2>1 DEF MakesCompiler
  <2>3. using[N] = using[N - 1]
    BY <1>4, <1>5, <1>13, <2>1 DEF Counts
  <2>4. Top.saved = InForce(N - 1)
    BY <1>3, <1>5, <1>13 DEF ExprsSaved
  <2> QED BY <1>12, <1>13, <2>2, <2>3, <2>4
<1>16. /\ MakesCompiler(N) \/ IsLeftSide => L > 1
       /\ MakesStream(N) \/ IsLeftSide => Len(outs) > 1
  <2>1. \A i \in Nat : i - 1 \in Nat \ {0} => i > 1
    OBVIOUS
  <2>2. L \in Nat /\ Len(outs) \in Nat
    BY <1>3
  <2> QED BY <1>11, <2>1, <2>2, Zenon
<1> QED BY <1>1, <1>2, <1>3, <1>5, <1>6, <1>8, <1>9, <1>10, <1>14, <1>15, <1>16, Zenon

\* A handler that returns keeps the invariant when the Compiler that is left,
\* new, has the scopes it had and the current_expr the handler saved.
LEMMA Returned ==
  ASSUME CompileInv, phase = "code", Top.kind # "main", Pop,
         NEW u \in Nat,
         u = IF MakesCompiler(Len(frames)) \/ IsLeftSide THEN Len(compilers) - 1
             ELSE Len(compilers),
         u \in DOMAIN compilers, NEW new \in Compilers, new.local = compilers[u].local,
         new.req = compilers[u].req, new.expr = Top.saved, GoodText(new.lvalue),
         compilers' \in Seq(Compilers), Len(compilers') = u,
         \A i \in 1 .. u : compilers'[i] = IF i = u THEN new ELSE compilers[i],
         outs' \in Seq(Text), \A i \in DOMAIN outs' : GoodText(outs'[i]),
         Len(outs') = IF MakesStream(Len(frames)) \/ IsLeftSide THEN Len(outs) - 1
                      ELSE Len(outs),
         post_body' \in Seq(Methods), \A i \in DOMAIN post_body' : GoodText(post_body'[i].text)
  PROVE  CompileInv'
<1>1. UNCHANGED tables /\ UNCHANGED head /\ phase' = "code"
  BY DEF Pop
<1>2. prog \in Programs /\ AtWork /\ TextsGood /\ DOMAIN compilers = 1 .. Len(compilers)
      /\ Len(compilers) \in Nat
  BY CodeFacts
<1>3. u >= 1 /\ \A i \in 1 .. u : i \in DOMAIN compilers
  <2>1. PICK L \in Nat : L = Len(compilers) /\ DOMAIN compilers = 1 .. L
    BY <1>2
  <2>2. u \in 1 .. L
    BY <2>1
  <2> QED BY ONLY <2>1, <2>2
<1>4. \A i \in 1 .. u :
        /\ compilers'[i].local = compilers[i].local /\ compilers'[i].req = compilers[i].req
        /\ i # u => compilers'[i].expr = compilers[i].expr
        /\ GoodText(compilers'[i].lvalue)
  BY <1>2, <1>3 DEF TextsGood
<1>5. compilers'[u].expr = Top.saved
  <2>1. u \in 1 .. u
    BY ONLY <1>3, u \in Nat
  <2> QED BY <2>1
<1>6. AtWork'
  <2>1. PICK w : w = Len(outs')
    OBVIOUS
  <2> QED BY <1>1, <1>2, <1>4, <1>5, <2>1, Popped
<1>7. DOMAIN compilers' = 1 .. u
  OBVIOUS
<1>8. TextsGood'
  BY <1>1, <1>4, <1>7, TextsNext
<1> QED BY <1>1, <1>6, <1>8, StaysAtWork

\* The same when the handler has no Compiler and no stream of its own.
LEMMA ReturnedInPlace ==
  ASSUME CompileInv, phase = "code", Top.kind # "main", Pop, ~ MakesCompiler(Len(frames)),
         ~ IsLeftSide, ~ MakesStream(Len(frames)), UNCHANGED post_body,
         outs' \in Seq(Text), \A i \in DOMAIN outs' : GoodText(outs'[i]),
         Len(outs') = Len(outs),
         NEW new \in Compilers, new.local = C.local, new.req = C.req,
         new.expr = Top.saved, GoodText(new.lvalue),
         compilers' = [compilers EXCEPT ![Len(compilers)] = new]
  PROVE  CompileInv'
<1>1. PICK u \in Nat \ {0} : u = Len(compilers)
  BY CodeFacts
<1>2. /\ compilers \in Seq(Compilers) /\ u \in DOMAIN compilers /\ C = compilers[u]
  BY <1>1, CodeFacts
<1>3. /\ compilers' \in Seq(Compilers) /\ Len(compilers') = u
      /\ \A i \in 1 .. u : compilers'[i] = IF i = u THEN new ELSE compilers[i]
  <2>1. compilers' = [compilers EXCEPT ![u] = new]
    BY <1>1
  <2>2. new \in Compilers
    OBVIOUS
  <2> QED BY ONLY <1>1, <1>2, <2>1, <2>2, Replaced
<1>4. /\ post_body' \in Seq(Methods)
      /\ \A i \in DOMAIN post_body' : GoodText(post_body'[i].text)
  BY CodeFacts DEF TextsGood
<1>5. u = IF MakesCompiler(Len(frames)) \/ IsLeftSide THEN Len(compilers) - 1
          ELSE Len(compilers)
  BY <1>1
<1>6. Len(outs') = IF MakesStream(Len(frames)) \/ IsLeftSide THEN Len(outs) - 1 ELSE Len(outs)
  OBVIOUS
<1> QED BY <1>1, <1>2, <1>3, <1>4, <1>5, <1>6, Returned

LEMMA RestoredFacts ==
  ASSUME CompileInv, phase = "code", Top.saved \in Nodes \cup {Null},
         NEW lvalue, GoodText(lvalue),
         NEW new, new = [C EXCEPT !.expr = Top.saved, !.lvalue = lvalue]
  PROVE  /\ new \in Compilers /\ new.local = C.local /\ new.req = C.req
         /\ new.expr = Top.saved /\ new.lvalue = lvalue /\ GoodText(new.lvalue)
<1>1. C \in Compilers /\ lvalue \in Text
  BY CodeFacts DEF GoodText, Text, Items
<1> QED BY <1>1 DEF Compilers

LEMMA StepLeaveAssignment ==
  ASSUME CompileInv, LeaveAssignment
  PROVE  CompileInv'
<1>1. Finished({"Assignment"}) /\ Pop /\ UNCHANGED <<outs, post_body>>
  BY DEF LeaveAssignment
<1>2. {"Assignment"} \subseteq NodeKinds
  BY DEF NodeKinds, ExprKinds
<1>3. PICK N : N = Len(frames)
  OBVIOUS
<1>4. /\ phase = "code" /\ Top.kind = "Assignment" /\ Top.kind # "main"
      /\ Top.saved \in Nodes \cup {Null} /\ ~ MakesCompiler(N) /\ ~ MakesStream(N)
      /\ ~ IsLeftSide
  BY <1>1, <1>2, <1>3, ReturnFacts DEF Scoping, LValueKinds
<1>5. /\ compilers \in Seq(Compilers) /\ Len(compilers) \in DOMAIN compilers
      /\ C = compilers[Len(compilers)] /\ C \in Compilers /\ TextsGood
  BY <1>4, CodeFacts
<1>6. PICK new : new = [C EXCEPT !.expr = Top.saved, !.lvalue = << >>]
  OBVIOUS
<1>7. /\ new \in Compilers /\ new.local = C.local /\ new.req = C.req
      /\ new.expr = Top.saved /\ GoodText(new.lvalue)
  BY <1>4, <1>6, GoodOnes, RestoredFacts
<1>8. compilers' = [compilers EXCEPT ![Len(compilers)] = new]
  BY <1>5, <1>6 DEF LeaveAssignment, Restored
<1>9. /\ outs' \in Seq(Text) /\ Len(outs') = Len(outs)
      /\ \A i \in DOMAIN outs' : GoodText(outs'[i])
  BY <1>1, <1>5 DEF TextsGood
<1> QED BY <1>1, <1>3, <1>4, <1>7, <1>8, <1>9, ReturnedInPlace

LEMMA StepLeaveVariable ==
  ASSUME CompileInv, LeaveVariable
  PROVE  CompileInv'
<1>1. Finished({"VariableDeclaration"}) /\ Pop /\ UNCHANGED <<outs, post_body>>
  BY DEF LeaveVariable
<1>2. {"VariableDeclaration"} \subseteq NodeKinds
  BY DEF NodeKinds, DeclarationKinds
<1>3. PICK N : N = Len(frames)
  OBVIOUS
<1>4. /\ phase = "code" /\ Top.kind = "VariableDeclaration" /\ Top.kind # "main"
      /\ Top.saved \in Nodes \cup {Null} /\ ~ MakesCompiler(N) /\ ~ MakesStream(N)
      /\ ~ IsLeftSide /\ C.expr = Top.saved
  BY <1>1, <1>2, <1>3, ReturnFacts DEF Scoping, LValueKinds, ExprKinds
<1>5. /\ compilers \in Seq(Compilers) /\ Len(compilers) \in DOMAIN compilers
      /\ C = compilers[Len(compilers)] /\ C \in Compilers /\ TextsGood
  BY <1>4, CodeFacts
<1>6. PICK new : new = [C EXCEPT !.expr = Top.saved, !.lvalue = << >>]
  OBVIOUS
<1>7. /\ new \in Compilers /\ new.local = C.local /\ new.req = C.req
      /\ new.expr = Top.saved /\ GoodText(new.lvalue)
  BY <1>4, <1>6, GoodOnes, RestoredFacts
<1>8. compilers' = [compilers EXCEPT ![Len(compilers)] = new]
  <2>1. new = [C EXCEPT !.lvalue = << >>]
    BY <1>4, <1>5, <1>6 DEF Compilers
  <2> QED BY <1>5, <2>1 DEF LeaveVariable
<1>9. /\ outs' \in Seq(Text) /\ Len(outs') = Len(outs)
      /\ \A i \in DOMAIN outs' : GoodText(outs'[i])
  BY <1>1, <1>5 DEF TextsGood
<1> QED BY <1>1, <1>3, <1>4, <1>7, <1>8, <1>9, ReturnedInPlace

LEMMA StepLeaveOther ==
  ASSUME CompileInv, LeaveOther
  PROVE  CompileInv'
<1>1. PICK kinds : kinds = NodeKinds \ ({"Let", "Assignment"} \cup DeclarationKinds)
  OBVIOUS
<1>2. /\ Finished(kinds) /\ kinds \subseteq NodeKinds /\ Pop /\ ~ IsLeftSide
      /\ UNCHANGED post_body /\ Write(Ending) /\ compilers' = Restored(compilers)
  BY <1>1 DEF LeaveOther
<1>3. PICK N : N = Len(frames)
  OBVIOUS
<1>4. /\ phase = "code" /\ Top.kind \in kinds /\ Top.kind # "main"
      /\ Top.saved \in Nodes \cup {Null}
      /\ MakesCompiler(N) => Top.kind \in Scoping
      /\ MakesStream(N) => Top.kind = "FunctionDeclaration"
  BY <1>2, <1>3, ReturnFacts
<1>5. ~ MakesCompiler(N) /\ ~ MakesStream(N)
  BY <1>1, <1>4 DEF Scoping, DeclarationKinds
<1>6. /\ compilers \in Seq(Compilers) /\ Len(compilers) \in DOMAIN compilers
      /\ C = compilers[Len(compilers)] /\ C \in Compilers /\ TextsGood /\ GoodText(C.lvalue)
      /\ outs # << >>
  BY <1>4, CodeFacts
<1>7. PICK new : new = [C EXCEPT !.expr = Top.saved]
  OBVIOUS
<1>8. /\ new \in Compilers /\ new.local = C.local /\ new.req = C.req
      /\ new.expr = Top.saved /\ GoodText(new.lvalue)
  BY <1>4, <1>6, <1>7 DEF Compilers
<1>9. compilers' = [compilers EXCEPT ![Len(compilers)] = new]
  BY <1>2, <1>6, <1>7 DEF Restored
<1>10. GoodText(Ending)
  BY <1>4, AroundParts
<1>11. /\ outs' \in Seq(Text) /\ Len(outs') = Len(outs)
       /\ \A i \in DOMAIN outs' : GoodText(outs'[i])
  BY <1>2, <1>6, <1>10, WriteGood DEF TextsGood, Write
<1> QED BY <1>2, <1>3, <1>4, <1>5, <1>8, <1>9, <1>11, ReturnedInPlace

LEMMA StepLeaveFunction ==
  ASSUME CompileInv, LeaveFunction
  PROVE  CompileInv'
<1>1. /\ Finished({"FunctionDeclaration"}) /\ Pop
      /\ post_body' = Append(post_body, [node |-> Top.node, text |-> outs[Len(outs)]])
      /\ outs' = Outer(outs) /\ compilers' = Outer(compilers)
  BY DEF LeaveFunction
<1>2. {"FunctionDeclaration"} \subseteq NodeKinds
  BY DEF NodeKinds, DeclarationKinds
<1>3. PICK N : N = Len(frames)
  OBVIOUS
<1>4. PICK L : L = Len(compilers)
  OBVIOUS
<1>5. /\ phase = "code" /\ Top.kind = "FunctionDeclaration" /\ Top.kind # "main"
      /\ MakesCompiler(N) /\ MakesStream(N)
      /\ ~ IsLeftSide /\ Top.node \in Nodes
      /\ L > 1 /\ Len(outs) > 1 /\ compilers[L - 1].expr = Top.saved
  <2>1. "FunctionDeclaration" \notin LValueKinds /\ "FunctionDeclaration" \in Scoping
        /\ "FunctionDeclaration" # "Let"
    BY DEF LValueKinds, Scoping
  <2>2. /\ phase = "code" /\ Top.kind \in {"FunctionDeclaration"} /\ Top.kind # "main"
        /\ Top.node \in Nodes
        /\ MakesCompiler(N) <=> /\ Top.kind \in Scoping
                                /\ Top.kind = "Let" => HasBody(Top.node)
        /\ MakesStream(N) <=> Top.kind = "FunctionDeclaration"
        /\ IsLeftSide => Top.kind \in LValueKinds
        /\ MakesCompiler(N) \/ IsLeftSide => L > 1
        /\ MakesStream(N) \/ IsLeftSide => Len(outs) > 1
        /\ Top.kind = "FunctionDeclaration" \/ IsLeftSide =>
             compilers[L - 1].expr = Top.saved
    BY <1>1, <1>2, <1>3, <1>4, ReturnFacts, Zenon
  <2>3. Top.kind = "FunctionDeclaration"
    BY <2>2
  <2> QED BY <2>1, <2>2, <2>3, Zenon
<1>6. /\ compilers \in Seq(Compilers) /\ compilers # << >> /\ outs # << >> /\ TextsGood
      /\ DOMAIN compilers = 1 .. L /\ L \in Nat \ {0} /\ Len(outs) \in DOMAIN outs
  BY <1>4, <1>5, CodeFacts
<1>7. /\ outs \in Seq(Text) /\ \A i \in DOMAIN outs : GoodText(outs[i])
      /\ post_body \in Seq(Methods)
      /\ \A i \in DOMAIN post_body : GoodText(post_body[i].text)
      /\ \A i \in DOMAIN compilers : GoodText(compilers[i].lvalue)
  BY <1>6 DEF TextsGood
<1>8. /\ compilers' \in Seq(Compilers) /\ Len(compilers') = L - 1
      /\ \A k \in 1 .. L - 1 : compilers'[k] = compilers[k] /\ k \in DOMAIN compilers
  BY ONLY <1>1, <1>4, <1>6, WithoutLast
<1>9. /\ outs' \in Seq(Text) /\ Len(outs') = Len(outs) - 1
      /\ DOMAIN outs' = 1 .. Len(outs) - 1
      /\ \A k \in 1 .. Len(outs) - 1 : outs'[k] = outs[k] /\ k \in DOMAIN outs
  BY ONLY <1>1, <1>6, <1>7, WithoutLast
<1>10. \A i \in DOMAIN outs' : GoodText(outs'[i])
  BY <1>7, <1>9
<1>11. /\ post_body' \in Seq(Methods)
       /\ \A i \in DOMAIN post_body' : GoodText(post_body'[i].text)
  <2>1. PICK m : m = [node |-> Top.node, text |-> outs[Len(outs)]]
    OBVIOUS
  <2>2. m \in Methods /\ GoodText(m.text)
    BY <1>5, <1>6, <1>7, <2>1 DEF Methods
  <2>3. /\ post_body' \in Seq(Methods) /\ DOMAIN post_body' = 1 .. Len(post_body) + 1
        /\ Len(post_body) \in Nat /\ DOMAIN post_body = 1 .. Len(post_body)
        /\ \A k \in 1 .. Len(post_body) : post_body'[k] = post_body[k]
        /\ post_body'[Len(post_body) + 1] = m
    BY ONLY <1>1, <1>7, <2>1, <2>2, WithOneMore
  <2> QED BY <1>7, <2>2, <2>3
<1>12. PICK u \in Nat \ {0} : u = L - 1
  BY <1>5, <1>6
<1>13. u \in DOMAIN compilers /\ u \in 1 .. u
  BY <1>6, <1>12
<1>14. PICK new : new = compilers[u]
  OBVIOUS
<1>15. /\ new \in Compilers /\ new.expr = Top.saved /\ GoodText(new.lvalue)
  BY <1>5, <1>6, <1>7, <1>12, <1>13, <1>14
<1>16. \A i \in 1 .. u : compilers'[i] = IF i = u THEN new ELSE compilers[i]
  BY <1>8, <1>12, <1>14
<1>17. u = IF MakesCompiler(Len(frames)) \/ IsLeftSide THEN Len(compilers) - 1
           ELSE Len(compilers)
  BY <1>3, <1>4, <1>5, <1>12
<1>18. Len(outs') = IF MakesStream(Len(frames)) \/ IsLeftSide THEN Len(outs) - 1
                    ELSE Len(outs)
  BY <1>3, <1>5, <1>9
<1>19. u \in Nat /\ Len(compilers') = u /\ new.local = compilers[u].local
       /\ new.req = compilers[u].req
  BY <1>8, <1>12, <1>14
<1> QED BY <1>1, <1>5, <1>8, <1>9, <1>10, <1>11, <1>13, <1>15, <1>16, <1>17, <1>18, <1>19,
           Returned

LEMMA StepLeaveLet ==
  ASSUME CompileInv, LeaveLet
  PROVE  CompileInv'
<1>1. /\ Finished({"Let"}) /\ Pop /\ Write(Ending) /\ UNCHANGED post_body
      /\ compilers' = Restored(IF HasBody(Top.node) THEN Outer(compilers) ELSE compilers)
  BY DEF LeaveLet
<1>2. {"Let"} \subseteq NodeKinds
  BY DEF NodeKinds, ExprKinds
<1>3. PICK N : N = Len(frames)
  OBVIOUS
<1>4. PICK L : L = Len(compilers)
  OBVIOUS
<1>5. /\ phase = "code" /\ Top.kind = "Let" /\ Top.kind # "main"
      /\ Top.saved \in Nodes \cup {Null}
      /\ MakesCompiler(N) <=> HasBody(Top.node)
      /\ ~ MakesStream(N) /\ ~ IsLeftSide
      /\ HasBody(Top.node) => L > 1
  <2>1. "Let" \notin LValueKinds /\ "Let" \in Scoping /\ "Let" # "FunctionDeclaration"
        /\ "Let" # "main"
    BY DEF LValueKinds, Scoping
  <2>2. /\ phase = "code" /\ Top.kind \in {"Let"} /\ Top.saved \in Nodes \cup {Null}
        /\ MakesCompiler(N) <=> /\ Top.kind \in Scoping
                                /\ Top.kind = "Let" => HasBody(Top.node)
        /\ MakesStream(N) <=> Top.kind = "FunctionDeclaration"
        /\ IsLeftSide => Top.kind \in LValueKinds
        /\ MakesCompiler(N) \/ IsLeftSide => L > 1
    BY <1>1, <1>2, <1>3, <1>4, ReturnFacts, Zenon
  <2>3. Top.kind = "Let"
    BY <2>2
  <2> QED BY <2>1, <2>2, <2>3, Zenon
<1>6. /\ compilers \in Seq(Compilers) /\ L \in Nat \ {0} /\ DOMAIN compilers = 1 .. L
      /\ C = compilers[L] /\ TextsGood /\ outs # << >>
  BY <1>4, <1>5, CodeFacts
<1>7. /\ outs' \in Seq(Text) /\ Len(outs') = Len(outs)
      /\ \A i \in DOMAIN outs' : GoodText(outs'[i])
  <2>1. GoodText(Ending)
    BY <1>5, AroundParts
  <2> QED BY <1>1, <1>6, <2>1, WriteGood DEF TextsGood, Write
<1>8. /\ post_body' \in Seq(Methods)
      /\ \A i \in DOMAIN post_body' : GoodText(post_body'[i].text)
  BY <1>1, <1>6 DEF TextsGood
<1>9. PICK u : u = IF HasBody(Top.node) THEN L - 1 ELSE L
  OBVIOUS
<1>10. u \in Nat \ {0} /\ u \in DOMAIN compilers
  BY <1>5, <1>6, <1>9
<1>11. PICK new : new = [compilers[u] EXCEPT !.expr = Top.saved]
  OBVIOUS
<1>12. /\ new \in Compilers /\ new.local = compilers[u].local
       /\ new.req = compilers[u].req /\ new.expr = Top.saved /\ GoodText(new.lvalue)
  <2>1. compilers[u] \in Compilers /\ GoodText(compilers[u].lvalue)
    BY <1>6, <1>10 DEF TextsGood
  <2>2. new \in Compilers
    <3>1. PICK c, saved : c = compilers[u] /\ saved = Top.saved
      OBVIOUS
    <3>2. c \in Compilers /\ saved \in Nodes \cup {Null}
      BY <1>5, <2>1, <3>1
    <3>3. new = [c EXCEPT !.expr = saved]
      BY <1>11, <3>1
    <3> QED BY ONLY <3>2, <3>3 DEF Compilers
  <2>3. /\ new.local = compilers[u].local /\ new.req = compilers[u].req
        /\ new.expr = Top.saved /\ new.lvalue = compilers[u].lvalue
    BY ONLY <1>11, <2>1 DEF Compilers
  <2> QED BY <2>1, <2>2, <2>3
<1>13. /\ compilers' \in Seq(Compilers) /\ Len(compilers') = u
       /\ \A i \in 1 .. u : compilers'[i] = IF i = u THEN new ELSE compilers[i]
  <2>1. CASE HasBody(Top.node)
    <3>1. u \in Nat \ {0} /\ Len(compilers) = u + 1
      BY <1>4, <1>6, <1>9, <1>10, <2>1
    <3>2. PICK r : r = Outer(compilers)
      OBVIOUS
    <3>3. compilers # << >> /\ compilers \in Seq(Compilers)
      BY <1>6, <1>10
    <3>4. /\ r \in Seq(Compilers) /\ Len(r) = Len(compilers) - 1
          /\ DOMAIN r = 1 .. Len(compilers) - 1
          /\ \A k \in 1 .. Len(compilers) - 1 : r[k] = compilers[k]
      BY ONLY <3>2, <3>3, WithoutLast
    <3>5. /\ r \in Seq(Compilers) /\ Len(r) = u /\ u \in DOMAIN r
          /\ \A k \in 1 .. u : r[k] = compilers[k]
      BY <3>1, <3>4
    <3>6. r[u] = compilers[u]
      BY <3>1, <3>5
    <3>7. compilers' = [r EXCEPT ![u] = new] /\ new \in Compilers
      BY <1>1, <1>11, <1>12, <2>1, <3>2, <3>5, <3>6 DEF Restored
    <3>8. /\ compilers' \in Seq(Compilers) /\ Len(compilers') = Len(r)
          /\ \A k \in 1 .. Len(r) : compilers'[k] = IF k = u THEN new ELSE r[k]
      BY ONLY <3>5, <3>7, Replaced
    <3> QED BY <3>5, <3>8
  <2>2. CASE ~ HasBody(Top.node)
    <3>1. u = Len(compilers) /\ u \in DOMAIN compilers /\ compilers \in Seq(Compilers)
      BY <1>4, <1>6, <1>9, <1>10, <2>2
    <3>2. compilers' = [compilers EXCEPT ![u] = new]
      BY <1>1, <1>11, <2>2, <3>1 DEF Restored
    <3>3. new \in Compilers
      BY <1>12
    <3>4. /\ compilers' \in Seq(Compilers) /\ Len(compilers') = Len(compilers)
          /\ \A k \in 1 .. Len(compilers) :
               compilers'[k] = IF k = u THEN new ELSE compilers[k]
      BY ONLY <3>1, <3>2, <3>3, Replaced
    <3> QED BY <3>1, <3>4
  <2> QED BY <2>1, <2>2
<1>14. u = IF MakesCompiler(Len(frames)) \/ IsLeftSide THEN Len(compilers) - 1
           ELSE Len(compilers)
  <2>1. CASE HasBody(Top.node)
    <3>1. MakesCompiler(Len(frames)) /\ u = Len(compilers) - 1
      BY <1>3, <1>4, <1>5, <1>9, <2>1
    <3> QED BY <3>1
  <2>2. CASE ~ HasBody(Top.node)
    <3>1. ~ MakesCompiler(Len(frames)) /\ ~ IsLeftSide /\ u = Len(compilers)
      BY <1>3, <1>4, <1>5, <1>9, <2>2
    <3> QED BY <3>1
  <2> QED BY <2>1, <2>2
<1>15. Len(outs') = IF MakesStream(Len(frames)) \/ IsLeftSide THEN Len(outs) - 1
                    ELSE Len(outs)
  BY <1>3, <1>5, <1>7
<1>16. u \in Nat
  BY <1>10
<1> QED BY <1>1, <1>5, <1>7, <1>8, <1>10, <1>12, <1>13, <1>14, <1>15, <1>16, Returned

LEMMA StepLeaveLeftSide ==
  ASSUME CompileInv, LeaveLeftSide
  PROVE  CompileInv'
<1>1. /\ Finished(LValueKinds) /\ IsLeftSide /\ Pop /\ UNCHANGED post_body
  BY DEF LeaveLeftSide
<1>2. LValueKinds \subseteq NodeKinds
  BY DEF NodeKinds
<1>3. PICK N : N = Len(frames)
  OBVIOUS
<1>4. PICK L : L = Len(compilers)
  OBVIOUS
<1>5. /\ phase = "code" /\ Top.kind # "main" /\ Top.saved \in Nodes \cup {Null}
      /\ L > 1 /\ Len(outs) > 1 /\ compilers[L - 1].expr = Top.saved
  BY <1>1, <1>2, <1>3, <1>4, ReturnFacts, Zenon
<1>6. /\ compilers \in Seq(Compilers) /\ L \in Nat \ {0} /\ DOMAIN compilers = 1 .. L
      /\ TextsGood /\ Len(outs) \in Nat \ {0} /\ DOMAIN outs = 1 .. Len(outs)
  BY <1>4, <1>5, CodeFacts
<1>7. /\ outs \in Seq(Text) /\ \A i \in DOMAIN outs : GoodText(outs[i])
      /\ post_body' \in Seq(Methods)
      /\ \A i \in DOMAIN post_body' : GoodText(post_body'[i].text)
      /\ \A i \in DOMAIN compilers : GoodText(compilers[i].lvalue)
  BY <1>1, <1>6 DEF TextsGood
<1>8. PICK u, w : u \in Nat \ {0} /\ w \in Nat \ {0} /\ u = L - 1 /\ w = Len(outs) - 1
  BY <1>5, <1>6
<1>9. /\ u \in DOMAIN compilers /\ w \in DOMAIN outs /\ Len(outs) \in DOMAIN outs
      /\ Len(compilers) = u + 1 /\ Len(outs) = w + 1
  BY <1>4, <1>6, <1>8
<1>10. PICK text : text = outs[Len(outs)]
  OBVIOUS
<1>11. text \in Text /\ GoodText(text) /\ outs[w] \in Text /\ GoodText(outs[w])
  BY <1>7, <1>9, <1>10
<1>12. PICK joined : joined = outs[w] \o text
  OBVIOUS
<1>13. GoodText(joined)
  BY <1>11, <1>12, GoodJoin
<1>14. joined \in Text
  BY <1>13 DEF GoodText, Text, Items
<1>15. /\ outs' \in Seq(Text) /\ Len(outs') = w /\ DOMAIN outs' = 1 .. w
       /\ \A k \in 1 .. w : outs'[k] = IF k = w THEN joined ELSE outs[k]
  <2>1. PICK r : r = Outer(outs)
    OBVIOUS
  <2>2. outs # << >> /\ outs \in Seq(Text)
    BY <1>6, <1>7, <1>9
  <2>3. /\ r \in Seq(Text) /\ Len(r) = Len(outs) - 1 /\ DOMAIN r = 1 .. Len(outs) - 1
        /\ \A k \in 1 .. Len(outs) - 1 : r[k] = outs[k]
    BY ONLY <2>1, <2>2, WithoutLast
  <2>4. /\ r \in Seq(Text) /\ Len(r) = w /\ w \in DOMAIN r
        /\ \A k \in 1 .. w : r[k] = outs[k]
    BY <1>8, <1>9, <2>3
  <2>5. r[w] = outs[w]
    BY <1>8, <2>4
  <2>6. outs' = [r EXCEPT ![w] = @ \o text]
    BY <1>8, <1>10, <2>1 DEF LeaveLeftSide
  <2>7. outs' = [r EXCEPT ![w] = joined] /\ joined \in Text
    BY <1>12, <1>14, <2>5, <2>6
  <2>8. /\ outs' \in Seq(Text) /\ Len(outs') = Len(r) /\ DOMAIN outs' = 1 .. Len(r)
        /\ \A k \in 1 .. Len(r) : outs'[k] = IF k = w THEN joined ELSE r[k]
    BY ONLY <2>4, <2>7, Replaced
  <2> QED BY <2>4, <2>8
<1>16. \A i \in DOMAIN outs' : GoodText(outs'[i])
  <2>1. \A k \in 1 .. w : k \in DOMAIN outs
    BY <1>8, <1>9, <1>6
  <2> QED BY <1>7, <1>13, <1>15, <2>1
<1>17. PICK new : new = [compilers[u] EXCEPT !.lvalue = text]
  OBVIOUS
<1>18. /\ new \in Compilers /\ new.local = compilers[u].local
       /\ new.req = compilers[u].req /\ new.expr = Top.saved /\ GoodText(new.lvalue)
  <2>1. compilers[u] \in Compilers /\ compilers[u].expr = Top.saved
    BY <1>5, <1>6, <1>8, <1>9
  <2> QED BY <1>11, <1>17, <2>1 DEF Compilers
<1>19. /\ compilers' \in Seq(Compilers) /\ Len(compilers') = u
       /\ \A i \in 1 .. u : compilers'[i] = IF i = u THEN new ELSE compilers[i]
  <2>1. PICK r : r = Outer(compilers)
    OBVIOUS
  <2>2. compilers # << >> /\ compilers \in Seq(Compilers)
    BY <1>6, <1>9
  <2>3. /\ r \in Seq(Compilers) /\ Len(r) = Len(compilers) - 1
        /\ DOMAIN r = 1 .. Len(compilers) - 1
        /\ \A k \in 1 .. Len(compilers) - 1 : r[k] = compilers[k]
    BY ONLY <2>1, <2>2, WithoutLast
  <2>4. /\ r \in Seq(Compilers) /\ Len(r) = u /\ u \in DOMAIN r
        /\ \A k \in 1 .. u : r[k] = compilers[k]
    BY <1>8, <1>9, <2>3
  <2>5. r[u] = compilers[u]
    BY <1>8, <2>4
  <2>6. compilers' = [r EXCEPT ![u].lvalue = text]
    BY <1>4, <1>8, <1>10, <2>1 DEF LeaveLeftSide
  <2>7. compilers' = [r EXCEPT ![u] = new] /\ new \in Compilers
    BY <1>17, <1>18, <2>5, <2>6
  <2>8. /\ compilers' \in Seq(Compilers) /\ Len(compilers') = Len(r)
        /\ \A k \in 1 .. Len(r) : compilers'[k] = IF k = u THEN new ELSE r[k]
    BY ONLY <2>4, <2>7, Replaced
  <2> QED BY <2>4, <2>8
<1>20. u = IF MakesCompiler(Len(frames)) \/ IsLeftSide THEN Len(compilers) - 1
           ELSE Len(compilers)
  BY <1>1, <1>4, <1>8
<1>21. Len(outs') = IF MakesStream(Len(frames)) \/ IsLeftSide THEN Len(outs) - 1
                    ELSE Len(outs)
  BY <1>1, <1>8, <1>15
<1>22. u \in Nat
  BY <1>8
<1> QED BY <1>1, <1>5, <1>7, <1>9, <1>15, <1>16, <1>18, <1>19, <1>20, <1>21, <1>22, Returned

LEMMA WorkKept ==
  ASSUME UNCHANGED tables, UNCHANGED <<outs, compilers, frames>>, AtWork
  PROVE  AtWork'
<1>1. /\ Frames' = Frames /\ Nodes' = Nodes /\ Exprs' = Exprs /\ prog' = prog
      /\ Compilers' = Compilers
      /\ \A m : /\ Kind(m)' = Kind(m) /\ Binder(m)' = Binder(m)
                /\ HasBody(m)' <=> HasBody(m)
                /\ ScopeOpenedBy(m)' = ScopeOpenedBy(m)
                /\ \A j : Kid(m, j)' = Kid(m, j)
  BY TablesStay
<1>2. \A k : \A kinds : OpensAt(k, kinds)' <=> OpensAt(k, kinds)
  BY <1>1 DEF OpensAt
<1>3. \A k : Inner(k)' = Inner(k) /\ InForce(k)' = InForce(k)
  BY <1>1, <1>2 DEF Inner, InForce
<1>4. \A k : \A b, kinds : IsInnermost(b, k, kinds)' <=> IsInnermost(b, k, kinds)
  BY <1>2 DEF IsInnermost
<1>5. \A k : Handed(k)' <=> Handed(k)
  BY <1>1 DEF Handed
<1>6. OnPath'
  BY <1>1, <1>5 DEF AtWork, OnPath
<1>7. ExprsSaved'
  BY <1>1, <1>3 DEF AtWork, ExprsSaved
<1>8. \A k : /\ MakesCompiler(k)' <=> MakesCompiler(k)
             /\ MakesStream(k)' <=> MakesStream(k)
  BY <1>2 DEF MakesCompiler, MakesStream, OnLeftSideAt
<1>9. \A k, c : Scoped(k, c)' <=> Scoped(k, c)
  BY <1>1, <1>3, <1>4 DEF Scoped
<1>10. ASSUME NEW using, NEW writing, Counts(using, writing), Suits(using)
       PROVE  Counts(using, writing)' /\ Suits(using)'
  <2>0. frames' = frames /\ compilers' = compilers /\ outs' = outs
    OBVIOUS
  <2>1. Counts(using, writing)'
    <3>2. /\ Rising(using)' <=> Rising(using)
          /\ Rising(writing)' <=> Rising(writing)
      BY DEF Rising
    <3>3. \A k \in 2 .. Len(frames) :
            /\ using[k] = IF MakesCompiler(k)' THEN using[k - 1] + 1 ELSE using[k - 1]
            /\ writing[k] = IF MakesStream(k)' THEN writing[k - 1] + 1 ELSE writing[k - 1]
      <4> SUFFICES ASSUME NEW k \in 2 .. Len(frames)
                   PROVE  /\ using[k] = IF MakesCompiler(k)' THEN using[k - 1] + 1
                                        ELSE using[k - 1]
                          /\ writing[k] = IF MakesStream(k)' THEN writing[k - 1] + 1
                                          ELSE writing[k - 1]
        OBVIOUS
      <4>1. /\ using[k] = IF MakesCompiler(k) THEN using[k - 1] + 1 ELSE using[k - 1]
            /\ writing[k] = IF MakesStream(k) THEN writing[k - 1] + 1 ELSE writing[k - 1]
        BY <1>10 DEF Counts
      <4>2. /\ MakesCompiler(k)' <=> MakesCompiler(k)
            /\ MakesStream(k)' <=> MakesStream(k)
        BY <1>8
      <4> QED BY <4>1, <4>2
    <3> QED BY <1>10, <2>0, <3>2, <3>3 DEF Counts
  <2>2. \A k : Scoped(k, compilers[using[k]])' <=> Scoped(k, compilers[using[k]])
    BY <1>1, <1>3, <1>4 DEF Scoped
  <2>3. \A k : IsInnermost(Inner(k), k, Scoping)' <=> IsInnermost(Inner(k), k, Scoping)
    BY <1>2, <1>3 DEF IsInnermost
  <2>4. C' = C
    BY DEF C
  <2>5. Suits(using)'
    <3>1. C'.expr = InForce(Len(frames))'
      BY <1>10, <2>0, <2>4 DEF Suits, InForce
    <3>2. ASSUME NEW k \in DOMAIN frames
          PROVE  /\ MakesCompiler(k)' => compilers'[using[k] - 1].expr = InForce(k)'
                 /\ Scoped(k, compilers[using[k]])'
                 /\ IsInnermost(Inner(k), k, Scoping)'
      <4>1. /\ MakesCompiler(k) => compilers[using[k] - 1].expr = InForce(k)
            /\ Scoped(k, compilers[using[k]])
            /\ IsInnermost(Inner(k), k, Scoping)
        BY <1>10 DEF Suits
      <4>2. /\ Scoped(k, compilers[using[k]])' /\ IsInnermost(Inner(k), k, Scoping)'
        BY <2>2, <2>3, <4>1
      <4>3. (MakesCompiler(k)' <=> MakesCompiler(k)) /\ InForce(k)' = InForce(k)
        BY <1>3, <1>8
      <4> QED BY <2>0, <4>1, <4>2, <4>3
    <3> QED BY <2>0, <3>1, <3>2 DEF Suits
  <2> QED BY <2>1, <2>5
<1> QED BY <1>1, <1>6, <1>7, <1>10 DEF AtWork

LEMMA StepEndMain == CompileInv /\ EndMain => CompileInv'
<1> SUFFICES ASSUME CompileInv, EndMain PROVE CompileInv'
  OBVIOUS
<1>1. /\ Finished({"main"}) /\ phase = "code" /\ phase' = "compiled" /\ UNCHANGED tables
      /\ UNCHANGED <<head, outs, post_body, compilers, frames>>
  BY DEF EndMain, Finished
<1>2. /\ prog \in Programs /\ OnPath /\ Top.kind = "main"
  BY <1>1, CodeFacts DEF Finished
<1>3. Len(frames) = 1
  BY <1>2, StackFacts
<1>4. /\ Table!LookupInv /\ St!Built /\ ClassesPrinted /\ Unprinted = {} /\ AtWork /\ TextsGood
  BY <1>1 DEF CompileInv
<1>5. Table!LookupInv'
  BY <1>1, <1>4, TableStays
<1>6. St!Built' /\ Unprinted' = {}
  BY <1>1, <1>4 DEF tables, St!Built, Unprinted, Nodes, Opener, Kind, ScopeOf
<1>7. ClassesPrinted' /\ TextsGood'
  <2>1. /\ Classes' = Classes /\ Openers' = Openers /\ \A n : Class(n)' = Class(n)
    BY <1>1, TablesStay
  <2>2. /\ outs \in Seq(Text) /\ \A i \in DOMAIN outs : GoodText(outs[i])
        /\ \A i \in DOMAIN compilers : GoodText(compilers[i].lvalue)
        /\ post_body \in Seq(Methods)
        /\ \A i \in DOMAIN post_body : GoodText(post_body[i].text)
    BY <1>4 DEF TextsGood
  <2> QED BY <1>1, <1>4, <2>1, <2>2, TextsNext DEF ClassesPrinted
<1>8. AtWork'
  BY <1>1, <1>4, WorkKept
<1> QED BY <1>1, <1>3, <1>5, <1>6, <1>7, <1>8 DEF CompileInv

LEMMA StepPrintClasses == CompileInv /\ PrintClasses => CompileInv'
<1> SUFFICES ASSUME CompileInv, PrintClasses PROVE CompileInv'
  OBVIOUS
<1>1. /\ phase = "table" /\ St!Built /\ phase' = "classes" /\ UNCHANGED tables
      /\ UNCHANGED <<head, outs, post_body, compilers, frames>>
  BY DEF PrintClasses
<1>2. /\ Table!LookupInv /\ head = << >> /\ frames = << >> /\ outs = << >>
      /\ compilers = << >> /\ post_body = << >>
  BY <1>1 DEF CompileInv
<1>3. Table!LookupInv'
  BY <1>1, <1>2, TableStays
<1>4. St!Built'
  BY <1>1 DEF tables, St!Built
<1>5. ClassesPrinted'
  BY <1>1, <1>2 DEF ClassesPrinted
<1> QED BY <1>1, <1>2, <1>3, <1>4, <1>5 DEF CompileInv

\* The class of a Let or a function, printed once the table is built.
LEMMA ClassFacts ==
  ASSUME Table!LookupInv, St!Built, NEW n \in Openers
  PROVE  /\ Class(n) \in Classes
         /\ Class(n).scope = ScopeOpenedBy(n) /\ Class(n).parent = ScopeOpenedBy(Binder(n))
         /\ Class(n).fields = Fields(n)
<1>1. /\ ScopeOf(n) = ScopeOpenedBy(n) /\ n \in Nodes /\ Kind(n) \in Scoping
  <2>1. n # 0
    BY DEF Openers, Nodes, NodesOf
  <2> QED BY <2>1 DEF ScopeOf, ScopeOpenedBy, Openers, Opener, Scoping
<1>2. /\ ScopeOpenedBy(n) \in DOMAIN scopes
      /\ scopes[ScopeOpenedBy(n)].parent = ScopeOpenedBy(Binder(n))
      /\ ScopeOpenedBy(Binder(n)) \in DOMAIN scopes
  BY BuiltScopes
<1>3. Fields(n) \in SUBSET Identifiers
  <2>1. /\ prog \in Programs /\ \A m \in Nodes : prog[m].id \in Identifiers
    BY ScopesTyped, NodeFacts
  <2>2. \A j \in DOMAIN prog[n].kids : Kid(n, j) \in Nodes
    BY <1>1, <2>1, KidFacts
  <2>3. \A j \in DOMAIN prog[n].params : prog[n].params[j] \in Nodes
    BY <1>1, <2>1, NodeFacts
  <2>4. CASE Kind(n) = "Let"
    BY <2>1, <2>2, <2>4 DEF Fields
  <2>5. CASE Kind(n) # "Let"
    BY <2>1, <2>3, <2>5 DEF Fields
  <2> QED BY <2>4, <2>5
<1> QED BY <1>1, <1>2, <1>3 DEF Class, Classes

LEMMA StepPrintClass ==
  ASSUME CompileInv, NEW n, PrintClass(n)
  PROVE  CompileInv'
<1>1. /\ phase = "classes" /\ phase' = "classes" /\ UNCHANGED tables /\ n \in Unprinted
      /\ head' = Append(head, Class(n))
      /\ UNCHANGED <<outs, post_body, compilers, frames>>
  BY DEF PrintClass, NextClass
<1>2. /\ Table!LookupInv /\ St!Built /\ ClassesPrinted /\ frames = << >> /\ outs = << >>
      /\ compilers = << >> /\ post_body = << >>
  BY <1>1 DEF CompileInv
<1>3. n \in Openers
  BY <1>1 DEF Unprinted, Openers
<1>4. Class(n) \in Classes
  BY <1>2, <1>3, ClassFacts
<1>5. /\ head' \in Seq(Classes)
      /\ \A i \in DOMAIN head' : \E m \in Openers : head'[i] = Class(m)
  <2>1. head \in Seq(Classes) /\ \A i \in DOMAIN head : \E m \in Openers : head[i] = Class(m)
    BY <1>2 DEF ClassesPrinted
  <2>2. PICK c : c = Class(n)
    OBVIOUS
  <2>3. head' = Append(head, c) /\ c \in Classes
    BY <1>1, <1>4, <2>2
  <2>4. /\ head' \in Seq(Classes) /\ DOMAIN head' = 1 .. Len(head) + 1
        /\ Len(head) \in Nat /\ DOMAIN head = 1 .. Len(head)
        /\ \A k \in 1 .. Len(head) : head'[k] = head[k]
        /\ head'[Len(head) + 1] = c
    BY ONLY <2>1, <2>3, WithOneMore
  <2> QED BY <1>3, <2>1, <2>2, <2>4
<1>6. ClassesPrinted'
  <2>1. /\ Classes' = Classes /\ Openers' = Openers /\ \A m : Class(m)' = Class(m)
    BY <1>1, TablesStay
  <2> QED BY <1>5, <2>1 DEF ClassesPrinted
<1>7. Table!LookupInv' /\ St!Built'
  <2>1. Table!LookupInv'
    BY <1>1, <1>2, TableStays
  <2> QED BY <1>1, <1>2, <2>1 DEF tables, St!Built
<1> QED BY <1>1, <1>2, <1>6, <1>7 DEF CompileInv

\* main begins with the object of the first scope, and nothing else.
LEMMA StepStartCode == CompileInv /\ StartCode => CompileInv'
<1> SUFFICES ASSUME CompileInv, StartCode PROVE CompileInv'
  OBVIOUS
<1>1. /\ phase = "classes" /\ Unprinted = {} /\ phase' = "code" /\ UNCHANGED tables
      /\ outs' = <<<<Object(Main, 1)>>>> /\ compilers' = <<Compiler(1, NoScope, Null)>>
      /\ frames' = <<Frame(Main, "main", FALSE, Null)>>
      /\ UNCHANGED head /\ UNCHANGED post_body
  BY DEF StartCode
<1>2. /\ Table!LookupInv /\ St!Built /\ ClassesPrinted /\ post_body = << >>
  BY <1>1 DEF CompileInv
<1>3. /\ prog \in Programs /\ 1 \in DOMAIN scopes /\ 1 \in ScopeNumbers
      /\ NoScope \in ScopeNumbers
  BY <1>2, ScopesTyped DEF ScopeNumbers, NoScope
<1>4. PICK f, c, text : /\ f = Frame(Main, "main", FALSE, Null)
                        /\ c = Compiler(1, NoScope, Null)
                        /\ text = <<Object(Main, 1)>>
  OBVIOUS
<1>5. /\ f \in Frames /\ f.node = Main /\ f.kind = "main" /\ f.next = 1 /\ f.saved = Null
  BY <1>4 DEF Frame, Frames, Main, Null
<1>6. /\ c \in Compilers /\ c.local = 1 /\ c.req = NoScope /\ c.expr = Null
      /\ GoodText(c.lvalue)
  <2>1. Null \in Nodes \cup {Null}
    OBVIOUS
  <2> QED BY <1>3, <1>4, <2>1, NewCompiler
<1>7. GoodText(text) /\ text \in Text
  <2>1. Main \in Nodes \cup {Main}
    OBVIOUS
  <2>2. Item("object", Main, 1, 0) \in Items /\ GoodItem(Item("object", Main, 1, 0))
    BY <1>2, <1>3, <2>1, GoodPlain
  <2>3. GoodText(text)
    BY <1>4, <2>2, GoodOnes DEF Object
  <2> QED BY <2>3 DEF GoodText, Text, Items
<1>8. /\ frames' = <<f>> /\ compilers' = <<c>> /\ outs' = <<text>>
  BY <1>1, <1>4
<1>9. /\ frames' \in Seq(Frames) /\ Len(frames') = 1 /\ DOMAIN frames' = {1} /\ frames'[1] = f
      /\ frames' # << >>
      /\ compilers' \in Seq(Compilers) /\ Len(compilers') = 1 /\ DOMAIN compilers' = {1}
      /\ compilers'[1] = c
      /\ outs' \in Seq(Text) /\ Len(outs') = 1 /\ DOMAIN outs' = {1} /\ outs'[1] = text
  BY <1>5, <1>6, <1>7, <1>8
<1>10. /\ Frames' = Frames /\ Compilers' = Compilers /\ Nodes' = Nodes
       /\ Classes' = Classes /\ Openers' = Openers /\ \A m : Class(m)' = Class(m)
       /\ \A m : ScopeOpenedBy(m)' = ScopeOpenedBy(m)
  BY <1>1, TablesStay
<1>11. Len(frames)' = 1
  BY <1>9
<1>12. OnPath'
  BY <1>5, <1>9, <1>10, <1>11 DEF OnPath
<1>13. ExprsSaved'
  BY <1>5, <1>9, <1>11 DEF ExprsSaved
<1>14. /\ ~ MakesCompiler(1)' /\ ~ MakesStream(1)' /\ InForce(1)' = Null /\ Inner(1)' = 0
       /\ \A kinds : "main" \notin kinds => ~ OpensAt(1, kinds)'
  BY <1>5, <1>9 DEF MakesCompiler, MakesStream, InForce, Inner, OpensAt, OnLeftSideAt,
                    Scoping, ExprKinds, LValueKinds
<1>15. /\ IsInnermost(0, 1, {"FunctionDeclaration"})' /\ IsInnermost(0, 1, Scoping)'
  BY <1>14 DEF IsInnermost, Scoping
<1>16. PICK one : one = <<1>>
  OBVIOUS
<1>17. one \in Seq(Nat) /\ Len(one) = 1 /\ one[1] = 1 /\ DOMAIN one = {1}
  BY <1>16
<1>18. Counts(one, one)'
  BY <1>9, <1>11, <1>17 DEF Counts, Rising
<1>19. Scoped(1, c)'
  <2>1. ScopeOpenedBy(Inner(1))' = 1
    BY <1>14 DEF ScopeOpenedBy
  <2>2. 0 \in {0} \cup Nodes'
    OBVIOUS
  <2> QED BY <1>6, <1>15, <2>1, <2>2 DEF Scoped
<1>20. Suits(one)'
  <2>1. C' = c
    BY <1>9 DEF C
  <2>2. C'.expr = InForce(Len(frames))'
    BY <1>6, <1>9, <1>11, <1>14, <2>1 DEF InForce
  <2>3. Scoped(1, compilers[one[1]])'
    <3>1. compilers'[one[1]] = c
      BY <1>9, <1>17
    <3> QED BY <1>19, <3>1 DEF Scoped
  <2>4. IsInnermost(Inner(1), 1, Scoping)'
    BY <1>14, <1>15 DEF IsInnermost
  <2> QED BY <1>9, <1>14, <2>2, <2>3, <2>4 DEF Suits
<1>21. AtWork'
  BY <1>9, <1>10, <1>12, <1>13, <1>18, <1>20, Zenon DEF AtWork
<1>22. TextsGood'
  <2>1. /\ post_body' \in Seq(Methods)
        /\ \A i \in DOMAIN post_body' : GoodText(post_body'[i].text)
    BY <1>1, <1>2
  <2> QED BY <1>1, <1>6, <1>7, <1>9, <2>1, TextsNext
<1>23. Table!LookupInv'
  BY <1>1, <1>2, TableStays
<1>24. St!Built' /\ Unprinted' = {}
  BY <1>1, <1>2 DEF tables, St!Built, Unprinted, Nodes, Opener, Kind, ScopeOf
<1>25. ClassesPrinted'
  BY <1>1, <1>2, <1>10 DEF ClassesPrinted
<1> QED BY <1>1, <1>21, <1>22, <1>23, <1>24, <1>25 DEF CompileInv

LEMMA StepBuild == CompileInv /\ Build => CompileInv'
<1> SUFFICES ASSUME CompileInv, Build PROVE CompileInv'
  OBVIOUS
<1>1. /\ St!BuildStep /\ UNCHANGED <<head, outs, post_body, compilers, frames, phase>>
  BY DEF Build
<1>2. Table!LookupInv /\ Table!LookupInv'
  BY <1>1, TableStep DEF CompileInv
<1>3. phase = "table"
  BY <1>1, <1>2, BuildEnds DEF CompileInv
<1> QED BY <1>1, <1>2, <1>3 DEF CompileInv

LEMMA InitInv == Init => CompileInv
BY TableInit DEF Init, CompileInv

LEMMA StayInv == CompileInv /\ UNCHANGED vars => CompileInv'
<1> SUFFICES ASSUME CompileInv, UNCHANGED vars PROVE CompileInv'
  OBVIOUS
<1>1. /\ UNCHANGED tables /\ UNCHANGED <<head, outs, post_body, compilers, frames, phase>>
  BY DEF vars
<1>2. Table!LookupInv /\ Table!LookupInv'
  BY <1>1, TableStays DEF CompileInv
<1>3. St!Built' <=> St!Built
  BY <1>1 DEF tables, St!Built
<1>4. ClassesPrinted => ClassesPrinted'
  BY <1>1, TablesStay DEF ClassesPrinted
<1>5. Unprinted' = Unprinted
  BY <1>1 DEF tables, Unprinted, Nodes, Opener, Kind, ScopeOf
<1>6. AtWork => AtWork'
  BY <1>1, WorkKept
<1>7. TextsGood => TextsGood'
  BY <1>1, TextsNext DEF TextsGood
<1> QED BY <1>1, <1>2, <1>3, <1>4, <1>5, <1>6, <1>7 DEF CompileInv

LEMMA StepCompile == CompileInv /\ [Next]_vars => CompileInv'
<1> SUFFICES ASSUME CompileInv, [Next]_vars PROVE CompileInv'
  OBVIOUS
<1>1. CASE Build
  BY <1>1, StepBuild
<1>2. CASE PrintClasses
  BY <1>2, StepPrintClasses
<1>3. CASE StartCode
  BY <1>3, StepStartCode
<1>4. CASE EndMain
  BY <1>4, StepEndMain
<1>5. CASE Leave
  BY <1>5, StepLeaveLeftSide, StepLeaveAssignment, StepLeaveVariable, StepLeaveFunction,
     StepLeaveLet, StepLeaveOther DEF Leave
<1>6. ASSUME NEW n \in Nodes, PrintClass(n) \/ Enter(n) PROVE CompileInv'
  BY <1>6, StepPrintClass, StepEnterOther, StepEnterLet, StepEnterFunction,
     StepEnterVariable, StepEnterType, StepEnterAssignment DEF Enter
<1>7. CASE UNCHANGED vars
  BY <1>7, StayInv
<1> QED BY <1>1, <1>2, <1>3, <1>4, <1>5, <1>6, <1>7 DEF Next, CompileStep, Stop

LEMMA AlwaysCompileInv == Spec => []CompileInv
BY InitInv, StepCompile, PTL DEF Spec

-----------------------------------------------------------------------------
(* The theorems.                                                           *)

\* Streams hold items, the call stack nodes, Compilers and classes the numbers
\* of scopes, while java::Compile works on any tree.
LEMMA InvTypes == CompileInv => TypeOK
<1> SUFFICES ASSUME CompileInv PROVE TypeOK
  OBVIOUS
<1>1. /\ phase \in {"table", "classes", "code", "compiled"}
      /\ head \in Seq(Classes)
  <2>1. << >> \in Seq(Classes)
    OBVIOUS
  <2> QED BY <2>1 DEF CompileInv, ClassesPrinted
<1>2. CASE phase \in {"table", "classes"}
  <2>1. frames = << >> /\ outs = << >> /\ compilers = << >> /\ post_body = << >>
    BY <1>2 DEF CompileInv
  <2> QED BY <1>1, <2>1 DEF TypeOK, Classes
<1>3. CASE phase \notin {"table", "classes"}
  <2>1. AtWork /\ TextsGood
    BY <1>3 DEF CompileInv
  <2>2. frames \in Seq(Frames) /\ compilers \in Seq(Compilers)
    BY <2>1 DEF AtWork, OnPath
  <2>3. outs \in Seq(Text) /\ post_body \in Seq(Methods)
    BY <2>1 DEF TextsGood
  <2> QED BY <1>1, <2>2, <2>3 DEF TypeOK, Classes, Frames, Compilers, Methods
<1> QED BY <1>2, <1>3

THEOREM CompilerTypes == Spec => []TypeOK
BY AlwaysCompileInv, InvTypes, PTL

\* The innermost of the frames that open a scope is the greatest of their
\* nodes.
LEMMA InnermostFound ==
  ASSUME prog \in Programs, OnPath, NEW b \in Nat,
         NEW kinds \in {{"FunctionDeclaration"}, {"FunctionDeclaration", "Let"}},
         IsInnermost(b, Len(frames), kinds)
  PROVE  InnermostOf(Opened(kinds)) = b
<1>1. PICK N \in Nat \ {0} : N = Len(frames)
  <2>1. Len(frames) \in Nat /\ Len(frames) >= 1
    BY StackFacts
  <2> QED BY <2>1
<1>2. /\ DOMAIN frames = 1 .. N /\ frames[1].kind = "main" /\ frames[1].node = Main
      /\ \A k \in 2 .. N : frames[k].node \in Nodes /\ frames[k].kind = Kind(frames[k].node)
  BY <1>1, StackFacts DEF OnPath
<1>3. "main" \notin kinds
  OBVIOUS
<1>4. /\ Nodes \subseteq Nat /\ Main \notin Nodes
  BY DEF Nodes, NodesOf, Main, Null
<1>5. ASSUME NEW n
      PROVE  n \in Opened(kinds) <=>
               n = 0 \/ \E k \in 1 .. N : OpensAt(k, kinds) /\ frames[k].node = n
  <2>1. ASSUME NEW k \in 1 .. N, OpensAt(k, kinds), frames[k].node = n
        PROVE  n \in Opened(kinds)
    <3>1. k \in 2 .. N
      BY <1>2, <1>3, <2>1 DEF OpensAt
    <3>2. n \in Nodes /\ Kind(n) = frames[k].kind
      BY <1>2, <2>1, <3>1
    <3> QED BY <1>2, <1>4, <2>1, <3>2 DEF OpensAt, Opened
  <2>2. ASSUME n \in Opened(kinds), n # 0
        PROVE  \E k \in 1 .. N : OpensAt(k, kinds) /\ frames[k].node = n
    <3>1. PICK k \in 1 .. N : frames[k].node = n
      BY <1>2, <2>2 DEF Opened
    <3>2. n # Main /\ Kind(n) \in kinds /\ (Kind(n) = "Let" => HasBody(n))
      BY <2>2 DEF Opened
    <3>3. k \in 2 .. N
      BY <1>2, <3>1, <3>2
    <3> QED BY <1>2, <3>1, <3>2, <3>3 DEF OpensAt
  <2> QED BY <2>1, <2>2 DEF Opened
<1>6. b \in Opened(kinds)
  BY <1>1, <1>5 DEF IsInnermost
<1>7. \A n \in Opened(kinds) : n \in Nat /\ n <= b
  <2> SUFFICES ASSUME NEW n \in Opened(kinds) PROVE n \in Nat /\ n <= b
    OBVIOUS
  <2>1. CASE n = 0
    BY <2>1
  <2>2. CASE n # 0
    <3>1. PICK k \in 1 .. N : OpensAt(k, kinds) /\ frames[k].node = n
      BY <1>5, <2>2
    <3>2. n <= b
      BY <1>1, <3>1 DEF IsInnermost
    <3>3. k \in 2 .. N
      BY <1>2, <1>3, <3>1 DEF OpensAt
    <3> QED BY <1>2, <1>4, <3>1, <3>2, <3>3
  <2> QED BY <2>1, <2>2
<1>8. PICK S : S = Opened(kinds)
  OBVIOUS
<1>9. PICK a : a = CHOOSE n \in S : \A m \in S : m <= n
  OBVIOUS
<1>10. a \in S /\ \A m \in S : m <= a
  <2>1. b \in S /\ \A m \in S : m <= b
    BY <1>6, <1>7, <1>8
  <2> QED BY <1>9, <2>1, Zenon
<1>11. a \in Nat /\ a <= b /\ b <= a
  BY <1>6, <1>7, <1>8, <1>10
<1>12. a = b
  BY <1>11
<1> QED BY <1>8, <1>9, <1>12 DEF InnermostOf

LEMMA InvFollows == CompileInv => CompilersFollowScopes
<1> SUFFICES ASSUME CompileInv, phase = "code" PROVE CompilersFollowScopes
  BY DEF CompilersFollowScopes
<1>1. /\ prog \in Programs /\ OnPath /\ AtWork /\ Len(frames) \in Nat \ {0}
      /\ Scoped(Len(frames), C)
  BY CodeFacts
<1>2. PICK b : b = Inner(Len(frames))
  OBVIOUS
<1>3. IsInnermost(b, Len(frames), {"FunctionDeclaration", "Let"})
  <2>1. PICK using, writing : Suits(using) /\ Counts(using, writing)
    BY <1>1 DEF AtWork
  <2>2. Len(frames) \in DOMAIN frames
    BY <1>1, StackFacts
  <2>3. IsInnermost(b, Len(frames), Scoping)
    BY <1>2, <2>1, <2>2 DEF Suits
  <2>4. Scoping = {"FunctionDeclaration", "Let"}
    BY DEF Scoping
  <2> QED BY <2>3, <2>4
<1>4. PICK f \in {0} \cup Nodes :
        /\ IsInnermost(f, Len(frames), {"FunctionDeclaration"})
        /\ C.req = IF f = 0 THEN NoScope ELSE ScopeOpenedBy(Binder(f))
  BY <1>1 DEF Scoped
<1>5. C.local = ScopeOpenedBy(b)
  BY <1>1, <1>2 DEF Scoped
<1>6. f \in Nat
  BY DEF Nodes, NodesOf
<1>7. b \in Nat
  <2>1. \A k \in DOMAIN frames : frames[k].node \in Nat
    BY <1>1, StackFacts DEF Frames, Nodes, NodesOf, Main, Null
  <2>2. b = 0 \/ \E i \in 1 .. Len(frames) : frames[i].node = b
    BY <1>3 DEF IsInnermost
  <2> QED BY <1>1, <2>1, <2>2, StackFacts
<1>8. /\ InnermostOf(Opened({"FunctionDeclaration"})) = f
      /\ InnermostOf(Opened({"FunctionDeclaration", "Let"})) = b
  BY <1>1, <1>3, <1>4, <1>6, <1>7, InnermostFound
<1> QED BY <1>4, <1>5, <1>8 DEF CompilersFollowScopes, ReqScope, LocalScope

\* Whatever Lets, functions and assignments are open, the Compiler in use has
\* the local_scope of the innermost Let or function, and the req_scope of the
\* scope around the innermost function (java_source.cc's Compiler makes another
\* Compiler for each, and goes back to its own when the other is done).
THEOREM CompilersFollow == Spec => []CompilersFollowScopes
BY AlwaysCompileInv, InvFollows, PTL

\* Every finished text holds good items.
LEMMA FinishedGood ==
  ASSUME CompileInv, Compiled
  PROVE  /\ Table!LookupInv /\ St!Built /\ ClassesPrinted /\ Unprinted = {}
         /\ \A t \in Texts : t \in Seq(Items) /\ \A i \in DOMAIN t : GoodItem(t[i])
<1>1. /\ Table!LookupInv /\ St!Built /\ ClassesPrinted /\ Unprinted = {} /\ AtWork
      /\ TextsGood
  BY DEF CompileInv, Compiled
<1>2. 1 \in DOMAIN outs
  <2>1. PICK using, writing : Counts(using, writing)
    BY <1>1 DEF AtWork
  <2>2. prog \in Programs /\ OnPath /\ outs \in Seq(Text)
    BY <1>1, ScopesTyped DEF AtWork, TextsGood
  <2>3. Len(outs) \in Nat /\ Len(outs) >= 1
    BY <2>1, <2>2, CountsFacts
  <2> QED BY <2>2, <2>3
<1>3. \A t \in Texts : GoodText(t)
  BY <1>1, <1>2 DEF Texts, TextsGood
<1> QED BY <1>1, <1>3 DEF GoodText

\* The scopes have the classes they should have, and no others.
LEMMA OneClass ==
  ASSUME CompileInv, Compiled, NEW b \in Openers
  PROVE  {head[i] : i \in {j \in DOMAIN head : head[j].scope = ScopeOpenedBy(b)}} = {Class(b)}
<1>1. /\ Table!LookupInv /\ St!Built /\ ClassesPrinted /\ Unprinted = {}
  BY FinishedGood
<1>2. Class(b).scope = ScopeOpenedBy(b) /\ b \in Nodes /\ Opener(b) /\ ScopeOf(b) = ScopeOpenedBy(b)
  <2>1. b \in Nodes /\ Opener(b) /\ b # 0
    BY DEF Openers, Nodes, NodesOf
  <2> QED BY <1>1, <2>1, ClassFacts DEF ScopeOf, ScopeOpenedBy, Opener
<1>3. PICK i \in DOMAIN head : head[i].scope = ScopeOpenedBy(b)
  BY <1>1, <1>2 DEF Unprinted
<1>4. ASSUME NEW j \in DOMAIN head, head[j].scope = ScopeOpenedBy(b)
      PROVE  head[j] = Class(b)
  <2>1. PICK m \in Openers : head[j] = Class(m)
    BY <1>1 DEF ClassesPrinted
  <2>2. ScopeOpenedBy(m) = ScopeOpenedBy(b)
    BY <1>1, <1>4, <2>1, ClassFacts
  <2>3. m = b
    BY <1>1, <2>2, BuiltScopes
  <2> QED BY <2>1, <2>3
<1> QED BY <1>3, <1>4

LEMMA InvSuits == CompileInv => ClassesSuitCode
<1> SUFFICES ASSUME CompileInv, Compiled PROVE ClassesSuitCode
  BY DEF ClassesSuitCode
<1> DEFINE classes(s) == {head[i] : i \in {j \in DOMAIN head : head[j].scope = s}}
<1>1. Table!LookupInv /\ St!Built
  BY FinishedGood
<1>2. ASSUME NEW t \in Texts, NEW i \in DOMAIN t, t[i].item = "field"
      PROVE  /\ Cardinality(classes(Reach(t[i]))) = 1
             /\ \A c \in classes(Reach(t[i])) : prog[t[i].node].id \in c.fields
  <2>1. PICK b \in Openers : /\ Reach(t[i]) = ScopeOpenedBy(b)
                             /\ prog[t[i].node].id \in Fields(b)
    BY <1>2, FinishedGood DEF GoodItem
  <2>2. classes(Reach(t[i])) = {Class(b)}
    BY <2>1, OneClass
  <2>3. Class(b).fields = Fields(b)
    BY <1>1, ClassFacts
  <2> QED BY <2>1, <2>2, <2>3, FS_Singleton
<1>3. ASSUME NEW t \in Texts, NEW i \in DOMAIN t, t[i].item = "link"
      PROVE  {c.parent : c \in classes(t[i].scope)} = {t[i].arg}
  <2>1. PICK b \in Openers : /\ t[i].scope = ScopeOpenedBy(b)
                             /\ t[i].arg = ScopeOpenedBy(Binder(b))
    BY <1>3, FinishedGood DEF GoodItem
  <2>2. classes(t[i].scope) = {Class(b)}
    BY <2>1, OneClass
  <2>3. Class(b).parent = t[i].arg
    BY <1>1, <2>1, ClassFacts
  <2> QED BY <2>2, <2>3
<1> QED BY <1>2, <1>3 DEF ClassesSuitCode

\* The class of the scope that a path leads to has the field that is named, no
\* other class is of that scope, and an object's field parent has the class of
\* the object it is linked to (ScopesPrinter and Compiler go through the tree
\* independently of each other).
THEOREM ClassesSuit == Spec => []ClassesSuitCode
BY AlwaysCompileInv, InvSuits, PTL

\* The half of PathsReach that is about scopes: the links that GetScopePath
\* prints lead from the object it begins with to the scope of the declaration
\* that is meant, and what is printed plainly is a loop's variable or not
\* declared.
PathsLead ==
  Compiled =>
    \A t \in Texts : \A i \in DOMAIN t :
      t[i].item \in {"field", "call", "local"} =>
        IF t[i].scope # NoScope THEN Reach(t[i]) = Home(t[i].node)
        ELSE Meant(t[i].node) = Null \/ Kind(Meant(t[i].node)) = "For"

LEMMA InvLeads == CompileInv => PathsLead
<1> SUFFICES ASSUME CompileInv, Compiled, NEW t \in Texts, NEW i \in DOMAIN t,
                    t[i].item \in {"field", "call", "local"}
             PROVE  IF t[i].scope # NoScope THEN Reach(t[i]) = Home(t[i].node)
                    ELSE Meant(t[i].node) = Null \/ Kind(Meant(t[i].node)) = "For"
  BY DEF PathsLead
<1>1. GoodItem(t[i])
  BY FinishedGood
<1> QED BY <1>1 DEF GoodItem

\* Every path that GetScopePath prints leads to the scope of the declaration
\* that is meant by the rule of the language.
THEOREM PathsLeadHome == Spec => []PathsLead
BY AlwaysCompileInv, InvLeads, PTL

-----------------------------------------------------------------------------
(* Methods, and the calls that meet them.                                  *)

\* The functions declared in a Let.
FunctionsIn(b) ==
  {f \in Nodes : /\ Kind(f) = "FunctionDeclaration"
                 /\ \E j \in DOMAIN prog[b].kids : f = Kid(b, j)}

\* A function waits to be printed while the Let it is declared in has still to
\* come to it.
Printed(f) == \E i \in DOMAIN post_body : post_body[i].node = f
Pending(f, k) ==
  /\ OpensAt(k, {"Let"})
  /\ \E j \in DOMAIN prog[frames[k].node].kids :
       j >= frames[k].next /\ f = Kid(frames[k].node, j)
Awaited(f) == Printed(f) \/ \E k \in DOMAIN frames : frames[k].node = f \/ Pending(f, k)

\* Of the Lets that are open, no function is forgotten.
LetsAwait ==
  \A k \in DOMAIN frames :
    OpensAt(k, {"Let"}) => \A f \in FunctionsIn(frames[k].node) : Awaited(f)

\* The functions a call's name may meet, and the calls that will meet them.
Overloads(n) == St!FunctionsOf(Binder(Meant(n)), prog[n].id)
Settled == {n \in Nodes : Meant(n) \in Openers /\ \A f \in Overloads(n) : Awaited(f)}
Answered(t) ==
  \A i \in DOMAIN t : (t[i].item = "call" /\ t[i].scope # NoScope) => t[i].node \in Settled
TextsAnswered ==
  /\ \A i \in DOMAIN outs : Answered(outs[i])
  /\ \A i \in DOMAIN compilers : Answered(compilers[i].lvalue)
  /\ \A i \in DOMAIN post_body : Answered(post_body[i].text)

\* A method's text begins with its first parameter, from when it is started.
MethodItem(f) == Item("param", f, scopes[FnScope(f)].parent, 0)
BeginsWith(t, f) == t # << >> /\ t[1] = MethodItem(f)
MethodsStarted ==
  \A using, writing :
    Counts(using, writing) =>
      \A k \in DOMAIN frames :
        frames[k].kind = "FunctionDeclaration" => BeginsWith(outs[writing[k]], frames[k].node)
MethodsBegin ==
  \A i \in DOMAIN post_body :
    Kind(post_body[i].node) = "FunctionDeclaration" =>
      BeginsWith(post_body[i].text, post_body[i].node)

CallsInv ==
  phase \in {"code", "compiled"} =>
    LetsAwait /\ TextsAnswered /\ MethodsStarted /\ MethodsBegin

\* What a step does to functions that are awaited, and to texts.
AwaitedStay ==
  \A f \in Nodes : Kind(f) = "FunctionDeclaration" /\ Awaited(f) => Awaited(f)'
HeadsKept(os) ==
  \A i \in DOMAIN outs \cap DOMAIN os : outs[i] # << >> => os[i] # << >> /\ os[i][1] = outs[i][1]
Continues(os) == HeadsKept(os) /\ \A i \in DOMAIN os : Answered(os[i])

LEMMA MethodsStay ==
  ASSUME UNCHANGED tables
  PROVE  /\ \A b : FunctionsIn(b)' = FunctionsIn(b)
         /\ \A n : Overloads(n)' = Overloads(n) /\ Meant(n)' = Meant(n)
         /\ \A t, f : BeginsWith(t, f)' <=> BeginsWith(t, f)
         /\ \A b, x : St!FunctionsOf(b, x)' = St!FunctionsOf(b, x)
<1>1. prog' = prog /\ scopes' = scopes /\ Nodes' = Nodes
  BY TablesStay
<1>2. \A b, x : St!FunctionsOf(b, x)' = St!FunctionsOf(b, x)
  BY <1>1 DEF St!FunctionsOf, St!Nodes, St!NodesOf, St!Kind, St!Binder
<1>3. \A b : FunctionsIn(b)' = FunctionsIn(b)
  BY <1>1, TablesStay DEF FunctionsIn
<1>4. \A n : Meant(n)' = Meant(n)
  BY MeantStays
<1>5. \A n : Overloads(n)' = Overloads(n)
  BY <1>1, <1>2, <1>4 DEF Overloads, Binder
<1>6. \A f : MethodItem(f)' = MethodItem(f)
  BY DEF tables, MethodItem, Item, FnScope, Kid
<1>7. \A t, f : BeginsWith(t, f)' <=> BeginsWith(t, f)
  BY <1>6 DEF BeginsWith
<1> QED BY <1>2, <1>3, <1>4, <1>5, <1>7

LEMMA AwaitedPushed ==
  ASSUME CompileInv, phase = "code", UNCHANGED tables, NEW n, Reached(n),
         NEW inline \in BOOLEAN, Push(n, inline), NEW f, Awaited(f)
  PROVE  Awaited(f)'
<1>1. prog \in Programs /\ OnPath /\ C.expr \in Nodes \cup {Null}
  BY CodeFacts, Here
<1>2. PICK N \in Nat \ {0} : N = Len(frames) /\ DOMAIN frames = 1 .. N /\ Top = frames[N]
  BY <1>1, StackFacts
<1>3. /\ DOMAIN frames' = 1 .. N + 1 /\ frames'[N + 1].node = n
      /\ \A k \in 1 .. N :
           /\ frames'[k].node = frames[k].node /\ frames'[k].kind = frames[k].kind
           /\ frames'[k].saved = frames[k].saved
           /\ frames'[k].next = IF k = N THEN Top.next + 1 ELSE frames[k].next
           /\ frames[k].next \in Nat \ {0}
  <2>1. Len(frames') = N + 1 /\ frames' \in Seq(Frames)
    BY <1>1, <1>2, PushFrames
  <2>2. DOMAIN frames' = 1 .. N + 1
    BY <2>1
  <2>3. frames'[N + 1].node = n
    BY <1>1, <1>2, PushSame
  <2> QED BY <1>1, <1>2, <2>2, <2>3, PushFrames
<1>4. CASE Printed(f)
  BY <1>4 DEF Push, Printed, Awaited
<1>5. ASSUME NEW k \in DOMAIN frames, frames[k].node = f PROVE Awaited(f)'
  BY <1>2, <1>3, <1>5 DEF Awaited
<1>6. ASSUME NEW k \in DOMAIN frames, Pending(f, k) PROVE Awaited(f)'
  <2>1. PICK j \in DOMAIN prog[frames[k].node].kids :
          j >= frames[k].next /\ f = Kid(frames[k].node, j)
    BY <1>6 DEF Pending
  <2>2. OpensAt(k, {"Let"}) /\ k \in 1 .. N
    BY <1>2, <1>6 DEF Pending
  <2>3. OpensAt(k, {"Let"})'
    <3>1. k \in Nat /\ k > 0 /\ \A i \in 1 .. k : i \in 1 .. N
      BY <2>2
    <3> QED BY <1>3, <2>2, <3>1, FramesKept
  <2>4. CASE k = N /\ j = Top.next
    <3>1. Top.kind # "main"
      BY <1>2, <2>2, <2>4 DEF OpensAt
    <3>2. n = Kid(Top.node, Top.next)
      BY <1>1, <1>2, <3>1, StackFacts, ReachedFacts
    <3>3. n = f
      BY <1>2, <2>1, <2>4, <3>2
    <3> QED BY <1>3, <3>3 DEF Awaited
  <2>5. CASE ~ (k = N /\ j = Top.next)
    <3>1. j \in Nat
      BY <1>1, <1>2, <2>2, <2>1, StackFacts, NodeFacts DEF OnPath, OpensAt
    <3>2. j >= frames'[k].next
      BY <1>2, <1>3, <2>1, <2>2, <2>5, <3>1
    <3>3. prog' = prog /\ \A a, i : Kid(a, i)' = Kid(a, i)
      BY TablesStay
    <3>4. Pending(f, k)'
      BY <1>3, <2>1, <2>2, <2>3, <3>2, <3>3 DEF Pending
    <3> QED BY <1>3, <2>2, <3>4 DEF Awaited
  <2> QED BY <2>4, <2>5
<1> QED BY <1>4, <1>5, <1>6 DEF Awaited

LEMMA AwaitedPopped ==
  ASSUME CompileInv, phase = "code", ~ HasNext, Top.kind # "main", Pop,
         NEW f, Awaited(f), Printed(f) => Printed(f)', Top.node = f => Printed(f)'
  PROVE  Awaited(f)'
<1>1. prog \in Programs /\ OnPath /\ UNCHANGED tables
  BY CodeFacts DEF Pop
<1>2. PICK N \in Nat \ {0} : N = Len(frames) /\ DOMAIN frames = 1 .. N /\ Top = frames[N]
  BY <1>1, StackFacts
<1>3. N > 1 /\ DOMAIN frames' = 1 .. N - 1 /\ \A k \in 1 .. N - 1 : frames'[k] = frames[k]
  BY <1>1, <1>2, PopFrames
<1>4. CASE Printed(f)
  BY <1>4 DEF Awaited
<1>5. ASSUME NEW k \in DOMAIN frames, frames[k].node = f PROVE Awaited(f)'
  <2>1. CASE k = N
    BY <1>2, <1>5, <2>1 DEF Awaited
  <2>2. CASE k # N
    BY <1>2, <1>3, <1>5, <2>2 DEF Awaited
  <2> QED BY <2>1, <2>2
<1>6. ASSUME NEW k \in DOMAIN frames, Pending(f, k) PROVE Awaited(f)'
  <2>1. PICK j \in DOMAIN prog[frames[k].node].kids :
          j >= frames[k].next /\ f = Kid(frames[k].node, j)
    BY <1>6 DEF Pending
  <2>2. OpensAt(k, {"Let"}) /\ k \in 1 .. N
    BY <1>2, <1>6 DEF Pending
  <2>3. k # N
    <3> SUFFICES ASSUME k = N PROVE FALSE
      OBVIOUS
    <3>1. /\ Top.kind = "Let" /\ HasBody(Top.node) /\ Kind(Top.node) = "Let"
          /\ Top.node \in Nodes /\ Top.next \in Nat \ {0}
      BY <1>1, <1>2, <1>3, <2>2, StackFacts DEF OpensAt, Frames
    <3>2. PartsOfTop = prog[Top.node].kids
      BY <3>1 DEF PartsOfTop, Parts
    <3>3. prog[Top.node].kids \in Seq(Nodes)
      BY <1>1, <3>1, NodeFacts
    <3>4. Top.next \in DOMAIN prog[Top.node].kids
      BY <1>2, <2>1, <3>1, <3>3
    <3> QED BY <3>2, <3>4 DEF HasNext
  <2>4. k \in 1 .. N - 1 /\ frames'[k] = frames[k]
    BY <1>2, <1>3, <2>2, <2>3
  <2>5. prog' = prog /\ \A a, i : Kid(a, i)' = Kid(a, i)
    BY <1>1, TablesStay
  <2>6. OpensAt(k, {"Let"})'
    BY <1>1, <2>2, <2>4, TablesStay DEF OpensAt
  <2>7. Pending(f, k)'
    BY <2>1, <2>4, <2>5, <2>6 DEF Pending
  <2> QED BY <1>3, <2>4, <2>7 DEF Awaited
<1> QED BY <1>4, <1>5, <1>6 DEF Awaited

\* Declarations are parts of Lets, which separate nothing.
LEMMA DeclaredInLet ==
  ASSUME CompileInv, phase = "code", NEW n, Reached(n), Kind(n) \in DeclarationKinds
  PROVE  Top.kind = "Let" /\ Separator = << >> /\ Len(frames) > 1
<1>1. /\ Table!LookupInv /\ prog \in Programs /\ OnPath /\ Len(frames) \in Nat \ {0}
  BY CodeFacts
<1>2. Len(frames) > 1
  <2>1. Len(frames) = 1 => n = 1
    BY <1>1, ReachedFacts
  <2>2. Kind(1) \in ExprKinds
    BY <1>1, RootFacts DEF Exprs, IsExpr
  <2>3. Kind(n) \notin ExprKinds
    BY DEF ExprKinds, DeclarationKinds
  <2>4. Len(frames) # 1
    BY <2>1, <2>2, <2>3
  <2>5. \A k \in Nat \ {0} : k # 1 => k > 1
    OBVIOUS
  <2> QED BY <1>1, <2>4, <2>5, Zenon
<1>3. Top.node \in Nodes /\ Top.kind = Kind(Top.node)
  BY <1>1, <1>2, StackFacts
<1>4. Top.next \in DOMAIN prog[Top.node].kids /\ n = Kid(Top.node, Top.next)
  BY <1>1, <1>2, ReachedFacts
<1>5. Kind(Top.node) = "Let"
  BY <1>1, <1>3, <1>4, KidSorts
<1> QED BY <1>2, <1>3, <1>5 DEF Separator, Statement

\* A type declaration is passed over.
LEMMA PassedFrames ==
  ASSUME CompileInv, phase = "code", UNCHANGED tables, NEW n, Reached(n),
         Kind(n) = "TypeDeclaration",
         frames' = [frames EXCEPT ![Len(frames)].next = @ + 1], NEW N, N = Len(frames)
  PROVE  /\ Len(frames') = N /\ DOMAIN frames' = 1 .. N
         /\ \A k \in 1 .. N :
              /\ frames'[k].node = frames[k].node /\ frames'[k].kind = frames[k].kind
              /\ frames'[k].saved = frames[k].saved
              /\ frames'[k].next = IF k = N THEN Top.next + 1 ELSE frames[k].next
              /\ frames[k].next \in Nat \ {0}
              /\ MakesStream(k)' <=> MakesStream(k)
<1>1. prog \in Programs /\ OnPath /\ frames \in Seq(Frames)
  BY CodeFacts DEF OnPath
<1>2. N \in Nat \ {0} /\ N = Len(frames) /\ DOMAIN frames = 1 .. N /\ Top = frames[N]
  BY <1>1, StackFacts
<1>3. PICK q : q = [Top EXCEPT !.next = @ + 1]
  OBVIOUS
<1>4. /\ q \in Frames /\ q.node = Top.node /\ q.kind = Top.kind /\ q.saved = Top.saved
      /\ q.next = Top.next + 1
  <2>1. Top \in Frames
    BY <1>1, StackFacts
  <2> QED BY <1>3, <2>1 DEF Frames
<1>5. /\ Len(frames') = N /\ DOMAIN frames' = 1 .. N
      /\ \A k \in 1 .. N : frames'[k] = IF k = N THEN q ELSE frames[k]
  <2>1. frames' = [frames EXCEPT ![N] = q]
    BY <1>1, <1>2, <1>3
  <2> QED BY ONLY <1>1, <1>2, <1>4, <2>1, Replaced
<1>6. \A k \in 1 .. N : frames[k].next \in Nat \ {0}
  BY <1>1, <1>2, StackFacts DEF Frames
<1>7. Top.kind = "Let"
  BY DeclaredInLet DEF DeclarationKinds
<1>8. \A k \in 1 .. N : MakesStream(k)' <=> MakesStream(k)
  BY <1>2, <1>4, <1>5, <1>7 DEF MakesStream, OnLeftSideAt
<1> QED BY <1>2, <1>4, <1>5, <1>6, <1>8

LEMMA AwaitedPassed ==
  ASSUME CompileInv, phase = "code", UNCHANGED tables, NEW n, Reached(n),
         Kind(n) = "TypeDeclaration",
         frames' = [frames EXCEPT ![Len(frames)].next = @ + 1],
         NEW f, Kind(f) = "FunctionDeclaration", Awaited(f), Printed(f) => Printed(f)'
  PROVE  Awaited(f)'
<1>1. prog \in Programs /\ OnPath /\ frames \in Seq(Frames)
  BY CodeFacts DEF OnPath
<1>2. PICK N \in Nat \ {0} : N = Len(frames) /\ DOMAIN frames = 1 .. N /\ Top = frames[N]
  BY <1>1, StackFacts
<1>3. /\ DOMAIN frames' = 1 .. N
      /\ \A k \in 1 .. N :
           /\ frames'[k].node = frames[k].node /\ frames'[k].kind = frames[k].kind
           /\ frames'[k].saved = frames[k].saved
           /\ frames'[k].next = IF k = N THEN Top.next + 1 ELSE frames[k].next
           /\ frames[k].next \in Nat \ {0}
  BY <1>2, PassedFrames
<1>4. CASE Printed(f)
  BY <1>4 DEF Awaited
<1>5. ASSUME NEW k \in DOMAIN frames, frames[k].node = f PROVE Awaited(f)'
  BY <1>2, <1>3, <1>5 DEF Awaited
<1>6. ASSUME NEW k \in DOMAIN frames, Pending(f, k) PROVE Awaited(f)'
  <2>1. PICK j \in DOMAIN prog[frames[k].node].kids :
          j >= frames[k].next /\ f = Kid(frames[k].node, j)
    BY <1>6 DEF Pending
  <2>2. OpensAt(k, {"Let"}) /\ k \in 1 .. N
    BY <1>2, <1>6 DEF Pending
  <2>3. OpensAt(k, {"Let"})'
    <3>1. k \in Nat /\ k > 0 /\ \A i \in 1 .. k : i \in 1 .. N
      BY <2>2
    <3> QED BY <1>3, <2>2, <3>1, FramesKept
  <2>4. ~ (k = N /\ j = Top.next)
    <3> SUFFICES ASSUME k = N, j = Top.next PROVE FALSE
      OBVIOUS
    <3>1. Top.kind # "main"
      BY <1>2, <2>2 DEF OpensAt
    <3>2. n = Kid(Top.node, Top.next)
      BY <1>1, <1>2, <3>1, StackFacts, ReachedFacts
    <3>3. n = f
      BY <1>2, <2>1, <3>2
    <3> QED BY <3>3
  <2>5. j \in Nat
    BY <1>1, <1>2, <2>2, <2>1, StackFacts, NodeFacts DEF OnPath, OpensAt
  <2>6. j >= frames'[k].next
    BY <1>2, <1>3, <2>1, <2>2, <2>4, <2>5
  <2>7. prog' = prog /\ \A a, i : Kid(a, i)' = Kid(a, i)
    BY TablesStay
  <2>8. Pending(f, k)'
    BY <1>3, <2>1, <2>2, <2>3, <2>6, <2>7 DEF Pending
  <2> QED BY <1>3, <2>2, <2>8 DEF Awaited
<1> QED BY <1>4, <1>5, <1>6 DEF Awaited

\* The Lets still open wait for what they waited for.
LEMMA LetsStay ==
  ASSUME UNCHANGED tables, LetsAwait, AwaitedStay,
         \A k \in DOMAIN frames' :
           \/ /\ k \in DOMAIN frames
              /\ frames'[k].node = frames[k].node /\ frames'[k].kind = frames[k].kind
           \/ \A f \in FunctionsIn(frames'[k].node) : OpensAt(k, {"Let"})' => Awaited(f)'
  PROVE  LetsAwait'
<1>1. SUFFICES ASSUME NEW k \in DOMAIN frames', OpensAt(k, {"Let"})',
                      NEW f \in FunctionsIn(frames'[k].node)
               PROVE  Awaited(f)'
  <2>1. \A b : FunctionsIn(b)' = FunctionsIn(b)
    BY MethodsStay
  <2> QED BY <2>1 DEF LetsAwait
<1>2. CASE /\ k \in DOMAIN frames
           /\ frames'[k].node = frames[k].node /\ frames'[k].kind = frames[k].kind
  <2>1. OpensAt(k, {"Let"})
    BY <1>1, <1>2, TablesStay DEF OpensAt
  <2>2. Awaited(f)
    BY <1>1, <1>2, <2>1 DEF LetsAwait
  <2> QED BY <1>1, <2>2 DEF AwaitedStay, FunctionsIn
<1> QED BY <1>1, <1>2

LEMMA LetsPushed ==
  ASSUME CompileInv, phase = "code", UNCHANGED tables, NEW n, Reached(n),
         NEW inline \in BOOLEAN, Push(n, inline), LetsAwait
  PROVE  AwaitedStay /\ LetsAwait'
<1>1. prog \in Programs /\ OnPath /\ C.expr \in Nodes \cup {Null} /\ n \in Nodes
  BY CodeFacts, Here
<1>2. PICK N \in Nat \ {0} : N = Len(frames) /\ DOMAIN frames = 1 .. N
  BY <1>1, StackFacts
<1>3. /\ DOMAIN frames' = 1 .. N + 1 /\ frames'[N + 1] = Frame(n, Kind(n), inline, C.expr)
      /\ \A k \in 1 .. N :
           frames'[k].node = frames[k].node /\ frames'[k].kind = frames[k].kind
  <2>1. Len(frames') = N + 1 /\ frames' \in Seq(Frames)
    BY <1>1, <1>2, PushFrames
  <2>2. DOMAIN frames' = 1 .. N + 1
    BY <2>1
  <2> QED BY <1>1, <1>2, <2>2, PushFrames
<1>4. AwaitedStay
  BY AwaitedPushed DEF AwaitedStay
<1>5. ASSUME OpensAt(N + 1, {"Let"})', NEW f \in FunctionsIn(n) PROVE Awaited(f)'
  <2>1. PICK j \in DOMAIN prog[n].kids : f = Kid(n, j)
    BY DEF FunctionsIn
  <2>2. frames'[N + 1].node = n /\ frames'[N + 1].next = 1
    BY <1>3 DEF Frame
  <2>3. j >= 1
    BY <1>1, <2>1, NodeFacts
  <2>4. prog' = prog /\ \A a, i : Kid(a, i)' = Kid(a, i)
    BY TablesStay
  <2>5. Pending(f, N + 1)'
    BY <1>5, <2>1, <2>2, <2>3, <2>4 DEF Pending
  <2> QED BY <1>3, <2>5 DEF Awaited
<1>6. frames'[N + 1].node = n
  BY <1>3 DEF Frame
<1>7. ASSUME NEW k \in DOMAIN frames'
      PROVE  \/ /\ k \in DOMAIN frames
                /\ frames'[k].node = frames[k].node /\ frames'[k].kind = frames[k].kind
             \/ \A f \in FunctionsIn(frames'[k].node) : OpensAt(k, {"Let"})' => Awaited(f)'
  <2>1. CASE k = N + 1
    BY <1>5, <1>6, <2>1
  <2>2. CASE k # N + 1
    BY <1>2, <1>3, <2>2
  <2> QED BY <2>1, <2>2
<1>8. LetsAwait'
  BY <1>4, <1>7, LetsStay
<1> QED BY <1>4, <1>8

LEMMA LetsPopped ==
  ASSUME CompileInv, phase = "code", ~ HasNext, Top.kind # "main", Pop, LetsAwait,
         \A f : Printed(f) \/ (Top.kind = "FunctionDeclaration" /\ Top.node = f) => Printed(f)'
  PROVE  AwaitedStay /\ LetsAwait'
<1>1. prog \in Programs /\ OnPath /\ UNCHANGED tables
  BY CodeFacts DEF Pop
<1>2. PICK N \in Nat \ {0} : N = Len(frames) /\ DOMAIN frames = 1 .. N
  <2>1. Len(frames) \in Nat \ {0} /\ DOMAIN frames = 1 .. Len(frames)
    BY <1>1, StackFacts
  <2> QED BY <2>1, Zenon
<1>3. Top.kind = Kind(Top.node)
  BY <1>1, StackFacts
<1>4. AwaitedStay
  <2> SUFFICES ASSUME NEW f \in Nodes, Kind(f) = "FunctionDeclaration", Awaited(f)
               PROVE  Awaited(f)'
    BY DEF AwaitedStay
  <2>1. Printed(f) => Printed(f)'
    OBVIOUS
  <2>2. Top.node = f => Printed(f)'
    BY <1>3
  <2> QED BY <2>1, <2>2, AwaitedPopped
<1>5. N > 1 /\ DOMAIN frames' = 1 .. N - 1 /\ \A k \in 1 .. N - 1 : frames'[k] = frames[k]
  BY <1>1, <1>2, PopFrames
<1>6. \A k \in DOMAIN frames' : /\ k \in DOMAIN frames
                                /\ frames'[k].node = frames[k].node
                                /\ frames'[k].kind = frames[k].kind
  BY <1>2, <1>5
<1>7. LetsAwait'
  BY <1>1, <1>4, <1>6, LetsStay
<1> QED BY <1>4, <1>7

-----------------------------------------------------------------------------
(* The calls in the texts.                                                 *)

LEMMA AnsweredStays ==
  ASSUME UNCHANGED tables, AwaitedStay
  PROVE  \A t : Answered(t) => Answered(t)'
<1>1. ASSUME NEW n \in Settled PROVE n \in Settled'
  <2>1. /\ Nodes' = Nodes /\ Openers' = Openers
        /\ Overloads(n)' = Overloads(n) /\ Meant(n)' = Meant(n)
    BY TablesStay, MethodsStay
  <2>2. \A f \in Overloads(n) : f \in Nodes /\ Kind(f) = "FunctionDeclaration"
    BY Zenon DEF Overloads, St!FunctionsOf, St!Nodes, St!NodesOf, St!Kind, Nodes, NodesOf, Kind
  <2> QED BY <2>1, <2>2 DEF Settled, AwaitedStay
<1>2. NoScope' = NoScope
  BY DEF NoScope
<1> QED BY <1>1, <1>2 DEF Answered

LEMMA AnsweredJoin ==
  ASSUME NEW s \in Text, NEW t \in Text, Answered(s), Answered(t)
  PROVE  s \o t \in Text /\ Answered(s \o t)
<1>1. PICK A : Text = Seq(A)
  BY DEF Text
<1>2. /\ s \o t \in Seq(A) /\ Len(s \o t) = Len(s) + Len(t) /\ Len(s) \in Nat /\ Len(t) \in Nat
      /\ DOMAIN s = 1 .. Len(s) /\ DOMAIN t = 1 .. Len(t)
      /\ DOMAIN (s \o t) = 1 .. Len(s) + Len(t)
      /\ \A i \in 1 .. Len(s) + Len(t) :
           (s \o t)[i] = IF i <= Len(s) THEN s[i] ELSE t[i - Len(s)]
  BY <1>1
<1>3. ASSUME NEW i \in DOMAIN (s \o t)
      PROVE  (\E j \in DOMAIN s : (s \o t)[i] = s[j]) \/ (\E j \in DOMAIN t : (s \o t)[i] = t[j])
  <2>1. CASE i <= Len(s)
    BY <1>2, <2>1
  <2>2. CASE ~ (i <= Len(s))
    <3>1. i - Len(s) \in DOMAIN t /\ (s \o t)[i] = t[i - Len(s)]
      BY <1>2, <2>2
    <3> QED BY <3>1
  <2> QED BY <2>1, <2>2
<1> QED BY <1>1, <1>2, <1>3, Zenon DEF Answered

LEMMA AnsweredOnes ==
  /\ Answered(<< >>)
  /\ \A a : (a.item = "call" /\ a.scope # NoScope => a.node \in Settled) => Answered(<<a>>)
  /\ \A a, b, c : a.item # "call" /\ b.item # "call" /\ c.item # "call" => Answered(<<a, b, c>>)
BY DEF Answered

\* What is written to the innermost stream leaves the beginnings of all.
WrittenOn(os, text) == [os EXCEPT ![Len(os)] = @ \o text]
AnsweredOn(os, more) ==
  /\ more \in Seq(Text) /\ Len(more) = Len(os)
  /\ \A i \in DOMAIN more : Answered(more[i])
  /\ \A i \in DOMAIN os : os[i] # << >> => more[i] # << >> /\ more[i][1] = os[i][1]

LEMMA StreamGoesOn ==
  ASSUME NEW os \in Seq(Text), os # << >>, \A i \in DOMAIN os : Answered(os[i]),
         NEW text \in Text, Answered(text)
  PROVE  AnsweredOn(os, WrittenOn(os, text))
<1>0. PICK new : new = WrittenOn(os, text)
  OBVIOUS
<1>1. PICK W \in Nat \ {0} : W = Len(os) /\ DOMAIN os = 1 .. W
  BY DEF Text
<1>2. PICK last \in Text : last = os[W]
  BY <1>1
<1>3. last \o text \in Text /\ Answered(last \o text)
  BY <1>1, <1>2, AnsweredJoin
<1>4. PICK more \in Text : more = last \o text
  BY <1>3
<1>5. new = [os EXCEPT ![W] = more]
  BY <1>0, <1>1, <1>2, <1>4 DEF WrittenOn
<1>6. /\ new \in Seq(Text) /\ Len(new) = W /\ DOMAIN new = 1 .. W
      /\ \A k \in 1 .. W : new[k] = IF k = W THEN more ELSE os[k]
  <2>1. W \in DOMAIN os /\ W = Len(os)
    BY <1>1
  <2> QED BY ONLY <1>5, <2>1, Replaced
<1>7. last # << >> => more # << >> /\ more[1] = last[1]
  BY <1>4 DEF Text
<1> QED BY <1>0, <1>1, <1>2, <1>3, <1>4, <1>6, <1>7 DEF AnsweredOn

-----------------------------------------------------------------------------
(* The calls of a Let's functions.                                         *)

\* A function is declared in a Let.
LEMMA FunctionsDeclared ==
  ASSUME prog \in Programs, NEW b, NEW x, NEW f \in St!FunctionsOf(b, x)
  PROVE  /\ b \in Nodes /\ Kind(b) = "Let" /\ f \in FunctionsIn(b)
         /\ f \in Nodes /\ Kind(f) = "FunctionDeclaration" /\ Binder(f) = b /\ prog[f].id = x
<1>1. f \in Nodes /\ Kind(f) = "FunctionDeclaration" /\ Binder(f) = b /\ prog[f].id = x
  BY Zenon DEF St!FunctionsOf, St!Nodes, St!NodesOf, St!Kind, St!Binder, Nodes, NodesOf, Kind,
               Binder
<1>2. f # 1
  BY <1>1, RootFacts DEF Exprs, IsExpr, ExprKinds
<1>3. PICK a \in Nodes : \/ f \in Table!ParamsOf(prog, a)
                         \/ \E j \in DOMAIN Table!Kids(a) : f = Table!Kids(a)[j]
  BY <1>1, <1>2, SameNames, TreesOnly, Table!OwnerExists
<1>4. f \notin Table!ParamsOf(prog, a)
  BY <1>1, KidSorts DEF Table!ParamsOf
<1>5. PICK j \in DOMAIN prog[a].kids : f = Kid(a, j)
  BY <1>3, <1>4 DEF Table!Kids, Kid
<1>6. Kind(a) = "Let" /\ Binder(f) = a
  <2>1. Kind(a) = "Let"
    BY <1>1, <1>5, KidSorts DEF DeclarationKinds
  <2> QED BY <1>5, <2>1, KidFacts DEF Opener
<1> QED BY <1>1, <1>5, <1>6 DEF FunctionsIn

\* The walk out from a binder exists.
LEMMA FunctionsWalk ==
  ASSUME prog \in Programs, NEW x
  PROVE  \E g : OutwardFunctions(g, x)
<1>1. PICK D : D = [b \in 0 .. Len(prog) |-> Table!FunctionsOf(b, x)]
  OBVIOUS
<1>2. PICK g : Table!WalksOut(g, D)
  BY TreesOnly, Table!BinderWalk
<1>3. \A b : St!FunctionsOf(b, x) = Table!FunctionsOf(b, x)
  BY Zenon DEF Table!FunctionsOf, St!FunctionsOf, Table!Nodes, Table!NodesOf,
         St!Nodes, St!NodesOf, Table!Kind, St!Kind, St!Binder, Table!Binder
<1>4. \A S : St!LastOf(S) = Table!LastOf(S)
  BY Zenon DEF St!LastOf, Table!LastOf, St!Null, Table!Null
<1>5. OutwardFunctions(g, x)
  BY <1>1, <1>2, <1>3, <1>4 DEF OutwardFunctions, Table!WalksOut, Binder, Table!Binder,
         Null, Table!Null
<1> QED BY <1>5

\* The Lets and functions on the call stack.
OpenNow == {0} \cup {frames[k].node : k \in {i \in DOMAIN frames : OpensAt(i, Scoping)}}

LEMMA OpenAround ==
  ASSUME CompileInv, phase = "code"
  PROVE  /\ \A k \in DOMAIN frames : Inner(k) \in OpenNow
         /\ \A b \in OpenNow \ {0} : /\ b \in Nodes /\ Binder(b) \in OpenNow /\ Binder(b) < b
                                     /\ \E k \in DOMAIN frames : /\ OpensAt(k, Scoping)
                                                                 /\ frames[k].node = b
                                                                 /\ frames[k].kind = Kind(b)
<1>1. prog \in Programs /\ OnPath /\ AtWork
  BY CodeFacts
<1>2. PICK N \in Nat \ {0} : N = Len(frames) /\ DOMAIN frames = 1 .. N
  <2>1. Len(frames) \in Nat \ {0} /\ DOMAIN frames = 1 .. Len(frames)
    BY <1>1, StackFacts
  <2> QED BY <2>1, Zenon
<1>3. ASSUME NEW k \in 1 .. N
      PROVE  Inner(k) = 0 \/ \E i \in 1 .. k : OpensAt(i, Scoping) /\ frames[i].node = Inner(k)
  <2>1. PICK using, writing : Suits(using)
    BY <1>1 DEF AtWork
  <2> QED BY <1>2, <1>3, <2>1 DEF Suits, IsInnermost
<1>4. \A k \in 1 .. N : Inner(k) \in OpenNow
  BY <1>2, <1>3 DEF OpenNow
<1>5. ASSUME NEW b \in OpenNow, b # 0
      PROVE  /\ b \in Nodes /\ Binder(b) \in OpenNow /\ Binder(b) < b
             /\ \E k \in DOMAIN frames : /\ OpensAt(k, Scoping) /\ frames[k].node = b
                                         /\ frames[k].kind = Kind(b)
  <2>1. PICK k \in 1 .. N : OpensAt(k, Scoping) /\ frames[k].node = b
    BY <1>2, <1>5 DEF OpenNow
  <2>2. k # 1
    BY <1>1, <2>1, InnerStep
  <2>3. k \in 2 .. N /\ k - 1 \in 1 .. N
    BY <2>2
  <2>4. b \in Nodes /\ frames[k].kind = Kind(b)
    BY <1>1, <1>2, <2>1, <2>3 DEF OnPath
  <2>5. Binder(b) = Inner(k - 1)
    BY <1>1, <1>2, <2>1, <2>3, InnerStep
  <2>6. Binder(b) < b
    <3>1. CASE Inner(k - 1) = 0
      BY <1>1, <2>4, <2>5, <3>1, NodeFacts
    <3>2. CASE \E i \in 1 .. k - 1 : frames[i].node = Inner(k - 1)
      <4>1. PICK i \in 1 .. k - 1 : frames[i].node = Inner(k - 1)
        BY <3>2
      <4>2. i \in DOMAIN frames /\ k \in DOMAIN frames /\ i < k
        BY <1>2, <2>3
      <4> QED BY <1>1, <2>1, <2>5, <4>1, <4>2 DEF OnPath
    <3> QED BY <1>3, <2>3, <3>1, <3>2
  <2> QED BY <1>2, <1>4, <2>1, <2>3, <2>4, <2>5, <2>6
<1> QED BY <1>2, <1>4, <1>5

\* From a Let or function that is open the walk comes to a Let that is open.
LEMMA WalkFindsOpen ==
  ASSUME CompileInv, phase = "code", NEW x, NEW g, OutwardFunctions(g, x),
         NEW b \in OpenNow, g[b] # Null
  PROVE  \E c \in OpenNow : g[b] \in St!FunctionsOf(c, x)
<1> DEFINE Good(a) == \E c \in OpenNow : g[a] \in St!FunctionsOf(c, x)
           Bad == {a \in OpenNow : g[a] # Null /\ ~ Good(a)}
<1>1. /\ prog \in Programs /\ Nodes = 1 .. Len(prog) /\ Len(prog) \in Nat
      /\ \A a \in OpenNow : a \in 0 .. Len(prog)
  <2>1. prog \in Programs
    BY CodeFacts
  <2>2. Nodes = 1 .. Len(prog) /\ Len(prog) \in Nat
    BY <2>1, SameNames, TreesOnly, Table!RootIsNode DEF Nodes, NodesOf
  <2>3. \A a \in OpenNow : a = 0 \/ a \in Nodes
    BY OpenAround
  <2> QED BY <2>1, <2>2, <2>3
<1>2. SUFFICES ASSUME Bad # {} PROVE FALSE
  OBVIOUS
<1>3. Bad \in SUBSET Nat
  BY <1>1
<1>4. PICK a \in Bad : \A d \in Bad : a <= d
  <2> HIDE DEF Bad
  <2> QED BY <1>2, <1>3, TreesOnly, Table!LeastNatural
<1>5. a \in OpenNow /\ g[a] # Null /\ ~ Good(a) /\ a \in 0 .. Len(prog)
  BY <1>1, <1>4
<1>6. g[a] = IF St!FunctionsOf(a, x) # {} THEN St!LastOf(St!FunctionsOf(a, x))
             ELSE IF a = 0 THEN Null ELSE g[Binder(a)]
  BY <1>5 DEF OutwardFunctions
<1>7. CASE St!FunctionsOf(a, x) # {}
  <2>1. PICK S \in SUBSET Nodes : S = St!FunctionsOf(a, x)
    BY <1>1, FunctionsDeclared
  <2>2. St!LastOf(S) = Table!LastOf(S)
    BY Zenon DEF St!LastOf, Table!LastOf, St!Null, Table!Null
  <2>3. Table!LastOf(S) \in S
    BY <1>1, <1>7, <2>1, SameNames, TreesOnly, Table!LastOfFacts
  <2>4. g[a] \in St!FunctionsOf(a, x)
    BY <1>6, <1>7, <2>1, <2>2, <2>3
  <2> QED BY <1>5, <2>4
<1>8. CASE St!FunctionsOf(a, x) = {}
  <2>1. a # 0 /\ g[a] = g[Binder(a)]
    BY <1>5, <1>6, <1>8
  <2>2. Binder(a) \in OpenNow /\ Binder(a) < a
    BY <1>5, <2>1, OpenAround
  <2>3. Binder(a) \in Bad
    BY <1>5, <2>1, <2>2
  <2>4. a <= Binder(a)
    BY <1>4, <2>3
  <2>5. PICK d : d = Binder(a)
    OBVIOUS
  <2>6. d \in 0 .. Len(prog)
    BY <1>1, <2>2, <2>5, Zenon
  <2> QED BY ONLY <1>1, <1>5, <2>2, <2>4, <2>5, <2>6
<1> QED BY <1>7, <1>8

\* A call that is printed with the place of its function finds the Let of the
\* function open, and its functions waiting to be printed.
LEMMA CallSettled ==
  ASSUME CompileInv, phase = "code", LetsAwait, NEW n, Reached(n), Kind(n) = "FunctionCall",
         Call(n).scope # NoScope
  PROVE  n \in Settled
<1>1. /\ prog \in Programs /\ Table!LookupInv /\ St!Built /\ OnPath /\ n \in Nodes
      /\ Len(frames) \in DOMAIN frames
  <2>1. prog \in Programs /\ Table!LookupInv /\ St!Built /\ OnPath /\ n \in Nodes
    BY CodeFacts, Here
  <2> QED BY <2>1, StackFacts
<1>2. n \in Exprs
  BY <1>1 DEF Exprs, IsExpr, ExprKinds
<1>3. PICK x \in Identifiers : x = prog[n].id
  BY <1>1, NodeFacts
<1>4. lookupFunction(n, x) # Null
  BY <1>3 DEF Call, Plain, Item
<1>5. n # 1
  BY <1>1, <1>2, <1>4, FunctionScope
<1>6. PICK g : g = (CHOOSE h : OutwardFunctions(h, x))
  OBVIOUS
<1>7. OutwardFunctions(g, x)
  BY <1>1, <1>6, FunctionsWalk
<1>8. lookupFunction(n, x) = g[Binder(n)] /\ Meant(n) = g[Binder(n)]
  BY <1>1, <1>2, <1>3, <1>5, <1>6, MeantFound, MeantUnfolded
<1>9. Meant(n) \in Openers
  BY <1>1, <1>2, <1>4, <1>8, Lookups DEF Openers, Opener
<1>10. Binder(n) \in OpenNow
  BY <1>1, ReachedFacts, OpenAround
<1>11. PICK c \in OpenNow : Meant(n) \in St!FunctionsOf(c, x)
  BY <1>4, <1>7, <1>8, <1>10, WalkFindsOpen
<1>12. c \in Nodes /\ Kind(c) = "Let" /\ Binder(Meant(n)) = c
  BY <1>1, <1>11, FunctionsDeclared
<1>13. c # 0
  BY <1>1, <1>12, NodeFacts
<1>14. PICK k \in DOMAIN frames : /\ OpensAt(k, Scoping) /\ frames[k].node = c
                                  /\ frames[k].kind = Kind(c)
  BY <1>13, OpenAround
<1>15. OpensAt(k, {"Let"})
  BY <1>12, <1>14 DEF OpensAt
<1>16. \A f \in FunctionsIn(c) : Awaited(f)
  BY <1>14, <1>15 DEF LetsAwait
<1>17. \A f \in Overloads(n) : Awaited(f)
  <2>1. Overloads(n) = St!FunctionsOf(c, x)
    BY <1>3, <1>12 DEF Overloads
  <2> QED BY <1>1, <1>16, <2>1, FunctionsDeclared
<1> QED BY <1>1, <1>9, <1>17 DEF Settled

-----------------------------------------------------------------------------
(* The beginnings of the methods.                                          *)

\* What stream a frame writes to is told by the frames up to it.
LEMMA CountsAgree ==
  ASSUME NEW using, NEW writing, Counts(using, writing), NEW us, NEW ws, Counts(us, ws)',
         NEW M \in Nat, M <= Len(frames), M <= Len(frames'),
         Len(frames) \in Nat, Len(frames') \in Nat,
         \A k \in 2 .. M : MakesStream(k)' <=> MakesStream(k)
  PROVE  \A k \in 1 .. M : ws[k] = writing[k]
<1> DEFINE Bad == {k \in 1 .. M : ws[k] # writing[k]}
<1>1. SUFFICES ASSUME Bad # {} PROVE FALSE
  OBVIOUS
<1>2. Bad \in SUBSET Nat
  OBVIOUS
<1>3. PICK k \in Bad : \A i \in Bad : k <= i
  <2> HIDE DEF Bad
  <2> QED BY <1>1, <1>2, TreesOnly, Table!LeastNatural
<1>4. k \in 1 .. M /\ ws[k] # writing[k]
  BY <1>3
<1>5. k # 1
  BY <1>4 DEF Counts
<1>6. k \in 2 .. M /\ k - 1 \in 1 .. M /\ k \in 2 .. Len(frames) /\ k \in 2 .. Len(frames')
  BY <1>4, <1>5
<1>7. ws[k - 1] = writing[k - 1]
  <2>1. k - 1 \notin Bad
    BY <1>3, <1>6
  <2> QED BY <1>6, <2>1
<1>8. writing[k] = IF MakesStream(k) THEN writing[k - 1] + 1 ELSE writing[k - 1]
  BY <1>6 DEF Counts
<1>9. ws[k] = IF MakesStream(k)' THEN ws[k - 1] + 1 ELSE ws[k - 1]
  BY <1>6 DEF Counts
<1> QED BY <1>4, <1>6, <1>7, <1>8, <1>9

\* The methods that stay on the stack go on as they began; a new one begins.
LEMMA StartedStay ==
  ASSUME CompileInv, CompileInv', phase = "code", phase' = "code", UNCHANGED tables,
         MethodsStarted, HeadsKept(outs'),
         NEW M \in Nat, M <= Len(frames), M <= Len(frames'),
         \A k \in 1 .. M : frames'[k].node = frames[k].node /\ frames'[k].kind = frames[k].kind,
         \A k \in 2 .. M : MakesStream(k)' <=> MakesStream(k),
         \A k \in DOMAIN frames' :
           k > M /\ frames'[k].kind = "FunctionDeclaration" =>
             k = Len(frames') /\ BeginsWith(outs'[Len(outs')], frames'[k].node)
  PROVE  MethodsStarted'
<1>1. /\ prog \in Programs /\ OnPath /\ AtWork /\ Len(frames) \in Nat \ {0}
      /\ DOMAIN frames = 1 .. Len(frames)
      /\ DOMAIN outs = 1 .. Len(outs)
  <2>1. prog \in Programs /\ OnPath /\ AtWork /\ DOMAIN outs = 1 .. Len(outs)
    BY CodeFacts
  <2> QED BY <2>1, StackFacts
<1>2. /\ Len(frames') \in Nat \ {0} /\ DOMAIN frames' = 1 .. Len(frames')
      /\ Len(outs') \in Nat /\ DOMAIN outs' = 1 .. Len(outs')
  <2>1. AtWork' /\ TextsGood'
    BY DEF CompileInv
  <2>2. frames' \in Seq(Frames') /\ frames' # << >> /\ outs' \in Seq(Text')
    BY <2>1 DEF AtWork, OnPath, TextsGood
  <2> QED BY ONLY <2>2
<1>3. SUFFICES ASSUME NEW us, NEW ws, Counts(us, ws)', NEW k \in DOMAIN frames',
                      frames'[k].kind = "FunctionDeclaration"
               PROVE  BeginsWith(outs'[ws[k]], frames'[k].node)
  <2>1. ASSUME NEW us, NEW ws, Counts(us, ws)', NEW k \in DOMAIN frames',
               frames'[k].kind = "FunctionDeclaration"
        PROVE  BeginsWith(outs[ws[k]], frames[k].node)'
    <3>1. PICK t, f : t = outs'[ws[k]] /\ f = frames'[k].node
      OBVIOUS
    <3>2. BeginsWith(t, f)
      BY <1>3, <2>1, <3>1
    <3>3. BeginsWith(t, f)'
      BY <3>2, MethodsStay
    <3> QED BY <3>1, <3>3
  <2> QED BY <2>1 DEF MethodsStarted
<1>4. CASE k <= M
  <2>1. PICK using, writing : Counts(using, writing)
    BY <1>1 DEF AtWork
  <2>2. k \in 1 .. M /\ k \in DOMAIN frames
    BY <1>1, <1>2, <1>4
  <2>3. ws[k] = writing[k]
    BY <1>1, <1>2, <1>3, <2>1, <2>2, CountsAgree
  <2>4. writing[k] \in DOMAIN outs
    BY <1>1, <2>1, <2>2, CountsFacts
  <2>5. BeginsWith(outs[writing[k]], frames[k].node)
    BY <1>3, <2>1, <2>2 DEF MethodsStarted
  <2>6. ws[k] \in DOMAIN outs'
    <3>1. /\ ws \in Seq(Nat) /\ Len(ws) = Len(frames') /\ ws[Len(frames')] = Len(outs')
          /\ ws[k] <= ws[Len(frames')]
      BY <1>2, <1>3 DEF Counts, Rising
    <3> QED BY <1>1, <1>2, <2>3, <2>4, <3>1
  <2> QED BY <2>2, <2>3, <2>4, <2>5, <2>6 DEF HeadsKept, BeginsWith
<1>5. CASE ~ (k <= M)
  <2>1. k > M
    BY <1>2, <1>5
  <2>2. k = Len(frames') /\ BeginsWith(outs'[Len(outs')], frames'[k].node)
    BY <1>3, <2>1
  <2>3. ws[Len(frames')] = Len(outs')
    BY <1>3 DEF Counts
  <2> QED BY <2>2, <2>3
<1> QED BY <1>4, <1>5

-----------------------------------------------------------------------------
(* The steps.                                                              *)

\* What the parts of the invariant make of a step.
LEMMA StaysAnswered ==
  ASSUME UNCHANGED tables, AwaitedStay, LetsAwait', MethodsStarted',
         \A i \in DOMAIN outs' : Answered(outs'[i]),
         \A i \in DOMAIN compilers' : Answered(compilers'[i].lvalue),
         \A i \in DOMAIN post_body' : /\ Answered(post_body'[i].text)
                                      /\ Kind(post_body'[i].node) = "FunctionDeclaration" =>
                                           BeginsWith(post_body'[i].text, post_body'[i].node)
  PROVE  CallsInv'
<1>1. PICK os, cs, p : os = outs' /\ cs = compilers' /\ p = post_body'
  OBVIOUS
<1>2. /\ \A i \in DOMAIN os : Answered(os[i])'
      /\ \A i \in DOMAIN cs : Answered(cs[i].lvalue)'
      /\ \A i \in DOMAIN p : Answered(p[i].text)'
  BY <1>1, AnsweredStays
<1>3. TextsAnswered'
  BY <1>1, <1>2 DEF TextsAnswered
<1>4. \A i \in DOMAIN p : Kind(p[i].node)' = "FunctionDeclaration" =>
                            BeginsWith(p[i].text, p[i].node)'
  BY <1>1, TablesStay, MethodsStay
<1>5. MethodsBegin'
  <2>1. \A i \in DOMAIN post_body' :
          Kind(post_body[i].node)' = "FunctionDeclaration" =>
            BeginsWith(post_body[i].text, post_body[i].node)'
    BY <1>1, <1>4
  <2> QED BY <2>1 DEF MethodsBegin
<1> QED BY <1>3, <1>5 DEF CallsInv

LEMMA CallsPushed ==
  ASSUME CompileInv, CompileInv', CallsInv, phase = "code", UNCHANGED tables, NEW n, Reached(n),
         NEW inline \in BOOLEAN, Push(n, inline), Continues(outs'),
         \A i \in DOMAIN compilers' : Answered(compilers'[i].lvalue),
         Kind(n) = "FunctionDeclaration" => BeginsWith(outs'[Len(outs')], n)
  PROVE  CallsInv'
<1>1. LetsAwait /\ TextsAnswered /\ MethodsStarted /\ MethodsBegin
  BY DEF CallsInv
<1>2. AwaitedStay /\ LetsAwait'
  BY <1>1, LetsPushed
<1>3. post_body' = post_body /\ phase' = "code"
  BY DEF Push
<1>4. prog \in Programs /\ OnPath /\ C.expr \in Nodes \cup {Null}
  BY CodeFacts, Here
<1>5. PICK N \in Nat \ {0} : N = Len(frames)
  BY CodeFacts
<1>6. /\ Len(frames') = N + 1 /\ DOMAIN frames' = 1 .. N + 1
      /\ frames'[N + 1].node = n /\ frames'[N + 1].kind = Kind(n)
      /\ \A k \in 1 .. N :
           frames'[k].node = frames[k].node /\ frames'[k].kind = frames[k].kind
  <2>1. Len(frames') = N + 1 /\ frames' \in Seq(Frames)
    BY <1>4, <1>5, PushFrames
  <2>2. DOMAIN frames' = 1 .. N + 1
    BY <2>1
  <2>3. frames'[N + 1].node = n /\ frames'[N + 1].kind = Kind(n)
    BY <1>4, <1>5, PushSame
  <2> QED BY <1>4, <1>5, <2>1, <2>2, <2>3, PushFrames
<1>7. \A k \in 2 .. N : MakesStream(k)' <=> MakesStream(k)
  <2>1. \A k \in 2 .. N : k \in 1 .. N
    BY <1>5
  <2> QED BY <1>4, <1>5, <2>1, PushSame
<1>8. MethodsStarted'
  <2>1. \A k \in DOMAIN frames' :
          k > N /\ frames'[k].kind = "FunctionDeclaration" =>
            k = Len(frames') /\ BeginsWith(outs'[Len(outs')], frames'[k].node)
    BY <1>5, <1>6
  <2>2. N \in Nat /\ N <= Len(frames) /\ N <= Len(frames')
    BY <1>5, <1>6
  <2> QED BY <1>1, <1>3, <1>6, <1>7, <2>1, <2>2, StartedStay DEF Continues
<1>9. \A i \in DOMAIN post_body' : /\ Answered(post_body'[i].text)
                                   /\ Kind(post_body'[i].node) = "FunctionDeclaration" =>
                                        BeginsWith(post_body'[i].text, post_body'[i].node)
  BY <1>1, <1>3 DEF TextsAnswered, MethodsBegin
<1> QED BY <1>2, <1>8, <1>9, StaysAnswered DEF Continues

\* The methods printed are whole, and those of before are kept.
MethodsKept ==
  /\ \A i \in DOMAIN post_body' : /\ Answered(post_body'[i].text)
                                  /\ Kind(post_body'[i].node) = "FunctionDeclaration" =>
                                       BeginsWith(post_body'[i].text, post_body'[i].node)
  /\ \A f : Printed(f) \/ (Top.kind = "FunctionDeclaration" /\ Top.node = f) => Printed(f)'

LEMMA CallsPopped ==
  ASSUME CompileInv, CompileInv', CallsInv, NEW kinds, kinds \subseteq NodeKinds, Finished(kinds),
         Pop, Continues(outs'), \A i \in DOMAIN compilers' : Answered(compilers'[i].lvalue),
         post_body' = IF Top.kind = "FunctionDeclaration"
                      THEN Append(post_body, [node |-> Top.node, text |-> outs[Len(outs)]])
                      ELSE post_body
  PROVE  CallsInv'
<1>1. PICK N, L : N = Len(frames) /\ L = Len(compilers)
  OBVIOUS
<1>2. /\ phase = "code" /\ Top.kind # "main" /\ Top.node \in Nodes /\ UNCHANGED tables
      /\ Top.kind = Kind(Top.node) /\ ~ HasNext
      /\ IsLeftSide => Top.kind \in LValueKinds
  BY <1>1, ReturnFacts DEF Finished, Pop
<1>3. phase' = "code"
  BY <1>2 DEF Pop
<1>4. LetsAwait /\ TextsAnswered /\ MethodsStarted /\ MethodsBegin
  BY <1>2 DEF CallsInv
<1>5. /\ prog \in Programs /\ OnPath /\ AtWork /\ TextsGood /\ N \in Nat \ {0}
      /\ outs \in Seq(Text) /\ post_body \in Seq(Methods)
      /\ Len(outs) \in Nat \ {0} /\ DOMAIN outs = 1 .. Len(outs)
  BY <1>1, <1>2, CodeFacts DEF TextsGood
<1>6. /\ N > 1 /\ Len(frames') = N - 1 /\ DOMAIN frames' = 1 .. N - 1
      /\ \A k \in 1 .. N - 1 : frames'[k] = frames[k]
  BY <1>1, <1>2, <1>5, PopFrames
<1>7. PICK m : m = [node |-> Top.node, text |-> outs[Len(outs)]]
  OBVIOUS
<1>8. m \in Methods /\ m.node = Top.node /\ m.text = outs[Len(outs)]
  <2>1. outs[Len(outs)] \in Text
    BY <1>5
  <2> QED BY <1>2, <1>7, <2>1 DEF Methods
<1>9. ASSUME Top.kind = "FunctionDeclaration" PROVE MethodsKept
  <2>1. /\ DOMAIN post_body' = 1 .. Len(post_body) + 1 /\ Len(post_body) \in Nat
        /\ DOMAIN post_body = 1 .. Len(post_body)
        /\ \A k \in 1 .. Len(post_body) : post_body'[k] = post_body[k]
        /\ post_body'[Len(post_body) + 1] = m
    <3>1. post_body' = Append(post_body, m)
      BY <1>7, <1>9
    <3> QED BY ONLY <1>5, <1>8, <3>1, WithOneMore
  <2>2. BeginsWith(m.text, m.node)
    <3>1. PICK using, writing : Counts(using, writing)
      BY <1>5 DEF AtWork
    <3>2. writing[N] = Len(outs)
      BY <1>1, <3>1 DEF Counts
    <3>3. N \in DOMAIN frames /\ Top = frames[N]
      BY <1>1, <1>5, StackFacts
    <3> QED BY <1>4, <1>8, <1>9, <3>1, <3>2, <3>3 DEF MethodsStarted
  <2>3. Answered(m.text)
    BY <1>4, <1>5, <1>8 DEF TextsAnswered
  <2>4. \A i \in DOMAIN post_body' : /\ Answered(post_body'[i].text)
                                     /\ Kind(post_body'[i].node) = "FunctionDeclaration" =>
                                          BeginsWith(post_body'[i].text, post_body'[i].node)
    <3>1. \A i \in 1 .. Len(post_body) + 1 : i \in 1 .. Len(post_body) \/ i = Len(post_body) + 1
      BY <2>1
    <3> QED BY <1>4, <2>1, <2>2, <2>3, <3>1 DEF TextsAnswered, MethodsBegin
  <2>5. \A f : Printed(f) \/ Top.node = f => Printed(f)'
    <3>1. ASSUME NEW f, Printed(f) \/ Top.node = f
          PROVE  \E i \in DOMAIN post_body' : post_body'[i].node = f
      <4>1. CASE Printed(f)
        BY <2>1, <4>1 DEF Printed
      <4>2. CASE Top.node = f
        <5>1. Len(post_body) + 1 \in DOMAIN post_body'
          BY <2>1
        <5> QED BY <1>8, <2>1, <4>2, <5>1
      <4> QED BY <3>1, <4>1, <4>2
    <3> QED BY <3>1 DEF Printed
  <2> QED BY <2>4, <2>5 DEF MethodsKept
<1>10. ASSUME Top.kind # "FunctionDeclaration" PROVE MethodsKept
  <2>1. post_body' = post_body
    BY <1>10
  <2> QED BY <1>4, <1>10, <2>1 DEF TextsAnswered, MethodsBegin, Printed, MethodsKept
<1>11. /\ \A i \in DOMAIN post_body' : /\ Answered(post_body'[i].text)
                                       /\ Kind(post_body'[i].node) = "FunctionDeclaration" =>
                                            BeginsWith(post_body'[i].text, post_body'[i].node)
       /\ \A f : Printed(f) \/ (Top.kind = "FunctionDeclaration" /\ Top.node = f) => Printed(f)'
  BY <1>9, <1>10 DEF MethodsKept
<1>12. AwaitedStay /\ LetsAwait'
  BY <1>2, <1>4, <1>11, LetsPopped
<1>13. MethodsStarted'
  <2>1. PICK M \in Nat : /\ M <= N - 1 /\ M = IF IsLeftSide THEN N - 2 ELSE N - 1
    <3>1. IsLeftSide => N > 2
      BY <1>1, <1>2, <1>5, LeftSide
    <3> QED BY <1>5, <1>6, <3>1
  <2>2. M <= Len(frames) /\ M <= Len(frames')
    BY <1>1, <1>5, <1>6, <2>1
  <2>3. \A k \in 2 .. M : MakesStream(k)' <=> MakesStream(k)
    <3>1. \A k \in 2 .. M : k \in 1 .. N - 1 /\ (IsLeftSide => k # N - 1)
      BY <1>5, <2>1
    <3> QED BY <1>1, <1>2, <1>5, <2>1, <3>1, PopSame
  <2>4. ASSUME NEW k \in DOMAIN frames', k > M, frames'[k].kind = "FunctionDeclaration"
        PROVE  FALSE
    <3>1. IsLeftSide /\ k = N - 1
      BY <1>5, <1>6, <2>1, <2>4
    <3>2. frames[N - 1].kind = "Assignment"
      BY <1>1, <1>2, <1>5, <3>1, LeftSide
    <3> QED BY <1>6, <2>4, <3>1, <3>2
  <2>5. \A k \in 1 .. M : frames'[k].node = frames[k].node /\ frames'[k].kind = frames[k].kind
    <3>1. \A k \in 1 .. M : k \in 1 .. N - 1
      BY <1>5, <2>1
    <3> QED BY <1>6, <3>1
  <2> QED BY <1>2, <1>3, <1>4, <2>2, <2>3, <2>4, <2>5, StartedStay DEF Continues
<1> QED BY <1>2, <1>11, <1>12, <1>13, StaysAnswered DEF Continues

LEMMA CallsFacts ==
  ASSUME CompileInv, CallsInv, phase = "code"
  PROVE  /\ LetsAwait /\ TextsAnswered /\ outs \in Seq(Text) /\ outs # << >>
         /\ \A i \in DOMAIN outs : Answered(outs[i])
         /\ \A i \in DOMAIN compilers : Answered(compilers[i].lvalue)
         /\ Separator \in Text /\ Answered(Separator) /\ Ending \in Text /\ Answered(Ending)
<1>1. LetsAwait /\ TextsAnswered /\ outs \in Seq(Text) /\ outs # << >> /\ GoodText(C.lvalue)
      /\ C = compilers[Len(compilers)] /\ Len(compilers) \in DOMAIN compilers
      /\ Table!LookupInv /\ Top.node \in Nodes \cup {Main}
  <2>1. Len(compilers) \in Nat \ {0} /\ DOMAIN compilers = 1 .. Len(compilers)
    BY CodeFacts
  <2> QED BY <2>1, CodeFacts DEF CallsInv, TextsGood
<1>2. \A t : GoodText(t) => t \in Text
  BY DEF GoodText, Text, Items
<1>3. Separator \in Text /\ Ending \in Text /\ C.lvalue \in Text
  BY <1>1, <1>2, AroundParts
<1>4. Answered(C.lvalue)
  BY <1>1 DEF TextsAnswered
<1>5. \A item \in {"open", "close", "fill"} : Plain(item, Top.node).item # "call"
  BY DEF Plain, Item
<1>6. /\ Answered(<<Plain("open", Top.node)>>) /\ Answered(<<Plain("close", Top.node)>>)
      /\ Answered(<<Plain("fill", Top.node)>>) /\ Answered(<< >>)
      /\ Answered(<<Plain("close", Top.node), Plain("open", Top.node)>>)
  BY <1>5 DEF Answered
<1>7. <<Plain("fill", Top.node)>> \in Text
  <2>1. NoScope \in ScopeNumbers
    BY <1>1, ScopesTyped DEF ScopeNumbers, NoScope
  <2>2. Plain("fill", Top.node) \in Items /\ GoodItem(Plain("fill", Top.node))
    BY <1>1, <2>1, GoodPlain DEF Plain
  <2> QED BY <1>2, <2>2, GoodOnes
<1>8. Answered(<<Plain("fill", Top.node)>> \o C.lvalue)
  BY <1>3, <1>4, <1>6, <1>7, AnsweredJoin
<1>9. Answered(Separator)
  BY <1>6, <1>8 DEF Separator
<1>10. Answered(Ending)
  BY <1>6 DEF Ending
<1> QED BY <1>1, <1>3, <1>9, <1>10 DEF TextsAnswered

LEMMA WritesOn ==
  ASSUME CompileInv, CallsInv, phase = "code", NEW text \in Text, Answered(text),
         outs' = [outs EXCEPT ![Len(outs)] = @ \o text]
  PROVE  Continues(outs')
<1>1. /\ outs \in Seq(Text) /\ outs # << >> /\ \A i \in DOMAIN outs : Answered(outs[i])
  BY CallsFacts
<1>2. text \in Text /\ Answered(text)
  OBVIOUS
<1>3. AnsweredOn(outs, WrittenOn(outs, text))
  BY <1>1, <1>2, StreamGoesOn, Zenon
<1>4. outs' = WrittenOn(outs, text)
  BY DEF WrittenOn
<1> QED BY <1>3, <1>4 DEF Continues, HeadsKept, AnsweredOn

LEMMA BeginningAnswered ==
  ASSUME CompileInv, CallsInv, phase = "code", NEW n, Reached(n)
  PROVE  Answered(Beginning(n))
<1>1. LetsAwait
  BY CallsFacts
<1>2. CASE Kind(n) = "Identifier"
  <2>1. Mention(n).item # "call"
    BY DEF Mention, ScopePath, Plain, Item
  <2> QED BY <1>2, <2>1, AnsweredOnes DEF Beginning
<1>3. CASE Kind(n) = "FunctionCall"
  <2>1. Call(n).node = n
    BY DEF Call, ScopePath, Plain, Item
  <2>2. Call(n).scope # NoScope => n \in Settled
    BY <1>1, <1>3, CallSettled
  <2> QED BY <1>3, <2>1, <2>2, AnsweredOnes DEF Beginning
<1>4. CASE Kind(n) = "For"
  <2>1. Plain("for", n).item # "call"
    BY DEF Plain, Item
  <2> QED BY <1>4, <2>1, AnsweredOnes DEF Beginning
<1>5. CASE Kind(n) \notin {"Identifier", "FunctionCall", "For"}
  BY <1>5, AnsweredOnes DEF Beginning
<1> QED BY <1>2, <1>3, <1>4, <1>5

LEMMA CallsEnterOther ==
  ASSUME CompileInv, CompileInv', CallsInv, NEW n, EnterOther(n)
  PROVE  CallsInv'
<1>1. PICK inline \in BOOLEAN : Push(n, inline)
  BY DEF EnterOther, IsConditional
<1>2. /\ phase = "code" /\ UNCHANGED tables /\ Reached(n) /\ compilers' = Entered(n)
      /\ Kind(n) # "FunctionDeclaration"
      /\ outs' = [outs EXCEPT ![Len(outs)] = @ \o (Separator \o Beginning(n))]
  BY <1>1 DEF EnterOther, Push, Reached, Write, DeclarationKinds
<1>3. ExprsSaved'
  BY <1>1, <1>2 DEF CompileInv, AtWork, Push
<1>4. Beginning(n) \in Text
  BY <1>1, <1>2, <1>3, BeginningGood DEF GoodText, Text, Items
<1>5. PICK text : text = Separator \o Beginning(n)
  OBVIOUS
<1>6. text \in Text /\ Answered(text)
  BY <1>2, <1>4, <1>5, BeginningAnswered, CallsFacts, AnsweredJoin
<1>7. Continues(outs')
  BY <1>2, <1>5, <1>6, WritesOn
<1>8. \A i \in DOMAIN compilers' : Answered(compilers'[i].lvalue)
  <2>1. PICK e : e = Entered(n)
    OBVIOUS
  <2>2. DOMAIN compilers = 1 .. Len(compilers) /\ n \in Nodes
    BY <1>2, CodeFacts, Here
  <2>3. DOMAIN e = 1 .. Len(compilers)
        /\ \A i \in 1 .. Len(compilers) : e[i].lvalue = compilers[i].lvalue
    BY <1>2, <2>1, <2>2, EnteredFacts
  <2> QED BY <1>2, <2>1, <2>2, <2>3, CallsFacts
<1> QED BY <1>1, <1>2, <1>7, <1>8, CallsPushed

LEMMA CallsEnterVariable ==
  ASSUME CompileInv, CompileInv', CallsInv, NEW n, EnterVariable(n)
  PROVE  CallsInv'
<1>1. PICK lval : lval = <<Item("field", n, LocalScope, 0)>>
  OBVIOUS
<1>2. /\ phase = "code" /\ UNCHANGED tables /\ Reached(n) /\ Push(n, FALSE)
      /\ Kind(n) = "VariableDeclaration"
      /\ outs' = [outs EXCEPT ![Len(outs)] = @ \o lval]
      /\ compilers' = [compilers EXCEPT ![Len(compilers)].lvalue = lval]
  BY <1>1 DEF EnterVariable, Push, Reached, Write
<1>3. lval \in Text /\ Answered(lval)
  <2>1. PICK it : it = Item("field", n, LocalScope, 0)
    OBVIOUS
  <2>2. it \in Items /\ it.item # "call"
    BY <1>2, <2>1, VariableGood DEF Item
  <2>3. lval = <<it>> /\ lval \in Seq(Items)
    BY <1>1, <2>1, <2>2
  <2> QED BY <2>2, <2>3, AnsweredOnes DEF Text, Items
<1>4. Continues(outs')
  BY <1>2, <1>3, WritesOn
<1>5. \A i \in DOMAIN compilers' : Answered(compilers'[i].lvalue)
  <2>1. PICK L, c : L = Len(compilers) /\ c = [C EXCEPT !.lvalue = lval]
    OBVIOUS
  <2>2. /\ compilers \in Seq(Compilers) /\ C = compilers[L] /\ L \in Nat \ {0}
        /\ DOMAIN compilers = 1 .. L /\ C \in Compilers /\ L = Len(compilers) /\ L \in DOMAIN compilers
    BY <1>2, <2>1, CodeFacts
  <2>3. c \in Compilers /\ c.lvalue = lval
    BY <1>3, <2>1, <2>2 DEF Compilers
  <2>4. compilers' = [compilers EXCEPT ![L] = c]
    BY <1>2, <2>1, <2>2
  <2>5. DOMAIN compilers' = 1 .. L
        /\ \A i \in 1 .. L : compilers'[i] = IF i = L THEN c ELSE compilers[i]
    BY ONLY <2>2, <2>3, <2>4, Replaced
  <2> QED BY <1>2, <1>3, <2>2, <2>3, <2>5, CallsFacts
<1> QED BY <1>2, <1>4, <1>5, CallsPushed

LEMMA CallsEnterLet ==
  ASSUME CompileInv, CompileInv', CallsInv, NEW n, EnterLet(n)
  PROVE  CallsInv'
<1>1. /\ phase = "code" /\ UNCHANGED tables /\ Reached(n) /\ Kind(n) = "Let" /\ Push(n, FALSE)
  BY DEF EnterLet, Push, Reached
<1>2. /\ n \in Nodes /\ Table!LookupInv /\ St!Built /\ LocalScope = ScopeOpenedBy(Binder(n))
      /\ DOMAIN compilers = 1 .. Len(compilers) /\ compilers \in Seq(Compilers)
      /\ LocalScope \in DOMAIN scopes /\ ReqScope \in ScopeNumbers
  BY <1>1, CodeFacts, Here
<1>3. PICK e : e = Entered(n)
  OBVIOUS
<1>4. /\ e \in Seq(Compilers) /\ Len(e) = Len(compilers) /\ DOMAIN e = 1 .. Len(compilers)
      /\ \A i \in 1 .. Len(compilers) : e[i].lvalue = compilers[i].lvalue
  BY <1>1, <1>2, <1>3, EnteredFacts
<1>5. \A i \in DOMAIN e : Answered(e[i].lvalue)
  BY <1>1, <1>2, <1>4, CallsFacts
<1>6. CASE ~ HasBody(n)
  <2>1. compilers' = e /\ outs' = [outs EXCEPT ![Len(outs)] = @ \o Separator]
    BY <1>3, <1>6 DEF EnterLet, Write
  <2>2. Continues(outs')
    BY <1>1, <2>1, CallsFacts, WritesOn
  <2> QED BY <1>1, <1>5, <2>1, <2>2, CallsPushed
<1>7. CASE HasBody(n)
  <2>1. PICK s, c : s = BodyScope(n) /\ c = Compiler(s, ReqScope, n)
    OBVIOUS
  <2>2. n \in Openers /\ s = ScopeOpenedBy(n)
    BY <1>1, <1>2, <1>7, <2>1, BodyScopes DEF Openers, Opener
  <2>3. s \in DOMAIN scopes /\ s \in ScopeNumbers /\ NoScope \in ScopeNumbers
    <3>1. s \in DOMAIN scopes
      BY <1>2, <2>2, BuiltScopes
    <3> QED BY <1>2, <3>1, ScopesTyped DEF ScopeNumbers, NoScope
  <2>4. c \in Compilers /\ c.lvalue = << >>
    <3>1. c \in Compilers
      BY <1>2, <2>1, <2>3, NewCompiler
    <3> QED BY <2>1, <3>1 DEF Compiler
  <2>5. PICK a, b, d : a = Plain("open", n) /\ b = Object(n, s) /\ d = Link(n, s, LocalScope)
    OBVIOUS
  <2>6. PICK text, all : text = <<a, b, d>> /\ all = Separator \o text
    OBVIOUS
  <2>7. /\ compilers' = Append(e, c)
        /\ outs' = [outs EXCEPT ![Len(outs)] = @ \o all]
    BY <1>3, <1>7, <2>1, <2>5, <2>6 DEF EnterLet, Write
  <2>8. text \in Text /\ Answered(text)
    <3>1. a \in Items
      BY <1>2, <2>3, <2>5, GoodPlain DEF Plain
    <3>2. b \in Items
      BY <1>2, <2>3, <2>5, GoodPlain DEF Object
    <3>3. d \in Items
      BY <1>2, <2>2, <2>5, GoodLink
    <3>4. a.item # "call" /\ b.item # "call" /\ d.item # "call"
      BY <2>5 DEF Plain, Object, Link, Item
    <3> QED BY <2>6, <3>1, <3>2, <3>3, <3>4, AnsweredOnes DEF Text, Items
  <2>9. all \in Text /\ Answered(all)
    BY <1>1, <2>6, <2>8, CallsFacts, AnsweredJoin
  <2>10. Continues(outs')
    BY <1>1, <2>7, <2>9, WritesOn
  <2>11. \A i \in DOMAIN compilers' : Answered(compilers'[i].lvalue)
    <3>1. /\ DOMAIN compilers' = 1 .. Len(e) + 1 /\ Len(e) \in Nat
          /\ \A i \in 1 .. Len(e) : compilers'[i] = e[i]
          /\ compilers'[Len(e) + 1] = c
      BY ONLY <1>4, <2>4, <2>7, WithOneMore
    <3>2. \A i \in 1 .. Len(e) + 1 : i \in 1 .. Len(e) \/ i = Len(e) + 1
      BY <3>1
    <3> QED BY <1>4, <1>5, <2>4, <3>1, <3>2, AnsweredOnes
  <2> QED BY <1>1, <2>10, <2>11, CallsPushed
<1> QED BY <1>6, <1>7

\* A stream that is opened is left by what is written to the others.
LEMMA OpensOn ==
  ASSUME CompileInv, CallsInv, phase = "code", NEW mid \in Seq(Text), Continues(mid),
         Len(mid) = Len(outs), NEW text \in Text, Answered(text), outs' = Append(mid, text)
  PROVE  Continues(outs') /\ outs'[Len(outs')] = text
<1>1. PICK new : new = Append(mid, text)
  OBVIOUS
<1>2. /\ DOMAIN new = 1 .. Len(mid) + 1 /\ Len(mid) \in Nat /\ DOMAIN mid = 1 .. Len(mid)
      /\ \A k \in 1 .. Len(mid) : new[k] = mid[k]
      /\ new[Len(mid) + 1] = text /\ Len(new) = Len(mid) + 1
  BY <1>1, WithOneMore
<1>3. DOMAIN outs = 1 .. Len(outs)
  BY CodeFacts
<1>4. \A i \in DOMAIN new : Answered(new[i])
  <2>1. \A i \in 1 .. Len(mid) + 1 : i \in 1 .. Len(mid) \/ i = Len(mid) + 1
    BY <1>2
  <2> QED BY <1>2, <2>1 DEF Continues
<1>5. HeadsKept(new)
  BY <1>2, <1>3 DEF Continues, HeadsKept
<1> QED BY <1>1, <1>2, <1>4, <1>5 DEF Continues

LEMMA CallsEnterAssignment ==
  ASSUME CompileInv, CompileInv', CallsInv, NEW n, EnterAssignment(n)
  PROVE  CallsInv'
<1>1. PICK mid, c : /\ mid = [outs EXCEPT ![Len(outs)] = @ \o Separator]
                    /\ c = Compiler(LocalScope, ReqScope, n)
  OBVIOUS
<1>2. /\ phase = "code" /\ UNCHANGED tables /\ Reached(n) /\ Push(n, FALSE)
      /\ Kind(n) = "Assignment" /\ compilers' = Append(Entered(n), c)
      /\ outs' = Append(mid, << >>)
  BY <1>1 DEF EnterAssignment, Push, Reached
<1>3. /\ n \in Nodes /\ LocalScope \in DOMAIN scopes /\ ReqScope \in ScopeNumbers
      /\ DOMAIN compilers = 1 .. Len(compilers) /\ compilers \in Seq(Compilers)
  BY <1>2, CodeFacts, Here
<1>4. /\ mid \in Seq(Text) /\ Len(mid) = Len(outs) /\ \A i \in DOMAIN mid : Answered(mid[i])
      /\ \A i \in DOMAIN outs : outs[i] # << >> => mid[i] # << >> /\ mid[i][1] = outs[i][1]
  <2>1. /\ outs \in Seq(Text) /\ outs # << >> /\ \A i \in DOMAIN outs : Answered(outs[i])
        /\ Separator \in Text /\ Answered(Separator)
    BY <1>2, CallsFacts
  <2>2. AnsweredOn(outs, WrittenOn(outs, Separator))
    BY <2>1, StreamGoesOn, Zenon
  <2> QED BY <1>1, <2>2 DEF AnsweredOn, WrittenOn
<1>5. Continues(mid)
  BY <1>4 DEF Continues, HeadsKept
<1>6. Continues(outs')
  <2>1. << >> \in Text /\ Answered(<< >>)
    BY AnsweredOnes DEF Text
  <2> QED BY <1>2, <1>4, <1>5, <2>1, OpensOn
<1>7. PICK e : e = Entered(n)
  OBVIOUS
<1>8. /\ e \in Seq(Compilers) /\ Len(e) = Len(compilers) /\ DOMAIN e = 1 .. Len(compilers)
      /\ \A i \in 1 .. Len(compilers) : e[i].lvalue = compilers[i].lvalue
  BY <1>2, <1>3, <1>7, EnteredFacts
<1>9. c \in Compilers /\ c.lvalue = << >>
  <2>1. c \in Compilers
    BY <1>1, <1>3, NewCompiler
  <2> QED BY <1>1, <2>1 DEF Compiler
<1>10. \A i \in DOMAIN compilers' : Answered(compilers'[i].lvalue)
  <2>1. compilers' = Append(e, c)
    BY <1>2, <1>7
  <2>2. /\ DOMAIN compilers' = 1 .. Len(e) + 1 /\ Len(e) \in Nat
        /\ \A i \in 1 .. Len(e) : compilers'[i] = e[i]
        /\ compilers'[Len(e) + 1] = c
    BY ONLY <1>8, <1>9, <2>1, WithOneMore
  <2>3. \A i \in 1 .. Len(e) + 1 : i \in 1 .. Len(e) \/ i = Len(e) + 1
    BY <2>2
  <2>4. \A i \in DOMAIN compilers : Answered(compilers[i].lvalue)
    BY <1>2, CallsFacts
  <2> QED BY <1>3, <1>8, <1>9, <2>2, <2>3, <2>4, AnsweredOnes
<1> QED BY <1>2, <1>6, <1>10, CallsPushed

LEMMA CallsEnterFunction ==
  ASSUME CompileInv, CompileInv', CallsInv, NEW n, EnterFunction(n)
  PROVE  CallsInv'
<1>1. PICK s, req, c : s = FnScope(n) /\ req = scopes[s].parent /\ c = Compiler(s, req, C.expr)
  OBVIOUS
<1>2. PICK a, b, d : a = Item("param", n, req, 0) /\ b = Object(n, s) /\ d = Link(n, s, req)
  OBVIOUS
<1>3. /\ phase = "code" /\ UNCHANGED tables /\ Reached(n) /\ Push(n, FALSE)
      /\ Kind(n) = "FunctionDeclaration" /\ compilers' = Append(compilers, c)
      /\ outs' = Append(outs, <<a, b, d>>)
  BY <1>1, <1>2 DEF EnterFunction, Push, Reached
<1>4. /\ n \in Nodes /\ Table!LookupInv /\ St!Built /\ compilers \in Seq(Compilers)
      /\ n \in Openers /\ C.expr \in Nodes \cup {Null} /\ outs \in Seq(Text)
      /\ TextsAnswered
  BY <1>3, CodeFacts, Here, CallsFacts DEF Openers, Opener
<1>5. s = ScopeOpenedBy(n) /\ req = ScopeOpenedBy(Binder(n))
  BY <1>1, <1>3, <1>4, BodyScopes, BuiltScopes
<1>6. s \in DOMAIN scopes /\ s \in ScopeNumbers /\ req \in ScopeNumbers
  <2>1. s \in DOMAIN scopes /\ req \in DOMAIN scopes
    BY <1>4, <1>5, BuiltScopes
  <2> QED BY <1>4, <2>1, ScopesTyped DEF ScopeNumbers
<1>7. PICK text : text = <<a, b, d>>
  OBVIOUS
<1>8. text \in Text /\ Answered(text) /\ text # << >> /\ text[1] = a
  <2>1. a \in Items
    BY <1>2, <1>4, <1>6, GoodPlain
  <2>2. b \in Items
    BY <1>2, <1>4, <1>6, GoodPlain DEF Object
  <2>3. d \in Items
    BY <1>2, <1>4, <1>5, GoodLink
  <2>4. a.item # "call" /\ b.item # "call" /\ d.item # "call"
    BY <1>2 DEF Plain, Object, Link, Item
  <2> QED BY <1>7, <2>1, <2>2, <2>3, <2>4, AnsweredOnes DEF Text, Items
<1>9. Continues(outs)
  BY <1>4 DEF Continues, HeadsKept, TextsAnswered
<1>10. Continues(outs') /\ outs'[Len(outs')] = text
  BY <1>3, <1>4, <1>7, <1>8, <1>9, OpensOn
<1>11. BeginsWith(outs'[Len(outs')], n)
  BY <1>1, <1>2, <1>8, <1>10 DEF BeginsWith, MethodItem
<1>12. c \in Compilers /\ c.lvalue = << >>
  <2>1. c \in Compilers
    BY <1>1, <1>4, <1>6, NewCompiler
  <2> QED BY <1>1, <2>1 DEF Compiler
<1>13. \A i \in DOMAIN compilers' : Answered(compilers'[i].lvalue)
  <2>1. /\ DOMAIN compilers' = 1 .. Len(compilers) + 1 /\ Len(compilers) \in Nat
        /\ DOMAIN compilers = 1 .. Len(compilers)
        /\ \A i \in 1 .. Len(compilers) : compilers'[i] = compilers[i]
        /\ compilers'[Len(compilers) + 1] = c
    BY ONLY <1>3, <1>4, <1>12, WithOneMore
  <2>2. \A i \in 1 .. Len(compilers) + 1 : i \in 1 .. Len(compilers) \/ i = Len(compilers) + 1
    BY <2>1
  <2> QED BY <1>4, <1>12, <2>1, <2>2, AnsweredOnes DEF TextsAnswered
<1> QED BY <1>3, <1>10, <1>11, <1>13, CallsPushed

LEMMA CallsEnterType ==
  ASSUME CompileInv, CompileInv', CallsInv, NEW n, EnterType(n)
  PROVE  CallsInv'
<1>1. /\ phase = "code" /\ phase' = "code" /\ UNCHANGED tables
      /\ Reached(n) /\ Kind(n) = "TypeDeclaration" /\ UNCHANGED <<outs, compilers>>
      /\ frames' = [frames EXCEPT ![Len(frames)].next = @ + 1]
      /\ post_body' = IF prog[n].form = "record"
                      THEN Append(post_body, [node |-> n, text |-> << >>]) ELSE post_body
  BY DEF EnterType, Reached
<1>2. /\ LetsAwait /\ TextsAnswered /\ MethodsStarted /\ MethodsBegin
      /\ n \in Nodes /\ post_body \in Seq(Methods)
  BY <1>1, CodeFacts, Here DEF CallsInv, TextsGood
<1>3. /\ \A i \in DOMAIN post_body' : /\ Answered(post_body'[i].text)
                                      /\ Kind(post_body'[i].node) = "FunctionDeclaration" =>
                                           BeginsWith(post_body'[i].text, post_body'[i].node)
      /\ \A f : Printed(f) => Printed(f)'
  <2>1. CASE prog[n].form = "record"
    <3>1. PICK m : m = [node |-> n, text |-> << >>]
      OBVIOUS
    <3>2. m \in Methods /\ m.node = n /\ m.text = << >> /\ Answered(m.text)
      BY <1>2, <3>1, AnsweredOnes DEF Methods, Text
    <3>3. post_body' = Append(post_body, m)
      BY <1>1, <2>1, <3>1
    <3>4. /\ DOMAIN post_body' = 1 .. Len(post_body) + 1
          /\ Len(post_body) \in Nat /\ DOMAIN post_body = 1 .. Len(post_body)
          /\ \A k \in 1 .. Len(post_body) : post_body'[k] = post_body[k]
          /\ post_body'[Len(post_body) + 1] = m
      BY ONLY <1>2, <3>2, <3>3, WithOneMore
    <3>5. \A i \in 1 .. Len(post_body) + 1 : i \in 1 .. Len(post_body) \/ i = Len(post_body) + 1
      BY <3>4
    <3>6. \A f : Printed(f) => Printed(f)'
      BY <3>4 DEF Printed
    <3> QED BY <1>1, <1>2, <3>2, <3>4, <3>5, <3>6 DEF TextsAnswered, MethodsBegin
  <2>2. CASE prog[n].form # "record"
    <3>1. post_body' = post_body
      BY <1>1, <2>2
    <3> QED BY <1>2, <3>1 DEF TextsAnswered, MethodsBegin, Printed
  <2> QED BY <2>1, <2>2
<1>4. AwaitedStay
  BY <1>1, <1>3, AwaitedPassed DEF AwaitedStay
<1>5. PICK N \in Nat \ {0} : N = Len(frames) /\ DOMAIN frames = 1 .. N
  <2>1. Len(frames) \in Nat \ {0} /\ DOMAIN frames = 1 .. Len(frames)
    BY <1>1, CodeFacts, StackFacts DEF OnPath
  <2> QED BY <2>1, Zenon
<1>6. /\ Len(frames') = N /\ DOMAIN frames' = 1 .. N
      /\ \A k \in 1 .. N : /\ frames'[k].node = frames[k].node
                           /\ frames'[k].kind = frames[k].kind
                           /\ MakesStream(k)' <=> MakesStream(k)
  BY <1>1, <1>5, PassedFrames
<1>7. LetsAwait'
  BY <1>1, <1>2, <1>4, <1>5, <1>6, LetsStay
<1>8. MethodsStarted'
  <2>1. HeadsKept(outs')
    BY <1>1 DEF HeadsKept
  <2>2. \A k \in 2 .. N : MakesStream(k)' <=> MakesStream(k)
    <3>1. \A k \in 2 .. N : k \in 1 .. N
      BY <1>5
    <3> QED BY <1>6, <3>1
  <2>3. N \in Nat /\ N <= Len(frames) /\ N <= Len(frames') /\ \A k \in DOMAIN frames' : ~ (k > N)
    BY <1>5, <1>6
  <2> QED BY <1>1, <1>2, <1>6, <2>1, <2>2, <2>3, StartedStay
<1>9. /\ \A i \in DOMAIN outs' : Answered(outs'[i])
      /\ \A i \in DOMAIN compilers' : Answered(compilers'[i].lvalue)
  BY <1>1, <1>2 DEF TextsAnswered
<1> QED BY <1>1, <1>3, <1>4, <1>7, <1>8, <1>9, StaysAnswered

-----------------------------------------------------------------------------
(* Returns leave what was printed for calls as it is.                      *)

LvaluesAnswered(cs) == \A i \in DOMAIN cs : Answered(cs[i].lvalue)
LvaluesKept(cs) ==
  /\ LvaluesAnswered(Restored(cs)) /\ LvaluesAnswered(Outer(cs))
  /\ Outer(cs) \in Seq(Compilers) /\ Len(Outer(cs)) = Len(cs) - 1
  /\ LvaluesAnswered([Restored(cs) EXCEPT ![Len(cs)].lvalue = << >>])

LEMMA LvalueSet ==
  ASSUME NEW cs \in Seq(Compilers), LvaluesAnswered(cs), NEW k, NEW t, Answered(t)
  PROVE  LvaluesAnswered([cs EXCEPT ![k].lvalue = t])
<1>1. PICK new : new = [cs EXCEPT ![k].lvalue = t]
  OBVIOUS
<1>2. DOMAIN new = DOMAIN cs /\ \A i \in DOMAIN cs : i # k => new[i] = cs[i]
  BY <1>1
<1>3. k \in DOMAIN cs => new[k].lvalue = t
  <2> SUFFICES ASSUME k \in DOMAIN cs PROVE new[k].lvalue = t
    OBVIOUS
  <2>1. cs[k] \in Compilers /\ new[k] = [cs[k] EXCEPT !.lvalue = t]
    BY <1>1
  <2> QED BY <2>1 DEF Compilers
<1> QED BY <1>1, <1>2, <1>3 DEF LvaluesAnswered

LEMMA LvaluesStay ==
  ASSUME CompileInv, phase = "code", NEW cs \in Seq(Compilers), cs # << >>, LvaluesAnswered(cs),
         Top.saved \in Nodes \cup {Null}
  PROVE  LvaluesKept(cs)
<1>1. PICK saved, r : saved = Top.saved /\ r = Restored(cs)
  OBVIOUS
<1>2. Len(cs) \in DOMAIN cs /\ saved \in Nodes \cup {Null}
  BY <1>1
<1>3. PICK last \in Compilers : last = cs[Len(cs)]
  BY <1>2
<1>4. PICK new : new = [last EXCEPT !.expr = saved]
  OBVIOUS
<1>5. new \in Compilers /\ new.lvalue = last.lvalue
  BY <1>2, <1>4 DEF Compilers
<1>6. r = [cs EXCEPT ![Len(cs)] = new]
  BY <1>1, <1>3, <1>4 DEF Restored
<1>7. /\ r \in Seq(Compilers) /\ Len(r) = Len(cs) /\ DOMAIN r = 1 .. Len(cs)
      /\ DOMAIN cs = 1 .. Len(cs)
      /\ \A k \in 1 .. Len(cs) : r[k] = IF k = Len(cs) THEN new ELSE cs[k]
  <2>1. cs \in Seq(Compilers)
    OBVIOUS
  <2> QED BY ONLY <1>2, <1>5, <1>6, <2>1, Replaced
<1>8. LvaluesAnswered(r)
  <2>1. \A k \in DOMAIN cs : r[k].lvalue = cs[k].lvalue
    <3>1. ASSUME NEW k \in DOMAIN cs, k = Len(cs) PROVE r[k].lvalue = cs[k].lvalue
      <4>1. r[k] = new /\ cs[k] = last
        BY <1>3, <1>7, <3>1, Zenon
      <4> QED BY ONLY <1>5, <4>1, Zenon
    <3>2. ASSUME NEW k \in DOMAIN cs, k # Len(cs) PROVE r[k].lvalue = cs[k].lvalue
      <4>1. r[k] = cs[k]
        BY <1>7, <3>2, Zenon
      <4> QED BY ONLY <4>1, Zenon
    <3> QED BY <3>1, <3>2, Zenon
  <2>2. DOMAIN r = DOMAIN cs
    BY <1>7, Zenon
  <2> QED BY <2>1, <2>2, Zenon DEF LvaluesAnswered
<1>9. LvaluesAnswered([r EXCEPT ![Len(cs)].lvalue = << >>])
  BY <1>7, <1>8, AnsweredOnes, LvalueSet
<1>10. PICK o : o = Outer(cs)
  OBVIOUS
<1>11. /\ o \in Seq(Compilers) /\ Len(o) = Len(cs) - 1 /\ DOMAIN o = 1 .. Len(cs) - 1
       /\ \A k \in 1 .. Len(cs) - 1 : o[k] = cs[k] /\ k \in DOMAIN cs
  <2>1. cs \in Seq(Compilers) /\ cs # << >>
    OBVIOUS
  <2> QED BY ONLY <1>10, <2>1, WithoutLast
<1>12. LvaluesAnswered(o)
  BY <1>11 DEF LvaluesAnswered
<1> QED BY <1>1, <1>8, <1>9, <1>10, <1>11, <1>12 DEF LvaluesKept

\* What every handler that returns finds.
LEMMA CallsReturning ==
  ASSUME CompileInv, CallsInv, NEW kinds, kinds \subseteq NodeKinds, Finished(kinds)
  PROVE  /\ phase = "code" /\ Top.kind \in kinds /\ Top.saved \in Nodes \cup {Null}
         /\ compilers \in Seq(Compilers) /\ compilers # << >>
         /\ LvaluesAnswered(compilers) /\ LvaluesKept(compilers) /\ Continues(outs)
<1>1. PICK N, L : N = Len(frames) /\ L = Len(compilers)
  OBVIOUS
<1>2. phase = "code" /\ Top.kind \in kinds /\ Top.saved \in Nodes \cup {Null}
  BY <1>1, ReturnFacts
<1>3. compilers \in Seq(Compilers) /\ compilers # << >>
  BY <1>2, CodeFacts
<1>4. LvaluesAnswered(compilers) /\ Continues(outs)
  BY <1>2, CallsFacts DEF LvaluesAnswered, Continues, HeadsKept
<1> QED BY <1>2, <1>3, <1>4, LvaluesStay

LEMMA CallsLeaveAssignment ==
  ASSUME CompileInv, CompileInv', CallsInv, LeaveAssignment
  PROVE  CallsInv'
<1>1. PICK kinds : kinds = {"Assignment"}
  OBVIOUS
<1>2. /\ Finished(kinds) /\ Pop /\ UNCHANGED <<outs, post_body>>
      /\ compilers' = [Restored(compilers) EXCEPT ![Len(compilers)].lvalue = << >>]
      /\ kinds \subseteq NodeKinds
  BY <1>1 DEF LeaveAssignment, NodeKinds, ExprKinds
<1>3. Top.kind \in kinds /\ Continues(outs) /\ LvaluesKept(compilers)
  BY <1>2, CallsReturning
<1>4. Continues(outs')
  BY <1>2, <1>3
<1>5. \A i \in DOMAIN compilers' : Answered(compilers'[i].lvalue)
  BY <1>2, <1>3 DEF LvaluesKept, LvaluesAnswered
<1>6. Top.kind # "FunctionDeclaration"
  BY <1>1, <1>3
<1> QED BY <1>2, <1>4, <1>5, <1>6, CallsPopped

LEMMA CallsLeaveVariable ==
  ASSUME CompileInv, CompileInv', CallsInv, LeaveVariable
  PROVE  CallsInv'
<1>1. PICK kinds : kinds = {"VariableDeclaration"}
  OBVIOUS
<1>2. /\ Finished(kinds) /\ Pop /\ UNCHANGED <<outs, post_body>>
      /\ compilers' = [compilers EXCEPT ![Len(compilers)].lvalue = << >>]
      /\ kinds \subseteq NodeKinds
  BY <1>1 DEF LeaveVariable, NodeKinds, DeclarationKinds
<1>3. /\ Top.kind \in kinds /\ Continues(outs) /\ LvaluesAnswered(compilers)
      /\ compilers \in Seq(Compilers)
  BY <1>2, CallsReturning
<1>4. Continues(outs')
  BY <1>2, <1>3
<1>5. LvaluesAnswered([compilers EXCEPT ![Len(compilers)].lvalue = << >>])
  BY <1>3, AnsweredOnes, LvalueSet
<1>6. \A i \in DOMAIN compilers' : Answered(compilers'[i].lvalue)
  BY <1>2, <1>5 DEF LvaluesAnswered
<1>7. Top.kind # "FunctionDeclaration"
  BY <1>1, <1>3
<1> QED BY <1>2, <1>4, <1>6, <1>7, CallsPopped

LEMMA CallsLeaveOther ==
  ASSUME CompileInv, CompileInv', CallsInv, LeaveOther
  PROVE  CallsInv'
<1>1. PICK kinds : kinds = NodeKinds \ ({"Let", "Assignment"} \cup DeclarationKinds)
  OBVIOUS
<1>2. /\ Finished(kinds) /\ Pop /\ UNCHANGED post_body
      /\ outs' = [outs EXCEPT ![Len(outs)] = @ \o Ending]
      /\ compilers' = Restored(compilers) /\ kinds \subseteq NodeKinds
  BY <1>1 DEF LeaveOther, Write
<1>3. phase = "code" /\ Top.kind \in kinds /\ LvaluesKept(compilers)
  BY <1>2, CallsReturning
<1>4. Continues(outs')
  BY <1>2, <1>3, CallsFacts, WritesOn
<1>5. \A i \in DOMAIN compilers' : Answered(compilers'[i].lvalue)
  BY <1>2, <1>3 DEF LvaluesKept, LvaluesAnswered
<1>6. Top.kind # "FunctionDeclaration"
  BY <1>1, <1>3 DEF DeclarationKinds
<1> QED BY <1>2, <1>4, <1>5, <1>6, CallsPopped

LEMMA CallsLeaveLet ==
  ASSUME CompileInv, CompileInv', CallsInv, LeaveLet
  PROVE  CallsInv'
<1>1. PICK kinds : kinds = {"Let"}
  OBVIOUS
<1>2. /\ Finished(kinds) /\ Pop /\ UNCHANGED post_body
      /\ outs' = [outs EXCEPT ![Len(outs)] = @ \o Ending]
      /\ compilers' = Restored(IF HasBody(Top.node) THEN Outer(compilers) ELSE compilers)
      /\ kinds \subseteq NodeKinds
  BY <1>1 DEF LeaveLet, Write, NodeKinds, ExprKinds
<1>3. /\ phase = "code" /\ Top.kind \in kinds /\ LvaluesKept(compilers)
      /\ Top.saved \in Nodes \cup {Null}
  BY <1>2, CallsReturning
<1>4. Continues(outs')
  BY <1>2, <1>3, CallsFacts, WritesOn
<1>5. LvaluesAnswered(compilers')
  <2>1. CASE ~ HasBody(Top.node)
    BY <1>2, <1>3, <2>1 DEF LvaluesKept
  <2>2. CASE HasBody(Top.node)
    <3>1. PICK N, L : N = Len(frames) /\ L = Len(compilers)
      OBVIOUS
    <3>2. MakesCompiler(N) <=> /\ Top.kind \in Scoping
                               /\ Top.kind = "Let" => HasBody(Top.node)
      BY <1>2, <3>1, ReturnFacts
    <3>3. MakesCompiler(N) \/ IsLeftSide => L > 1
      BY <1>2, <3>1, ReturnFacts
    <3>4. L > 1
      BY <1>1, <1>3, <2>2, <3>2, <3>3 DEF Scoping
    <3>5. PICK r : r = Outer(compilers)
      OBVIOUS
    <3>6. r \in Seq(Compilers) /\ r # << >> /\ LvaluesAnswered(r)
      BY <1>3, <3>1, <3>4, <3>5 DEF LvaluesKept
    <3>7. LvaluesKept(r)
      BY <1>3, <3>6, LvaluesStay
    <3> QED BY <1>2, <2>2, <3>5, <3>7 DEF LvaluesKept
  <2> QED BY <2>1, <2>2
<1>6. Top.kind # "FunctionDeclaration"
  BY <1>1, <1>3
<1> QED BY <1>2, <1>4, <1>5, <1>6, CallsPopped DEF LvaluesAnswered

LEMMA CallsLeaveFunction ==
  ASSUME CompileInv, CompileInv', CallsInv, LeaveFunction
  PROVE  CallsInv'
<1>1. PICK kinds : kinds = {"FunctionDeclaration"}
  OBVIOUS
<1>2. /\ Finished(kinds) /\ Pop /\ outs' = Outer(outs) /\ compilers' = Outer(compilers)
      /\ post_body' = Append(post_body, [node |-> Top.node, text |-> outs[Len(outs)]])
      /\ kinds \subseteq NodeKinds
  BY <1>1 DEF LeaveFunction, NodeKinds, DeclarationKinds
<1>3. /\ phase = "code" /\ Top.kind \in kinds /\ LvaluesKept(compilers) /\ Continues(outs)
  BY <1>2, CallsReturning
<1>4. Top.kind = "FunctionDeclaration"
  BY <1>1, <1>3
<1>5. Continues(outs')
  <2>1. outs \in Seq(Text) /\ outs # << >>
    BY <1>3, CallsFacts
  <2>2. PICK r : r = Outer(outs)
    OBVIOUS
  <2>3. /\ DOMAIN r = 1 .. Len(outs) - 1
        /\ \A k \in 1 .. Len(outs) - 1 : r[k] = outs[k] /\ k \in DOMAIN outs
    BY ONLY <2>1, <2>2, WithoutLast
  <2>4. Continues(r)
    BY <1>3, <2>3 DEF Continues, HeadsKept
  <2> QED BY <1>2, <2>2, <2>4
<1>6. \A i \in DOMAIN compilers' : Answered(compilers'[i].lvalue)
  BY <1>2, <1>3 DEF LvaluesKept, LvaluesAnswered
<1> QED BY <1>2, <1>4, <1>5, <1>6, CallsPopped

\* The text of a left side goes on in the stream around it, and becomes the
\* l-value.
LEMMA CallsLeaveLeftSide ==
  ASSUME CompileInv, CompileInv', CallsInv, LeaveLeftSide
  PROVE  CallsInv'
<1>1. PICK text : text = outs[Len(outs)]
  OBVIOUS
<1>2. PICK r, cs : r = Outer(outs) /\ cs = Outer(compilers)
  OBVIOUS
<1>3. /\ Finished(LValueKinds) /\ IsLeftSide /\ Pop /\ UNCHANGED post_body
      /\ outs' = [r EXCEPT ![Len(outs) - 1] = @ \o text]
      /\ compilers' = [cs EXCEPT ![Len(compilers) - 1].lvalue = text]
      /\ LValueKinds \subseteq NodeKinds
  BY <1>1, <1>2 DEF LeaveLeftSide, NodeKinds
<1>4. /\ phase = "code" /\ Top.kind \in LValueKinds
      /\ LvaluesKept(compilers) /\ Continues(outs)
  BY <1>3, CallsReturning
<1>5. Len(outs) > 1
  <2>1. PICK N, L : N = Len(frames) /\ L = Len(compilers)
    OBVIOUS
  <2> QED BY <1>3, <2>1, ReturnFacts
<1>6. /\ outs \in Seq(Text) /\ outs # << >>
  BY <1>4, CallsFacts
<1>7. text \in Text /\ Answered(text)
  BY <1>1, <1>4, <1>6 DEF Continues
<1>8. /\ r \in Seq(Text) /\ Len(r) = Len(outs) - 1 /\ DOMAIN r = 1 .. Len(outs) - 1
      /\ Len(outs) \in Nat \ {0}
      /\ \A k \in 1 .. Len(outs) - 1 : r[k] = outs[k] /\ k \in DOMAIN outs
  BY ONLY <1>2, <1>6, WithoutLast
<1>9. /\ r # << >> /\ \A i \in DOMAIN r : Answered(r[i])
  BY <1>4, <1>5, <1>8 DEF Continues
<1>10. AnsweredOn(r, WrittenOn(r, text))
  BY <1>7, <1>8, <1>9, StreamGoesOn, Zenon
<1>11. outs' = WrittenOn(r, text)
  BY <1>3, <1>8 DEF WrittenOn
<1>12. Continues(outs')
  <2>1. PICK new : new = WrittenOn(r, text)
    OBVIOUS
  <2>2. AnsweredOn(r, new) /\ outs' = new
    BY <1>10, <1>11, <2>1
  <2>3. /\ \A i \in DOMAIN new : Answered(new[i])
        /\ new \in Seq(Text) /\ Len(new) = Len(r)
        /\ \A i \in DOMAIN r : r[i] # << >> => new[i] # << >> /\ new[i][1] = r[i][1]
    BY <2>2 DEF AnsweredOn
  <2>4. DOMAIN new = DOMAIN r
    BY <1>8, <2>3
  <2>5. HeadsKept(new)
    BY <1>8, <2>3, <2>4 DEF HeadsKept
  <2> QED BY <2>2, <2>3, <2>5 DEF Continues
<1>13. \A i \in DOMAIN compilers' : Answered(compilers'[i].lvalue)
  <2>1. cs \in Seq(Compilers) /\ LvaluesAnswered(cs)
    BY <1>2, <1>4 DEF LvaluesKept
  <2>2. PICK k : k = Len(compilers) - 1
    OBVIOUS
  <2>3. LvaluesAnswered([cs EXCEPT ![k].lvalue = text])
    BY <1>7, <2>1, LvalueSet
  <2> QED BY <1>3, <2>2, <2>3 DEF LvaluesAnswered
<1>14. Top.kind # "FunctionDeclaration"
  BY <1>4 DEF LValueKinds
<1> QED BY <1>3, <1>12, <1>13, <1>14, CallsPopped

LEMMA CallsStartCode ==
  ASSUME CompileInv, StartCode
  PROVE  CallsInv'
<1>1. /\ phase = "classes" /\ UNCHANGED tables /\ post_body' = post_body
      /\ outs' = <<<<Object(Main, 1)>>>> /\ compilers' = <<Compiler(1, NoScope, Null)>>
      /\ frames' = <<Frame(Main, "main", FALSE, Null)>>
  BY DEF StartCode
<1>2. post_body = << >>
  BY <1>1 DEF CompileInv
<1>3. PICK f, c, text, a : /\ f = Frame(Main, "main", FALSE, Null)
                           /\ c = Compiler(1, NoScope, Null)
                           /\ a = Object(Main, 1) /\ text = <<a>>
  OBVIOUS
<1>4. f.kind = "main" /\ c.lvalue = << >> /\ a.item # "call"
  BY <1>3 DEF Frame, Compiler, Object, Item
<1>5. frames' = <<f>> /\ compilers' = <<c>> /\ outs' = <<text>>
  BY <1>1, <1>3
<1>6. LetsAwait'
  <2>1. \A k \in DOMAIN frames' : ~ OpensAt(k, {"Let"})'
    BY <1>4, <1>5 DEF OpensAt
  <2> QED BY <2>1 DEF LetsAwait
<1>7. \A i \in DOMAIN text : text[i].item # "call"
  BY <1>3, <1>4
<1>8. TextsAnswered'
  <2>1. \A i \in DOMAIN outs' : outs'[i] = text
    BY <1>5
  <2>2. \A i \in DOMAIN compilers' : compilers'[i].lvalue = << >>
    BY <1>4, <1>5
  <2>3. \A i \in DOMAIN post_body' : FALSE
    BY <1>1, <1>2
  <2> QED BY <1>7, <2>1, <2>2, <2>3 DEF TextsAnswered, Answered
<1>9. MethodsStarted'
  <2>1. \A k \in DOMAIN frames' : frames'[k].kind # "FunctionDeclaration"
    BY <1>4, <1>5
  <2> QED BY <2>1 DEF MethodsStarted
<1>10. MethodsBegin'
  BY <1>1, <1>2 DEF MethodsBegin
<1> QED BY <1>6, <1>8, <1>9, <1>10 DEF CallsInv

\* Nothing changes when main ends, and when the program stops.
LEMMA CallsStay ==
  ASSUME UNCHANGED tables, UNCHANGED <<outs, post_body, compilers, frames>>,
         LetsAwait, TextsAnswered, MethodsStarted, MethodsBegin
  PROVE  CallsInv'
<1>1. AwaitedStay
  <2>1. \A f : Printed(f)' <=> Printed(f)
    BY DEF Printed
  <2>2. /\ \A m : (HasBody(m)' <=> HasBody(m)) /\ Kind(m)' = Kind(m)
        /\ \A m, j : Kid(m, j)' = Kid(m, j)
        /\ prog' = prog /\ frames' = frames
    BY TablesStay DEF tables
  <2>3. \A k : OpensAt(k, {"Let"})' <=> OpensAt(k, {"Let"})
    BY <2>2 DEF OpensAt
  <2>4. \A f, k : Pending(f, k)' <=> Pending(f, k)
    BY <2>2, <2>3 DEF Pending, Kid
  <2> QED BY <2>1, <2>2, <2>4 DEF AwaitedStay, Awaited
<1>2. LetsAwait'
  BY <1>1, LetsStay
<1>3. MethodsStarted'
  <2>1. \A k : OnLeftSideAt(k)' <=> OnLeftSideAt(k)
    BY DEF OnLeftSideAt
  <2>2. \A k : MakesCompiler(k)' <=> MakesCompiler(k)
    <3>1. \A m : HasBody(m)' <=> HasBody(m)
      BY TablesStay
    <3>2. \A k : OpensAt(k, Scoping)' <=> OpensAt(k, Scoping)
      BY <3>1 DEF OpensAt
    <3> QED BY <2>1, <3>2 DEF MakesCompiler
  <2>3. \A k : MakesStream(k)' <=> MakesStream(k)
    BY <2>1 DEF MakesStream
  <2>4. ASSUME NEW using, NEW writing, Counts(using, writing)'
        PROVE  Counts(using, writing)
    BY <2>2, <2>3, <2>4 DEF Counts
  <2>5. \A t, f : BeginsWith(t, f)' <=> BeginsWith(t, f)
    BY MethodsStay
  <2>6. ASSUME NEW using, NEW writing, Counts(using, writing)', NEW k \in DOMAIN frames',
               frames'[k].kind = "FunctionDeclaration"
        PROVE  BeginsWith(outs[writing[k]], frames[k].node)
    BY <2>4, <2>6 DEF MethodsStarted
  <2>7. PICK os, fs : os = outs /\ fs = frames
    OBVIOUS
  <2>8. ASSUME NEW using, NEW writing, Counts(using, writing)', NEW k \in DOMAIN frames',
               frames'[k].kind = "FunctionDeclaration"
        PROVE  BeginsWith(outs[writing[k]], frames[k].node)'
    <3>1. BeginsWith(os[writing[k]], fs[k].node)'
      BY <2>5, <2>6, <2>7, <2>8
    <3>2. os = outs' /\ fs = frames'
      BY <2>7
    <3> QED BY <3>1, <3>2
  <2> QED BY <2>8 DEF MethodsStarted
<1>4. /\ \A i \in DOMAIN outs' : Answered(outs'[i])
      /\ \A i \in DOMAIN compilers' : Answered(compilers'[i].lvalue)
      /\ \A i \in DOMAIN post_body' : /\ Answered(post_body'[i].text)
                                      /\ Kind(post_body'[i].node) = "FunctionDeclaration" =>
                                           BeginsWith(post_body'[i].text, post_body'[i].node)
  BY DEF TextsAnswered, MethodsBegin
<1> QED BY <1>1, <1>2, <1>3, <1>4, StaysAnswered

LEMMA StepCalls ==
  ASSUME CompileInv, CompileInv', CallsInv, [Next]_vars
  PROVE  CallsInv'
<1>1. CASE Build
  <2>1. phase' = phase /\ phase = "table"
    <3>1. Table!LookupInv
      BY DEF CompileInv
    <3> QED BY <1>1, <3>1, BuildEnds DEF CompileInv, Build
  <2> QED BY <2>1 DEF CallsInv
<1>2. CASE PrintClasses
  BY <1>2 DEF PrintClasses, CallsInv
<1>3. CASE StartCode
  BY <1>3, CallsStartCode
<1>4. CASE EndMain
  <2>1. /\ phase = "code" /\ UNCHANGED tables
        /\ UNCHANGED <<outs, post_body, compilers, frames>>
    BY <1>4 DEF EndMain, Finished
  <2>2. LetsAwait /\ TextsAnswered /\ MethodsStarted /\ MethodsBegin
    BY <2>1 DEF CallsInv
  <2> QED BY <2>1, <2>2, CallsStay
<1>5. CASE Leave
  BY <1>5, CallsLeaveLeftSide, CallsLeaveAssignment, CallsLeaveVariable, CallsLeaveFunction,
     CallsLeaveLet, CallsLeaveOther DEF Leave
<1>6. ASSUME NEW n \in Nodes, PrintClass(n) \/ Enter(n) PROVE CallsInv'
  <2>1. CASE PrintClass(n)
    BY <2>1 DEF PrintClass, NextClass, CallsInv
  <2>2. CASE EnterOther(n) \/ EnterLet(n) \/ EnterFunction(n)
    BY <2>2, CallsEnterOther, CallsEnterLet, CallsEnterFunction
  <2>3. CASE EnterVariable(n) \/ EnterType(n) \/ EnterAssignment(n)
    BY <2>3, CallsEnterVariable, CallsEnterType, CallsEnterAssignment
  <2> QED BY <1>6, <2>1, <2>2, <2>3 DEF Enter
<1>7. CASE UNCHANGED vars
  <2>1. /\ UNCHANGED tables /\ phase' = phase
        /\ UNCHANGED <<outs, post_body, compilers, frames>>
    BY <1>7 DEF vars
  <2>2. CASE phase \in {"code", "compiled"}
    <3>1. LetsAwait /\ TextsAnswered /\ MethodsStarted /\ MethodsBegin
      BY <2>2 DEF CallsInv
    <3> QED BY <2>1, <3>1, CallsStay
  <2>3. CASE phase \notin {"code", "compiled"}
    BY <2>1, <2>3 DEF CallsInv
  <2> QED BY <2>2, <2>3
<1> QED BY <1>1, <1>2, <1>3, <1>4, <1>5, <1>6, <1>7 DEF Next, CompileStep, Stop

LEMMA AlwaysCallsInv == Spec => []CallsInv
<1>1. Init => CallsInv
  BY DEF Init, CallsInv
<1>2. CompileInv /\ CompileInv' /\ CallsInv /\ [Next]_vars => CallsInv'
  BY StepCalls
<1> QED BY <1>1, <1>2, AlwaysCompileInv, PTL DEF Spec

\* The methods of a name whose first parameter has the class of scope s.
MethodsOf(x, s) ==
  {post_body[k].node : k \in {j \in DOMAIN post_body :
     LET m == post_body[j] IN
     /\ Kind(m.node) = "FunctionDeclaration" /\ prog[m.node].id = x
     /\ m.text[1] = Item("param", m.node, s, 0)}}

\* A method's first parameter has the class of the scope around its function.
LEMMA MethodsTakeTheirScope ==
  ASSUME CompileInv, CallsInv, Compiled, NEW k \in DOMAIN post_body,
         Kind(post_body[k].node) = "FunctionDeclaration", NEW s
  PROVE  /\ post_body[k].node \in Openers
         /\ post_body[k].text[1] = Item("param", post_body[k].node, s, 0) <=>
              s = ScopeOpenedBy(Binder(post_body[k].node))
<1>1. PICK f : f = post_body[k].node
  OBVIOUS
<1>2. Table!LookupInv /\ St!Built
  BY FinishedGood
<1>3. f \in Nodes /\ Kind(f) = "FunctionDeclaration"
  <2>1. post_body \in Seq(Methods)
    BY DEF CompileInv, Compiled, TextsGood
  <2>2. post_body[k] \in Methods
    BY <2>1
  <2> QED BY <1>1, <2>2 DEF Methods
<1>4. f \in Openers
  BY <1>3 DEF Openers, Opener
<1>5. scopes[FnScope(f)].parent = ScopeOpenedBy(Binder(f))
  BY <1>2, <1>3, <1>4, BodyScopes, BuiltScopes
<1>6. post_body[k].text[1] = Item("param", f, ScopeOpenedBy(Binder(f)), 0)
  BY <1>1, <1>3, <1>5 DEF CallsInv, Compiled, MethodsBegin, BeginsWith, MethodItem
<1>7. \A a : Item("param", f, a, 0) = Item("param", f, s, 0) <=> a = s
  BY DEF Item
<1> QED BY <1>1, <1>4, <1>6, <1>7

LEMMA InvFindsMethods == CompileInv /\ CallsInv => CallsFindMethods
<1> SUFFICES ASSUME CompileInv, CallsInv, Compiled, NEW t \in Texts, NEW i \in DOMAIN t,
                    t[i].item = "call", t[i].scope # NoScope,
                    NEW n, n = t[i].node
             PROVE  MethodsOf(prog[n].id, Reach(t[i])) =
                      St!FunctionsOf(Binder(Meant(n)), prog[n].id)
  BY DEF CallsFindMethods, MethodsOf
<1>1. PICK x, s, b : x = prog[n].id /\ s = Reach(t[i]) /\ b = Binder(Meant(n))
  OBVIOUS
<1>2. TextsAnswered /\ MethodsBegin
  BY DEF CallsInv, Compiled
<1>3. /\ Table!LookupInv /\ St!Built /\ prog \in Programs /\ AtWork
      /\ GoodItem(t[i])
  <2>1. Table!LookupInv /\ St!Built /\ GoodItem(t[i])
    BY FinishedGood
  <2> QED BY <2>1, ScopesTyped DEF CompileInv, Compiled
<1>4. Answered(t)
  <2>1. 1 \in DOMAIN outs
    <3>1. PICK using, writing : Counts(using, writing)
      BY <1>3 DEF AtWork
    <3>2. OnPath /\ outs \in Seq(Text)
      BY <1>3 DEF AtWork, CompileInv, Compiled, TextsGood
    <3>3. Len(outs) \in Nat /\ Len(outs) >= 1
      BY <1>3, <3>1, <3>2, CountsFacts
    <3> QED BY <3>2, <3>3
  <2> QED BY <1>2, <2>1 DEF Texts, TextsAnswered
<1>5. Meant(n) \in Openers /\ \A f \in St!FunctionsOf(b, x) : Awaited(f)
  BY <1>1, <1>4 DEF Answered, Settled, Overloads
<1>6. s = ScopeOpenedBy(b) /\ b \in Openers \cup {0}
  <2>1. s = ScopeOpenedBy(b)
    BY <1>1, <1>3 DEF GoodItem, Home
  <2> QED BY <1>1, <1>3, <1>5, <2>1, BuiltScopes
<1>7. ASSUME NEW f \in MethodsOf(x, s) PROVE f \in St!FunctionsOf(b, x)
  <2>1. PICK k \in DOMAIN post_body :
          /\ f = post_body[k].node /\ Kind(f) = "FunctionDeclaration" /\ prog[f].id = x
          /\ post_body[k].text[1] = Item("param", f, s, 0)
    BY DEF MethodsOf
  <2>2. f \in Openers /\ s = ScopeOpenedBy(Binder(f))
    BY <2>1, MethodsTakeTheirScope
  <2>3. Binder(f) \in Openers \cup {0}
    BY <1>3, <2>2, BuiltScopes
  <2>4. Binder(f) = b
    BY <1>3, <1>6, <2>2, <2>3, BuiltScopes
  <2>5. f \in Nodes
    BY <2>2 DEF Openers
  <2>6. St!FunctionsOf(b, x) =
          {m \in Nodes : Kind(m) = "FunctionDeclaration" /\ Binder(m) = b /\ prog[m].id = x}
    BY Zenon DEF St!FunctionsOf, St!Nodes, St!NodesOf, St!Kind, St!Binder, Nodes, NodesOf, Kind,
                 Binder
  <2> QED BY <2>1, <2>4, <2>5, <2>6, Zenon
<1>8. ASSUME NEW f \in St!FunctionsOf(b, x) PROVE f \in MethodsOf(x, s)
  <2>1. f \in Nodes /\ Kind(f) = "FunctionDeclaration" /\ Binder(f) = b /\ prog[f].id = x
    BY <1>3, FunctionsDeclared
  <2>2. Printed(f)
    <3>1. Awaited(f)
      BY <1>5
    <3>2. /\ Len(frames) = 1 /\ DOMAIN frames = {1} /\ frames[1].kind = "main"
          /\ frames[1].node = Main
      <4>1. Len(frames) = 1 /\ OnPath
        BY <1>3 DEF CompileInv, Compiled, AtWork
      <4>2. frames[1].kind = "main" /\ frames[1].node = Main
        BY <4>1 DEF OnPath
      <4>3. DOMAIN frames = 1 .. 1
        BY <1>3, <4>1, StackFacts
      <4>4. 1 .. 1 = {1}
        OBVIOUS
      <4> QED BY <4>1, <4>2, <4>3, <4>4
    <3>3. f # Main
      BY <2>1, <1>3, NodeFacts DEF Main
    <3>4. \A k \in DOMAIN frames : ~ OpensAt(k, {"Let"})
      BY <3>2 DEF OpensAt
    <3> QED BY <3>1, <3>2, <3>3, <3>4 DEF Awaited, Pending
  <2>3. PICK k \in DOMAIN post_body : post_body[k].node = f
    BY <2>2 DEF Printed
  <2>4. post_body[k].text[1] = Item("param", f, s, 0)
    BY <1>6, <2>1, <2>3, MethodsTakeTheirScope
  <2> QED BY <2>1, <2>3, <2>4 DEF MethodsOf
<1>9. MethodsOf(x, s) = St!FunctionsOf(b, x)
  BY <1>7, <1>8, Zenon
<1> QED BY <1>1, <1>9, Zenon

\* Methods are found by their name and the class of their first parameter: a
\* call of a declared function meets the methods of its own Let, and those
\* alone, though the methods of all functions are printed side by side after
\* main (Compiler's Compile(FunctionDeclaration) and Compile(FunctionCall)).
THEOREM CallsFindTheirMethods == Spec => []CallsFindMethods
BY AlwaysCompileInv, AlwaysCallsInv, InvFindsMethods, PTL

=============================================================================
