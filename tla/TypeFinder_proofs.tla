------------------------- MODULE TypeFinder_proofs -------------------------
(***************************************************************************)
(* Proofs about module TypeFinder, for every set of typed trees, every     *)
(* stack and any number of queries.                                        *)
(*                                                                         *)
(* What the type finder is told by the symbol table comes from the         *)
(* invariant of module LookupsLexical_proofs, carried over in part one.    *)
(* Part two is about the tree, part three about the call stack. Then come  *)
(* the inductive invariant, FinderInv, what each action does to it, and    *)
(* the theorems; last, why the stack overflows on cycles only, and why     *)
(* there is an error for what has no type.                                 *)
(***************************************************************************)
EXTENDS TypeFinder, FiniteSetTheorems, TLAPS

Table == INSTANCE LookupsLexical_proofs

-----------------------------------------------------------------------------
(* The symbol table.                                                       *)

LEMMA TreesOnly == \A p \in Programs : Table!IsProgram(p)
<1>1. \A p : IsTree(p) <=> Table!IsTree(p)
  BY Zenon DEF IsTree, NodesOf, Opens, ParamsOf, Below, Table!IsTree,
               Table!NodesOf, Table!Opens, Table!ParamsOf, Table!Below
<1>3. \A p : IsShaped(p) <=> Table!IsShaped(p)
  BY Zenon DEF IsShaped, NodesOf, ParamsOf, Vectors, ExprKinds, DeclarationKinds,
               LValueKinds, Children, Childless, Table!IsShaped, Table!NodesOf,
               Table!ParamsOf, Table!Vectors, Table!ExprKinds,
               Table!DeclarationKinds, Table!LValueKinds, Table!Children,
               Table!Childless
<1>4. \A p : Node(p) = Table!Node(p)
  BY Zenon DEF Node, NodesOf, NodeKinds, ExprKinds, LValueKinds, DeclarationKinds, Forms,
               Table!Node, Table!NodesOf, Table!NodeKinds, Table!ExprKinds,
               Table!LValueKinds, Table!DeclarationKinds, Table!Forms
<1> QED BY <1>1, <1>3, <1>4, ProgramsAssumption, Zenon
        DEF IsProgram, ExprKinds, Table!IsProgram, Table!ExprKinds

LEMMA SameInit == St!Init <=> Table!Init
BY DEF St!Init, St!EmptyScope, St!NoNames, St!Nodes, St!NodesOf, St!NoScope, St!Null,
       Table!Init, Table!EmptyScope, Table!NoNames, Table!Nodes, Table!NodesOf,
       Table!NoScope, Table!Null

LEMMA SameReturn == St!LeaveScope \/ St!LeaveOther <=> Table!LeaveScope \/ Table!LeaveOther
BY DEF St!LeaveScope, St!LeaveOther, St!Return, St!HasNext, St!Top, St!Opens,
       Table!LeaveScope, Table!LeaveOther, Table!Return, Table!HasNext, Table!Top,
       Table!Opens
LEMMA SameScopes ==
  ASSUME NEW n
  PROVE  St!LetScope(n) = Table!LetScope(n) /\ St!FunctionScope(n) = Table!FunctionScope(n)
BY Zenon DEF St!LetScope, St!FunctionScope, St!EmptyScope, St!NoNames, St!Named, St!LastOf,
       St!RangeOf, St!Kind, St!Null, Table!LetScope, Table!FunctionScope,
       Table!EmptyScope, Table!NoNames, Table!Named, Table!LastOf, Table!RangeOf,
       Table!Kind, Table!Null

LEMMA SameEnter ==
  ASSUME NEW n
  PROVE  /\ St!Enter(n) <=> Table!Enter(n)
         /\ St!RecordScope(n) <=> Table!RecordScope(n)
         /\ St!StoreVariable(n) <=> Table!StoreVariable(n)
         /\ St!Visited(n) <=> Table!Visited(n)
BY Zenon DEF St!Enter, St!Frame, St!RecordScope, St!IsExpr, St!Kind, St!ExprKinds,
       St!StoreVariable, St!Visited, St!HasNext, St!Top, Table!Enter, Table!Frame,
       Table!RecordScope, Table!IsExpr, Table!Kind, Table!ExprKinds,
       Table!StoreVariable, Table!Visited, Table!HasNext, Table!Top

LEMMA SameVisit == ASSUME NEW n PROVE St!Visit(n) <=> Table!Visit(n)
BY SameScopes, SameEnter, Zenon
   DEF St!Visit, St!VisitLet, St!VisitFunctionDeclaration, St!VisitVariableDeclaration,
       St!VisitTypeDeclaration, St!VisitFor, St!VisitOther, St!Kind, St!Open,
       St!DeclarationKinds, Table!Visit, Table!VisitLet,
       Table!VisitFunctionDeclaration, Table!VisitVariableDeclaration,
       Table!VisitTypeDeclaration, Table!VisitFor, Table!VisitOther, Table!Kind,
       Table!Open, Table!DeclarationKinds

LEMMA TableInit == St!Init => Table!LookupInv
BY SameInit, TreesOnly, Table!InitLookup, Zenon

LEMMA TableStep == Table!LookupInv /\ St!BuildStep => Table!LookupInv'
<1>1. St!BuildStep <=> Table!BuildStep
  BY SameReturn, SameVisit, Zenon
     DEF St!BuildStep, Table!BuildStep, St!Nodes, Table!Nodes, St!NodesOf, Table!NodesOf
<1> QED BY <1>1, TreesOnly, Table!StepLookup, Zenon DEF Table!Next

LEMMA TableStays == Table!LookupInv /\ UNCHANGED tables => Table!LookupInv'
BY TreesOnly, Table!StepLookup, Zenon DEF tables, Table!vars

\* What the queries rely on.
LEMMA Lookups ==
  ASSUME Table!LookupInv, St!Built, NEW e \in Exprs, NEW x \in Identifiers
  PROVE  /\ lookupFunction(e, x) # Null =>
              /\ lookupFunction(e, x) \in Nodes
              /\ Kind(lookupFunction(e, x)) = "FunctionDeclaration"
         /\ lookupType(e, x) # Null =>
              /\ lookupType(e, x) \in Nodes
              /\ Kind(lookupType(e, x)) = "TypeDeclaration"
         /\ lookupStorageLocation(e, x) # Null =>
              /\ lookupStorageLocation(e, x) \in Nodes
              /\ Kind(lookupStorageLocation(e, x))
                   \in {"VariableDeclaration", "For", "TypeField"}
<1>1. /\ lookupFunction(e, x) = Table!lookupFunction(e, x)
      /\ lookupType(e, x) = Table!lookupType(e, x)
      /\ lookupStorageLocation(e, x) = Table!lookupStorageLocation(e, x)
  BY Zenon DEF lookupFunction, lookupType, lookupStorageLocation, FirstScope,
         NoScope, Null, Table!lookupFunction, Table!lookupType,
         Table!lookupStorageLocation, Table!FirstScope, Table!NoScope, Table!Null
<1>2. Table!Built /\ e \in Table!Exprs
  BY DEF St!Built, Table!Built, Exprs, IsExpr, Kind, Nodes, NodesOf, ExprKinds,
         Table!Exprs, Table!IsExpr, Table!Kind, Table!Nodes, Table!NodesOf,
         Table!ExprKinds
<1> QED BY <1>1, <1>2, TreesOnly, Table!LookupsFindDeclarations
        DEF Null, Kind, Nodes, NodesOf, Table!Null, Table!Kind, Table!Nodes,
            Table!NodesOf

\* Asked again in the words of this module for the clients': the only
\* declaration of a name beside a use is what it means.
LEMMA OnlyDeclarationFound ==
  ASSUME Table!LookupInv, St!Built, NEW e \in Exprs \ {1}, NEW x \in Identifiers,
         NEW d \in Nodes, St!StorageOf(prog[e].binder, x) = {d}
  PROVE  lookupStorageLocation(e, x) = d
<1>1. lookupStorageLocation(e, x) = Table!lookupStorageLocation(e, x)
  BY Zenon DEF lookupStorageLocation, FirstScope, NoScope, Null,
         Table!lookupStorageLocation, Table!FirstScope, Table!NoScope, Table!Null
<1>2. Table!Built /\ e \in Table!Exprs \ {1} /\ d \in Table!Nodes
  BY DEF St!Built, Table!Built, Exprs, IsExpr, Kind, Nodes, NodesOf, ExprKinds,
         Table!Exprs, Table!IsExpr, Table!Kind, Table!Nodes, Table!NodesOf,
         Table!ExprKinds
<1>3. Table!StorageOf(Table!Binder(e), x) = St!StorageOf(prog[e].binder, x)
  BY Zenon DEF St!StorageOf, St!Nodes, St!NodesOf, St!Kind, St!Binder, St!RangeOf,
         Table!StorageOf, Table!Nodes, Table!NodesOf, Table!Kind, Table!Binder,
         Table!RangeOf
<1> QED BY <1>1, <1>2, <1>3, TreesOnly, Table!OnlyDeclarationFound

\* ... so it is with what lookups see of the types around a use, ...
LEMMA TypesAround ==
  ASSUME Table!LookupInv, St!Built, NEW e \in Exprs \ {1}, NEW x \in Identifiers
  PROVE  /\ lookupType(e, x) # Null =>
              /\ prog[lookupType(e, x)].id = x
              /\ \A y : Table!NamedWithin(lookupType(e, x), y) => Table!Sees(e, y)
         /\ Table!Sees(e, x) /\ lookupType(e, x) = Null =>
              ~ \E t \in Nodes : Kind(t) = "TypeDeclaration" /\ prog[t].id = x
<1>1. lookupType(e, x) = Table!lookupType(e, x) /\ Null = Table!Null
  BY Zenon DEF lookupType, FirstScope, NoScope, Null,
         Table!lookupType, Table!FirstScope, Table!NoScope, Table!Null
<1>2. Table!Built /\ e \in Table!Exprs \ {1} /\ prog \in Programs
  BY DEF St!Built, Table!Built, Exprs, IsExpr, Kind, Nodes, NodesOf, ExprKinds,
         Table!Exprs, Table!IsExpr, Table!Kind, Table!Nodes, Table!NodesOf,
         Table!ExprKinds, Table!LookupInv, Table!CompleteInv, Table!LexicalInv,
         Table!TypeInv
<1>3. /\ Table!lookupType(e, x) # Table!Null =>
           Table!FoundAround(e, Table!lookupType(e, x), "TypeDeclaration", x)
      /\ \A d \in Table!Nodes :
           /\ Table!Kind(d) = "TypeDeclaration" /\ prog[d].id = x
           /\ Table!Below(prog, e, Table!Binder(d)) /\ e # Table!Binder(d)
           => Table!lookupType(e, x) # Table!Null
  BY <1>2, TreesOnly, Table!TypeFoundAround
<1>4. ASSUME lookupType(e, x) # Null
      PROVE  /\ prog[lookupType(e, x)].id = x
             /\ \A y : Table!NamedWithin(lookupType(e, x), y) => Table!Sees(e, y)
  <2>1. PICK d : d = lookupType(e, x) /\ Table!FoundAround(e, d, "TypeDeclaration", x)
    BY <1>1, <1>3, <1>4
  <2>2. prog[d].id = x
    BY <2>1 DEF Table!FoundAround
  <2>3. "TypeDeclaration" \in Table!DeclarationKinds
    BY DEF Table!DeclarationKinds
  <2>4. \A y : Table!NamedWithin(d, y) => Table!Sees(e, y)
    BY <1>2, <2>1, <2>3, TreesOnly, Table!SeesAsFound
  <2> QED BY <2>1, <2>2, <2>4
<1>5. ASSUME Table!Sees(e, x), lookupType(e, x) = Null, NEW t \in Nodes,
             Kind(t) = "TypeDeclaration", prog[t].id = x
      PROVE  FALSE
  <2>1. t \in Table!Nodes /\ Table!Kind(t) = "TypeDeclaration"
    BY <1>5, Zenon DEF Nodes, NodesOf, Kind, Table!Nodes, Table!NodesOf, Table!Kind
  <2> QED BY <1>1, <1>3, <1>5, <2>1, Zenon DEF Table!Sees
<1> QED BY <1>4, <1>5

\* ... of those of the function a call means, ...
LEMMA ParametersAround ==
  ASSUME Table!LookupInv, St!Built, NEW e \in Exprs, NEW x \in Identifiers,
         lookupFunction(e, x) # Null,
         NEW p \in ParamsOf(prog, lookupFunction(e, x)), NEW y, Table!NamedWithin(p, y)
  PROVE  e # 1 /\ Table!Sees(e, y) /\ Table!Sees(Kid(lookupFunction(e, x), 1), y)
<1>1. PICK f : f = lookupFunction(e, x)
  OBVIOUS
<1>2. f = Table!lookupFunction(e, x) /\ f # Table!Null
  BY <1>1, Zenon DEF lookupFunction, FirstScope, NoScope, Null,
         Table!lookupFunction, Table!FirstScope, Table!NoScope, Table!Null
<1>3. Table!Built /\ e \in Table!Exprs /\ prog \in Programs
  BY DEF St!Built, Table!Built, Exprs, IsExpr, Kind, Nodes, NodesOf, ExprKinds,
         Table!Exprs, Table!IsExpr, Table!Kind, Table!Nodes, Table!NodesOf,
         Table!ExprKinds, Table!LookupInv, Table!CompleteInv, Table!LexicalInv,
         Table!TypeInv
<1>4. Table!FoundAround(e, f, "FunctionDeclaration", x)
  BY <1>2, <1>3, TreesOnly, Table!FunctionFoundAround
<1>5. /\ f \in Table!Nodes /\ Table!Kind(f) = "FunctionDeclaration"
      /\ e # 1
  BY <1>4 DEF Table!FoundAround
<1>6. p \in Table!ParamsOf(prog, f)
  BY <1>1, Zenon DEF ParamsOf, Table!ParamsOf
<1>7. Table!NamedWithin(f, y)
  BY <1>3, <1>5, <1>6, TreesOnly, Table!FunctionNamesToo
<1>8. "FunctionDeclaration" \in Table!DeclarationKinds
  BY DEF Table!DeclarationKinds
<1>9. Table!Sees(e, y)
  BY <1>3, <1>4, <1>7, <1>8, TreesOnly, Table!SeesAsFound
<1>10. Table!Sees(Table!Kids(f)[1], y)
  BY <1>3, <1>5, <1>7, TreesOnly, Table!SeesAsNamed
<1>11. Table!Kids(f)[1] = Kid(f, 1)
  BY Zenon DEF Table!Kids, Kid
<1> QED BY <1>1, <1>5, <1>9, <1>10, <1>11

\* ... and of a variable's.
LEMMA VariablesAround ==
  ASSUME prog \in Programs, NEW v \in Nodes, Kind(v) = "VariableDeclaration",
         NEW y, Table!NamedWithin(v, y)
  PROVE  Table!Sees(Kid(v, 1), y)
<1>1. v \in Table!Nodes /\ Table!Kind(v) = "VariableDeclaration"
  BY Zenon DEF Nodes, NodesOf, Kind, Table!Nodes, Table!NodesOf, Table!Kind
<1>2. Table!Sees(Table!Kids(v)[1], y)
  BY <1>1, TreesOnly, Table!SeesAsNamed
<1> QED BY <1>2, Zenon DEF Table!Kids, Kid

-----------------------------------------------------------------------------
(* The tree.                                                               *)

LEMMA ProgIsTree == Table!LookupInv => prog \in Programs
BY DEF Table!LookupInv, Table!CompleteInv, Table!LexicalInv, Table!TypeInv

LEMMA NodeFacts ==
  ASSUME prog \in Programs, NEW n \in Nodes
  PROVE  /\ Len(prog) \in Nat /\ Nodes = 1 .. Len(prog) /\ n # Null
         /\ prog[n].id \in Identifiers
         /\ prog[n].type \in Identifiers \cup {NoType}
         /\ prog[n].kids \in Seq(Nodes)
         /\ prog[n].params \in Seq(Nodes)
<1>1. prog \in Seq(Node(prog))
  BY ProgramsAssumption DEF IsProgram
<1>2. n \in 1 .. Len(prog) /\ Nodes = 1 .. Len(prog)
  BY DEF Nodes, NodesOf
<1>3. prog[n] \in Node(prog) /\ Len(prog) \in Nat
  BY <1>1, <1>2
<1> QED BY <1>2, <1>3 DEF Node, NodesOf, Null

\* Kinds with a type of their own name it.
LEMMA TypedNodes ==
  ASSUME prog \in Programs, NEW n \in Nodes,
         \/ Kind(n) \in {"RecordLiteral", "ArrayLiteral", "TypeField"}
         \/ Kind(n) = "TypeDeclaration" /\ prog[n].form \in {"alias", "array"}
  PROVE  prog[n].type \in Identifiers
<1>1. prog[n].type # NoType
  BY ProgramsAssumption DEF IsTyped, Kind, Nodes
<1> QED BY <1>1, NodeFacts

\* The sorts of the children the type finder goes to.
LEMMA KidSorts ==
  ASSUME prog \in Programs, NEW n \in Nodes
  PROVE  /\ HasBody(n) => LastKid(n) \in Exprs
         /\ Kind(n) \in {"Binary", "VariableDeclaration", "FunctionDeclaration"} =>
              Kid(n, 1) \in Exprs
         /\ Kind(n) = "IfThenElse" => Kid(n, 2) \in Exprs
         /\ Kind(n) \in {"LValue", "RecordField", "ArrayElement", "Assignment"} =>
              Kid(n, 1) \in Nodes /\ Kind(Kid(n, 1)) \in LValueKinds
<1>1. IsShaped(prog) /\ Nodes = NodesOf(prog)
  BY ProgramsAssumption DEF IsProgram, Nodes
<1>2. \A j \in DOMAIN prog[n].kids : Kid(n, j) \in Nodes
  BY NodeFacts DEF Kid
<1>3. ASSUME HasBody(n) PROVE LastKid(n) \in Exprs
  <2>1. Len(prog[n].kids) \in DOMAIN prog[n].kids
    BY <1>3, NodeFacts DEF HasBody
  <2> QED BY <1>2, <1>3, <2>1 DEF HasBody, LastKid, Exprs, IsExpr
<1>4. Kind(n) \notin Vectors =>
        /\ DOMAIN prog[n].kids = DOMAIN Children(Kind(n))
        /\ \A j \in DOMAIN prog[n].kids : Kind(Kid(n, j)) \in Children(Kind(n))[j]
  BY <1>1 DEF IsShaped, Kind, Kid
<1>5. ASSUME Kind(n) \in {"Binary", "VariableDeclaration", "FunctionDeclaration"}
      PROVE  Kid(n, 1) \in Exprs
  <2>1. Kind(n) \notin Vectors
    BY <1>5 DEF Vectors
  <2>2. 1 \in DOMAIN Children(Kind(n)) /\ Children(Kind(n))[1] = ExprKinds
    BY <1>5 DEF Children, Childless
  <2> QED BY <1>2, <1>4, <2>1, <2>2 DEF Exprs, IsExpr
<1>6. ASSUME Kind(n) = "IfThenElse" PROVE Kid(n, 2) \in Exprs
  <2>1. Kind(n) \notin Vectors
    BY <1>6 DEF Vectors
  <2>2. 2 \in DOMAIN Children(Kind(n)) /\ Children(Kind(n))[2] = ExprKinds
    BY <1>6 DEF Children, Childless
  <2> QED BY <1>2, <1>4, <2>1, <2>2 DEF Exprs, IsExpr
<1>7. ASSUME Kind(n) \in {"LValue", "RecordField", "ArrayElement", "Assignment"}
      PROVE  Kid(n, 1) \in Nodes /\ Kind(Kid(n, 1)) \in LValueKinds
  <2>1. Kind(n) \notin Vectors
    BY <1>7 DEF Vectors
  <2>2. 1 \in DOMAIN Children(Kind(n)) /\ Children(Kind(n))[1] = LValueKinds
    BY <1>7 DEF Children, Childless
  <2> QED BY <1>2, <1>4, <2>1, <2>2
<1> QED BY <1>3, <1>5, <1>6, <1>7

\* An expression is delegated to an expression; one that is not has a type.
LEMMA DelegateIsExpr ==
  ASSUME Table!LookupInv, St!Built, NEW e \in Exprs
  PROVE  /\ Delegate(e) \in Exprs \cup {Null}
         /\ Kind(e) = "LValue" \/ NotAFunction(e) => Delegate(e) = Null
<1>1. prog \in Programs /\ e \in Nodes
  BY ProgIsTree DEF Exprs
<1>2. Function(e) \in Nodes \cup {Null} /\
      (Function(e) # Null => Kind(Function(e)) = "FunctionDeclaration")
  BY <1>1, Lookups, NodeFacts DEF Function
<1>3. Function(e) # Null => Kid(Function(e), 1) \in Exprs
  BY <1>1, <1>2, KidSorts
<1> QED BY <1>1, <1>3, KidSorts DEF Delegate, NotAFunction

LEMMA OwnTypeIsName ==
  ASSUME Table!LookupInv, St!Built, NEW e \in Exprs, Delegate(e) = Null
  PROVE  OwnType(e) \in Identifiers
<1>1. prog \in Programs /\ e \in Nodes
  BY ProgIsTree DEF Exprs
<1>2. Function(e) \in Nodes \cup {Null} /\
      (Function(e) # Null => Kind(Function(e)) = "FunctionDeclaration")
  BY <1>1, Lookups, NodeFacts DEF Function
<1>3. ASSUME Kind(e) = "FunctionCall", Function(e) # Null
      PROVE  prog[Function(e)].type \in Identifiers
  <2>1. Kid(Function(e), 1) # Null
    BY <1>1, <1>2, <1>3, KidSorts, NodeFacts DEF Exprs
  <2>2. prog[Function(e)].type # NoType
    BY <1>3, <2>1 DEF Delegate
  <2> QED BY <1>1, <1>2, <1>3, <2>2, NodeFacts
<1>4. Kind(e) \in {"RecordLiteral", "ArrayLiteral"} => prog[e].type \in Identifiers
  BY <1>1, TypedNodes
<1> QED BY <1>3, <1>4, NamesAssumption DEF OwnType, Reserved

-----------------------------------------------------------------------------
(* The invariant.                                                          *)

ErrorKinds ==
  {"Function not found", "Variable not found", "Type not found",
   "Record type expected", "Record field not found", "Array type expected"}
Errors == [what : ErrorKinds, name : Identifiers]

Frames == [fn : {"Expr", "LValue"}, node : Nodes, parent : Exprs \cup {Null},
           phase : {"enter", "wait", "unalias"}, type : Identifiers,
           decl : Nodes \cup {Null}]

GoodFrame(f) ==
  /\ f \in Frames
  /\ f.fn = "Expr" => f.node \in Exprs /\ f.parent = Null /\ f.phase # "unalias"
  /\ f.fn = "LValue" => Kind(f.node) \in LValueKinds /\ f.parent \in Exprs
  /\ f.phase = "unalias" => Kind(f.node) # "Identifier"
  /\ f.decl = Null \/ Kind(f.decl) = "TypeDeclaration"

Shapes ==
  /\ cache \in [Nodes -> Identifiers \cup {Uncached}]
  /\ \A e \in Nodes \ Exprs : cache[e] = Uncached
  /\ errors \in Seq(Errors)
  /\ calls \in Seq(Frames)
  /\ \A i \in DOMAIN calls : GoodFrame(calls[i])
  /\ Len(calls) <= StackLimit
  /\ returned \in Identifiers
  /\ queries \in 0 .. MaxQueries
  /\ crashed \in BOOLEAN

\* Nothing is asked before the table is built.
AskedWhenBuilt ==
  St!Built \/ (calls = <<>> /\ errors = <<>> /\ \A e \in Nodes : cache[e] = Uncached)

\* The call a frame makes before it can return depends on its arguments alone,
\* and it makes one at most.
FoundAt(f) == lookupStorageLocation(f.parent, prog[f.node].id)
Asks(f) ==
  IF f.fn = "Expr" THEN Kind(f.node) = "LValue" \/ Delegate(f.node) # Null
  ELSE IF Kind(f.node) # "Identifier" THEN TRUE
  ELSE /\ FoundAt(f) # Null
       /\ Kind(FoundAt(f)) = "VariableDeclaration"
       /\ prog[FoundAt(f)].type = NoType
Asked(f) ==
  IF f.fn = "Expr"
  THEN IF Kind(f.node) = "LValue" THEN Frame("LValue", Kid(f.node, 1), f.node)
       ELSE Frame("Expr", Delegate(f.node), Null)
  ELSE IF Kind(f.node) # "Identifier" THEN Frame("LValue", Kid(f.node, 1), f.parent)
  ELSE Frame("Expr", Kid(FoundAt(f), 1), Null)

SameCall(f, g) == f.fn = g.fn /\ f.node = g.node /\ f.parent = g.parent

\* A frame that has made its call had no answer in the cache, and has none.
Waiting ==
  \A i \in DOMAIN calls : calls[i].phase = "wait" =>
    /\ Asks(calls[i])
    /\ calls[i].fn = "Expr" => cache[calls[i].node] = Uncached

\* Every frame but the last waits for the one after it.
Chained ==
  \A i \in 1 .. Len(calls) - 1 :
    calls[i].phase = "wait" /\ SameCall(calls[i + 1], Asked(calls[i]))

\* An expression whose type is asked for while it is being asked for is in an
\* endless recursion: the calls since are those from then on, over again, and
\* none of them has returned.
Recurs(i, j) ==
  i < j /\ calls[i].fn = "Expr" /\ calls[j].fn = "Expr" /\ calls[i].node = calls[j].node
Endlessly ==
  \A i, j \in DOMAIN calls : Recurs(i, j) =>
    /\ Top.phase = "enter"
    /\ \A k \in j .. Len(calls) : SameCall(calls[k], calls[k - (j - i)])

\* What the inference rules give for a variable and an expression, from the
\* answers in the cache; a rule that refers to an answer needs it there.
VariableType(e, l) ==
  LET d == lookupStorageLocation(e, prog[l].id) IN
  IF d = Null THEN "NOTYPE"
  ELSE IF Kind(d) = "For" THEN "int"
  ELSE IF prog[d].type # NoType THEN prog[d].type
  ELSE cache[Kid(d, 1)]
Obeys(e, t) ==
  IF Delegate(e) # Null THEN t = cache[Delegate(e)]
  ELSE /\ Kind(e) # "LValue" => t = OwnType(e)
       /\ Kind(e) = "LValue" /\ Kind(Kid(e, 1)) = "Identifier" =>
            t = VariableType(e, Kid(e, 1))
CacheObeys == \A e \in Exprs : cache[e] # Uncached => Obeys(e, cache[e])

\* t answers the call of frame f.
Answers(f, t) ==
  IF f.fn = "Expr" THEN cache[f.node] = t
  ELSE Kind(f.node) = "Identifier" => t = VariableType(f.parent, f.node)
AnswerTaken ==
  calls # <<>> /\ Top.phase = "wait" => Answers(Asked(Top), returned)

FinderInv ==
  /\ Table!LookupInv
  /\ Shapes
  /\ AskedWhenBuilt
  /\ Waiting
  /\ Chained
  /\ Endlessly
  /\ CacheObeys
  /\ AnswerTaken

LEMMA ShapesAreTypes == FinderInv => TypeOK
<1> SUFFICES ASSUME FinderInv PROVE TypeOK
  OBVIOUS
<1>1. Shapes
  BY DEF FinderInv
<1>2. \A i \in DOMAIN errors : errors[i] \in Errors
  BY <1>1 DEF Shapes
<1> QED BY <1>1, <1>2 DEF Shapes, TypeOK, GoodFrame, Frames, Errors

LEMMA CacheFollowsRules == FinderInv => CacheAgrees
BY DEF FinderInv, CacheObeys, Obeys, VariableType, CacheAgrees

LEMMA TopFacts ==
  ASSUME Shapes, calls # <<>>
  PROVE  /\ Len(calls) \in Nat /\ Len(calls) >= 1
         /\ DOMAIN calls = 1 .. Len(calls)
         /\ Len(calls) \in DOMAIN calls
         /\ Top = calls[Len(calls)]
         /\ Top \in Frames /\ GoodFrame(Top)
BY DEF Shapes, Top

-----------------------------------------------------------------------------
(* Every step of a query is of one of four sorts.                          *)

\* The top frame calls...
Push ==
  /\ calls # <<>>
  /\ Top.phase = "enter" /\ Asks(Top)
  /\ Top.fn = "Expr" => cache[Top.node] = Uncached
  /\ CallFromTop(Asked(Top))

\* ... or returns, when it need not call,
Ripe ==
  /\ calls # <<>>
  /\ ~ (/\ Top.phase = "enter" /\ Asks(Top)
        /\ Top.fn = "Expr" => cache[Top.node] = Uncached)

\* without an entry in the cache
PopQuietly ==
  /\ Ripe
  /\ Pop
  /\ returned' \in Identifiers
  /\ Answers(Top, returned')
  /\ \/ errors' = errors
     \/ \E error \in Errors : error.what # "Function not found"
                              /\ errors' = Append(errors, error)
  /\ UNCHANGED <<cache, crashed>>

\* or with one,
PopStoring ==
  /\ Ripe
  /\ Pop
  /\ returned' \in Identifiers
  /\ Top.fn = "Expr" /\ cache[Top.node] = Uncached
  /\ cache' = [cache EXCEPT ![Top.node] = returned']
  /\ Obeys(Top.node, returned')
  /\ errors' = IF NotAFunction(Top.node)
               THEN Append(errors, Reported("Function not found", prog[Top.node].id))
               ELSE errors
  /\ UNCHANGED crashed

\* or walks along the aliases.
Move(f) ==
  /\ calls # <<>>
  /\ Top.phase # "enter"
  /\ GoodFrame(f) /\ f.phase = "unalias" /\ SameCall(f, Top)
  /\ calls' = [calls EXCEPT ![Len(calls)] = f]
  /\ UNCHANGED <<cache, errors, returned, crashed>>

LEMMA ExprSteps ==
  ASSUME FinderInv, ExprStep
  PROVE  Push \/ PopQuietly \/ PopStoring
<1>1. calls # <<>>
  BY DEF ExprStep, FindCached, FindOwnType, FunctionNotFound, AskDelegate, AskLValue,
         TakeDelegateType, Missed, At
<1>2. /\ Shapes /\ Table!LookupInv /\ St!Built /\ Waiting /\ AnswerTaken
      /\ returned \in Identifiers
  BY <1>1 DEF FinderInv, AskedWhenBuilt, Shapes
<1>3. PICK e \in Nodes : e = Top.node
  BY <1>1, <1>2, TopFacts DEF Frames
<1>4. Top.fn = "Expr" => e \in Exprs
  BY <1>1, <1>2, <1>3, TopFacts DEF GoodFrame
<1>5. cache[e] \in Identifiers \cup {Uncached}
  BY <1>2 DEF Shapes
<1>6. "NOTYPE" \in Identifiers
  BY NamesAssumption DEF Reserved
<1>7. CASE FindCached
  BY <1>1, <1>3, <1>5, <1>7
     DEF FindCached, At, PopQuietly, Ripe, Answers
<1>8. CASE FindOwnType
  <2>1. OwnType(e) \in Identifiers
    BY <1>2, <1>3, <1>4, <1>8, OwnTypeIsName DEF FindOwnType, Missed, At
  <2> QED BY <1>1, <1>3, <1>8, <2>1
          DEF FindOwnType, Missed, At, Return, PopStoring, Ripe, Asks, Obeys
<1>9. CASE FunctionNotFound
  <2>1. e \in Exprs /\ NotAFunction(e) /\ Kind(e) # "LValue"
    BY <1>3, <1>4, <1>9 DEF FunctionNotFound, Missed, At, NotAFunction
  <2>2. Delegate(e) = Null
    BY <1>2, <2>1, DelegateIsExpr
  <2>3. OwnType(e) = "NOTYPE"
    BY <2>1 DEF OwnType, NotAFunction
  <2> QED BY <1>1, <1>3, <1>6, <1>9, <2>1, <2>2, <2>3
          DEF FunctionNotFound, Missed, At, Return, PopStoring, Ripe, Asks, Obeys,
              Reported
<1>10. CASE AskDelegate
  <2>1. Kind(e) # "LValue"
    BY <1>2, <1>3, <1>4, <1>10, DelegateIsExpr DEF AskDelegate, Missed, At
  <2> QED BY <1>1, <1>3, <1>10, <2>1 DEF AskDelegate, Missed, At, Push, Asks, Asked
<1>11. CASE AskLValue
  BY <1>1, <1>3, <1>11 DEF AskLValue, Missed, At, Push, Asks, Asked
<1>12. CASE TakeDelegateType
  <2>1. Top.fn = "Expr" /\ Top.phase = "wait" /\ e \in Exprs
    BY <1>3, <1>4, <1>12 DEF TakeDelegateType, At
  <2>2. Asks(Top) /\ cache[e] = Uncached
    BY <1>1, <1>2, <1>3, <2>1, TopFacts DEF Waiting
  <2>3. Answers(Asked(Top), returned)
    BY <1>1, <1>2, <2>1 DEF AnswerTaken
  <2>4. ~ NotAFunction(e)
    BY <1>2, <1>3, <2>1, <2>2, DelegateIsExpr DEF Asks, NotAFunction
  <2>5. Kind(e) = "LValue" => Delegate(e) = Null
    BY <1>2, <2>1, DelegateIsExpr
  <2>6. Obeys(e, returned)
    BY <1>3, <2>1, <2>2, <2>3, <2>5 DEF Asks, Asked, Frame, Answers, Obeys
  <2> QED BY <1>1, <1>2, <1>3, <1>12, <2>1, <2>2, <2>4, <2>6
          DEF TakeDelegateType, Return, PopStoring, Ripe
<1> QED BY <1>7, <1>8, <1>9, <1>10, <1>11, <1>12 DEF ExprStep

LEMMA FieldIsParam ==
  ASSUME prog \in Programs, NEW d \in Nodes, Kind(d) = "TypeDeclaration", NEW x,
         FieldNamed(d, x) # Null
  PROVE  FieldNamed(d, x) \in Nodes /\ Kind(FieldNamed(d, x)) = "TypeField"
<1>1. /\ prog[d].params \in Seq(Nodes) /\ Len(prog[d].params) \in Nat
      /\ DOMAIN prog[d].params = 1 .. Len(prog[d].params)
  BY NodeFacts
<1> DEFINE Named == {j \in DOMAIN prog[d].params : prog[prog[d].params[j]].id = x}
<1>2. Named # {} /\ Named \in SUBSET Nat
  BY <1>1 DEF FieldNamed
<1> HIDE DEF Named
<1>3. PICK j \in Named : \A i \in Named : j <= i
  BY <1>2, TreesOnly, Table!LeastNatural
<1>4. /\ j \in DOMAIN prog[d].params /\ prog[prog[d].params[j]].id = x
      /\ \A i \in 1 .. j-1 : prog[prog[d].params[i]].id # x
  BY <1>1, <1>3 DEF Named
<1>5. \E i \in DOMAIN prog[d].params : FieldNamed(d, x) = prog[d].params[i]
  BY <1>4 DEF FieldNamed
<1>6. FieldNamed(d, x) \in ParamsOf(prog, d) /\ FieldNamed(d, x) \in Nodes
  BY <1>1, <1>5 DEF ParamsOf
<1> QED BY <1>6, ProgramsAssumption DEF IsProgram, IsShaped, Kind, Nodes

LEMMA FailQuietly ==
  ASSUME FinderInv, Ripe, NEW what \in ErrorKinds, what # "Function not found",
         NEW x \in Identifiers, Fail(what, x), Answers(Top, "NOTYPE")
  PROVE  PopQuietly
<1>1. [what |-> what, name |-> x] \in Errors
  BY DEF Errors
<1>2. [what |-> what, name |-> x].what # "Function not found"
  OBVIOUS
<1>3. "NOTYPE" \in Identifiers
  BY NamesAssumption DEF Reserved
<1>4. /\ Pop /\ returned' = "NOTYPE" /\ cache' = cache /\ crashed' = crashed
      /\ errors' = Append(errors, [what |-> what, name |-> x])
  BY DEF Fail
<1>5. \E error \in Errors : error.what # "Function not found"
                            /\ errors' = Append(errors, error)
  BY <1>1, <1>2, <1>4
<1> QED BY <1>3, <1>4, <1>5 DEF PopQuietly

LEMMA LValueSteps ==
  ASSUME FinderInv, LValueStep
  PROVE  Push \/ PopQuietly \/ \E f : Move(f)
<1>1. calls # <<>> /\ Top.fn = "LValue"
  BY DEF LValueStep, VariableNotFound, DeclaredType, AskInitialValue,
         TakeInitialValueType, AskInner, StartUnalias, FollowAlias, TypeNotFound,
         SelectField, SelectElement, At
<1>2. /\ Shapes /\ Table!LookupInv /\ St!Built /\ Waiting /\ AnswerTaken
      /\ returned \in Identifiers /\ prog \in Programs
  BY <1>1, ProgIsTree DEF FinderInv, AskedWhenBuilt, Shapes
<1>3. PICK l \in Nodes : l = Top.node
  BY <1>1, <1>2, TopFacts DEF Frames
<1>4. /\ Top.parent \in Exprs /\ Top \in Frames /\ GoodFrame(Top)
      /\ Top.type \in Identifiers /\ prog[l].id \in Identifiers
  BY <1>1, <1>2, TopFacts, NodeFacts DEF GoodFrame, Frames
<1>5. "NOTYPE" \in Identifiers /\ "int" \in Identifiers
  BY NamesAssumption DEF Reserved
<1>6. PICK d : d = Location
  OBVIOUS
<1>7. d # Null => d \in Nodes /\ Kind(d) \in {"VariableDeclaration", "For", "TypeField"}
  BY <1>2, <1>3, <1>4, <1>6, Lookups DEF Location
<1>8. d = lookupStorageLocation(Top.parent, prog[Top.node].id)
  BY <1>6 DEF Location
<1>9. CASE VariableNotFound
  <2>1. /\ Kind(l) = "Identifier" /\ d = Null /\ Top.phase = "enter"
        /\ Fail("Variable not found", prog[l].id)
    BY <1>3, <1>6, <1>9 DEF VariableNotFound, At
  <2>2. Ripe
    BY <1>1, <1>3, <1>8, <2>1 DEF Ripe, Asks, FoundAt
  <2>3. Answers(Top, "NOTYPE")
    BY <1>1, <1>8, <2>1 DEF Answers, VariableType
  <2> QED BY <1>4, <2>1, <2>2, <2>3, FailQuietly DEF ErrorKinds
<1>10. CASE DeclaredType
  <2>1. /\ Kind(l) = "Identifier" /\ d # Null /\ Top.phase = "enter"
        /\ Pop /\ errors' = errors /\ cache' = cache /\ crashed' = crashed
        /\ \/ Kind(d) = "For" /\ returned' = "int"
           \/ Kind(d) # "For" /\ prog[d].type # NoType /\ returned' = prog[d].type
    BY <1>3, <1>6, <1>10 DEF DeclaredType, At, ReturnLValue
  <2>2. Ripe
    BY <1>1, <1>3, <1>8, <2>1 DEF Ripe, Asks, FoundAt
  <2>3. Answers(Top, returned')
    BY <1>1, <1>8, <2>1 DEF Answers, VariableType
  <2>4. returned' \in Identifiers
    BY <1>2, <1>5, <1>7, <2>1, NodeFacts
  <2> QED BY <2>1, <2>2, <2>3, <2>4 DEF PopQuietly
<1>11. CASE AskInitialValue
  BY <1>1, <1>3, <1>11
     DEF AskInitialValue, At, Location, Push, Asks, Asked, FoundAt
<1>12. CASE TakeInitialValueType
  <2>1. /\ Kind(l) = "Identifier" /\ Top.phase = "wait" /\ Pop /\ errors' = errors
        /\ cache' = cache /\ crashed' = crashed /\ returned' = returned
    BY <1>3, <1>12 DEF TakeInitialValueType, At, ReturnLValue
  <2>2. Asks(Top)
    BY <1>1, <1>2, <2>1, TopFacts DEF Waiting
  <2>3. d # Null /\ Kind(d) = "VariableDeclaration" /\ prog[d].type = NoType
    BY <1>1, <1>3, <1>8, <2>1, <2>2 DEF Asks, FoundAt
  <2>4. Answers(Asked(Top), returned)
    BY <1>1, <1>2, <2>1 DEF AnswerTaken
  <2>5. Asked(Top) = Frame("Expr", Kid(d, 1), Null)
    BY <1>1, <1>3, <1>8, <2>1 DEF Asked, FoundAt
  <2>6. cache[Kid(d, 1)] = returned
    BY <2>4, <2>5 DEF Answers, Frame
  <2>7. Answers(Top, returned')
    BY <1>1, <1>8, <2>1, <2>3, <2>6 DEF Answers, VariableType
  <2> QED BY <1>1, <1>2, <2>1, <2>7 DEF PopQuietly, Ripe
<1>13. CASE AskInner
  BY <1>1, <1>3, <1>13 DEF AskInner, At, Push, Asks, Asked
<1>14. CASE StartUnalias
  <2>1. PICK f : f = [Top EXCEPT !.phase = "unalias", !.type = returned,
                                 !.decl = lookupType(Top.parent, returned)]
    OBVIOUS
  <2>2. f.decl = Null \/ (f.decl \in Nodes /\ Kind(f.decl) = "TypeDeclaration")
    BY <1>2, <1>4, <2>1, Lookups DEF Frames
  <2>3. Top.phase = "wait" /\ Kind(l) # "Identifier"
    BY <1>3, <1>14 DEF StartUnalias, At
  <2>4. GoodFrame(f) /\ f.phase = "unalias" /\ SameCall(f, Top)
    BY <1>1, <1>2, <1>3, <1>4, <2>1, <2>2, <2>3 DEF GoodFrame, Frames, SameCall
  <2>5. calls' = [calls EXCEPT ![Len(calls)] = f]
    BY <1>14, <2>1 DEF StartUnalias, Top
  <2> QED BY <1>1, <1>14, <2>3, <2>4, <2>5 DEF StartUnalias, Move
<1>15. CASE FollowAlias
  <2>1. PICK f : f = [Top EXCEPT !.decl = lookupType(Top.parent, AliasOf(Top.decl))]
    OBVIOUS
  <2>2. Top.phase = "unalias" /\ Top.decl # Null /\ AliasOf(Top.decl) # NoType
    BY <1>15 DEF FollowAlias, At, IsAlias
  <2>3. AliasOf(Top.decl) \in Identifiers
    BY <1>2, <1>4, <2>2, NodeFacts DEF AliasOf, Frames
  <2>4. f.decl = Null \/ (f.decl \in Nodes /\ Kind(f.decl) = "TypeDeclaration")
    BY <1>2, <1>4, <2>1, <2>3, Lookups DEF Frames
  <2>5. GoodFrame(f) /\ f.phase = "unalias" /\ SameCall(f, Top)
    BY <1>1, <1>4, <2>1, <2>2, <2>4 DEF GoodFrame, Frames, SameCall
  <2>6. calls' = [calls EXCEPT ![Len(calls)] = f]
    BY <1>15, <2>1 DEF FollowAlias, Top
  <2> QED BY <1>1, <1>15, <2>2, <2>5, <2>6 DEF FollowAlias, Move
<1>16. ASSUME Top.phase = "unalias"
       PROVE  Ripe /\ \A t : Answers(Top, t)
  BY <1>1, <1>4, <1>16 DEF Ripe, Answers, GoodFrame
<1>17. CASE TypeNotFound
  <2>1. Top.phase = "unalias" /\ Fail("Type not found", Top.type)
    BY <1>17 DEF TypeNotFound, At
  <2> QED BY <1>4, <1>16, <2>1, FailQuietly DEF ErrorKinds
<1>18. ASSUME NEW t \in Identifiers, ReturnLValue(t), Top.phase = "unalias"
       PROVE  PopQuietly
  BY <1>16, <1>18 DEF ReturnLValue, PopQuietly
<1>19. CASE SelectField
  <2>1. Top.phase = "unalias"
    BY <1>19 DEF SelectField, At
  <2>2. CASE Unaliased("array") /\ Fail("Record type expected", Top.type)
    BY <1>4, <1>16, <2>1, <2>2, FailQuietly DEF ErrorKinds
  <2>3. CASE Unaliased("record")
    <3>1. Top.decl \in Nodes /\ Kind(Top.decl) = "TypeDeclaration"
      BY <1>4, <2>3 DEF Unaliased, GoodFrame, Frames
    <3>2. PICK field : field = FieldNamed(Top.decl, prog[Top.node].id)
      OBVIOUS
    <3>3. CASE field = Null /\ Fail("Record field not found", prog[l].id)
      BY <1>4, <1>16, <2>1, <3>3, FailQuietly DEF ErrorKinds
    <3>4. CASE field # Null /\ ReturnLValue(prog[field].type)
      <4>1. prog[field].type \in Identifiers
        BY <1>2, <3>1, <3>2, <3>4, FieldIsParam, TypedNodes
      <4> QED BY <1>18, <2>1, <3>4, <4>1
    <3>5. \/ field = Null /\ Fail("Record field not found", prog[l].id)
          \/ field # Null /\ ReturnLValue(prog[field].type)
      BY <1>3, <1>19, <2>3, <3>2 DEF SelectField, Unaliased
    <3> QED BY <3>3, <3>4, <3>5
  <2> QED BY <1>19, <2>2, <2>3 DEF SelectField
<1>20. CASE SelectElement
  <2>1. Top.phase = "unalias"
    BY <1>20 DEF SelectElement, At
  <2>2. CASE Unaliased("record") /\ Fail("Array type expected", Top.type)
    BY <1>4, <1>16, <2>1, <2>2, FailQuietly DEF ErrorKinds
  <2>3. CASE Unaliased("array") /\ ReturnLValue(prog[Top.decl].type)
    <3>1. /\ Top.decl \in Nodes /\ Kind(Top.decl) = "TypeDeclaration"
          /\ prog[Top.decl].form = "array"
      BY <1>4, <2>3 DEF Unaliased, GoodFrame, Frames
    <3>2. prog[Top.decl].type \in Identifiers
      BY <1>2, <3>1, TypedNodes
    <3> QED BY <1>18, <2>1, <2>3, <3>2
  <2> QED BY <1>20, <2>2, <2>3 DEF SelectElement
<1> QED BY <1>9, <1>10, <1>11, <1>12, <1>13, <1>14, <1>15, <1>17, <1>19, <1>20
        DEF LValueStep

-----------------------------------------------------------------------------
(* Calls and returns keep the invariant.                                   *)

\* A query does not touch the tree or the table, so the rules stay the same.
LEMMA RulesStay ==
  ASSUME UNCHANGED tables
  PROVE  /\ Nodes' = Nodes /\ Exprs' = Exprs /\ (St!Built' <=> St!Built)
         /\ prog' = prog
         /\ \A n : Kind(n)' = Kind(n)
         /\ \A e : /\ Delegate(e)' = Delegate(e) /\ OwnType(e)' = OwnType(e)
                   /\ NotAFunction(e)' <=> NotAFunction(e)
         /\ \A e, x : lookupStorageLocation(e, x)' = lookupStorageLocation(e, x)
<1>1. /\ Nodes' = Nodes /\ Exprs' = Exprs /\ (St!Built' <=> St!Built) /\ prog' = prog
      /\ \A n : Kind(n)' = Kind(n)
  BY DEF tables, Nodes, Exprs, IsExpr, Kind, St!Built
<1>2. \A e, x : /\ lookupStorageLocation(e, x)' = lookupStorageLocation(e, x)
                /\ lookupFunction(e, x)' = lookupFunction(e, x)
  BY DEF tables, lookupStorageLocation, lookupFunction, FirstScope
<1>3. \A e : Function(e)' = Function(e)
  BY <1>1, <1>2 DEF Function
<1>4. \A e : HasBody(e)' = HasBody(e) /\ LastKid(e)' = LastKid(e)
  BY <1>1 DEF HasBody, LastKid, Kid
<1>5. \A e : Delegate(e)' = Delegate(e) /\ OwnType(e)' = OwnType(e)
  BY <1>1, <1>3, <1>4 DEF Delegate, OwnType, Kid
<1>6. \A e : NotAFunction(e)' <=> NotAFunction(e)
  BY <1>1, <1>3 DEF NotAFunction
<1> QED BY <1>1, <1>2, <1>5, <1>6

LEMMA CallsStay ==
  ASSUME UNCHANGED tables
  PROVE  /\ \A f : /\ Asks(f)' <=> Asks(f)
                   /\ Asked(f)' = Asked(f)
                   /\ GoodFrame(f)' <=> GoodFrame(f)
         /\ Frames' = Frames
<1>1. \A f : FoundAt(f)' = FoundAt(f)
  BY RulesStay DEF FoundAt
<1>2. \A f : Asks(f)' <=> Asks(f)
  BY <1>1, RulesStay DEF Asks
<1>3. \A f : Asked(f)' = Asked(f)
  BY <1>1, RulesStay DEF Asked, Kid
<1>4. Frames' = Frames
  BY RulesStay DEF Frames
<1>5. \A f : GoodFrame(f)' <=> GoodFrame(f)
  BY <1>4, RulesStay DEF GoodFrame
<1> QED BY <1>2, <1>3, <1>4, <1>5

LEMMA SameCallsAsk ==
  ASSUME NEW f, NEW g, SameCall(f, g)
  PROVE  (Asks(f) <=> Asks(g)) /\ Asked(f) = Asked(g)
BY DEF SameCall, Asks, Asked, FoundAt

LEMMA AskedIsGood ==
  ASSUME Table!LookupInv, St!Built, NEW f, GoodFrame(f), Asks(f)
  PROVE  GoodFrame(Asked(f)) /\ Asked(f).phase = "enter"
<1>1. /\ prog \in Programs /\ f \in Frames /\ f.node \in Nodes
      /\ f.fn \in {"Expr", "LValue"} /\ Exprs \subseteq Nodes
  BY ProgIsTree DEF GoodFrame, Frames, Exprs
<1>2. \A fn, node, parent :
        /\ Frame(fn, node, parent).phase = "enter"
        /\ fn = "Expr" /\ node \in Exprs /\ parent = Null
             => GoodFrame(Frame(fn, node, parent))
        /\ fn = "LValue" /\ node \in Nodes /\ Kind(node) \in LValueKinds /\ parent \in Exprs
             => GoodFrame(Frame(fn, node, parent))
  BY <1>1, NamesAssumption DEF Frame, GoodFrame, Frames, Reserved
<1>3. CASE f.fn = "Expr"
  <2>1. f.node \in Exprs
    BY <1>3 DEF GoodFrame
  <2>2. CASE Kind(f.node) = "LValue"
    <3>1. Kid(f.node, 1) \in Nodes /\ Kind(Kid(f.node, 1)) \in LValueKinds
      BY <1>1, <2>2, KidSorts
    <3> QED BY <1>2, <1>3, <2>1, <2>2, <3>1 DEF Asked
  <2>3. CASE Kind(f.node) # "LValue"
    <3>1. Delegate(f.node) \in Exprs
      BY <1>3, <2>1, <2>3, DelegateIsExpr DEF Asks
    <3> QED BY <1>2, <1>3, <2>3, <3>1 DEF Asked
  <2> QED BY <2>2, <2>3
<1>4. CASE f.fn = "LValue"
  <2>1. Kind(f.node) \in LValueKinds /\ f.parent \in Exprs
    BY <1>4 DEF GoodFrame
  <2>2. CASE Kind(f.node) # "Identifier"
    <3>1. Kid(f.node, 1) \in Nodes /\ Kind(Kid(f.node, 1)) \in LValueKinds
      BY <1>1, <2>1, <2>2, KidSorts DEF LValueKinds
    <3> QED BY <1>2, <1>4, <2>1, <2>2, <3>1 DEF Asked
  <2>3. CASE Kind(f.node) = "Identifier"
    <3>1. FoundAt(f) # Null /\ Kind(FoundAt(f)) = "VariableDeclaration"
      BY <1>4, <2>3 DEF Asks
    <3>2. FoundAt(f) \in Nodes
      BY <1>1, <2>1, <3>1, Lookups, NodeFacts DEF FoundAt
    <3>3. Kid(FoundAt(f), 1) \in Exprs
      BY <1>1, <3>1, <3>2, KidSorts
    <3> QED BY <1>2, <1>4, <2>3, <3>3 DEF Asked
  <2> QED BY <2>2, <2>3
<1> QED BY <1>1, <1>3, <1>4

\* What a call adds to the stack.
LEMMA PushEffect ==
  ASSUME FinderInv, Push, calls' # calls
  PROVE  /\ Len(calls') = Len(calls) + 1 /\ Len(calls) < StackLimit
         /\ calls' \in Seq(Frames)
         /\ DOMAIN calls' = 1 .. Len(calls) + 1
         /\ \A i \in 1 .. Len(calls) :
              /\ calls'[i] \in Frames /\ SameCall(calls'[i], calls[i])
              /\ GoodFrame(calls'[i]) /\ calls'[i].phase = "wait"
         /\ calls'[Len(calls) + 1] = Asked(Top)
         /\ UNCHANGED <<cache, errors, returned, crashed>>
<1>1. Shapes /\ Table!LookupInv /\ St!Built /\ Chained /\ calls # <<>>
  BY DEF FinderInv, AskedWhenBuilt, Push
<1>2. /\ Len(calls) \in Nat /\ Len(calls) >= 1 /\ DOMAIN calls = 1 .. Len(calls)
      /\ Top = calls[Len(calls)] /\ GoodFrame(Top) /\ Top.phase = "enter" /\ Asks(Top)
      /\ calls \in Seq(Frames) /\ \A i \in 1 .. Len(calls) : GoodFrame(calls[i])
  BY <1>1, TopFacts DEF Push, Shapes
<1>3. PICK g : g = Asked(Top) /\ GoodFrame(g) /\ g \in Frames
  BY <1>1, <1>2, AskedIsGood DEF GoodFrame
<1>4. /\ Len(calls) < StackLimit
      /\ calls' = Append([calls EXCEPT ![Len(calls)].phase = "wait"], g)
      /\ UNCHANGED <<cache, errors, returned, crashed>>
  BY <1>3 DEF Push, CallFromTop
<1>5. PICK w : w = [Top EXCEPT !.phase = "wait"]
  OBVIOUS
<1>6. /\ w \in Frames /\ SameCall(w, Top) /\ w.phase = "wait" /\ w.decl = Top.decl
      /\ w.fn = Top.fn /\ w.node = Top.node /\ w.parent = Top.parent
  BY <1>2, <1>5 DEF GoodFrame, Frames, SameCall
<1>7. GoodFrame(w)
  BY <1>2, <1>6 DEF GoodFrame
<1>8. PICK c : c = [calls EXCEPT ![Len(calls)].phase = "wait"]
  OBVIOUS
<1>9. c = [calls EXCEPT ![Len(calls)] = w]
  BY <1>2, <1>5, <1>8
<1>n. PICK n \in Nat : n = Len(calls)
  BY <1>2
<1>10. /\ c \in Seq(Frames) /\ Len(c) = n
       /\ \A i \in 1 .. n : c[i] = IF i = n THEN w ELSE calls[i]
  BY <1>2, <1>6, <1>9, <1>n
<1>11. PICK d : d = calls' /\ d = Append(c, g)
  BY <1>4, <1>8
<1>12. /\ Len(d) = n + 1 /\ d \in Seq(Frames) /\ DOMAIN d = 1 .. n + 1
       /\ \A i \in 1 .. n : d[i] = c[i]
       /\ d[n + 1] = g
  BY <1>3, <1>10, <1>11
<1>13. ASSUME NEW i \in 1 .. n
       PROVE  /\ d[i] \in Frames /\ SameCall(d[i], calls[i])
              /\ GoodFrame(d[i]) /\ d[i].phase = "wait"
  <2>1. CASE i = n
    BY <1>2, <1>6, <1>7, <1>n, <1>10, <1>12, <2>1
  <2>2. CASE i # n
    <3>1. i \in 1 .. n - 1 /\ d[i] = calls[i]
      BY <1>10, <1>12, <2>2
    <3>2. calls[i].phase = "wait"
      BY <1>1, <1>n, <3>1 DEF Chained
    <3> QED BY <1>2, <1>n, <3>1, <3>2 DEF SameCall, GoodFrame
  <2> QED BY <2>1, <2>2
<1> QED BY <1>3, <1>4, <1>n, <1>11, <1>12, <1>13

LEMMA PushKeepsChain ==
  ASSUME FinderInv, Push, UNCHANGED tables, calls' # calls
  PROVE  Waiting' /\ Chained' /\ AnswerTaken' /\ Top' = Asked(Top)
         /\ Top'.phase = "enter"
<1>1. /\ Shapes /\ Table!LookupInv /\ St!Built /\ Chained /\ Waiting /\ calls # <<>>
      /\ Asks(Top) /\ (Top.fn = "Expr" => cache[Top.node] = Uncached)
  BY DEF FinderInv, AskedWhenBuilt, Push
<1>2. /\ Len(calls) \in Nat /\ Len(calls) >= 1 /\ DOMAIN calls = 1 .. Len(calls)
      /\ Top = calls[Len(calls)] /\ GoodFrame(Top)
  BY <1>1, TopFacts
<1>3. PICK n \in Nat : n = Len(calls)
  BY <1>2
<1>4. Asked(Top).phase = "enter"
  BY <1>1, <1>2, AskedIsGood
<1>5. Top' = Asked(Top)
  BY PushEffect DEF Top
<1>6. ASSUME NEW i \in 1 .. n
      PROVE  /\ Asks(calls[i]) /\ (calls[i].fn = "Expr" => cache[calls[i].node] = Uncached)
  BY <1>1, <1>2, <1>3, <1>6 DEF Waiting, Chained
<1>7. PICK d : /\ d = calls' /\ Len(d) = n + 1 /\ DOMAIN d = 1 .. n + 1
               /\ d[n + 1] = Asked(Top) /\ cache' = cache
               /\ \A i \in 1 .. n : SameCall(d[i], calls[i]) /\ d[i].phase = "wait"
  BY <1>3, PushEffect
<1>8. Waiting'
  <2>1. SUFFICES ASSUME NEW i \in DOMAIN d, d[i].phase = "wait"
                 PROVE  /\ Asks(d[i])'
                        /\ d[i].fn = "Expr" => cache[d[i].node] = Uncached
    BY <1>7 DEF Waiting
  <2>2. i \in 1 .. n
    BY <1>4, <1>7, <2>1
  <2>3. Asks(d[i]) /\ (d[i].fn = "Expr" => cache[d[i].node] = Uncached)
    BY <1>6, <1>7, <2>2, SameCallsAsk DEF SameCall
  <2> QED BY <2>3, CallsStay
<1>9. ASSUME NEW i \in 1 .. n
      PROVE  d[i].phase = "wait" /\ SameCall(d[i+1], Asked(d[i])')
  <2>1. SameCall(d[i], calls[i]) /\ d[i].phase = "wait"
    BY <1>7
  <2>2. Asked(d[i])' = Asked(calls[i])
    BY <2>1, SameCallsAsk, CallsStay
  <2>3. CASE i = n
    BY <1>2, <1>3, <1>7, <2>1, <2>2, <2>3 DEF SameCall
  <2>4. CASE i # n
    <3>1. i + 1 \in 1 .. n /\ i \in 1 .. n - 1
      BY <2>4
    <3>2. SameCall(calls[i+1], Asked(calls[i])) /\ SameCall(d[i+1], calls[i+1])
      BY <1>1, <1>3, <1>7, <3>1 DEF Chained
    <3> QED BY <2>1, <2>2, <3>2 DEF SameCall
  <2> QED BY <2>3, <2>4
<1>10. Chained'
  BY <1>7, <1>9 DEF Chained, SameCall
<1>11. AnswerTaken'
  BY <1>4, <1>5 DEF AnswerTaken
<1> QED BY <1>4, <1>5, <1>8, <1>10, <1>11

LEMMA PushKeepsEndlessly ==
  ASSUME FinderInv, Push, UNCHANGED tables, calls' # calls
  PROVE  Endlessly'
<1>1. /\ Shapes /\ Chained /\ Endlessly /\ calls # <<>>
  BY DEF FinderInv, Push
<1>2. PICK n \in Nat : n = Len(calls) /\ n >= 1 /\ DOMAIN calls = 1 .. n
  BY <1>1, TopFacts
<1>3. PICK d : /\ d = calls' /\ Len(d) = n + 1 /\ DOMAIN d = 1 .. n + 1
               /\ d[n + 1] = Asked(Top)
               /\ \A i \in 1 .. n : SameCall(d[i], calls[i]) /\ GoodFrame(d[i])
  BY <1>2, PushEffect
<1>4. /\ Top = calls[n] /\ Top' = Asked(Top) /\ Top'.phase = "enter"
      /\ GoodFrame(d[n + 1])
  <2>1. Table!LookupInv /\ St!Built /\ Asks(Top)
    BY <1>1 DEF FinderInv, AskedWhenBuilt, Push
  <2> QED BY <1>1, <1>2, <1>3, <2>1, TopFacts, PushKeepsChain, AskedIsGood
<1>5. SUFFICES ASSUME NEW i \in 1 .. n + 1, NEW j \in 1 .. n + 1, i < j,
                      d[i].fn = "Expr", d[j].fn = "Expr", d[i].node = d[j].node,
                      NEW k \in j .. n + 1
               PROVE  SameCall(d[k], d[k - (j - i)])
  BY <1>3, <1>4 DEF Endlessly, Recurs, SameCall
<1>6. CASE j = n + 1
  <2>1. k = j /\ k - (j - i) = i /\ i \in 1 .. n
    BY <1>5, <1>6
  <2>2. GoodFrame(d[i]) /\ GoodFrame(d[j])
    BY <1>3, <1>4, <1>6, <2>1
  <2> QED BY <1>5, <2>1, <2>2 DEF SameCall, GoodFrame
<1>7. CASE j \in 1 .. n
  <2>1. PICK s \in 1 .. n : s = j - i
    BY <1>5, <1>7
  <2>2. \A m \in j .. n : SameCall(calls[m], calls[m - s])
    <3>1. i \in 1 .. n /\ Recurs(i, j)
      BY <1>3, <1>5, <1>7 DEF Recurs, SameCall
    <3> QED BY <1>1, <1>2, <1>7, <2>1, <3>1 DEF Endlessly
  <2>3. CASE k \in 1 .. n
    <3>1. k - s \in 1 .. n /\ k \in j .. n
      BY <1>5, <1>7, <2>1, <2>3
    <3> QED BY <1>3, <2>1, <2>2, <2>3, <3>1 DEF SameCall
  <2>4. CASE k = n + 1
    <3>1. PICK m \in 1 .. n - 1 : m = n - s
      BY <1>5, <1>7, <2>1
    <3>2. SameCall(calls[n], calls[m])
      BY <1>5, <1>7, <2>2, <3>1
    <3>3. Asked(calls[n]) = Asked(calls[m])
      BY <3>2, SameCallsAsk
    <3>4. SameCall(calls[m + 1], Asked(calls[m]))
      BY <1>1, <1>2, <3>1 DEF Chained
    <3>5. m + 1 \in 1 .. n /\ k - (j - i) = m + 1
      BY <1>5, <1>7, <2>1, <2>4, <3>1
    <3>6. SameCall(d[m + 1], calls[m + 1])
      BY <1>3, <3>5
    <3> QED BY <1>3, <1>4, <2>4, <3>3, <3>4, <3>5, <3>6 DEF SameCall
  <2> QED BY <1>5, <2>3, <2>4
<1> QED BY <1>5, <1>6, <1>7

\* The rules an entry obeys refer to entries alone.
LEMMA EntriesObey ==
  ASSUME UNCHANGED <<tables, cache>>
  PROVE  /\ CacheObeys' <=> CacheObeys
         /\ \A f, t : Answers(f, t)' <=> Answers(f, t)
<1>1. \A e, l : VariableType(e, l)' = VariableType(e, l)
  BY RulesStay DEF VariableType, Kid
<1>2. \A e, t : Obeys(e, t)' <=> Obeys(e, t)
  BY <1>1, RulesStay DEF Obeys, Kid
<1>3. \A f, t : Answers(f, t)' <=> Answers(f, t)
  BY <1>1, RulesStay DEF Answers
<1> QED BY <1>2, <1>3, RulesStay DEF CacheObeys

LEMMA PushKeepsInv ==
  ASSUME FinderInv, Push, UNCHANGED <<tables, queries>>
  PROVE  FinderInv'
<1>1. /\ Shapes /\ Table!LookupInv /\ St!Built /\ CacheObeys /\ calls # <<>>
      /\ Asks(Top) /\ Waiting /\ Chained /\ Endlessly /\ AnswerTaken
  BY DEF FinderInv, AskedWhenBuilt, Push
<1>2. Table!LookupInv' /\ AskedWhenBuilt'
  BY <1>1, TableStays, RulesStay DEF AskedWhenBuilt
<1>3. UNCHANGED <<cache, errors, returned>> /\ crashed' \in BOOLEAN
  BY <1>1 DEF Push, CallFromTop, Shapes
<1>4. CacheObeys'
  BY <1>1, <1>3, EntriesObey
<1>5. CASE calls' = calls
  <2>1. Shapes'
    BY <1>1, <1>3, <1>5, RulesStay, CallsStay DEF Shapes
  <2>2. Waiting' /\ Chained'
    BY <1>1, <1>3, <1>5, CallsStay DEF Waiting, Chained, SameCall
  <2>3. Endlessly'
    BY <1>1, <1>5 DEF Endlessly, Recurs, SameCall, Top
  <2>4. AnswerTaken'
    BY <1>1, <1>3, <1>5, CallsStay, EntriesObey DEF AnswerTaken, Top
  <2> QED BY <1>2, <1>4, <2>1, <2>2, <2>3, <2>4 DEF FinderInv
<1>6. CASE calls' # calls
  <2>1. PICK n \in Nat : n = Len(calls) /\ n >= 1
    BY <1>1, TopFacts
  <2>2. PICK d : /\ d = calls' /\ Len(d) = n + 1 /\ DOMAIN d = 1 .. n + 1
                 /\ d[n + 1] = Asked(Top) /\ d \in Seq(Frames) /\ n < StackLimit
                 /\ \A i \in 1 .. n : GoodFrame(d[i])
    BY <1>6, <2>1, PushEffect
  <2>3. GoodFrame(d[n + 1])
    BY <1>1, <2>2, TopFacts, AskedIsGood
  <2>4. \A i \in DOMAIN d : GoodFrame(d[i])'
    BY <2>2, <2>3, CallsStay
  <2>5. Len(d) <= StackLimit
    BY <2>2, StackAssumption
  <2>6. Shapes'
    BY <1>1, <1>3, <2>2, <2>4, <2>5, RulesStay, CallsStay DEF Shapes
  <2> QED BY <1>2, <1>4, <1>6, <2>6, PushKeepsChain, PushKeepsEndlessly DEF FinderInv
<1> QED BY <1>5, <1>6

\* What returns is not being asked for a second time.
LEMMA RipeIsNew ==
  ASSUME FinderInv, calls # <<>>, Ripe \/ Top.phase # "enter"
  PROVE  \A i, j \in DOMAIN calls : ~ Recurs(i, j)
<1> SUFFICES ASSUME NEW i \in DOMAIN calls, NEW j \in DOMAIN calls, Recurs(i, j)
             PROVE  FALSE
  OBVIOUS
<1>1. Shapes /\ Waiting /\ Chained /\ Endlessly
  BY DEF FinderInv
<1>2. PICK n \in Nat : n = Len(calls) /\ n >= 1 /\ DOMAIN calls = 1 .. n /\ Top = calls[n]
  BY <1>1, TopFacts
<1>3. Top.phase = "enter" /\ Ripe /\ \A k \in j .. n : SameCall(calls[k], calls[k - (j - i)])
  BY <1>1, <1>2 DEF Endlessly
<1>4. i \in 1 .. n /\ j \in 1 .. n /\ i < j
  BY <1>2 DEF Recurs
<1>5. PICK m \in 1 .. n - 1 : m = n - (j - i)
  BY <1>4
<1>6. SameCall(calls[n], calls[m])
  BY <1>3, <1>4, <1>5
<1>7. calls[m].phase = "wait" /\ m \in DOMAIN calls
  BY <1>1, <1>2, <1>5 DEF Chained
<1>8. Asks(calls[m]) /\ (calls[m].fn = "Expr" => cache[calls[m].node] = Uncached)
  BY <1>1, <1>7 DEF Waiting
<1> QED BY <1>2, <1>3, <1>6, <1>8, SameCallsAsk DEF Ripe, SameCall

\* What a return takes from the stack.
LEMMA PopEffect ==
  ASSUME Shapes, calls # <<>>, Pop
  PROVE  /\ Len(calls') = Len(calls) - 1
         /\ DOMAIN calls' = 1 .. Len(calls) - 1
         /\ calls' \in Seq(Frames)
         /\ \A i \in 1 .. Len(calls) - 1 : calls'[i] = calls[i]
<1>1. PICK n \in Nat : n = Len(calls) /\ n >= 1
  BY TopFacts
<1>2. calls \in Seq(Frames) /\ n - 1 \in Nat
  BY <1>1 DEF Shapes
<1>3. PICK d : d = calls' /\ d = SubSeq(calls, 1, n - 1)
  BY <1>1 DEF Pop
<1>4. /\ Len(d) = n - 1 /\ DOMAIN d = 1 .. n - 1
      /\ \A i \in 1 .. n - 1 : d[i] = calls[i]
  BY <1>1, <1>2, <1>3
<1>5. \A i \in 1 .. n - 1 : d[i] \in Frames
  BY <1>1, <1>2, <1>4
<1>6. d \in Seq(Frames)
  BY <1>1, <1>2, <1>3
<1> QED BY <1>1, <1>3, <1>4, <1>6

\* An entry is stored where none was, or none is.
Stores(e) == cache[e] = Uncached /\ cache' = [cache EXCEPT ![e] = returned']

LEMMA PopKeepsStack ==
  ASSUME FinderInv, Ripe, Pop, UNCHANGED tables,
         NEW f, f = Top, NEW t \in Identifiers, t = returned',
         cache' = cache \/ (f.fn = "Expr" /\ Stores(f.node)),
         Answers(f, t)'
  PROVE  Waiting' /\ Chained' /\ Endlessly' /\ AnswerTaken'
<1>1. Shapes /\ Waiting /\ Chained /\ calls # <<>>
  BY DEF FinderInv, Ripe
<1>2. PICK n \in Nat : n = Len(calls) /\ n >= 1 /\ DOMAIN calls = 1 .. n /\ Top = calls[n]
  BY <1>1, TopFacts
<1>3. PICK d : /\ d = calls' /\ Len(d) = n - 1 /\ DOMAIN d = 1 .. n - 1
               /\ \A i \in 1 .. n - 1 : d[i] = calls[i]
  BY <1>1, <1>2, PopEffect
<1>4. \A i, j \in 1 .. n : ~ Recurs(i, j)
  BY <1>1, <1>2, RipeIsNew
<1>5. Waiting'
  <2>1. SUFFICES ASSUME NEW i \in 1 .. n - 1, calls[i].phase = "wait"
                 PROVE  /\ Asks(calls[i])
                        /\ calls[i].fn = "Expr" => cache'[calls[i].node] = Uncached
    <3>1. ASSUME NEW i \in 1 .. n - 1 PROVE Asks(d[i])' <=> Asks(calls[i])
      BY <1>3, <3>1, CallsStay
    <3> QED BY <1>3, <3>1 DEF Waiting
  <2>2. Asks(calls[i]) /\ (calls[i].fn = "Expr" => cache[calls[i].node] = Uncached)
    BY <1>1, <1>2, <2>1 DEF Waiting
  <2>3. calls[i].fn = "Expr" /\ Top.fn = "Expr" => calls[i].node # Top.node
    BY <1>2, <1>4, <2>1 DEF Recurs
  <2>4. calls[i] \in Frames
    BY <1>1, <1>2, <2>1 DEF Shapes, GoodFrame
  <2> QED BY <1>1, <2>2, <2>3, <2>4 DEF Shapes, Stores, Frames
<1>6. ASSUME NEW i \in 1 .. n - 2
      PROVE  d[i].phase = "wait" /\ SameCall(d[i+1], Asked(d[i])')
  <2>1. i \in 1 .. n - 1 /\ i + 1 \in 1 .. n - 1
    BY <1>6
  <2>2. calls[i].phase = "wait" /\ SameCall(calls[i+1], Asked(calls[i]))
    BY <1>1, <1>2, <2>1 DEF Chained
  <2> QED BY <1>3, <2>1, <2>2, CallsStay
<1>7. Chained'
  BY <1>2, <1>3, <1>6 DEF Chained, SameCall
<1>8. Endlessly'
  <2>1. ASSUME NEW i \in 1 .. n - 1, NEW j \in 1 .. n - 1, Recurs(i, j)' PROVE FALSE
    <3>1. Recurs(i, j) /\ i \in 1 .. n /\ j \in 1 .. n
      BY <1>3, <2>1 DEF Recurs
    <3> QED BY <1>4, <3>1
  <2> QED BY <1>3, <2>1 DEF Endlessly
<1>9. AnswerTaken'
  <2>1. SUFFICES ASSUME n # 1 PROVE (Answers(Asked(Top), returned))'
    <3>1. calls' # <<>> => n # 1
      BY <1>1, <1>2, <1>3
    <3> QED BY <3>1 DEF AnswerTaken
  <2>2. n - 1 \in 1 .. n - 1 /\ Top' = calls[n - 1]
    BY <1>2, <1>3, <2>1 DEF Top
  <2>3. SameCall(Top, Asked(calls[n - 1]))
    BY <1>1, <1>2, <2>2 DEF Chained
  <2>4. Asked(Top)' = Asked(calls[n - 1])
    BY <2>2, CallsStay
  <2>5. PICK g : g = Asked(calls[n - 1])
    OBVIOUS
  <2>6. Answers(g, t)'
    BY <2>3, <2>5 DEF Answers, SameCall
  <2> QED BY <2>4, <2>5, <2>6
<1> QED BY <1>5, <1>7, <1>8, <1>9

LEMMA Appended ==
  ASSUME NEW S, NEW s \in Seq(S), NEW x \in S
  PROVE  /\ Append(s, x) \in Seq(S)
         /\ Len(s) \in Nat /\ Len(Append(s, x)) = Len(s) + 1
         /\ \A i \in DOMAIN s : Append(s, x)[i] = s[i]
         /\ Append(s, x)[Len(s) + 1] = x
OBVIOUS

LEMMA PopQuietlyKeepsInv ==
  ASSUME FinderInv, PopQuietly, UNCHANGED <<tables, queries>>
  PROVE  FinderInv'
<1>1. /\ Shapes /\ Table!LookupInv /\ St!Built /\ CacheObeys /\ calls # <<>> /\ Ripe
      /\ Pop /\ cache' = cache /\ crashed' = crashed /\ returned' \in Identifiers
  BY DEF FinderInv, AskedWhenBuilt, PopQuietly, Ripe
<1>2. Table!LookupInv' /\ AskedWhenBuilt'
  BY <1>1, TableStays, RulesStay DEF AskedWhenBuilt
<1>3. CacheObeys'
  BY <1>1, EntriesObey
<1>4. PICK f, t : f = Top /\ t = returned' /\ t \in Identifiers
  BY <1>1
<1>5. Answers(f, t)'
  <2>1. Answers(f, t)
    BY <1>4 DEF PopQuietly
  <2> QED BY <1>1, <2>1, EntriesObey
<1>6. Waiting' /\ Chained' /\ Endlessly' /\ AnswerTaken'
  BY <1>1, <1>4, <1>5, PopKeepsStack
<1>7. errors' \in Seq(Errors)
  <2>1. errors \in Seq(Errors)
    BY <1>1 DEF Shapes
  <2>2. \A error \in Errors : Append(errors, error) \in Seq(Errors)
    BY <2>1, Appended
  <2> QED BY <2>1, <2>2, Zenon DEF PopQuietly
<1>8. PICK n \in Nat : n = Len(calls) /\ n >= 1 /\ DOMAIN calls = 1 .. n
  BY <1>1, TopFacts
<1>9. PICK d : /\ d = calls' /\ Len(d) = n - 1 /\ DOMAIN d = 1 .. n - 1
               /\ d \in Seq(Frames) /\ \A i \in 1 .. n - 1 : d[i] = calls[i]
  BY <1>1, <1>8, PopEffect
<1>10. \A i \in DOMAIN d : GoodFrame(d[i])'
  BY <1>1, <1>8, <1>9, CallsStay DEF Shapes
<1>11. Len(d) <= StackLimit
  BY <1>1, <1>8, <1>9, StackAssumption DEF Shapes
<1>12. Shapes'
  BY <1>1, <1>7, <1>9, <1>10, <1>11, RulesStay, CallsStay DEF Shapes
<1> QED BY <1>2, <1>3, <1>6, <1>12 DEF FinderInv

\* The new entry obeys the rules, and those that were there refer to others
\* that were.
LEMMA StoringObeys ==
  ASSUME FinderInv, PopStoring, UNCHANGED tables
  PROVE  CacheObeys'
<1>1. /\ Shapes /\ Table!LookupInv /\ St!Built /\ CacheObeys /\ calls # <<>>
      /\ Top.fn = "Expr"
  BY DEF FinderInv, AskedWhenBuilt, PopStoring, Ripe
<1>2. prog \in Programs /\ Exprs \subseteq Nodes
  BY <1>1, ProgIsTree DEF Exprs
<1>3. PICK e \in Exprs : e = Top.node
  BY <1>1, TopFacts DEF GoodFrame
<1>4. PICK t \in Identifiers : t = returned'
  BY DEF PopStoring
<1>5. /\ cache[e] = Uncached /\ Obeys(e, t) /\ t # Uncached
      /\ cache' = [cache EXCEPT ![e] = t]
  BY <1>3, <1>4, NamesAssumption DEF PopStoring
<1>6. \A n \in Nodes : cache'[n] = IF n = e THEN t ELSE cache[n]
  BY <1>1, <1>5 DEF Shapes
<1>7. ASSUME NEW x \in Exprs, NEW s \in Identifiers, Obeys(x, s)
      PROVE  Obeys(x, s)'
  <2>1. Delegate(x) \in Exprs \cup {Null} /\ x \in Nodes
    BY <1>1, <1>2, <1>7, DelegateIsExpr
  <2>2. CASE Delegate(x) # Null
    <3>1. s = cache[Delegate(x)] /\ Delegate(x) \in Nodes
      BY <1>2, <1>7, <2>1, <2>2 DEF Obeys
    <3>2. Delegate(x) # e
      BY <1>5, <3>1, NamesAssumption
    <3>3. cache'[Delegate(x)] = s
      BY <1>6, <3>1, <3>2
    <3> QED BY <2>2, <3>3, RulesStay DEF Obeys
  <2>3. CASE Delegate(x) = Null /\ Kind(x) = "LValue" /\ Kind(Kid(x, 1)) = "Identifier"
    <3>1. PICK l \in Nodes : l = Kid(x, 1)
      BY <1>2, <2>1, <2>3, KidSorts
    <3>2. PICK d : d = lookupStorageLocation(x, prog[l].id)
      OBVIOUS
    <3>3. d # Null => d \in Nodes /\ Kind(d) \in {"VariableDeclaration", "For", "TypeField"}
      BY <1>1, <1>2, <3>1, <3>2, Lookups, NodeFacts
    <3>4. s = VariableType(x, l)
      BY <1>7, <2>3, <3>1 DEF Obeys
    <3>5. VariableType(x, l)' = s
      <4>1. CASE d = Null \/ Kind(d) = "For" \/ prog[d].type # NoType
        BY <3>2, <3>4, <4>1, RulesStay DEF VariableType
      <4>2. CASE d # Null /\ Kind(d) # "For" /\ prog[d].type = NoType
        <5>1. s = cache[Kid(d, 1)]
          BY <3>2, <3>4, <4>2 DEF VariableType
        <5>2. Kind(d) = "VariableDeclaration"
          BY <1>2, <3>3, <4>2, TypedNodes, ProgramsAssumption DEF IsTyped, Kind, Nodes
        <5>3. Kid(d, 1) \in Nodes /\ Kid(d, 1) # e
          BY <1>2, <1>5, <3>3, <4>2, <5>1, <5>2, KidSorts, NamesAssumption
        <5>4. cache'[Kid(d, 1)] = s
          BY <1>6, <5>1, <5>3
        <5> QED BY <3>2, <4>2, <5>4, RulesStay DEF VariableType, Kid
      <4> QED BY <4>1, <4>2
    <3>6. Kid(x, 1)' = l
      BY <3>1, RulesStay DEF Kid
    <3> QED BY <1>7, <2>3, <3>1, <3>5, <3>6, RulesStay DEF Obeys
  <2>4. CASE Delegate(x) = Null /\ ~ (Kind(x) = "LValue" /\ Kind(Kid(x, 1)) = "Identifier")
    BY <1>7, <2>4, RulesStay DEF Obeys, Kid
  <2> QED BY <2>2, <2>3, <2>4
<1>8. ASSUME NEW x \in Exprs, cache'[x] # Uncached
      PROVE  Obeys(x, cache[x])'
  <2>1. PICK s : s = cache'[x]
    OBVIOUS
  <2>2. s \in Identifiers /\ Obeys(x, s)
    <3>1. CASE x = e
      BY <1>2, <1>5, <1>6, <2>1, <3>1
    <3>2. CASE x # e
      <4>1. s = cache[x] /\ cache[x] # Uncached /\ x \in Nodes
        BY <1>2, <1>6, <1>8, <2>1, <3>2
      <4> QED BY <1>1, <4>1 DEF CacheObeys, Shapes
    <3> QED BY <3>1, <3>2
  <2>3. Obeys(x, s)'
    BY <1>7, <2>2
  <2> QED BY <2>1, <2>3
<1> QED BY <1>8, RulesStay DEF CacheObeys

LEMMA PopStoringKeepsInv ==
  ASSUME FinderInv, PopStoring, UNCHANGED <<tables, queries>>
  PROVE  FinderInv'
<1>1. /\ Shapes /\ Table!LookupInv /\ St!Built /\ calls # <<>> /\ Ripe
      /\ Pop /\ crashed' = crashed /\ Top.fn = "Expr" /\ Stores(Top.node)
  BY DEF FinderInv, AskedWhenBuilt, PopStoring, Ripe, Stores
<1>2. Table!LookupInv' /\ AskedWhenBuilt'
  BY <1>1, TableStays, RulesStay DEF AskedWhenBuilt
<1>3. PICK e \in Exprs : e = Top.node
  BY <1>1, TopFacts DEF GoodFrame
<1>4. PICK f, t : f = Top /\ t = returned' /\ t \in Identifiers
  BY DEF PopStoring
<1>5. /\ e \in Nodes /\ cache' = [cache EXCEPT ![e] = t]
      /\ cache \in [Nodes -> Identifiers \cup {Uncached}]
  BY <1>1, <1>3, <1>4 DEF Stores, Exprs, Shapes
<1>6. Answers(f, t)'
  <2>1. cache'[e] = t
    BY <1>5
  <2> QED BY <1>1, <1>3, <1>4, <2>1 DEF Answers
<1>7. Waiting' /\ Chained' /\ Endlessly' /\ AnswerTaken'
  BY <1>1, <1>4, <1>6, PopKeepsStack
<1>8. errors' \in Seq(Errors)
  <2>1. prog[e].id \in Identifiers
    BY <1>1, <1>5, ProgIsTree, NodeFacts
  <2>2. Reported("Function not found", prog[e].id) \in Errors
    BY <2>1 DEF Reported, Errors, ErrorKinds
  <2>3. errors \in Seq(Errors)
    BY <1>1 DEF Shapes
  <2>4. Append(errors, Reported("Function not found", prog[e].id)) \in Seq(Errors)
    BY <2>2, <2>3, Appended
  <2> QED BY <1>3, <2>3, <2>4, Zenon DEF PopStoring
<1>9. PICK n \in Nat : n = Len(calls) /\ n >= 1 /\ DOMAIN calls = 1 .. n
  BY <1>1, TopFacts
<1>10. PICK d : /\ d = calls' /\ Len(d) = n - 1 /\ DOMAIN d = 1 .. n - 1
                /\ d \in Seq(Frames) /\ \A i \in 1 .. n - 1 : d[i] = calls[i]
  BY <1>1, <1>9, PopEffect
<1>11. \A i \in DOMAIN d : GoodFrame(d[i])'
  BY <1>1, <1>9, <1>10, CallsStay DEF Shapes
<1>12. Len(d) <= StackLimit
  BY <1>1, <1>9, <1>10, StackAssumption DEF Shapes
<1>13. /\ cache' \in [Nodes -> Identifiers \cup {Uncached}]
       /\ \A x \in Nodes \ Exprs : cache'[x] = Uncached
  BY <1>1, <1>3, <1>4, <1>5 DEF Shapes
<1>14. Shapes'
  BY <1>1, <1>4, <1>8, <1>10, <1>11, <1>12, <1>13, RulesStay, CallsStay DEF Shapes
<1> QED BY <1>2, <1>7, <1>14, StoringObeys DEF FinderInv

LEMMA MoveKeepsInv ==
  ASSUME FinderInv, NEW f, Move(f), UNCHANGED <<tables, queries>>
  PROVE  FinderInv'
<1>1. /\ Shapes /\ Table!LookupInv /\ St!Built /\ CacheObeys /\ calls # <<>>
      /\ Waiting /\ Chained /\ UNCHANGED <<cache, errors, returned, crashed>>
      /\ GoodFrame(f) /\ f.phase = "unalias" /\ SameCall(f, Top) /\ f \in Frames
  BY DEF FinderInv, AskedWhenBuilt, Move, GoodFrame
<1>2. Table!LookupInv' /\ AskedWhenBuilt' /\ CacheObeys'
  BY <1>1, TableStays, RulesStay, EntriesObey DEF AskedWhenBuilt
<1>3. PICK n \in Nat : /\ n = Len(calls) /\ n >= 1 /\ DOMAIN calls = 1 .. n
                       /\ Top = calls[n]
  BY <1>1, TopFacts
<1>4. PICK d : d = calls' /\ d = [calls EXCEPT ![n] = f]
  BY <1>3 DEF Move
<1>5. /\ Len(d) = n /\ DOMAIN d = 1 .. n /\ d \in Seq(Frames)
      /\ \A i \in 1 .. n : d[i] = IF i = n THEN f ELSE calls[i]
  <2>1. calls \in Seq(Frames)
    BY <1>1 DEF Shapes
  <2> QED BY <1>1, <1>3, <1>4, <2>1
<1>6. \A i \in 1 .. n : SameCall(d[i], calls[i]) /\ GoodFrame(d[i])
  BY <1>1, <1>3, <1>5 DEF SameCall, Shapes
<1>7. \A i, j \in 1 .. n : ~ Recurs(i, j)
  <2>1. Top.phase # "enter"
    BY DEF Move
  <2> QED BY <1>1, <1>3, <2>1, RipeIsNew
<1>8. Shapes'
  <2>1. \A i \in DOMAIN d : GoodFrame(d[i])'
    BY <1>5, <1>6, CallsStay
  <2> QED BY <1>1, <1>3, <1>4, <1>5, <2>1, RulesStay, CallsStay DEF Shapes
<1>9. Waiting'
  <2>1. ASSUME NEW i \in 1 .. n, d[i].phase = "wait" PROVE d[i] = calls[i]
    BY <1>1, <1>5, <2>1
  <2>2. \A i \in 1 .. n : d[i].phase = "wait" =>
          Asks(d[i]) /\ (d[i].fn = "Expr" => cache[d[i].node] = Uncached)
    BY <1>1, <1>3, <2>1 DEF Waiting
  <2> QED BY <1>1, <1>4, <1>5, <2>2, CallsStay DEF Waiting
<1>10. ASSUME NEW i \in 1 .. n - 1
       PROVE  d[i].phase = "wait" /\ SameCall(d[i+1], Asked(d[i])')
  <2>1. i \in 1 .. n /\ i + 1 \in 1 .. n /\ d[i] = calls[i]
    BY <1>5, <1>10
  <2>2. calls[i].phase = "wait" /\ SameCall(calls[i+1], Asked(calls[i]))
    BY <1>1, <1>3, <1>10 DEF Chained
  <2>3. Asked(d[i])' = Asked(calls[i])
    BY <2>1, CallsStay
  <2> QED BY <1>6, <2>1, <2>2, <2>3 DEF SameCall
<1>11. Chained'
  BY <1>4, <1>5, <1>10 DEF Chained, SameCall
<1>12. Endlessly'
  <2>1. ASSUME NEW i \in 1 .. n, NEW j \in 1 .. n, Recurs(i, j)' PROVE FALSE
    <3>1. Recurs(i, j)
      BY <1>4, <1>6, <2>1 DEF Recurs, SameCall
    <3> QED BY <1>7, <3>1
  <2> QED BY <1>4, <1>5, <2>1 DEF Endlessly
<1>13. AnswerTaken'
  <2>1. Top' = f
    BY <1>3, <1>4, <1>5 DEF Top
  <2> QED BY <1>1, <2>1 DEF AnswerTaken
<1> QED BY <1>2, <1>8, <1>9, <1>11, <1>12, <1>13 DEF FinderInv

\* A query starts with an empty stack.
LEMMA AskKeepsInv ==
  ASSUME FinderInv, Ask PROVE FinderInv'
<1>1. PICK e \in Exprs : Query(e) \/ QueryLValue(e)
  BY DEF Ask
<1>2. UNCHANGED tables
  BY DEF Ask
<1>3. PICK f : /\ calls' = <<f>>
               /\ \/ f = Frame("Expr", e, Null)
                  \/ Kind(e) = "Assignment" /\ f = Frame("LValue", Kid(e, 1), e)
  BY <1>1 DEF Query, QueryLValue
<1>4. /\ Shapes /\ Table!LookupInv /\ St!Built /\ CacheObeys /\ prog \in Programs
      /\ UNCHANGED <<cache, errors, returned, crashed>>
      /\ queries' = queries + 1 /\ queries < MaxQueries
  BY <1>1, ProgIsTree DEF FinderInv, Query, QueryLValue, Idle
<1>5. GoodFrame(f) /\ f \in Frames /\ f.phase = "enter"
  <2>1. "NOTYPE" \in Identifiers /\ e \in Nodes
    BY NamesAssumption DEF Reserved, Exprs
  <2>2. Kind(e) = "Assignment" => Kid(e, 1) \in Nodes /\ Kind(Kid(e, 1)) \in LValueKinds
    BY <1>4, <2>1, KidSorts
  <2> QED BY <1>3, <2>1, <2>2 DEF Frame, GoodFrame, Frames
<1>6. StackLimit \in Nat /\ StackLimit >= 1
  <2>1. e \in Nodes
    BY DEF Exprs
  <2>2. Len(prog) \in Nat /\ Len(prog) >= 1
    BY <1>4, <2>1, NodeFacts
  <2> QED BY <1>4, <2>2, StackAssumption
<1>7. PICK d : /\ d = calls' /\ Len(d) = 1 /\ DOMAIN d = 1 .. 1 /\ d[1] = f
               /\ d \in Seq(Frames)
  <2>1. PICK d : d = <<f>>
    OBVIOUS
  <2>2. Len(d) = 1 /\ DOMAIN d = 1 .. 1 /\ d[1] = f
    BY <2>1
  <2>3. d \in Seq(Frames)
    BY <1>5, <2>1
  <2> QED BY <1>3, <2>1, <2>2, <2>3
<1>8. queries' \in 0 .. MaxQueries
  BY <1>4, QueriesAssumption DEF Shapes
<1>9. \A i \in DOMAIN d : GoodFrame(d[i])'
  BY <1>2, <1>5, <1>7, CallsStay
<1>10. Shapes'
  BY <1>2, <1>4, <1>6, <1>7, <1>8, <1>9, RulesStay, CallsStay DEF Shapes
<1>11. Table!LookupInv' /\ AskedWhenBuilt' /\ CacheObeys'
  BY <1>2, <1>4, TableStays, RulesStay, EntriesObey DEF AskedWhenBuilt
<1>12. Waiting' /\ Chained' /\ Endlessly' /\ AnswerTaken'
  BY <1>5, <1>7 DEF Waiting, Chained, Endlessly, Recurs, AnswerTaken, Top
<1> QED BY <1>10, <1>11, <1>12 DEF FinderInv

\* Build has ended before the first query, and touches nothing of the finder.
LEMMA BuildComesFirst ==
  ASSUME FinderInv, Build
  PROVE  /\ calls = <<>> /\ errors = <<>> /\ \A e \in Nodes : cache[e] = Uncached
         /\ prog' = prog /\ Nodes' = Nodes
<1>1. Table!LookupInv /\ St!BuildStep
  BY DEF FinderInv, Build
<1>2. ~ St!Built
  <2>1. stack # <<>> \/ status = "unvisited"
    BY <1>1 DEF St!BuildStep, St!LeaveScope, St!LeaveOther, St!Return, St!Visit, St!Visited
  <2>2. Table!NextIsUnvisited
    BY <1>1 DEF Table!LookupInv, Table!CompleteInv, Table!LexicalInv
  <2>3. status = "built" => stack = <<>>
    BY <2>2 DEF Table!NextIsUnvisited
  <2> QED BY <2>1, <2>3 DEF St!Built
<1>3. prog' = prog
  BY <1>1, Zenon
     DEF St!BuildStep, St!LeaveScope, St!LeaveOther, St!Return, St!Visit, St!VisitLet,
         St!VisitFunctionDeclaration, St!VisitVariableDeclaration,
         St!VisitTypeDeclaration, St!VisitFor, St!VisitOther, St!Enter
<1> QED BY <1>2, <1>3 DEF FinderInv, AskedWhenBuilt, Nodes

LEMMA BuildKeepsInv ==
  ASSUME FinderInv, Build PROVE FinderInv'
<1>1. Table!LookupInv /\ Shapes /\ St!BuildStep /\ UNCHANGED finder
  BY DEF FinderInv, Build
<1>3. calls = <<>> /\ errors = <<>> /\ \A e \in Nodes : cache[e] = Uncached
  BY BuildComesFirst
<1>4. prog' = prog
  BY BuildComesFirst
<1>5. Nodes' = Nodes /\ Exprs' = Exprs
  BY <1>4 DEF Nodes, Exprs, IsExpr, Kind
<1>6. Table!LookupInv'
  BY <1>1, TableStep
<1>7. UNCHANGED <<calls, errors, cache, returned, queries, crashed>>
  BY <1>1 DEF finder
<1>8. Frames' = Frames
  BY <1>5 DEF Frames
<1>9. Shapes'
  BY <1>1, <1>3, <1>5, <1>7, <1>8 DEF Shapes
<1>10. AskedWhenBuilt' /\ Waiting' /\ Chained' /\ Endlessly' /\ AnswerTaken'
  BY <1>3, <1>5, <1>7 DEF AskedWhenBuilt, Waiting, Chained, Endlessly, AnswerTaken
<1>11. CacheObeys'
  BY <1>3, <1>5, <1>7 DEF CacheObeys, Exprs
<1> QED BY <1>6, <1>9, <1>10, <1>11 DEF FinderInv

LEMMA InitFinder == Init => FinderInv
<1> SUFFICES ASSUME Init PROVE FinderInv
  OBVIOUS
<1>1. Table!LookupInv
  BY TableInit DEF Init
<1>2. Shapes
  <2>1. /\ cache \in [Nodes -> Identifiers \cup {Uncached}]
        /\ \A e \in Nodes \ Exprs : cache[e] = Uncached
    BY DEF Init, Exprs
  <2>2. errors \in Seq(Errors)
    BY DEF Init
  <2>3. calls \in Seq(Frames) /\ DOMAIN calls = {} /\ Len(calls) = 0
    BY DEF Init
  <2>4. returned \in Identifiers
    BY NamesAssumption DEF Init, Reserved
  <2>5. queries \in 0 .. MaxQueries
    BY QueriesAssumption DEF Init
  <2>6. crashed \in BOOLEAN
    BY DEF Init
  <2> QED BY <2>1, <2>2, <2>3, <2>4, <2>5, <2>6, StackAssumption DEF Shapes
<1>3. AskedWhenBuilt /\ Waiting /\ Chained /\ Endlessly /\ AnswerTaken /\ CacheObeys
  BY DEF Init, AskedWhenBuilt, Waiting, Chained, Endlessly, AnswerTaken, CacheObeys, Exprs
<1> QED BY <1>1, <1>2, <1>3 DEF FinderInv

LEMMA StepSorts ==
  FinderInv /\ Step => Push \/ PopQuietly \/ PopStoring \/ \E f : Move(f)
BY ExprSteps, LValueSteps DEF Step

LEMMA StepFinder == FinderInv /\ [Next]_vars => FinderInv'
<1> SUFFICES ASSUME FinderInv, [Next]_vars PROVE FinderInv'
  OBVIOUS
<1>1. CASE Build
  BY <1>1, BuildKeepsInv
<1>2. CASE Ask
  BY <1>2, AskKeepsInv
<1>3. CASE Step
  <2>1. UNCHANGED <<tables, queries>>
    BY <1>3 DEF Step
  <2>2. Push \/ PopQuietly \/ PopStoring \/ \E f : Move(f)
    BY <1>3, StepSorts
  <2> QED BY <2>1, <2>2, PushKeepsInv, PopQuietlyKeepsInv, PopStoringKeepsInv, MoveKeepsInv
<1>4. CASE UNCHANGED vars
  <2>1. /\ UNCHANGED tables /\ UNCHANGED <<cache, errors, calls, returned, queries, crashed>>
        /\ Shapes /\ Table!LookupInv /\ AskedWhenBuilt /\ CacheObeys
        /\ Waiting /\ Chained /\ Endlessly /\ AnswerTaken
    BY <1>4 DEF vars, finder, FinderInv
  <2>2. Table!LookupInv' /\ AskedWhenBuilt' /\ CacheObeys'
    BY <2>1, TableStays, RulesStay, EntriesObey DEF AskedWhenBuilt
  <2>3. Shapes'
    BY <2>1, RulesStay, CallsStay DEF Shapes
  <2>4. Waiting' /\ Chained'
    BY <2>1, CallsStay DEF Waiting, Chained, SameCall
  <2>5. Endlessly'
    BY <2>1 DEF Endlessly, Recurs, SameCall, Top
  <2>6. AnswerTaken'
    BY <2>1, CallsStay, EntriesObey DEF AnswerTaken, Top
  <2> QED BY <2>2, <2>3, <2>4, <2>5, <2>6 DEF FinderInv
<1> QED BY <1>1, <1>2, <1>3, <1>4 DEF Next, Stop

LEMMA FinderInvariant == Spec => []FinderInv
BY InitFinder, StepFinder, PTL DEF Spec

-----------------------------------------------------------------------------
(* The theorems.                                                           *)

\* Whatever the program, every answer, every frame of the call stack and
\* every error is about names and nodes of the right sort: no call of
\* type_finder.cc is made with a declaration of another kind.
THEOREM FinderTypes == Spec => []TypeOK
BY FinderInvariant, ShapesAreTypes, PTL

\* Whatever has been asked in whatever order, the cache holds what the
\* inference rules of operator() and GetLValueType give.
THEOREM CacheFollowsInference == Spec => []CacheAgrees
BY FinderInvariant, CacheFollowsRules, PTL

\* What a step does to the cache and the errors.
LEMMA StepEffect ==
  ASSUME FinderInv, [Next]_vars
  PROVE  \/ UNCHANGED <<cache, errors>>
         \/ UNCHANGED tables /\ PopQuietly
         \/ UNCHANGED tables /\ PopStoring
<1>1. CASE Build \/ Ask \/ UNCHANGED vars
  BY <1>1 DEF Build, Ask, Query, QueryLValue, vars, finder
<1>2. CASE Step
  <2>1. UNCHANGED tables
    BY <1>2 DEF Step
  <2>2. Push \/ PopQuietly \/ PopStoring \/ \E f : Move(f)
    BY <1>2, StepSorts
  <2>3. Push \/ (\E f : Move(f)) => UNCHANGED <<cache, errors>>
    BY DEF Push, CallFromTop, Move
  <2> QED BY <2>1, <2>2, <2>3
<1> QED BY <1>1, <1>2 DEF Next, Stop

LEMMA AnswersStay ==
  ASSUME FinderInv, [Next]_vars
  PROVE  /\ \A e \in Nodes : cache[e] # Uncached => cache'[e] = cache[e]
         /\ Len(errors) <= Len(errors')
         /\ \A i \in DOMAIN errors : errors'[i] = errors[i]
<1> DEFINE Stand == /\ \A e \in Nodes : cache[e] # Uncached => cache'[e] = cache[e]
                    /\ Len(errors) <= Len(errors')
                    /\ \A i \in DOMAIN errors : errors'[i] = errors[i]
<1> SUFFICES Stand
  OBVIOUS
<1>1. /\ errors \in Seq(Errors) /\ Len(errors) \in Nat
      /\ cache \in [Nodes -> Identifiers \cup {Uncached}]
  BY DEF FinderInv, Shapes
<1>2. \A error \in Errors : /\ Len(errors) <= Len(Append(errors, error))
                            /\ \A i \in DOMAIN errors : Append(errors, error)[i] = errors[i]
  BY <1>1, Appended
<1>3. CASE UNCHANGED <<cache, errors>>
  BY <1>1, <1>3
<1>4. CASE PopQuietly
  <2>1. cache' = cache
    BY <1>4 DEF PopQuietly
  <2>2. CASE errors' = errors
    BY <1>1, <2>1, <2>2
  <2>3. ASSUME NEW error \in Errors, errors' = Append(errors, error) PROVE Stand
    BY <1>1, <1>2, <2>1, <2>3
  <2> QED BY <1>4, <2>2, <2>3, Zenon DEF PopQuietly
<1>5. CASE PopStoring /\ UNCHANGED tables
  <2>1. \A e \in Nodes : cache[e] # Uncached => cache'[e] = cache[e]
    BY <1>1, <1>5 DEF PopStoring
  <2>2. Top.node \in Nodes /\ prog \in Programs
    BY <1>5, TopFacts, ProgIsTree DEF FinderInv, PopStoring, Ripe, GoodFrame, Frames
  <2>3. Reported("Function not found", prog[Top.node].id) \in Errors
    BY <2>2, NodeFacts DEF Reported, Errors, ErrorKinds
  <2>4. PICK error \in Errors : errors' = errors \/ errors' = Append(errors, error)
    BY <1>5, <2>3 DEF PopStoring
  <2> QED BY <1>1, <1>2, <2>1, <2>4
<1> QED BY <1>3, <1>4, <1>5, StepEffect

\* An answer once given is given again by every later query, even when the
\* recursion has come back to the expression in between, and errors are only
\* added.
THEOREM AnswersNeverRevised == Spec => AnswersStand
<1>1. ASSUME FinderInv, [Next]_vars
      PROVE  [ /\ \A e \in Nodes : cache[e] # Uncached => cache'[e] = cache[e]
               /\ Len(errors) <= Len(errors')
               /\ \A i \in DOMAIN errors : errors'[i] = errors[i] ]_vars
  BY <1>1, AnswersStay
<1> QED BY <1>1, FinderInvariant, PTL DEF Spec, AnswersStand

ErrorsAbout(x) == {i \in DOMAIN errors : errors[i] = Reported("Function not found", x)}
FailedCalls(x) ==
  {e \in Exprs : cache[e] # Uncached /\ NotAFunction(e) /\ prog[e].id = x}

LEMMA ErrorFacts ==
  ASSUME errors \in Seq(Errors)
  PROVE  Len(errors) \in Nat /\ DOMAIN errors = 1 .. Len(errors)
OBVIOUS

LEMMA FiniteCounts ==
  ASSUME FinderInv, NEW x
  PROVE  IsFiniteSet(ErrorsAbout(x)) /\ IsFiniteSet(FailedCalls(x))
<1>1. Len(errors) \in Nat /\ DOMAIN errors = 1 .. Len(errors)
  BY ErrorFacts DEF FinderInv, Shapes
<1>2. IsFiniteSet(1 .. Len(errors))
  BY <1>1, FS_Interval
<1>3. prog \in Seq(Node(prog))
  BY ProgIsTree, ProgramsAssumption DEF FinderInv, IsProgram
<1>4. Len(prog) \in Nat /\ Exprs \subseteq 1 .. Len(prog)
  BY <1>3 DEF Exprs, Nodes, NodesOf
<1>5. IsFiniteSet(1 .. Len(prog))
  BY <1>4, FS_Interval
<1>6. ErrorsAbout(x) \subseteq 1 .. Len(errors) /\ FailedCalls(x) \subseteq 1 .. Len(prog)
  BY <1>1, <1>4 DEF ErrorsAbout, FailedCalls
<1> QED BY <1>2, <1>5, <1>6, FS_Subset

\* An append to the error list is counted when it is about x.
LEMMA CountAppended ==
  ASSUME errors \in Seq(Errors), NEW error \in Errors, errors' = Append(errors, error),
         NEW x \in Identifiers
  PROVE  ErrorsAbout(x)' = IF error = Reported("Function not found", x)
                           THEN ErrorsAbout(x) \cup {Len(errors) + 1} ELSE ErrorsAbout(x)
<1>1. PICK n \in Nat : n = Len(errors) /\ DOMAIN errors = 1 .. n
  BY ErrorFacts
<1>2. PICK d : d = errors' /\ DOMAIN d = 1 .. n + 1 /\ d[n + 1] = error
               /\ \A i \in 1 .. n : d[i] = errors[i]
  <2>1. PICK d : d = Append(errors, error)
    OBVIOUS
  <2>2. d \in Seq(Errors) /\ Len(d) = n + 1 /\ d[n + 1] = error
    BY <1>1, <2>1, Appended
  <2>3. \A i \in 1 .. n : d[i] = errors[i]
    BY <1>1, <2>1, Appended
  <2>4. DOMAIN d = 1 .. n + 1
    BY <2>2
  <2> QED BY <2>1, <2>2, <2>3, <2>4
<1>3. PICK r : r = Reported("Function not found", x)
  OBVIOUS
<1>4. ErrorsAbout(x)' = {i \in 1 .. n + 1 : d[i] = r}
  BY <1>2, <1>3 DEF ErrorsAbout, Reported
<1>5. ErrorsAbout(x) = {i \in 1 .. n : errors[i] = r}
  BY <1>1, <1>3 DEF ErrorsAbout
<1>6. {i \in 1 .. n + 1 : d[i] = r}
        = IF error = r THEN {i \in 1 .. n : errors[i] = r} \cup {n + 1}
          ELSE {i \in 1 .. n : errors[i] = r}
  BY <1>2
<1> QED BY <1>1, <1>3, <1>4, <1>5, <1>6

Counted == \A x \in Identifiers : Cardinality(ErrorsAbout(x)) = Cardinality(FailedCalls(x))

LEMMA StoringCounts ==
  ASSUME FinderInv, PopStoring, UNCHANGED tables, Counted PROVE Counted'
<1> SUFFICES ASSUME NEW x \in Identifiers
             PROVE  Cardinality(ErrorsAbout(x)') = Cardinality(FailedCalls(x)')
  BY DEF Counted
<1>1. /\ Shapes /\ Table!LookupInv /\ calls # <<>> /\ prog \in Programs
      /\ errors \in Seq(Errors) /\ Top.fn = "Expr"
  <2>1. Shapes /\ Table!LookupInv /\ prog \in Programs
    BY ProgIsTree DEF FinderInv
  <2>2. calls # <<>> /\ Top.fn = "Expr"
    BY DEF PopStoring, Ripe
  <2> QED BY <2>1, <2>2 DEF Shapes
<1>2. PICK e \in Exprs : e = Top.node
  BY <1>1, TopFacts DEF GoodFrame
<1>3. e \in Nodes /\ prog[e].id \in Identifiers /\ Exprs \subseteq Nodes
  BY <1>1, NodeFacts DEF Exprs
<1>4. /\ cache[e] = Uncached /\ cache' \in [Nodes -> Identifiers \cup {Uncached}]
      /\ cache'[e] # Uncached /\ \A n \in Nodes : n # e => cache'[n] = cache[n]
  BY <1>1, <1>2, <1>3, NamesAssumption DEF PopStoring, Shapes
<1>5. FailedCalls(x)' = {n \in Exprs : /\ cache'[n] # Uncached
                                       /\ NotAFunction(n) /\ prog[n].id = x}
  BY RulesStay DEF FailedCalls
<1>6. CASE NotAFunction(e) /\ prog[e].id = x
  <2>1. FailedCalls(x)' = FailedCalls(x) \cup {e} /\ e \notin FailedCalls(x)
    BY <1>3, <1>4, <1>5, <1>6 DEF FailedCalls
  <2>2. errors' = Append(errors, Reported("Function not found", x))
    BY <1>2, <1>6 DEF PopStoring
  <2>3. Reported("Function not found", x) \in Errors
    BY DEF Reported, Errors, ErrorKinds
  <2>4. /\ ErrorsAbout(x)' = ErrorsAbout(x) \cup {Len(errors) + 1}
        /\ Len(errors) + 1 \notin ErrorsAbout(x)
    <3>1. Len(errors) + 1 \notin ErrorsAbout(x)
      <4>1. PICK n \in Nat : n = Len(errors) /\ DOMAIN errors = 1 .. n
        BY <1>1, ErrorFacts
      <4>2. ErrorsAbout(x) \subseteq 1 .. n
        BY <4>1 DEF ErrorsAbout
      <4> QED BY <4>1, <4>2
    <3> QED BY <1>1, <2>2, <2>3, <3>1, CountAppended
  <2>5. /\ Cardinality(ErrorsAbout(x)') = Cardinality(ErrorsAbout(x)) + 1
        /\ Cardinality(FailedCalls(x)') = Cardinality(FailedCalls(x)) + 1
    BY <2>1, <2>4, FiniteCounts, FS_AddElement
  <2> QED BY <2>5 DEF Counted
<1>7. CASE ~ (NotAFunction(e) /\ prog[e].id = x)
  <2>1. FailedCalls(x)' = FailedCalls(x)
    BY <1>3, <1>4, <1>5, <1>7 DEF FailedCalls
  <2>2. ErrorsAbout(x)' = ErrorsAbout(x)
    <3>1. CASE NotAFunction(e)
      <4>1. errors' = Append(errors, Reported("Function not found", prog[e].id))
        BY <1>2, <3>1 DEF PopStoring
      <4>2. Reported("Function not found", prog[e].id) \in Errors
        BY <1>3 DEF Reported, Errors, ErrorKinds
      <4>3. Reported("Function not found", prog[e].id) # Reported("Function not found", x)
        BY <1>7, <3>1 DEF Reported
      <4> QED BY <1>1, <4>1, <4>2, <4>3, CountAppended
    <3>2. CASE ~ NotAFunction(e)
      BY <1>2, <3>2 DEF PopStoring, ErrorsAbout, Reported
    <3> QED BY <3>1, <3>2
  <2> QED BY <2>1, <2>2 DEF Counted
<1> QED BY <1>6, <1>7

LEMMA NoneCounted == errors = <<>> /\ (\A e \in Nodes : cache[e] = Uncached) => Counted
<1> SUFFICES ASSUME errors = <<>>, \A e \in Nodes : cache[e] = Uncached PROVE Counted
  OBVIOUS
<1>1. \A x : ErrorsAbout(x) = {} /\ FailedCalls(x) = {}
  BY DEF ErrorsAbout, FailedCalls, Exprs
<1> QED BY <1>1 DEF Counted

LEMMA StepCounts == FinderInv /\ Counted /\ [Next]_vars => Counted'
<1> SUFFICES ASSUME FinderInv, Counted, [Next]_vars PROVE Counted'
  OBVIOUS
<1>1. CASE Build
  <2>1. FinderInv' /\ UNCHANGED <<calls, errors, cache>>
    BY <1>1, BuildKeepsInv DEF Build, finder
  <2>2. errors = <<>> /\ (\A e \in Nodes : cache[e] = Uncached) /\ Nodes' = Nodes
    BY <1>1, BuildComesFirst
  <2>3. (errors = <<>> /\ \A e \in Nodes : cache[e] = Uncached)'
    BY <2>1, <2>2
  <2>4. (errors = <<>> /\ \A e \in Nodes : cache[e] = Uncached)' => Counted'
    BY NoneCounted, PTL
  <2> QED BY <2>3, <2>4
<1>2. CASE ~ Build
  <2>1. UNCHANGED tables
    BY <1>2 DEF Next, Ask, Step, Stop, vars
  <2>2. ASSUME NEW x, UNCHANGED cache PROVE FailedCalls(x)' = FailedCalls(x)
    BY <2>1, <2>2, RulesStay DEF FailedCalls
  <2>3. ASSUME NEW x, UNCHANGED errors PROVE ErrorsAbout(x)' = ErrorsAbout(x)
    BY <2>3 DEF ErrorsAbout, Reported
  <2>4. CASE UNCHANGED <<cache, errors>>
    BY <2>2, <2>3, <2>4 DEF Counted
  <2>5. CASE PopQuietly
    <3>1. cache' = cache
      BY <2>5 DEF PopQuietly
    <3>2. ASSUME NEW x \in Identifiers PROVE ErrorsAbout(x)' = ErrorsAbout(x)
      <4>1. CASE errors' = errors
        BY <2>3, <4>1
      <4>2. ASSUME NEW error \in Errors, error.what # "Function not found",
                   errors' = Append(errors, error)
            PROVE  ErrorsAbout(x)' = ErrorsAbout(x)
        <5>1. error # Reported("Function not found", x)
          <6>1. Reported("Function not found", x).what = "Function not found"
            BY DEF Reported
          <6> QED BY <4>2, <6>1
        <5>2. errors \in Seq(Errors)
          BY DEF FinderInv, Shapes
        <5> QED BY <4>2, <5>1, <5>2, CountAppended
      <4> QED BY <2>5, <4>1, <4>2 DEF PopQuietly
    <3> QED BY <2>2, <3>1, <3>2 DEF Counted
  <2>6. CASE PopStoring
    BY <2>1, <2>6, StoringCounts
  <2> QED BY <2>4, <2>5, <2>6, StepEffect
<1> QED BY <1>1, <1>2

\* However many queries come across a call of an unknown function, and
\* however their recursions overlap, its error is recorded once for each such
\* call, no more and no less.
THEOREM UnknownCallsReportedOnce == Spec => []CallsReportedOnce
<1>1. Counted => CallsReportedOnce
  BY Zenon DEF Counted, ErrorsAbout, FailedCalls, CallsReportedOnce, CountOf
<1>2. Init => Counted
  BY NoneCounted DEF Init
<1> QED BY <1>1, <1>2, StepCounts, FinderInvariant, PTL DEF Spec

-----------------------------------------------------------------------------
(* Overflow.                                                               *)

LEMMA BoundedInduction ==
  ASSUME NEW N \in Nat, NEW a \in 0 .. N, NEW A, a \in A,
         \A k \in a .. N - 1 : k \in A => k + 1 \in A
  PROVE  \A k \in a .. N : k \in A
<1> DEFINE Bad == {k \in a .. N : k \notin A}
<1>1. SUFFICES ASSUME Bad # {} PROVE FALSE
  OBVIOUS
<1>2. Bad \in SUBSET Nat
  OBVIOUS
<1> HIDE DEF Bad
<1>3. PICK k \in Bad : \A i \in Bad : k <= i
  BY <1>1, <1>2, TreesOnly, Table!LeastNatural
<1>4. k \in a .. N /\ k \notin A /\ k # a
  BY <1>3 DEF Bad
<1>5. k - 1 \in a .. N - 1 /\ k - 1 \notin Bad
  BY <1>3, <1>4
<1>6. k - 1 \in A
  BY <1>5 DEF Bad
<1>7. (k - 1) + 1 \in A
  BY <1>5, <1>6
<1> QED BY <1>4, <1>7

\* Parts of a node lie after it, and it shares none of the l-values it goes
\* down to with another.
LEMMA FirstKids ==
  ASSUME prog \in Programs, NEW a \in Nodes, NEW b \in Nodes,
         Kind(a) \in {"LValue", "RecordField", "ArrayElement", "Assignment"},
         Kind(b) \in {"LValue", "RecordField", "ArrayElement", "Assignment"}
  PROVE  /\ Kid(a, 1) \in Nodes /\ a < Kid(a, 1)
         /\ Kid(a, 1) = Kid(b, 1) => a = b
<1>1. IsTree(prog) /\ Nodes = NodesOf(prog) /\ Nodes = 1 .. Len(prog) /\ Len(prog) \in Nat
  BY ProgramsAssumption, NodeFacts DEF IsProgram, Nodes
<1>2. ASSUME NEW n \in Nodes,
             Kind(n) \in {"LValue", "RecordField", "ArrayElement", "Assignment"}
      PROVE  /\ DOMAIN prog[n].kids = DOMAIN Children(Kind(n))
             /\ 1 \in DOMAIN prog[n].kids /\ Kid(n, 1) \in Nodes
             /\ Kind(Kid(n, 1)) \in LValueKinds
  <2>1. Kid(n, 1) \in Nodes /\ Kind(Kid(n, 1)) \in LValueKinds
    BY <1>2, KidSorts
  <2>2. Kind(n) \notin Vectors /\ DOMAIN Children(Kind(n)) \in {1 .. 1, 1 .. 2}
    BY <1>2 DEF Vectors, Children, Childless
  <2>3. DOMAIN prog[n].kids = DOMAIN Children(Kind(n))
    BY <2>2, ProgramsAssumption DEF IsProgram, IsShaped, Kind, Nodes
  <2>4. 1 \in DOMAIN Children(Kind(n))
    BY <2>2
  <2> QED BY <2>1, <2>3, <2>4
<1>3. ASSUME NEW n \in Nodes, NEW j \in DOMAIN prog[n].kids
      PROVE  /\ n < Kid(n, j) /\ prog[Kid(n, j)].last <= prog[n].last
             /\ \A i \in DOMAIN prog[n].kids : i < j => prog[Kid(n, i)].last < Kid(n, j)
  BY <1>1, Zenon DEF IsTree, Kid
<1>4. ASSUME NEW n \in Nodes
      PROVE  n <= prog[n].last /\ prog[n].last \in Nodes
  <2>1. n <= prog[n].last
    BY <1>1, Zenon DEF IsTree
  <2>2. prog[n] \in Node(prog)
    BY <1>1, ProgramsAssumption DEF IsProgram
  <2> QED BY <1>1, <2>1, <2>2 DEF Node
<1>5. ASSUME NEW m \in Nodes, NEW n \in Nodes, m < n, Kid(m, 1) = Kid(n, 1),
             Kind(m) \in {"LValue", "RecordField", "ArrayElement", "Assignment"},
             Kind(n) \in {"LValue", "RecordField", "ArrayElement", "Assignment"}
      PROVE  FALSE
  <2>1. /\ 1 \in DOMAIN prog[m].kids /\ 1 \in DOMAIN prog[n].kids
        /\ Kid(m, 1) \in Nodes
    BY <1>2, <1>5
  <2>2. n < Kid(m, 1) /\ Kid(m, 1) <= prog[m].last
    <3>1. n < Kid(n, 1) /\ prog[Kid(m, 1)].last <= prog[m].last
      BY <1>3, <2>1
    <3>2. Kid(m, 1) <= prog[Kid(m, 1)].last /\ prog[Kid(m, 1)].last \in Nodes
          /\ prog[m].last \in Nodes
      BY <1>4, <2>1
    <3> QED BY <1>1, <1>5, <2>1, <3>1, <3>2
  <2>3. n \in ParamsOf(prog, m) \/ \E j \in DOMAIN prog[m].kids : Below(prog, n, Kid(m, j))
    <3>1. Below(prog, n, m)
      BY <1>1, <1>4, <1>5, <2>1, <2>2 DEF Below
    <3>2. m # n
      BY <1>1, <1>5
    <3> QED BY <1>1, <3>1, <3>2, Zenon DEF IsTree, Kid
  <2>4. CASE n \in ParamsOf(prog, m)
    <3>1. Kind(n) = "TypeField"
      BY <1>1, <1>5, <2>4, ProgramsAssumption DEF IsProgram, IsShaped, Kind
    <3> QED BY <1>5, <3>1
  <2>5. ASSUME NEW j \in DOMAIN prog[m].kids, Below(prog, n, Kid(m, j)) PROVE FALSE
    <3>1. j \in Nat /\ j >= 1
      <4>1. PICK s \in Seq(Nodes) : s = prog[m].kids
        BY NodeFacts
      <4> QED BY <2>5, <4>1
    <3>2. Kid(m, j) <= n
      BY <2>5 DEF Below
    <3>3. CASE j = 1
      BY <1>1, <2>1, <2>2, <3>2, <3>3
    <3>4. CASE j # 1
      <4>1. 1 < j
        BY <3>1, <3>4
      <4>2. prog[Kid(m, 1)].last < Kid(m, j)
        BY <1>3, <2>1, <4>1
      <4>3. Kid(m, 1) <= prog[Kid(m, 1)].last /\ prog[Kid(m, 1)].last \in Nodes
        BY <1>4, <2>1
      <4>4. Kid(m, j) \in Nodes
        BY NodeFacts DEF Kid
      <4> QED BY <1>1, <2>1, <2>2, <3>2, <4>2, <4>3, <4>4
    <3> QED BY <3>3, <3>4
  <2> QED BY <2>3, <2>4, <2>5
<1>6. /\ Kid(a, 1) \in Nodes /\ 1 \in DOMAIN prog[a].kids
  BY <1>2
<1>7. a < Kid(a, 1)
  BY <1>3, <1>6
<1>8. Kid(a, 1) = Kid(b, 1) => a = b
  BY <1>1, <1>5
<1> QED BY <1>6, <1>7, <1>8

\* Variable is what its definition says.
Inner(g) ==
  g = [n \in Nodes |->
         IF Kind(n) \in {"RecordField", "ArrayElement"} THEN g[Kid(n, 1)] ELSE n]

LEMMA InnerExists == prog \in Programs => \E g : Inner(g)
<1> SUFFICES ASSUME prog \in Programs PROVE \E g : Inner(g)
  OBVIOUS
<1> DEFINE N == Len(prog)
           From(g, m) == \A n \in Nodes : n > m =>
             g[n] = IF Kind(n) \in {"RecordField", "ArrayElement"} THEN g[Kid(n, 1)] ELSE n
           A == {k \in 0 .. N : \E g \in [Nodes -> Nodes] : From(g, N - k)}
<1>1. N \in Nat /\ Nodes = 1 .. N /\ 1 \in Nodes
  BY ProgramsAssumption DEF IsProgram, Nodes, NodesOf
<1>2. \A n \in Nodes : Kind(n) \in {"RecordField", "ArrayElement"} =>
                         Kid(n, 1) \in Nodes /\ n < Kid(n, 1)
  BY FirstKids
<1> HIDE DEF N
<1>3. 0 \in A
  <2>1. From([n \in Nodes |-> n], N - 0)
    BY <1>1
  <2>2. [n \in Nodes |-> n] \in [Nodes -> Nodes] /\ 0 \in 0 .. N
    BY <1>1
  <2> QED BY <2>1, <2>2
<1>4. ASSUME NEW k \in 0 .. N - 1, k \in A PROVE k + 1 \in A
  <2>1. PICK g \in [Nodes -> Nodes] : From(g, N - k)
    BY <1>4
  <2>2. PICK m \in Nodes : m = N - k
    BY <1>1
  <2>3. PICK v \in Nodes :
          v = IF Kind(m) \in {"RecordField", "ArrayElement"} THEN g[Kid(m, 1)] ELSE m
    BY <1>2
  <2>4. PICK h \in [Nodes -> Nodes] : h = [g EXCEPT ![m] = v]
    OBVIOUS
  <2>5. ASSUME NEW n \in Nodes, n > N - (k + 1)
        PROVE  h[n] = IF Kind(n) \in {"RecordField", "ArrayElement"} THEN h[Kid(n, 1)] ELSE n
    <3>1. n >= m
      BY <1>1, <2>2, <2>5
    <3>2. Kind(n) \in {"RecordField", "ArrayElement"} =>
            Kid(n, 1) \in Nodes /\ Kid(n, 1) # m /\ h[Kid(n, 1)] = g[Kid(n, 1)]
      <4>1. Kind(n) \in {"RecordField", "ArrayElement"} =>
              Kid(n, 1) \in Nodes /\ n < Kid(n, 1)
        BY ONLY <1>2, n \in Nodes
      <4>2. Kind(n) \in {"RecordField", "ArrayElement"} => Kid(n, 1) # m
        BY ONLY <1>1, <3>1, <4>1, n \in Nodes, m \in Nodes
      <4> QED BY ONLY <2>4, <4>1, <4>2, g \in [Nodes -> Nodes]
    <3>3. CASE n = m
      <4>1. h[n] = v
        BY ONLY <2>4, <3>3, m \in Nodes, g \in [Nodes -> Nodes]
      <4> QED BY ONLY <2>3, <3>2, <3>3, <4>1
    <3>4. CASE n # m
      <4>1. n > N - k
        BY <1>1, <2>2, <3>1, <3>4
      <4> QED BY <2>1, <2>4, <3>2, <3>4, <4>1
    <3> QED BY <3>3, <3>4
  <2>6. k + 1 \in 0 .. N
    BY <1>1
  <2> QED BY <2>4, <2>5, <2>6
<1>5. N \in A
  <2> HIDE DEF A
  <2>1. 0 \in 0 .. N
    BY <1>1
  <2>2. \A k \in 0 .. N : k \in A
    BY <1>1, <1>3, <1>4, <2>1, BoundedInduction
  <2> QED BY <1>1, <2>2
<1>6. PICK g \in [Nodes -> Nodes] : From(g, 0)
  BY <1>1, <1>5
<1>7. ASSUME NEW n \in Nodes
      PROVE  g[n] = IF Kind(n) \in {"RecordField", "ArrayElement"} THEN g[Kid(n, 1)] ELSE n
  BY <1>1, <1>6
<1>8. g = [n \in Nodes |->
             IF Kind(n) \in {"RecordField", "ArrayElement"} THEN g[Kid(n, 1)] ELSE n]
  BY <1>7
<1> QED BY <1>8 DEF Inner

LEMMA VariableFacts ==
  ASSUME prog \in Programs, NEW n \in Nodes
  PROVE  Variable(n) = IF Kind(n) \in {"RecordField", "ArrayElement"}
                       THEN Variable(Kid(n, 1)) ELSE n
<1>1. PICK g : g = CHOOSE h : Inner(h)
  OBVIOUS
<1>2. Inner(g)
  BY <1>1, InnerExists, Zenon
<1>3. \A m : Variable(m) = g[m]
  BY <1>1 DEF Variable, Inner
<1> QED BY <1>2, <1>3 DEF Inner

\* Calls x[1], ..., x[n] each of which makes the next before it can return; the
\* first is a query's.
IsQuery(f) == f.fn = "LValue" => /\ f.parent \in Nodes /\ Kind(f.parent) = "Assignment"
                                 /\ f.node = Kid(f.parent, 1)
CallPath(x, n) ==
  /\ \A i \in 1 .. n : GoodFrame(x[i])
  /\ \A i \in 1 .. n - 1 : Asks(x[i]) /\ SameCall(x[i + 1], Asked(x[i]))
  /\ IsQuery(x[1])

LEMMA LValueAsker ==
  ASSUME prog \in Programs, NEW f, NEW g, GoodFrame(f), Asks(f), SameCall(g, Asked(f)),
         g.fn = "LValue"
  PROVE  /\ f.node \in Nodes /\ Kind(f.node) \in {"LValue", "RecordField", "ArrayElement"}
         /\ g.node = Kid(f.node, 1)
         /\ g.parent = IF f.fn = "Expr" THEN f.node ELSE f.parent
         /\ f.fn = "Expr" <=> Kind(f.node) = "LValue"
<1>1. f.node \in Nodes /\ f.fn \in {"Expr", "LValue"}
  BY DEF GoodFrame, Frames
<1>2. f.fn = "LValue" => Kind(f.node) \in {"Identifier", "RecordField", "ArrayElement"}
  BY DEF GoodFrame, LValueKinds
<1> QED BY <1>1, <1>2 DEF SameCall, Asked, Frame

\* A path longer than the program asks for the type of an expression twice: the
\* first node to come up twice cannot be an l-value, whose asker would have
\* come up twice before it.
LEMMA PathRepeats ==
  ASSUME prog \in Programs, NEW n \in Nat, n > Len(prog), NEW x, CallPath(x, n)
  PROVE  \E i, j \in 1 .. n : /\ i < j /\ x[i].node = x[j].node
                              /\ x[i].fn = "Expr" /\ x[j].fn = "Expr"
<1>1. \A i \in 1 .. n : /\ GoodFrame(x[i]) /\ x[i].node \in Nodes
                        /\ x[i].fn \in {"Expr", "LValue"}
  BY DEF CallPath, GoodFrame, Frames
<1>2. Nodes = 1 .. Len(prog) /\ Len(prog) \in Nat
  BY ProgramsAssumption DEF IsProgram, Nodes, NodesOf
<1> DEFINE Twice == {i \in 1 .. n : \E j \in 1 .. n : i < j /\ x[i].node = x[j].node}
<1>3. Twice # {}
  <2>1. PICK f \in [1 .. n -> Nodes] : f = [i \in 1 .. n |-> x[i].node]
    BY <1>1
  <2>2. /\ IsFiniteSet(1 .. n) /\ Cardinality(1 .. n) = n
        /\ IsFiniteSet(Nodes) /\ Cardinality(Nodes) = Len(prog)
    <3>1. PICK m \in Nat : m = Len(prog)
      BY <1>2
    <3>2. ASSUME NEW k \in Nat PROVE IsFiniteSet(1 .. k) /\ Cardinality(1 .. k) = k
      <4>1. 1 \in Int /\ k \in Int
        OBVIOUS
      <4>2. /\ IsFiniteSet(1 .. k)
            /\ Cardinality(1 .. k) = IF 1 > k THEN 0 ELSE k - 1 + 1
        BY <4>1, FS_Interval
      <4> QED BY <4>2
    <3> QED BY <1>2, <3>1, <3>2
  <2>3. Cardinality(Nodes) < Cardinality(1 .. n)
    BY <1>2, <2>2
  <2>4. \E a, b \in 1 .. n : a # b /\ f[a] = f[b]
    BY <2>2, <2>3, FS_PigeonHole
  <2>5. PICK a \in 1 .. n, b \in 1 .. n : a # b /\ x[a].node = x[b].node
    BY <2>1, <2>4
  <2>6. a < b \/ b < a
    BY <2>5
  <2> QED BY <2>5, <2>6
<1>4. Twice \in SUBSET Nat
  OBVIOUS
<1> HIDE DEF Twice
<1>5. PICK i \in Twice : \A k \in Twice : i <= k
  BY <1>3, <1>4, TreesOnly, Table!LeastNatural
<1>6. PICK j \in 1 .. n : i \in 1 .. n /\ i < j /\ x[i].node = x[j].node
  BY <1>5 DEF Twice
<1>7. \A k \in {i, j} : /\ x[k].fn = "Expr" => Kind(x[k].node) \in ExprKinds
                        /\ x[k].fn = "LValue" => Kind(x[k].node) \in LValueKinds
  BY <1>1, <1>6 DEF GoodFrame, Exprs, IsExpr
<1>8. ExprKinds \cap LValueKinds = {}
  BY DEF ExprKinds, LValueKinds
<1>9. x[i].fn = x[j].fn
  BY <1>1, <1>6, <1>7, <1>8
<1>10. ASSUME x[i].fn = "LValue" PROVE FALSE
  <2>1. PICK b \in 1 .. n - 1 : j = b + 1
    BY <1>6
  <2>2. b \in 1 .. n /\ GoodFrame(x[b]) /\ Asks(x[b]) /\ SameCall(x[j], Asked(x[b]))
    BY <1>1, <2>1 DEF CallPath
  <2>3. /\ x[b].node \in Nodes /\ Kind(x[b].node) \in {"LValue", "RecordField", "ArrayElement"}
        /\ x[i].node = Kid(x[b].node, 1)
    BY <1>6, <1>9, <1>10, <2>2, LValueAsker
  <2>4. CASE i = 1
    <3>1. PICK a \in Nodes : Kind(a) = "Assignment" /\ x[i].node = Kid(a, 1)
      BY <1>10, <2>4 DEF CallPath, IsQuery
    <3>2. a = x[b].node
      BY <2>3, <3>1, FirstKids
    <3> QED BY <2>3, <3>1, <3>2
  <2>5. CASE i # 1
    <3>1. PICK a \in 1 .. n - 1 : i = a + 1
      BY <1>6, <2>5
    <3>2. a \in 1 .. n /\ GoodFrame(x[a]) /\ Asks(x[a]) /\ SameCall(x[i], Asked(x[a]))
      BY <1>1, <3>1 DEF CallPath
    <3>3. /\ x[a].node \in Nodes
          /\ Kind(x[a].node) \in {"LValue", "RecordField", "ArrayElement"}
          /\ x[i].node = Kid(x[a].node, 1)
      BY <1>10, <3>2, LValueAsker
    <3>4. x[a].node = x[b].node
      BY <2>3, <3>3, FirstKids
    <3>5. a \in Twice
      BY <1>6, <2>1, <2>2, <3>1, <3>2, <3>4 DEF Twice
    <3> QED BY <1>5, <3>1, <3>5
  <2> QED BY <2>4, <2>5
<1>11. x[i].fn = "Expr"
  BY <1>1, <1>6, <1>10
<1> QED BY <1>6, <1>9, <1>11

\* Asking on from an expression in M never ends when it never leaves M.
Met(met, e) ==
  met = [k \in 0 .. Len(prog) |->
           IF k = 0 THEN {e} ELSE {AsksFor(last) : last \in met[k-1]} \ {Null}]

LEMMA MetExists ==
  ASSUME prog \in Programs, NEW M, \A e \in M : AsksFor(e) \in M, Null \notin M, NEW e \in M
  PROVE  \E met : Met(met, e)
<1> DEFINE N == Len(prog)
           Up(h, n) == /\ h \in [0 .. n -> M] /\ h[0] = e
                       /\ \A k \in 0 .. n - 1 : h[k + 1] = AsksFor(h[k])
           A == {n \in 0 .. N : \E h : Up(h, n)}
<1>1. N \in Nat
  BY ProgramsAssumption DEF IsProgram
<1> HIDE DEF N
<1>2. 0 \in A
  <2>1. PICK g : g = [k \in 0 .. 0 |-> e]
    OBVIOUS
  <2>2. Up(g, 0)
    BY <2>1
  <2>3. 0 \in 0 .. N
    BY <1>1
  <2> QED BY <2>2, <2>3
<1>3. ASSUME NEW n \in 0 .. N - 1, n \in A PROVE n + 1 \in A
  <2>1. PICK h : Up(h, n)
    BY <1>3
  <2>2. PICK v \in M : v = AsksFor(h[n])
    BY <2>1
  <2>3. PICK g : g = [k \in 0 .. n + 1 |-> IF k = n + 1 THEN v ELSE h[k]]
    OBVIOUS
  <2>4. g \in [0 .. n + 1 -> M] /\ g[0] = e
    BY <2>1, <2>3
  <2>5. ASSUME NEW k \in 0 .. n PROVE g[k + 1] = AsksFor(g[k])
    <3>1. CASE k = n
      BY <2>2, <2>3, <3>1
    <3>2. CASE k # n
      <4>1. k \in 0 .. n - 1
        BY <3>2
      <4>2. g[k] = h[k] /\ g[k + 1] = h[k + 1]
        BY <2>3, <4>1
      <4> QED BY <2>1, <4>1, <4>2
    <3> QED BY <3>1, <3>2
  <2>6. Up(g, n + 1)
    BY <2>4, <2>5
  <2>7. n + 1 \in 0 .. N
    BY <1>1
  <2> QED BY <2>6, <2>7
<1>4. N \in A
  <2> HIDE DEF A
  <2>1. 0 \in 0 .. N
    BY <1>1
  <2>2. \A k \in 0 .. N : k \in A
    BY <1>1, <1>2, <1>3, <2>1, BoundedInduction
  <2> QED BY <1>1, <2>2
<1>5. PICK h : Up(h, N)
  BY <1>4
<1>6. PICK met : met = [k \in 0 .. N |-> {h[k]}]
  OBVIOUS
<1>7. ASSUME NEW k \in 0 .. N
      PROVE  met[k] = IF k = 0 THEN {e} ELSE {AsksFor(last) : last \in met[k-1]} \ {Null}
  <2>1. CASE k = 0
    BY <1>5, <1>6, <2>1
  <2>2. CASE k # 0
    <3>1. k - 1 \in 0 .. N - 1 /\ k - 1 \in 0 .. N
      BY <1>1, <2>2
    <3>2. h[(k - 1) + 1] = AsksFor(h[k - 1]) /\ (k - 1) + 1 = k
      BY <1>5, <3>1
    <3>3. h[k] = AsksFor(h[k - 1]) /\ h[k] # Null
      BY <1>5, <3>2
    <3>4. met[k - 1] = {h[k - 1]} /\ met[k] = {h[k]}
      BY <1>6, <3>1
    <3> QED BY <2>2, <3>3, <3>4
  <2> QED BY <2>1, <2>2
<1>8. met = [k \in 0 .. N |->
               IF k = 0 THEN {e} ELSE {AsksFor(last) : last \in met[k-1]} \ {Null}]
  BY <1>6, <1>7
<1> QED BY <1>8 DEF Met, N

LEMMA ClosedIsEndless ==
  ASSUME prog \in Programs, NEW M, \A e \in M : AsksFor(e) \in M, Null \notin M, NEW e \in M
  PROVE  Endless(e)
<1> DEFINE N == Len(prog)
<1>1. N \in Nat
  BY ProgramsAssumption DEF IsProgram
<1>2. PICK met : met = CHOOSE g : Met(g, e)
  OBVIOUS
<1>3. Met(met, e)
  BY <1>2, MetExists, Zenon
<1> DEFINE A == {k \in 0 .. N : met[k] # {} /\ met[k] \subseteq M}
<1>4. 0 \in A
  BY <1>1, <1>3 DEF Met
<1>5. ASSUME NEW k \in 0 .. N - 1, k \in A PROVE k + 1 \in A
  <2>1. k + 1 \in 0 .. N /\ k + 1 # 0 /\ (k + 1) - 1 = k
    BY <1>1
  <2>2. met[k + 1] = {AsksFor(last) : last \in met[k]} \ {Null}
    BY <1>3, <2>1 DEF Met
  <2>3. PICK c \in M : c \in met[k]
    BY <1>5
  <2>4. AsksFor(c) \in met[k + 1]
    BY <2>2, <2>3
  <2>5. met[k + 1] \subseteq M
    BY <1>5, <2>2
  <2> QED BY <2>1, <2>4, <2>5
<1>6. N \in A
  <2> HIDE DEF A, N
  <2>1. 0 \in 0 .. N
    BY <1>1
  <2>2. \A k \in 0 .. N : k \in A
    BY <1>1, <1>4, <1>5, <2>1, BoundedInduction
  <2> QED BY <1>1, <2>2
<1>7. Endless(e) <=> met[N] # {}
  BY <1>2 DEF Endless, Met
<1> QED BY <1>6, <1>7

\* Between two calls for the same expression the answers asked for are those
\* AsksFor names.
LEMMA RepeatIsEndless ==
  ASSUME Table!LookupInv, St!Built, NEW n \in Nat, NEW x, CallPath(x, n),
         NEW i \in 1 .. n, NEW j \in 1 .. n, i < j, x[i].fn = "Expr", x[j].fn = "Expr",
         x[i].node = x[j].node
  PROVE  Endless(x[i].node)
<1>1. prog \in Programs
  BY ProgIsTree
<1>2. \A k \in 1 .. n : GoodFrame(x[k]) /\ x[k].node \in Nodes /\ x[k].fn \in {"Expr", "LValue"}
  BY DEF CallPath, GoodFrame, Frames
<1>3. \A k \in 1 .. n - 1 : Asks(x[k]) /\ SameCall(x[k + 1], Asked(x[k]))
  BY DEF CallPath
<1> DEFINE I == {k \in i .. j - 1 : x[k].fn = "Expr"}
           M == {x[k].node : k \in I}
<1>4. i \in I /\ I \subseteq 1 .. n - 1
  OBVIOUS
<1>5. \A k \in I : x[k].node \in Exprs
  BY <1>2, <1>4 DEF GoodFrame
<1>6. ASSUME NEW m \in i + 1 .. j, x[m].fn = "Expr" PROVE x[m].node \in M
  <2>1. CASE m = j
    BY <1>4, <2>1
  <2>2. CASE m # j
    BY <1>6, <2>2
  <2> QED BY <2>1, <2>2
<1>7. ASSUME NEW k \in I PROVE AsksFor(x[k].node) \in M
  <2>1. k \in i .. j - 1 /\ x[k].fn = "Expr" /\ k \in 1 .. n - 1 /\ k + 1 \in i + 1 .. j
    BY <1>4
  <2>2. Asks(x[k]) /\ SameCall(x[k + 1], Asked(x[k])) /\ GoodFrame(x[k])
    BY <1>2, <1>3, <2>1
  <2>3. PICK e \in Exprs : e = x[k].node /\ e \in Nodes
    BY <1>2, <1>5, <2>1
  <2>4. CASE Kind(e) # "LValue"
    <3>1. x[k + 1].fn = "Expr" /\ x[k + 1].node = Delegate(e)
      BY <2>1, <2>2, <2>3, <2>4 DEF Asked, SameCall, Frame
    <3>2. AsksFor(e) = Delegate(e)
      BY <2>4 DEF AsksFor
    <3> QED BY <1>6, <2>1, <2>3, <3>1, <3>2
  <2>5. CASE Kind(e) = "LValue"
    <3>1. x[k + 1].fn = "LValue" /\ x[k + 1].node = Kid(e, 1) /\ x[k + 1].parent = e
      BY <2>1, <2>2, <2>3, <2>5 DEF Asked, SameCall, Frame
    <3> DEFINE Later == {m \in k + 1 .. j : x[m].fn = "Expr"}
    <3>2. Later # {} /\ Later \in SUBSET Nat
      BY <2>1
    <3>3. PICK m \in Later : \A l \in Later : m <= l
      BY <3>2, TreesOnly, Table!LeastNatural
    <3>4. m \in k + 2 .. j /\ x[m].fn = "Expr"
      BY <2>1, <3>1, <3>3
    <3> DEFINE A == {l \in 0 .. n : /\ x[l].fn = "LValue" /\ x[l].parent = e
                                    /\ Variable(x[l].node) = Variable(Kid(e, 1))}
    <3>5. k + 1 \in A
      BY <2>1, <3>1
    <3>6. ASSUME NEW l \in k + 1 .. (m - 1) - 1, l \in A PROVE l + 1 \in A
      <4>1. /\ l \in 1 .. n - 1 /\ l \in 1 .. n /\ l + 1 \in 1 .. n
            /\ l + 1 \in k + 1 .. j /\ l + 1 < m
        BY <2>1, <3>4
      <4>2. x[l + 1].fn = "LValue"
        <5>1. l + 1 \notin Later
          BY <3>3, <4>1
        <5> QED BY <1>2, <4>1, <5>1
      <4>3. GoodFrame(x[l]) /\ Asks(x[l]) /\ SameCall(x[l + 1], Asked(x[l]))
        BY <1>2, <1>3, <4>1
      <4>4. /\ x[l].node \in Nodes /\ x[l + 1].node = Kid(x[l].node, 1)
            /\ x[l + 1].parent = x[l].parent
            /\ Kind(x[l].node) \in {"RecordField", "ArrayElement"}
        BY <1>1, <3>6, <4>2, <4>3, LValueAsker
      <4>5. Variable(x[l + 1].node) = Variable(x[l].node)
        BY <1>1, <4>4, VariableFacts
      <4> QED BY <3>6, <4>1, <4>2, <4>4, <4>5
    <3> HIDE DEF Later, A
    <3>7. m - 1 \in Nat /\ k + 1 \in 0 .. m - 1 /\ m - 1 \in k + 1 .. m - 1
      BY <2>1, <3>4
    <3>8. m - 1 \in A
      <4>0. PICK N \in Nat : N = m - 1
        BY <3>7
      <4>1. PICK a \in 0 .. N : a = k + 1
        BY <3>7, <4>0
      <4>2. a \in A /\ \A l \in a .. N - 1 : l \in A => l + 1 \in A
        BY <3>5, <3>6, <4>0, <4>1
      <4>3. \A l \in a .. N : l \in A
        BY <4>2, BoundedInduction
      <4> QED BY <3>7, <4>0, <4>1, <4>3
    <3>9. PICK f : f = x[m - 1]
      OBVIOUS
    <3>10. /\ f.fn = "LValue" /\ f.parent = e /\ f.node \in Nodes
           /\ Variable(f.node) = Variable(Kid(e, 1))
           /\ Asks(f) /\ SameCall(x[m], Asked(f))
      <4>1. m - 1 \in 1 .. n - 1 /\ m - 1 \in 1 .. n /\ (m - 1) + 1 = m
        BY <2>1, <3>4
      <4>2. Asks(f) /\ SameCall(x[m], Asked(f)) /\ f.node \in Nodes
        BY <1>2, <1>3, <3>9, <4>1
      <4> QED BY <3>8, <3>9, <4>2 DEF A
    <3>11. /\ Kind(f.node) = "Identifier" /\ x[m].node = Kid(FoundAt(f), 1)
           /\ FoundAt(f) # Null /\ Kind(FoundAt(f)) = "VariableDeclaration"
           /\ prog[FoundAt(f)].type = NoType
      BY <3>4, <3>10 DEF Asked, SameCall, Frame, Asks
    <3>12. Variable(f.node) = f.node
      BY <1>1, <3>10, <3>11, VariableFacts
    <3>13. VariableLocation(e) = FoundAt(f)
      BY <3>10, <3>12 DEF VariableLocation, FoundAt
    <3>14. AsksFor(e) = x[m].node
      BY <2>5, <3>11, <3>13 DEF AsksFor
    <3>15. m \in i + 1 .. j
      BY <2>1, <3>4
    <3> QED BY <1>6, <2>3, <3>4, <3>14, <3>15
  <2> QED BY <2>4, <2>5
<1>8. Null \notin M /\ M \subseteq Exprs
  <2>1. Null \notin Exprs
    BY <1>1, NodeFacts DEF Exprs
  <2> QED BY <1>5, <2>1
<1>9. x[i].node \in M /\ \A e \in M : AsksFor(e) \in M
  BY <1>4, <1>7
<1> HIDE DEF I, M
<1>10. PICK e \in M : e = x[i].node
  BY <1>9
<1>11. Endless(e)
  BY <1>1, <1>8, <1>9, ClosedIsEndless
<1> QED BY <1>10, <1>11

\* The call stack begins with a query's call, and a stack that has overflown is
\* full and was to grow.
StackInv ==
  /\ calls # <<>> => IsQuery(calls[1])
  /\ crashed => calls # <<>> /\ Len(calls) = StackLimit /\ Asks(Top)

LEMMA StepAlive == Step => calls # <<>> /\ ~ crashed
BY DEF Step, ExprStep, LValueStep, FindCached, FindOwnType, FunctionNotFound, AskDelegate,
       AskLValue, TakeDelegateType, VariableNotFound, DeclaredType, AskInitialValue,
       TakeInitialValueType, AskInner, StartUnalias, FollowAlias, TypeNotFound,
       SelectField, SelectElement, Missed, At

LEMMA QueriesStay ==
  ASSUME prog' = prog, Nodes' = Nodes, NEW f, NEW g, SameCall(g, f), IsQuery(f)
  PROVE  IsQuery(g)'
BY DEF SameCall, IsQuery, Kind, Kid

LEMMA StepStack ==
  ASSUME FinderInv, StackInv, [Next]_vars
  PROVE  StackInv'
<1>1. Shapes
  BY DEF FinderInv
<1>2. ASSUME NEW f, NEW g, UNCHANGED tables, SameCall(g, f), IsQuery(f)
      PROVE  IsQuery(g)'
  <2>1. prog' = prog /\ Nodes' = Nodes
    BY <1>2, RulesStay
  <2> QED BY <1>2, <2>1, QueriesStay
<1>3. CASE Step
  <2>1. UNCHANGED <<tables, queries>> /\ UNCHANGED tables
    BY <1>3 DEF Step
  <2>2. calls # <<>> /\ crashed = FALSE
    BY <1>1, <1>3, StepAlive DEF Shapes
  <2>3. PICK n \in Nat : n = Len(calls) /\ n >= 1 /\ DOMAIN calls = 1 .. n /\ Top = calls[n]
                         /\ IsQuery(calls[1]) /\ n <= StackLimit
    BY <1>1, <2>2, TopFacts DEF StackInv, Shapes
  <2>4. CASE Push /\ calls' = calls
    <3>1. crashed' => ~ n < StackLimit
      BY <2>2, <2>3, <2>4 DEF Push, CallFromTop
    <3>2. Asks(Top)'
      <4>1. Asks(Top) /\ Top' = Top
        BY <2>4 DEF Push, Top
      <4>2. PICK f : f = Top
        OBVIOUS
      <4> QED BY <2>1, <4>1, <4>2, CallsStay
    <3>3. IsQuery(calls[1])'
      BY <1>2, <2>1, <2>3, <2>4 DEF SameCall
    <3> QED BY <2>2, <2>3, <2>4, <3>1, <3>2, <3>3, StackAssumption DEF StackInv
  <2>5. CASE Push /\ calls' # calls
    <3>1. SameCall(calls'[1], calls[1]) /\ crashed' = FALSE
      BY <2>2, <2>3, <2>5, PushEffect
    <3>2. IsQuery(calls[1])'
      BY <1>2, <2>1, <2>3, <3>1
    <3> QED BY <3>1, <3>2 DEF StackInv
  <2>6. CASE PopQuietly \/ PopStoring
    <3>1. Pop /\ crashed' = FALSE
      BY <2>2, <2>6 DEF PopQuietly, PopStoring
    <3>2. PICK d : d = calls' /\ DOMAIN d = 1 .. n - 1 /\ \A i \in 1 .. n - 1 : d[i] = calls[i]
      BY <1>1, <2>2, <2>3, <3>1, PopEffect
    <3>3. ASSUME d # <<>> PROVE IsQuery(calls[1])'
      <4>1. 1 \in 1 .. n - 1
        <5>1. d \in Seq(Frames) /\ Len(d) = n - 1
          BY <1>1, <2>2, <2>3, <3>1, <3>2, PopEffect
        <5> QED BY <2>3, <3>3, <5>1
      <4>2. d[1] = calls[1]
        BY <3>2, <4>1
      <4> QED BY <1>2, <2>1, <2>3, <3>2, <4>2 DEF SameCall
    <3> QED BY <3>1, <3>2, <3>3 DEF StackInv
  <2>7. ASSUME NEW f, Move(f) PROVE StackInv'
    <3>1. crashed' = FALSE /\ calls' = [calls EXCEPT ![n] = f] /\ SameCall(f, Top)
      BY <2>2, <2>3, <2>7 DEF Move
    <3>2. SameCall(calls'[1], calls[1])
      BY <2>3, <3>1 DEF SameCall
    <3>3. IsQuery(calls[1])'
      BY <1>2, <2>1, <2>3, <3>2
    <3> QED BY <3>1, <3>3 DEF StackInv
  <2> QED BY <1>3, <2>4, <2>5, <2>6, <2>7, StepSorts
<1>4. CASE Ask
  <2>1. PICK e \in Exprs : Query(e) \/ QueryLValue(e)
    BY <1>4 DEF Ask
  <2>2. UNCHANGED tables
    BY <1>4 DEF Ask
  <2>3. PICK f : /\ calls' = <<f>>
                 /\ \/ f = Frame("Expr", e, Null)
                    \/ Kind(e) = "Assignment" /\ f = Frame("LValue", Kid(e, 1), e)
    BY <2>1 DEF Query, QueryLValue
  <2>4. crashed' = FALSE
    BY <1>1, <2>1 DEF Query, QueryLValue, Idle, Shapes
  <2>5. IsQuery(f)
    BY <2>3 DEF IsQuery, Frame, Exprs
  <2>6. IsQuery(f)'
    BY <1>2, <2>2, <2>5 DEF SameCall
  <2>7. calls'[1] = f
    BY <2>3
  <2> QED BY <2>4, <2>6, <2>7 DEF StackInv
<1>5. CASE Build
  <2>1. calls = <<>> /\ UNCHANGED finder
    BY <1>5, BuildComesFirst DEF Build
  <2> QED BY <2>1 DEF finder, StackInv
<1>6. CASE UNCHANGED vars
  <2>1. UNCHANGED tables /\ calls' = calls /\ crashed' = crashed
    BY <1>6 DEF vars, finder
  <2>2. calls' # <<>> => IsQuery(calls[1])'
    BY <1>2, <2>1 DEF StackInv, SameCall
  <2>3. Asks(Top) => Asks(Top)'
    <3>1. PICK f : f = Top /\ f = Top'
      BY <2>1 DEF Top
    <3> QED BY <2>1, <3>1, CallsStay
  <2> QED BY <2>1, <2>2, <2>3 DEF StackInv
<1> QED BY <1>3, <1>4, <1>5, <1>6 DEF Next, Stop

LEMMA OverflowsRepeat == FinderInv /\ StackInv => OverflowOnlyOnCycle
<1> SUFFICES ASSUME FinderInv, StackInv, crashed
             PROVE  \E i \in DOMAIN calls : calls[i].fn = "Expr" /\ Endless(calls[i].node)
  BY DEF OverflowOnlyOnCycle
<1>1. /\ Shapes /\ Waiting /\ Chained /\ calls # <<>> /\ Asks(Top) /\ Len(calls) = StackLimit
      /\ IsQuery(calls[1])
  BY DEF FinderInv, StackInv
<1>2. Table!LookupInv /\ St!Built /\ prog \in Programs
  BY <1>1, ProgIsTree DEF FinderInv, AskedWhenBuilt
<1>3. PICK n \in Nat : n = Len(calls) /\ n >= 1 /\ DOMAIN calls = 1 .. n /\ Top = calls[n]
  BY <1>1, TopFacts
<1>4. PICK x : x = [k \in 1 .. n + 1 |-> IF k = n + 1 THEN Asked(Top) ELSE calls[k]]
  OBVIOUS
<1>5. GoodFrame(Asked(Top))
  BY <1>1, <1>2, TopFacts, AskedIsGood
<1>6. ASSUME NEW k \in 1 .. n PROVE Asks(x[k]) /\ SameCall(x[k + 1], Asked(x[k]))
  <2>1. CASE k = n
    BY <1>1, <1>3, <1>4, <2>1 DEF SameCall
  <2>2. CASE k # n
    <3>1. k \in 1 .. n - 1 /\ x[k] = calls[k] /\ x[k + 1] = calls[k + 1]
      BY <1>4, <2>2
    <3>2. calls[k].phase = "wait" /\ SameCall(calls[k + 1], Asked(calls[k]))
      BY <1>1, <1>3, <3>1 DEF Chained
    <3>3. Asks(calls[k])
      BY <1>1, <1>3, <3>2 DEF Waiting
    <3> QED BY <3>1, <3>2, <3>3
  <2> QED BY <2>1, <2>2
<1>7. \A k \in 1 .. n + 1 : GoodFrame(x[k])
  BY <1>1, <1>3, <1>4, <1>5 DEF Shapes
<1>8. IsQuery(x[1])
  BY <1>1, <1>3, <1>4
<1>9. PICK m \in Nat : m = n + 1
  OBVIOUS
<1>10. CallPath(x, m)
  BY <1>6, <1>7, <1>8, <1>9 DEF CallPath
<1>11. m > Len(prog)
  <2>1. Len(prog) <= StackLimit /\ Len(prog) \in Nat
    BY <1>2, StackAssumption, ProgramsAssumption DEF IsProgram
  <2> QED BY <1>1, <1>3, <1>9, <2>1
<1>12. PICK i \in 1 .. m, j \in 1 .. m :
          i < j /\ x[i].node = x[j].node /\ x[i].fn = "Expr" /\ x[j].fn = "Expr"
  BY <1>2, <1>10, <1>11, PathRepeats
<1>13. Endless(x[i].node)
  BY <1>2, <1>10, <1>12, RepeatIsEndless
<1>14. i \in 1 .. n /\ x[i] = calls[i]
  BY <1>4, <1>9, <1>12
<1> QED BY <1>3, <1>12, <1>13, <1>14

\* Whatever the program and the size of the stack, as long as the tree itself
\* fits: the recursion of operator() and GetLValueType overflows the stack only
\* when one of the calls on it asks, through declarations, for its own answer.
THEOREM OnlyCyclesOverflow == Spec => []OverflowOnlyOnCycle
<1>1. Init => StackInv
  BY DEF Init, StackInv
<1>2. FinderInv /\ StackInv /\ [Next]_vars => StackInv'
  BY StepStack
<1> QED BY <1>1, <1>2, FinderInvariant, OverflowsRepeat, PTL DEF Spec

-----------------------------------------------------------------------------
(* Errors.                                                                 *)

NoNotypes == \A n \in Nodes : prog[n].type # "NOTYPE"

LValueErrors ==
  {"Type not found", "Record type expected", "Record field not found",
   "Array type expected"}

\* What there is to show for the l-value of frame f if it has no type.
Explained(f) ==
  IF Kind(f.node) = "Identifier"
  THEN FoundAt(f) = Null => IsReported("Variable not found", prog[f.node].id)
  ELSE \E i \in DOMAIN errors : errors[i].what \in LValueErrors

LValueOf(e) == Frame("LValue", Kid(e, 1), e)

\* Answers in the cache and on the way to it that say there is no type.
ExplainInv ==
  /\ \A e \in Exprs : cache[e] = "NOTYPE" /\ Kind(e) = "LValue" => Explained(LValueOf(e))
  /\ calls # <<>> /\ Top.phase = "wait" /\ Asked(Top).fn = "LValue"
       /\ returned = "NOTYPE" => Explained(Asked(Top))

LEMMA SameExplained ==
  ASSUME NEW f, NEW g, SameCall(f, g) PROVE Explained(f) <=> Explained(g)
BY Zenon DEF SameCall, Explained, FoundAt

LEMMA ErrorKept ==
  ASSUME FinderInv, [Next]_vars
  PROVE  \A i \in DOMAIN errors : i \in DOMAIN errors' /\ errors'[i] = errors[i]
<1>1. errors \in Seq(Errors)
  BY DEF FinderInv, Shapes
<1>2. errors' = errors \/ \E error \in Errors : errors' = Append(errors, error)
  <2>1. CASE PopQuietly
    BY <2>1 DEF PopQuietly
  <2>2. CASE PopStoring
    <3>1. CASE NotAFunction(Top.node)
      <4>1. Reported("Function not found", prog[Top.node].id) \in Errors
        <5>1. prog \in Programs /\ Top.node \in Nodes
          BY <2>2, ProgIsTree, TopFacts DEF FinderInv, PopStoring, Ripe, GoodFrame, Frames
        <5>2. prog[Top.node].id \in Identifiers
          BY <5>1, NodeFacts
        <5> QED BY <5>2, Zenon DEF Reported, Errors, ErrorKinds
      <4> QED BY <2>2, <3>1, <4>1, Zenon DEF PopStoring
    <3>2. CASE ~ NotAFunction(Top.node)
      BY <2>2, <3>2, Zenon DEF PopStoring
    <3> QED BY <3>1, <3>2
  <2> QED BY <2>1, <2>2, StepEffect
<1>3. ASSUME NEW error \in Errors, errors' = Append(errors, error)
      PROVE  \A i \in DOMAIN errors : i \in DOMAIN errors' /\ errors'[i] = errors[i]
  BY <1>1, <1>3
<1> QED BY <1>2, <1>3

LEMMA ExplainedStays ==
  ASSUME FinderInv, [Next]_vars, UNCHANGED tables, NEW f, Explained(f)
  PROVE  Explained(f)'
<1>1. \A i \in DOMAIN errors : i \in DOMAIN errors' /\ errors'[i] = errors[i]
  BY ErrorKept
<1>2. prog' = prog /\ Kind(f.node)' = Kind(f.node) /\ FoundAt(f)' = FoundAt(f)
  BY RulesStay DEF FoundAt
<1>3. \A what, x : IsReported(what, x) => IsReported(what, x)'
  BY <1>1, Zenon DEF IsReported, Reported
<1>4. CASE Kind(f.node) = "Identifier"
  BY <1>2, <1>3, <1>4, Zenon DEF Explained
<1>5. CASE Kind(f.node) # "Identifier"
  <2>1. PICK i \in DOMAIN errors : errors[i].what \in LValueErrors
    BY <1>5 DEF Explained
  <2>2. i \in DOMAIN errors' /\ errors'[i].what \in LValueErrors
    BY <1>1, <2>1
  <2> QED BY <1>2, <1>5, <2>2, Zenon DEF Explained, LValueErrors
<1> QED BY <1>4, <1>5

LEMMA FailReports ==
  ASSUME FinderInv, NEW what \in ErrorKinds, NEW x \in Identifiers, Fail(what, x)
  PROVE  \E i \in DOMAIN errors' : errors'[i] = Reported(what, x) /\ errors'[i].what = what
<1>1. errors \in Seq(Errors)
  BY DEF FinderInv, Shapes
<1>2. PICK r \in Errors : r = Reported(what, x) /\ r.what = what
  <2>1. PICK kinds : kinds = ErrorKinds /\ Errors = [what : kinds, name : Identifiers]
    BY DEF Errors
  <2>2. Reported(what, x) \in [what : kinds, name : Identifiers]
    BY <2>1 DEF Reported
  <2>3. Reported(what, x).what = what
    BY DEF Reported
  <2> QED BY <2>1, <2>2, <2>3
<1>3. errors' = Append(errors, r)
  BY <1>2 DEF Fail, Reported
<1>4. /\ Len(errors') \in DOMAIN errors' /\ errors'[Len(errors')] = r
  BY <1>1, <1>3
<1> QED BY <1>2, <1>4

\* What GetLValueType leaves behind when it returns without a type.
LEMMA LValueReturns ==
  ASSUME FinderInv, NoNotypes, LValueStep, UNCHANGED tables, Pop, returned' = "NOTYPE",
         NEW f, f = Top
  PROVE  Explained(f)'
<1>1. calls # <<>> /\ Top.fn = "LValue"
  BY DEF LValueStep, VariableNotFound, DeclaredType, AskInitialValue,
         TakeInitialValueType, AskInner, StartUnalias, FollowAlias, TypeNotFound,
         SelectField, SelectElement, At
<1>2. /\ Shapes /\ Table!LookupInv /\ St!Built /\ Waiting
      /\ returned \in Identifiers /\ prog \in Programs
  BY <1>1, ProgIsTree DEF FinderInv, AskedWhenBuilt, Shapes
<1>3. PICK l \in Nodes : l = f.node
  BY <1>1, <1>2, TopFacts DEF Frames
<1>4. /\ f.parent \in Exprs /\ f \in Frames /\ GoodFrame(f)
      /\ f.type \in Identifiers /\ prog[l].id \in Identifiers
  BY <1>1, <1>2, TopFacts, NodeFacts DEF GoodFrame, Frames
<1>5. FoundAt(f)' = FoundAt(f) /\ prog' = prog /\ Kind(l)' = Kind(l)
  BY RulesStay DEF FoundAt
<1>6. Location = FoundAt(f)
  BY DEF Location, FoundAt
<1>7. ASSUME Kind(l) = "Identifier", FoundAt(f) # Null PROVE Explained(f)'
  BY <1>3, <1>5, <1>7, Zenon DEF Explained
<1>8. ASSUME Kind(l) # "Identifier", NEW what \in LValueErrors, NEW x \in Identifiers,
             Fail(what, x)
      PROVE  Explained(f)'
  <2>1. what \in ErrorKinds
    BY <1>8, Zenon DEF LValueErrors, ErrorKinds
  <2>2. PICK i \in DOMAIN errors' : errors'[i].what = what
    BY <1>8, <2>1, FailReports
  <2> QED BY <1>3, <1>5, <1>8, <2>2, Zenon DEF Explained, LValueErrors
<1>9. ASSUME NEW n \in Nodes PROVE prog[n].type # "NOTYPE"
  BY DEF NoNotypes
<1>10. CASE VariableNotFound
  <2>1. Kind(l) = "Identifier" /\ Fail("Variable not found", prog[l].id)
    BY <1>3, <1>10, Zenon DEF VariableNotFound
  <2>2. "Variable not found" \in ErrorKinds
    BY Zenon DEF ErrorKinds
  <2>3. PICK i \in DOMAIN errors' : errors'[i] = Reported("Variable not found", prog[l].id)
    BY <1>4, <2>1, <2>2, FailReports, Zenon
  <2>4. IsReported("Variable not found", prog[l].id)'
    BY <1>5, <2>3, Zenon DEF IsReported, Reported
  <2> QED BY <1>3, <1>5, <2>1, <2>4, Zenon DEF Explained
<1>11. CASE DeclaredType
  BY <1>3, <1>6, <1>7, <1>11 DEF DeclaredType
<1>12. CASE AskInitialValue
  BY <1>3, <1>6, <1>7, <1>12 DEF AskInitialValue
<1>13. CASE TakeInitialValueType
  <2>1. Kind(l) = "Identifier" /\ f.phase = "wait"
    BY <1>3, <1>13 DEF TakeInitialValueType, At
  <2>2. Asks(f)
    BY <1>1, <1>2, <2>1, TopFacts DEF Waiting
  <2>3. FoundAt(f) # Null
    BY <1>1, <1>3, <2>1, <2>2 DEF Asks
  <2> QED BY <1>7, <2>1, <2>3
<1>14. CASE AskInner \/ StartUnalias \/ FollowAlias
  <2>1. PICK n \in Nat : n = Len(calls) /\ n >= 1 /\ calls \in Seq(Frames)
    BY <1>1, <1>2, TopFacts DEF Shapes
  <2>2. Len(calls') = n - 1
    BY <1>1, <1>2, <2>1, PopEffect
  <2>3. CASE AskInner
    <3>1. FALSE
      <4>1. Push
        BY <1>1, <2>3 DEF AskInner, At, Push, Asks, Asked
      <4>2. calls' # calls
        BY <2>1, <2>2
      <4> QED BY <2>1, <2>2, <4>1, <4>2, PushEffect
    <3> QED BY <3>1
  <2>4. CASE StartUnalias \/ FollowAlias
    <3>1. PICK g : calls' = [calls EXCEPT ![n] = g]
      BY <2>1, <2>4 DEF StartUnalias, FollowAlias
    <3>2. Len(calls') = n
      BY <2>1, <3>1
    <3> QED BY <2>1, <2>2, <3>2
  <2> QED BY <1>14, <2>3, <2>4
<1>15. Top.phase = "unalias" => Kind(l) # "Identifier"
  BY <1>3, <1>4 DEF GoodFrame
<1>16. CASE TypeNotFound
  <2>1. Top.phase = "unalias" /\ Fail("Type not found", Top.type)
    BY <1>16, Zenon DEF TypeNotFound, At
  <2>2. "Type not found" \in LValueErrors
    BY Zenon DEF LValueErrors
  <2> QED BY <1>4, <1>8, <1>15, <2>1, <2>2, Zenon
<1>17. CASE SelectField
  <2>1. Top.phase = "unalias"
    BY <1>17 DEF SelectField, At
  <2>2. CASE Unaliased("array") /\ Fail("Record type expected", Top.type)
    <3>1. "Record type expected" \in LValueErrors
      BY Zenon DEF LValueErrors
    <3> QED BY <1>4, <1>8, <1>15, <2>1, <2>2, <3>1, Zenon
  <2>3. CASE Unaliased("record")
    <3>1. Top.decl \in Nodes /\ Kind(Top.decl) = "TypeDeclaration"
      BY <1>4, <2>3 DEF Unaliased, GoodFrame, Frames
    <3>2. PICK field : field = FieldNamed(Top.decl, prog[Top.node].id)
      OBVIOUS
    <3>3. CASE field = Null /\ Fail("Record field not found", prog[l].id)
      <4>1. "Record field not found" \in LValueErrors
        BY Zenon DEF LValueErrors
      <4> QED BY <1>4, <1>8, <1>15, <2>1, <3>3, <4>1, Zenon
    <3>4. CASE field # Null /\ ReturnLValue(prog[field].type)
      <4>1. field \in Nodes
        BY <1>2, <3>1, <3>2, <3>4, FieldIsParam
      <4> QED BY <1>9, <3>4, <4>1 DEF ReturnLValue
    <3>5. \/ field = Null /\ Fail("Record field not found", prog[l].id)
          \/ field # Null /\ ReturnLValue(prog[field].type)
      BY <1>3, <1>17, <2>3, <3>2 DEF SelectField, Unaliased
    <3> QED BY <3>3, <3>4, <3>5
  <2> QED BY <1>17, <2>2, <2>3 DEF SelectField
<1>18. CASE SelectElement
  <2>1. Top.phase = "unalias"
    BY <1>18 DEF SelectElement, At
  <2>2. CASE Unaliased("record") /\ Fail("Array type expected", Top.type)
    <3>1. "Array type expected" \in LValueErrors
      BY Zenon DEF LValueErrors
    <3> QED BY <1>4, <1>8, <1>15, <2>1, <2>2, <3>1, Zenon
  <2>3. CASE Unaliased("array") /\ ReturnLValue(prog[Top.decl].type)
    <3>1. Top.decl \in Nodes
      BY <1>4, <2>3 DEF Unaliased, GoodFrame, Frames
    <3> QED BY <1>9, <2>3, <3>1 DEF ReturnLValue
  <2> QED BY <1>18, <2>2, <2>3 DEF SelectElement
<1> QED BY <1>10, <1>11, <1>12, <1>13, <1>14, <1>16, <1>17, <1>18 DEF LValueStep

\* The type of an expression that is an l-value is stored when it has been
\* returned.
LEMMA LValueStored ==
  ASSUME FinderInv, ExprStep, Kind(Top.node) = "LValue", cache' # cache
  PROVE  Top.fn = "Expr" /\ Top.phase = "wait" /\ returned' = returned /\ calls # <<>>
<1>1. ~ NotAFunction(Top.node)
  BY DEF NotAFunction
<1>2. FindCached \/ AskDelegate \/ AskLValue => cache' = cache
  BY DEF FindCached, AskDelegate, AskLValue, CallFromTop
<1> QED BY <1>1, <1>2
        DEF ExprStep, FindOwnType, FunctionNotFound, TakeDelegateType, Missed, At, Return

LEMMA ReturnExplained ==
  ASSUME FinderInv, NoNotypes, Step, Pop, calls' # <<>>, returned' = "NOTYPE",
         NEW g, g = Asked(Top)', g.fn = "LValue"
  PROVE  Explained(g)'
<1>1. UNCHANGED tables /\ Shapes /\ Chained /\ calls # <<>>
  BY StepAlive DEF Step, FinderInv
<1>2. PICK n \in Nat : n = Len(calls) /\ n >= 1 /\ DOMAIN calls = 1 .. n /\ Top = calls[n]
  BY <1>1, TopFacts
<1>3. PICK d : /\ d = calls' /\ Len(d) = n - 1 /\ d \in Seq(Frames)
               /\ \A i \in 1 .. n - 1 : d[i] = calls[i]
  BY <1>1, <1>2, PopEffect
<1>4. n - 1 \in 1 .. n - 1 /\ Top' = calls[n - 1]
  BY <1>2, <1>3 DEF Top
<1>5. SameCall(Top, Asked(calls[n - 1]))
  BY <1>1, <1>2, <1>4 DEF Chained
<1>6. PICK f : f = Top
  OBVIOUS
<1>7. g = Asked(calls[n - 1])
  BY <1>1, <1>4, CallsStay
<1>8. f.fn = "LValue"
  BY <1>5, <1>6, <1>7 DEF SameCall
<1>9. LValueStep
  BY <1>6, <1>8 DEF Step, ExprStep, FindCached, FindOwnType, FunctionNotFound, AskDelegate,
                    AskLValue, TakeDelegateType, Missed, At
<1>10. Explained(f)'
  BY <1>1, <1>6, <1>9, LValueReturns
<1>11. Explained(g)'
  <2>1. SameCall(f, g)
    BY <1>5, <1>6, <1>7
  <2> QED BY <1>10, <2>1, Zenon DEF SameCall, Explained, FoundAt
<1> QED BY <1>11

LEMMA StepExplain ==
  ASSUME FinderInv, NoNotypes, ExplainInv, [Next]_vars
  PROVE  ExplainInv'
<1>1. Shapes /\ FinderInv'
  BY StepFinder DEF FinderInv
<1>2. CASE Build
  <2>1. /\ calls = <<>> /\ (\A e \in Nodes : cache[e] = Uncached)
        /\ Nodes' = Nodes /\ prog' = prog /\ UNCHANGED finder
    BY <1>2, BuildComesFirst DEF Build
  <2>2. calls' = <<>> /\ \A e \in Exprs' : cache'[e] # "NOTYPE"
    BY <2>1, NamesAssumption DEF finder, Exprs, IsExpr, Kind, Reserved
  <2> QED BY <2>2 DEF ExplainInv
<1>3. ASSUME UNCHANGED tables, NEW e \in Exprs, cache'[e] = "NOTYPE", Kind(e) = "LValue"
      PROVE  Explained(LValueOf(e))'
  <2>1. PICK f : f = LValueOf(e)
    OBVIOUS
  <2>2. LValueOf(e)' = f
    BY <1>3, <2>1, RulesStay DEF LValueOf, Frame, Kid
  <2>3. CASE cache[e] = "NOTYPE"
    <3>1. Explained(f)
      BY <1>3, <2>1, <2>3 DEF ExplainInv
    <3>2. Explained(f)'
      BY <1>3, <3>1, ExplainedStays
    <3> QED BY <2>2, <3>2 DEF LValueOf
  <2>4. CASE cache[e] # "NOTYPE"
    <3>1. cache' # cache
      BY <1>3, <2>4
    <3>2. Step /\ PopStoring
      <4>1. ~ (PopQuietly \/ Build \/ Ask \/ UNCHANGED vars)
        BY <3>1 DEF PopQuietly, Build, finder, Ask, Query, QueryLValue, vars
      <4> QED BY <3>1, <4>1, StepEffect DEF Next, Stop
    <3>3. e = Top.node /\ Top.fn = "Expr"
      BY <1>1, <1>3, <2>4, <3>2 DEF PopStoring, Shapes, Exprs
    <3>4. ExprStep
      BY <3>2, <3>3 DEF Step, LValueStep, VariableNotFound, DeclaredType, AskInitialValue,
         TakeInitialValueType, AskInner, StartUnalias, FollowAlias, TypeNotFound,
         SelectField, SelectElement, At
    <3>5. Top.phase = "wait" /\ returned' = returned /\ calls # <<>>
      BY <1>3, <3>1, <3>3, <3>4, LValueStored
    <3>6. returned' = "NOTYPE"
      BY <1>1, <1>3, <3>2, <3>3 DEF PopStoring, Shapes, Exprs
    <3>7. Asked(Top) = f /\ f.fn = "LValue"
      BY <1>3, <2>1, <3>3 DEF Asked, LValueOf, Frame
    <3>8. Explained(f)
      BY <3>5, <3>6, <3>7 DEF ExplainInv
    <3>9. Explained(f)'
      BY <1>3, <3>8, ExplainedStays
    <3> QED BY <2>2, <3>9 DEF LValueOf
  <2> QED BY <2>3, <2>4
<1>4. ASSUME UNCHANGED tables, calls' # <<>>, Top'.phase = "wait", returned' = "NOTYPE",
             NEW g, g = Asked(Top)', g.fn = "LValue"
      PROVE  Explained(g)'
  <2>1. CASE Ask
    <3>1. PICK f : calls' = <<f>> /\ f.phase = "enter"
      BY <2>1 DEF Ask, Query, QueryLValue, Frame
    <3> QED BY <1>4, <3>1 DEF Top
  <2>2. CASE UNCHANGED <<calls, returned>>
    <3>1. PICK h : h = Top /\ h = Top'
      BY <2>2 DEF Top
    <3>2. g = Asked(Top)
      BY <1>4, <3>1, CallsStay
    <3>3. Explained(g)
      BY <1>4, <2>2, <3>1, <3>2 DEF ExplainInv
    <3> QED BY <1>4, <3>3, ExplainedStays
  <2>3. CASE Step
    <3>1. CASE Push /\ calls' # calls
      BY <1>4, <3>1, PushKeepsChain
    <3>2. CASE Push /\ calls' = calls
      BY <2>2, <3>2 DEF Push, CallFromTop
    <3>3. CASE PopQuietly \/ PopStoring
      BY <1>4, <2>3, <3>3, ReturnExplained DEF PopQuietly, PopStoring
    <3>4. ASSUME NEW f, Move(f) PROVE FALSE
      <4>1. PICK n \in Nat : n = Len(calls) /\ n >= 1 /\ DOMAIN calls = 1 .. n
                             /\ calls \in Seq(Frames)
        BY <1>1, <3>4, TopFacts DEF Move, Shapes
      <4>2. calls' = [calls EXCEPT ![n] = f] /\ f \in Frames
        BY <3>4, <4>1 DEF Move, GoodFrame
      <4>3. Len(calls') = n /\ calls'[n] = f
        BY <4>1, <4>2
      <4> QED BY <1>4, <3>4, <4>3 DEF Top, Move
    <3> QED BY <2>3, <3>1, <3>2, <3>3, <3>4, StepSorts
  <2>4. CASE UNCHANGED vars
    BY <2>2, <2>4 DEF vars, finder
  <2>5. ~ Build
    <3>1. Build => calls' = <<>>
      BY BuildComesFirst DEF Build, finder
    <3> QED BY <1>4, <3>1
  <2> QED BY <2>1, <2>3, <2>4, <2>5 DEF Next, Stop
<1>5. CASE UNCHANGED tables
  <2>1. Exprs' = Exprs /\ \A e : Kind(e)' = Kind(e)
    BY <1>5, RulesStay
  <2>2. \A e \in Exprs' : cache'[e] = "NOTYPE" /\ Kind(e)' = "LValue"
                            => Explained(LValueOf(e))'
    BY <1>3, <1>5, <2>1
  <2>3. calls' # <<>> /\ Top'.phase = "wait" /\ Asked(Top)'.fn = "LValue"
          /\ returned' = "NOTYPE" => Explained(Asked(Top))'
    <3>1. PICK g : g = Asked(Top)'
      OBVIOUS
    <3>2. g.fn = "LValue" /\ calls' # <<>> /\ Top'.phase = "wait" /\ returned' = "NOTYPE"
            => Explained(g)'
      BY <1>4, <1>5, <3>1
    <3> QED BY <3>1, <3>2
  <2> QED BY <2>2, <2>3 DEF ExplainInv
<1>6. UNCHANGED tables \/ Build
  BY DEF Next, Step, Ask, Stop, vars
<1> QED BY <1>2, <1>5, <1>6

LEMMA ProgramStays ==
  ASSUME FinderInv, [Next]_vars
  PROVE  prog' = prog /\ Nodes' = Nodes /\ (NoNotypes' <=> NoNotypes)
<1>1. prog' = prog /\ Nodes' = Nodes
  <2>1. CASE Build
    BY <2>1, BuildComesFirst
  <2>2. CASE UNCHANGED tables
    BY <2>2, RulesStay
  <2> QED BY <2>1, <2>2 DEF Next, Step, Ask, Stop, vars
<1> QED BY <1>1 DEF NoNotypes

LEMMA CallExplained ==
  ASSUME FinderInv, Counted, NoNotypes, NEW e \in Exprs, cache[e] = "NOTYPE",
         Kind(e) = "FunctionCall"
  PROVE  \/ AsksFor(e) # Null /\ cache[AsksFor(e)] = "NOTYPE"
         \/ NotAFunction(e) /\ IsReported("Function not found", prog[e].id)
<1>1. cache[e] # Uncached /\ e \in Nodes
  BY NamesAssumption DEF Reserved, Exprs
<1>2. Table!LookupInv /\ St!Built /\ prog \in Programs
  BY <1>1, ProgIsTree DEF FinderInv, AskedWhenBuilt
<1>3. Obeys(e, "NOTYPE")
  BY <1>1 DEF FinderInv, CacheObeys
<1>4. prog[e].id \in Identifiers
  BY <1>1, <1>2, NodeFacts
<1>5. CASE Delegate(e) # Null
  BY <1>3, <1>5 DEF Obeys, AsksFor
<1>6. CASE Delegate(e) = Null /\ Function(e) # Null
  <2>1. OwnType(e) = prog[Function(e)].type
    BY <1>6 DEF OwnType
  <2>2. OwnType(e) = "NOTYPE"
    BY <1>3, <1>6 DEF Obeys
  <2>3. Function(e) \in Nodes
    BY <1>2, <1>4, <1>6, Lookups DEF Function
  <2> QED BY <2>1, <2>2, <2>3 DEF NoNotypes
<1>7. CASE Delegate(e) = Null /\ Function(e) = Null
  <2>1. PICK x \in Identifiers : x = prog[e].id
    BY <1>4
  <2>2. NotAFunction(e) /\ e \in FailedCalls(x)
    BY <1>1, <1>7, <2>1 DEF NotAFunction, FailedCalls
  <2>3. /\ IsFiniteSet(FailedCalls(x)) /\ IsFiniteSet(ErrorsAbout(x))
        /\ Cardinality(ErrorsAbout(x)) = Cardinality(FailedCalls(x))
    BY FiniteCounts DEF Counted
  <2>4. Cardinality(FailedCalls(x)) # 0
    BY <2>2, <2>3, FS_EmptySet
  <2>5. ErrorsAbout(x) # {}
    BY <2>3, <2>4, FS_EmptySet
  <2>6. PICK i \in DOMAIN errors : errors[i] = Reported("Function not found", x)
    BY <2>5, Zenon DEF ErrorsAbout
  <2>7. IsReported("Function not found", x)
    BY <2>6, Zenon DEF IsReported
  <2> QED BY <2>1, <2>2, <2>7
<1> QED BY <1>5, <1>6, <1>7

LEMMA LValueExplained ==
  ASSUME FinderInv, ExplainInv, NoNotypes, NEW e \in Exprs, cache[e] = "NOTYPE",
         Kind(e) = "LValue"
  PROVE  \/ AsksFor(e) # Null /\ cache[AsksFor(e)] = "NOTYPE"
         \/ /\ Kind(Kid(e, 1)) = "Identifier" /\ VariableLocation(e) = Null
            /\ IsReported("Variable not found", prog[Kid(e, 1)].id)
         \/ /\ Kind(Kid(e, 1)) # "Identifier"
            /\ \E i \in DOMAIN errors : errors[i].what \in LValueErrors
<1>1. cache[e] # Uncached /\ e \in Nodes
  BY NamesAssumption DEF Reserved, Exprs
<1>2. Table!LookupInv /\ St!Built /\ prog \in Programs
  BY <1>1, ProgIsTree DEF FinderInv, AskedWhenBuilt
<1>3. Obeys(e, "NOTYPE") /\ Delegate(e) = Null
  BY <1>1, <1>2, DelegateIsExpr DEF FinderInv, CacheObeys
<1>4. PICK l \in Nodes : l = Kid(e, 1) /\ Kind(l) \in LValueKinds
  BY <1>1, <1>2, KidSorts
<1>5. PICK f : f = LValueOf(e) /\ f.node = l /\ f.parent = e
  <2>1. LValueOf(e).node = Kid(e, 1) /\ LValueOf(e).parent = e
    BY DEF LValueOf, Frame
  <2> QED BY <1>4, <2>1
<1>6. Explained(f)
  BY <1>5 DEF ExplainInv
<1>7. prog[l].id \in Identifiers
  BY <1>2, NodeFacts
<1>8. CASE Kind(l) # "Identifier"
  BY <1>4, <1>5, <1>6, <1>8 DEF Explained
<1>9. CASE Kind(l) = "Identifier"
  <2>1. Variable(l) = l
    BY <1>2, <1>9, VariableFacts
  <2>2. PICK d : d = lookupStorageLocation(e, prog[l].id)
    OBVIOUS
  <2>3. VariableLocation(e) = d /\ FoundAt(f) = d
    BY <1>4, <1>5, <2>1, <2>2 DEF VariableLocation, FoundAt
  <2>4. d # Null => d \in Nodes /\ Kind(d) \in {"VariableDeclaration", "For", "TypeField"}
    BY <1>2, <1>7, <2>2, Lookups
  <2>5. "NOTYPE" = VariableType(e, l)
    BY <1>3, <1>4, <1>9 DEF Obeys
  <2>6. CASE d = Null
    <3>1. IsReported("Variable not found", prog[l].id)
      BY <1>5, <1>6, <1>9, <2>3, <2>6, Zenon DEF Explained
    <3> QED BY <1>4, <1>9, <2>3, <2>6, <3>1
  <2>7. CASE d # Null
    <3>1. Kind(d) # "For" /\ prog[d].type # "NOTYPE"
      BY <2>2, <2>4, <2>5, <2>7 DEF VariableType, NoNotypes
    <3>2. prog[d].type = NoType /\ cache[Kid(d, 1)] = "NOTYPE"
      BY <2>2, <2>5, <2>7, <3>1 DEF VariableType
    <3>3. Kind(d) = "VariableDeclaration"
      BY <1>2, <2>4, <2>7, <3>1, <3>2, TypedNodes, ProgramsAssumption
         DEF IsTyped, Kind, Nodes
    <3>4. AsksFor(e) = Kid(d, 1)
      BY <2>3, <2>7, <3>2, <3>3 DEF AsksFor
    <3>5. Kid(d, 1) # Null
      BY <1>2, <2>4, <2>7, <3>3, KidSorts, NodeFacts DEF Exprs
    <3> QED BY <3>2, <3>4, <3>5
  <2> QED BY <2>6, <2>7
<1> QED BY <1>8, <1>9

LEMMA NotypesExplained ==
  FinderInv /\ Counted /\ (NoNotypes => ExplainInv) => NotypeExplained
<1> SUFFICES ASSUME FinderInv, Counted, ExplainInv, NoNotypes,
                    NEW e \in Exprs, cache[e] = "NOTYPE", Kind(e) \in {"LValue", "FunctionCall"}
             PROVE  \/ AsksFor(e) # Null /\ cache[AsksFor(e)] = "NOTYPE"
                    \/ /\ NotAFunction(e)
                       /\ IsReported("Function not found", prog[e].id)
                    \/ /\ Kind(e) = "LValue" /\ VariableLocation(e) = Null
                       /\ Kind(Kid(e, 1)) = "Identifier"
                       /\ IsReported("Variable not found", prog[Kid(e, 1)].id)
                    \/ /\ Kind(e) = "LValue" /\ Kind(Kid(e, 1)) # "Identifier"
                       /\ \E i \in DOMAIN errors : errors[i].what \in LValueErrors
  BY Zenon DEF NotypeExplained, NoNotypes, LValueErrors
<1>1. CASE Kind(e) = "FunctionCall"
  BY <1>1, CallExplained, Zenon
<1>2. CASE Kind(e) = "LValue"
  BY <1>2, LValueExplained, Zenon
<1> QED BY <1>1, <1>2, Zenon

\* Whatever the program, unless it uses the name NOTYPE itself: an l-value or
\* a call for which operator() answers "NOTYPE" has the error in the list that
\* says why, or its type comes from an expression for which that holds.
THEOREM NoTypeWithoutReason == Spec => []NotypeExplained
<1>1. Init => Counted /\ (NoNotypes => ExplainInv)
  <2> SUFFICES ASSUME Init PROVE Counted /\ ExplainInv
    OBVIOUS
  <2>1. Counted
    BY NoneCounted DEF Init
  <2>2. \A e \in Exprs : cache[e] # "NOTYPE"
    BY NamesAssumption DEF Init, Reserved, Exprs
  <2>3. calls = <<>>
    BY DEF Init
  <2> QED BY <2>1, <2>2, <2>3 DEF ExplainInv
<1>2. FinderInv /\ Counted /\ (NoNotypes => ExplainInv) /\ [Next]_vars
        => Counted' /\ (NoNotypes => ExplainInv)'
  BY StepCounts, StepExplain, ProgramStays
<1> QED BY <1>1, <1>2, FinderInvariant, NotypesExplained, PTL DEF Spec

=============================================================================
