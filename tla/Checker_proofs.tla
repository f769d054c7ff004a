--------------------------- MODULE Checker_proofs ---------------------------
(***************************************************************************)
(* Proofs about module Checker, for every set of typed trees.              *)
(*                                                                         *)
(* Part one: the checkers are clients of the type finder, so that its      *)
(* invariant holds here, too.  Part two: what each checker records, what    *)
(* the counter of loops counts, and the inductive invariant, CheckerInv:   *)
(* it says at every moment which nodes have been told what.  Then come the *)
(* theorems, one of them with what it takes to show that a chain of        *)
(* aliases followed for as many steps as there are declarations comes back *)
(* to where it began exactly when that is on a circle.                     *)
(*                                                                         *)
(* Part three: what FunctionCallChecker has made of the arguments of a     *)
(* call, and that a walk along aliases goes the same way from any two      *)
(* places in whose scopes the names it meets are.                          *)
(***************************************************************************)
EXTENDS Checker, FiniteSetTheorems, TLAPS

Finder == INSTANCE TypeFinder_proofs

-----------------------------------------------------------------------------
(* The type finder.                                                        *)

LEMMA SameAssumptions ==
  /\ \A p \in Programs : Finder!IsProgram(p) /\ Finder!IsTyped(p)
  /\ Finder!Reserved \subseteq Identifiers /\ Uncached \notin Identifiers
  /\ MaxQueries \in Nat /\ StackLimit \in Nat
  /\ \A p \in Programs : Len(p) <= StackLimit
<1>1. \A p : IsTree(p) <=> Finder!IsTree(p)
  BY Zenon DEF IsTree, NodesOf, Opens, ParamsOf, Below, Finder!IsTree,
               Finder!NodesOf, Finder!Opens, Finder!ParamsOf, Finder!Below
<1>2. \A p : IsShaped(p) <=> Finder!IsShaped(p)
  BY Zenon DEF IsShaped, NodesOf, ParamsOf, Vectors, ExprKinds, DeclarationKinds,
               LValueKinds, Children, Childless, Finder!IsShaped, Finder!NodesOf,
               Finder!ParamsOf, Finder!Vectors, Finder!ExprKinds,
               Finder!DeclarationKinds, Finder!LValueKinds, Finder!Children,
               Finder!Childless
<1>3. \A p : Node(p) = Finder!Node(p)
  BY Zenon DEF Node, NodesOf, NodeKinds, ExprKinds, LValueKinds, DeclarationKinds, Forms,
               Finder!Node, Finder!NodesOf, Finder!NodeKinds, Finder!ExprKinds,
               Finder!LValueKinds, Finder!DeclarationKinds, Finder!Forms
<1>4. \A p : IsTyped(p) <=> Finder!IsTyped(p)
  BY Zenon DEF IsTyped, NodesOf, Finder!IsTyped, Finder!NodesOf
<1>5. \A p : IsProgram(p) <=> Finder!IsProgram(p)
  BY <1>1, <1>2, <1>3, Zenon DEF IsProgram, ExprKinds, Finder!IsProgram, Finder!ExprKinds
<1>6. Finder!Reserved = Tf!Reserved
  BY DEF Finder!Reserved, Tf!Reserved
<1> QED BY <1>4, <1>5, <1>6, ProgramsAssumption, FinderAssumption

LEMMA SameInit == Tf!Init <=> Finder!Init
<1>1. Tf!St!Init <=> Finder!St!Init
  BY Zenon DEF Tf!St!Init, Tf!St!EmptyScope, Tf!St!NoNames, Tf!St!Nodes, Tf!St!NodesOf,
       Tf!St!NoScope, Tf!St!Null, Finder!St!Init, Finder!St!EmptyScope, Finder!St!NoNames,
       Finder!St!Nodes, Finder!St!NodesOf, Finder!St!NoScope, Finder!St!Null
<1> QED BY <1>1, Zenon DEF Tf!Init, Tf!Nodes, Tf!NodesOf, Finder!Init, Finder!Nodes,
             Finder!NodesOf

LEMMA SameBuild == Tf!Build <=> Finder!Build
<1>1. ASSUME NEW n PROVE Tf!St!Visit(n) <=> Finder!St!Visit(n)
  BY Zenon
     DEF Tf!St!Visit, Tf!St!VisitLet, Tf!St!VisitFunctionDeclaration,
         Tf!St!VisitVariableDeclaration, Tf!St!VisitTypeDeclaration, Tf!St!VisitFor,
         Tf!St!VisitOther, Tf!St!Visited, Tf!St!HasNext, Tf!St!Top, Tf!St!Enter,
         Tf!St!Frame, Tf!St!RecordScope, Tf!St!StoreVariable, Tf!St!Open,
         Tf!St!LetScope, Tf!St!FunctionScope, Tf!St!EmptyScope, Tf!St!NoNames,
         Tf!St!Named, Tf!St!LastOf, Tf!St!RangeOf, Tf!St!Kind, Tf!St!Null,
         Tf!St!IsExpr, Tf!St!ExprKinds, Tf!St!DeclarationKinds,
         Finder!St!Visit, Finder!St!VisitLet, Finder!St!VisitFunctionDeclaration,
         Finder!St!VisitVariableDeclaration, Finder!St!VisitTypeDeclaration,
         Finder!St!VisitFor, Finder!St!VisitOther, Finder!St!Visited,
         Finder!St!HasNext, Finder!St!Top, Finder!St!Enter, Finder!St!Frame,
         Finder!St!RecordScope, Finder!St!StoreVariable, Finder!St!Open,
         Finder!St!LetScope, Finder!St!FunctionScope, Finder!St!EmptyScope,
         Finder!St!NoNames, Finder!St!Named, Finder!St!LastOf, Finder!St!RangeOf,
         Finder!St!Kind, Finder!St!Null, Finder!St!IsExpr, Finder!St!ExprKinds,
         Finder!St!DeclarationKinds
<1>2. Tf!St!LeaveScope \/ Tf!St!LeaveOther <=> Finder!St!LeaveScope \/ Finder!St!LeaveOther
  BY DEF Tf!St!LeaveScope, Tf!St!LeaveOther, Tf!St!Return, Tf!St!HasNext, Tf!St!Top,
         Tf!St!Opens, Finder!St!LeaveScope, Finder!St!LeaveOther, Finder!St!Return,
         Finder!St!HasNext, Finder!St!Top, Finder!St!Opens
<1> QED BY <1>1, <1>2, Zenon
        DEF Tf!Build, Tf!finder, Tf!St!BuildStep, Tf!St!Nodes, Tf!St!NodesOf,
            Finder!Build, Finder!finder, Finder!St!BuildStep, Finder!St!Nodes,
            Finder!St!NodesOf

LEMMA SameExprStep == Tf!ExprStep <=> Finder!ExprStep
BY Zenon
   DEF Tf!ExprStep, Tf!FindCached, Tf!FindOwnType, Tf!FunctionNotFound, Tf!AskDelegate,
       Tf!AskLValue, Tf!TakeDelegateType, Tf!Missed, Tf!At, Tf!Top, Tf!Frame, Tf!Return,
       Tf!Pop, Tf!CallFromTop, Tf!Delegate, Tf!OwnType, Tf!NotAFunction, Tf!HasBody,
       Tf!Function, Tf!lookupFunction, Tf!FirstScope, Tf!Kind, Tf!Kid, Tf!LastKid,
       Tf!Null, Tf!NoScope, Tf!ExprKinds,
       Finder!ExprStep, Finder!FindCached, Finder!FindOwnType, Finder!FunctionNotFound,
       Finder!AskDelegate, Finder!AskLValue, Finder!TakeDelegateType, Finder!Missed,
       Finder!At, Finder!Top, Finder!Frame, Finder!Return, Finder!Pop,
       Finder!CallFromTop, Finder!Delegate, Finder!OwnType, Finder!NotAFunction,
       Finder!HasBody, Finder!Function, Finder!lookupFunction, Finder!FirstScope,
       Finder!Kind, Finder!Kid, Finder!LastKid, Finder!Null, Finder!NoScope,
       Finder!ExprKinds

LEMMA SameLValueStep == Tf!LValueStep <=> Finder!LValueStep
BY Zenon
   DEF Tf!LValueStep, Tf!VariableNotFound, Tf!DeclaredType, Tf!AskInitialValue,
       Tf!TakeInitialValueType, Tf!AskInner, Tf!StartUnalias, Tf!FollowAlias,
       Tf!TypeNotFound, Tf!SelectField, Tf!SelectElement, Tf!FieldNamed,
       Tf!Unaliased, Tf!IsAlias, Tf!Location, Tf!ReturnLValue, Tf!Fail, Tf!Pop,
       Tf!CallFromTop, Tf!At, Tf!Top, Tf!Frame, Tf!lookupType,
       Tf!lookupStorageLocation, Tf!FirstScope, Tf!AliasOf, Tf!Kind, Tf!Kid,
       Tf!Null, Tf!NoScope,
       Finder!LValueStep, Finder!VariableNotFound, Finder!DeclaredType,
       Finder!AskInitialValue, Finder!TakeInitialValueType, Finder!AskInner,
       Finder!StartUnalias, Finder!FollowAlias, Finder!TypeNotFound,
       Finder!SelectField, Finder!SelectElement, Finder!FieldNamed,
       Finder!Unaliased, Finder!IsAlias, Finder!Location, Finder!ReturnLValue,
       Finder!Fail, Finder!Pop, Finder!CallFromTop, Finder!At, Finder!Top,
       Finder!Frame, Finder!lookupType, Finder!lookupStorageLocation,
       Finder!FirstScope, Finder!AliasOf, Finder!Kind, Finder!Kid, Finder!Null,
       Finder!NoScope

LEMMA SameAsk == Tf!Ask <=> Finder!Ask
BY Zenon
   DEF Tf!Ask, Tf!Query, Tf!QueryLValue, Tf!Idle, Tf!Frame, Tf!tables, Tf!Exprs,
       Tf!IsExpr, Tf!ExprKinds, Tf!Nodes, Tf!NodesOf, Tf!Kind, Tf!Kid, Tf!Null,
       Tf!St!Built,
       Finder!Ask, Finder!Query, Finder!QueryLValue, Finder!Idle, Finder!Frame,
       Finder!tables, Finder!Exprs, Finder!IsExpr, Finder!ExprKinds, Finder!Nodes,
       Finder!NodesOf, Finder!Kind, Finder!Kid, Finder!Null, Finder!St!Built

LEMMA SameNext == Tf!Next <=> Finder!Next
<1>1. Tf!Step <=> Finder!Step
  BY SameExprStep, SameLValueStep, Zenon
     DEF Tf!Step, Tf!tables, Finder!Step, Finder!tables
<1>2. Tf!Stop <=> Finder!Stop
  BY Zenon
     DEF Tf!Stop, Tf!Idle, Tf!St!Built, Tf!vars, Tf!tables, Tf!finder, Finder!Stop,
         Finder!Idle, Finder!St!Built, Finder!vars, Finder!tables, Finder!finder
<1> QED BY <1>1, <1>2, SameBuild, SameAsk, Zenon DEF Tf!Next, Finder!Next

LEMMA FinderStarts == Tf!Init => Finder!FinderInv
BY SameInit, SameAssumptions, Finder!InitFinder, Zenon

LEMMA FinderGoesOn == Finder!FinderInv /\ [Tf!Next]_(Tf!vars) => Finder!FinderInv'
<1>1. UNCHANGED Tf!vars <=> UNCHANGED Finder!vars
  BY Zenon DEF Tf!vars, Tf!tables, Tf!finder, Finder!vars, Finder!tables, Finder!finder
<1>2. [Tf!Next]_(Tf!vars) <=> [Finder!Next]_(Finder!vars)
  BY <1>1, SameNext, Zenon
<1>3. [Finder!Next]_(Finder!vars) /\ Finder!FinderInv => Finder!FinderInv'
  BY SameAssumptions, Finder!StepFinder
<1> QED BY <1>2, <1>3, Zenon

LEMMA FinderKeeps ==
  Finder!FinderInv /\ [Tf!Next]_(Tf!vars) =>
    \A n \in Nodes : cache[n] # Uncached => cache'[n] = cache[n]
<1>1. UNCHANGED Tf!vars <=> UNCHANGED Finder!vars
  BY Zenon DEF Tf!vars, Tf!tables, Tf!finder, Finder!vars, Finder!tables, Finder!finder
<1>2. [Tf!Next]_(Tf!vars) <=> [Finder!Next]_(Finder!vars)
  BY <1>1, SameNext, Zenon
<1>3. [Finder!Next]_(Finder!vars) /\ Finder!FinderInv =>
        \A n \in Finder!Nodes : cache[n] # Uncached => cache'[n] = cache[n]
  BY SameAssumptions, Finder!AnswersStay
<1>4. Finder!Nodes = Nodes
  BY Zenon DEF Finder!Nodes, Finder!NodesOf, Nodes, NodesOf
<1> QED BY <1>2, <1>3, <1>4, Zenon

-----------------------------------------------------------------------------
(* The checkers are clients of the type finder.                            *)

\* Where the traversals are.
Places ==
  /\ prog \in Programs
  /\ pass \in 1 .. 8                     \* 8: Done
  /\ at \in Nodes
  /\ l_value_asked \in BOOLEAN

LEMMA SevenPasses == Len(Passes) = 7 /\ DOMAIN Passes = 1 .. 7
BY DEF Passes

LEMMA Numbers ==
  ASSUME prog \in Programs
  PROVE  Len(prog) \in Nat \ {0} /\ Nodes = 1 .. Len(prog)
<1>1. prog \in Seq(Node(prog)) /\ Len(prog) > 0
  BY ProgramsAssumption DEF IsProgram
<1> QED BY <1>1 DEF Nodes, NodesOf

LEMMA SameExprs == Tf!Exprs = Exprs
BY DEF Tf!Exprs, Tf!IsExpr, Tf!Kind, Tf!Nodes, Tf!NodesOf, Tf!ExprKinds, Exprs, IsExpr,
       Kind, Nodes, NodesOf, ExprKinds

\* A check leaves table and type finder alone.
LEMMA CheckEffect ==
  ASSUME NEW name, NEW what, Check(name, what)
  PROVE  /\ Working /\ Answered /\ Pass = name /\ ~ WalksForever(at)
         /\ UNCHANGED <<tables, finder>> /\ prog' = prog
         /\ reports' = reports \cup what
         /\ GoOn
BY DEF Check, Answered, tables

LEMMA StepIsClients ==
  ASSUME at \in Nodes, [Next]_vars
  PROVE  [Tf!Next]_(Tf!vars) /\ prog' = prog
<1>1. CASE Build
  <2>1. Tf!Build
    BY <1>1 DEF Build
  <2>2. prog' = prog
    BY <2>1, Zenon
       DEF Tf!Build, Tf!St!BuildStep, Tf!St!LeaveScope, Tf!St!LeaveOther, Tf!St!Return,
           Tf!St!Visit, Tf!St!VisitLet, Tf!St!VisitFunctionDeclaration,
           Tf!St!VisitVariableDeclaration, Tf!St!VisitTypeDeclaration, Tf!St!VisitFor,
           Tf!St!VisitOther, Tf!St!Enter
  <2> QED BY <2>1, <2>2 DEF Tf!Next
<1>2. CASE Infer
  BY <1>2 DEF Infer, Tf!Next, Tf!Step, Tf!tables
<1>3. CASE \E e \in Exprs : Ask(e)
  BY <1>3, SameExprs DEF Ask, Tf!Next, Tf!Ask, tables, Tf!tables
<1>4. CASE AskLValue
  <2>1. at \in Exprs
    BY <1>4 DEF AskLValue, AssignsNil, Exprs, IsExpr, ExprKinds
  <2> QED BY <1>4, <2>1, SameExprs DEF AskLValue, Tf!Next, Tf!Ask, tables, Tf!tables
<1>5. CASE \E name, what : Check(name, what)
  BY <1>5, CheckEffect, Zenon
     DEF Tf!vars, Tf!tables, Tf!finder, tables, finder
<1>6. CASE UNCHANGED vars
  BY <1>6 DEF vars, tables, finder, Tf!vars, Tf!tables, Tf!finder
<1> QED BY <1>1, <1>2, <1>3, <1>4, <1>5, <1>6
        DEF Next, CheckerStep, Stop, CheckDeclaration, CheckRecordField, CheckBinaryOp,
            CheckConditional, CheckNil, CheckFunctionCall, CheckStructure

\* A traversal ends at the last node, and the next begins at the first.
LEMMA GoneOn ==
  ASSUME Places, NEW name, NEW what, Check(name, what)
  PROVE  /\ pass \in DOMAIN Passes /\ Passes[pass] = name
         /\ \/ at < Len(prog) /\ at' = at + 1 /\ pass' = pass
            \/ at = Len(prog) /\ at' = 1 /\ pass' = pass + 1
         /\ l_value_asked' = FALSE
<1>1. Working /\ Pass = name /\ GoOn
  BY CheckEffect
<1>2. pass \in DOMAIN Passes /\ Passes[pass] = name
  BY <1>1, SevenPasses DEF Places, Working, Done, Pass
<1>3. at \in 1 .. Len(prog) /\ Len(prog) \in Nat
  BY Numbers DEF Places
<1> QED BY <1>1, <1>2, <1>3 DEF GoOn

LEMMA StepPlaces == Places /\ [Next]_vars => Places'
<1> SUFFICES ASSUME Places, [Next]_vars PROVE Places'
  OBVIOUS
<1>1. prog' = prog /\ Nodes' = Nodes /\ Len(prog) \in Nat \ {0} /\ Nodes = 1 .. Len(prog)
  BY StepIsClients, Numbers DEF Places, Nodes
<1>2. CASE UNCHANGED <<pass, at, l_value_asked>>
  BY <1>1, <1>2 DEF Places
<1>3. CASE l_value_asked' = TRUE /\ UNCHANGED <<pass, at>>
  BY <1>1, <1>3 DEF Places
<1>4. ASSUME NEW name, NEW what, Check(name, what) PROVE Places'
  <2>1. /\ pass \in DOMAIN Passes /\ l_value_asked' = FALSE
        /\ \/ at < Len(prog) /\ at' = at + 1 /\ pass' = pass
           \/ at = Len(prog) /\ at' = 1 /\ pass' = pass + 1
    BY <1>4, GoneOn
  <2>2. at' \in 1 .. Len(prog)
    BY <1>1, <2>1 DEF Places
  <2>3. pass' \in 1 .. 8
    BY <2>1, SevenPasses
  <2> QED BY <1>1, <2>1, <2>2, <2>3 DEF Places
<1>5. CASE Build \/ Infer \/ Stop \/ UNCHANGED vars \/ \E e \in Exprs : Ask(e)
  BY <1>2, <1>5 DEF Build, Infer, Stop, Ask, vars, checker
<1>6. CASE AskLValue
  BY <1>3, <1>6 DEF AskLValue
<1> QED BY <1>4, <1>5, <1>6
        DEF Next, CheckerStep, CheckDeclaration, CheckRecordField, CheckBinaryOp,
            CheckConditional, CheckNil, CheckFunctionCall, CheckStructure

-----------------------------------------------------------------------------
(* What the checkers record.                                               *)

BreakText == "Break must be inside a loop"
CycleText == "Illegal type cycle"
LoopVariableText == "For loop variable may not be assigned to"
Watched == {BreakText, CycleText, LoopVariableText}
Unwatched ==
  {"Duplicate definition", "Nil may only be used for records with known type",
   "Variable initialized with no value", "Variable initialized with another type",
   "Body returns another type", "Procedure body must not return a value",
   "Unknown record type", "Type is not a record", "Type has another number of fields",
   "Different types for field", "Different names for field",
   "Types of operands should match", "Operand must be int or string",
   "Operand must be int", "Condition must be int", "Type is not a record type",
   "Other number of arguments", "Argument of another type",
   "Loop body must not return a value", "Branches must have same type"}

LEMMA TextsDiffer ==
  /\ Watched \cap Unwatched = {}
  /\ BreakText # CycleText /\ BreakText # LoopVariableText /\ CycleText # LoopVariableText
BY Zenon DEF Watched, Unwatched, BreakText, CycleText, LoopVariableText

LEMMA KidNodes ==
  ASSUME prog \in Programs, NEW n \in Nodes
  PROVE  /\ prog[n].kids \in Seq(Nodes)
         /\ \A j \in DOMAIN prog[n].kids : Kid(n, j) \in Nodes
         /\ \A k \in Kids(n) : k \in Nodes
<1>1. prog \in Seq(Node(prog)) /\ Nodes = NodesOf(prog)
  BY ProgramsAssumption DEF IsProgram, Nodes
<1>2. prog[n] \in Node(prog)
  BY <1>1 DEF NodesOf
<1>3. prog[n].kids \in Seq(Nodes)
  BY <1>1, <1>2 DEF Node
<1>4. \A j \in DOMAIN prog[n].kids : Kid(n, j) \in Nodes
  BY <1>3 DEF Kid
<1> QED BY <1>3, <1>4 DEF Kids

LEMMA Said ==
  ASSUME NEW what, NEW n
  PROVE  Report(what, n).what = what /\ Report(what, n).at = n
BY DEF Report

\* What a Let is told, and where.
LEMMA LetMessages ==
  ASSUME NEW l, NEW r \in LetReports(l)
  PROVE  \E j \in DOMAIN prog[l].kids :
           \/ \E w \in Unwatched : r = Report(w, Kid(l, j))
           \/ r = Report(CycleText, Kid(l, j)) /\ HasIllegalCycle(l, j)
<1>1. PICK j \in DOMAIN prog[l].kids :
        r \in Unless(~ IsDuplicate(l, j), "Duplicate definition", Kid(l, j))
                \cup Unless(~ HasIllegalCycle(l, j), "Illegal type cycle", Kid(l, j))
  BY Zenon DEF LetReports
<1>2. CASE r \in Unless(~ IsDuplicate(l, j), "Duplicate definition", Kid(l, j))
  <2>1. "Duplicate definition" \in Unwatched
    BY Zenon DEF Unwatched
  <2> QED BY <1>2, <2>1, Zenon DEF Unless
<1>3. CASE r \in Unless(~ HasIllegalCycle(l, j), "Illegal type cycle", Kid(l, j))
  BY <1>3, Zenon DEF Unless, CycleText
<1> QED BY <1>1, <1>2, <1>3, Zenon

LEMMA VariableMessages ==
  ASSUME NEW v, NEW r \in VariableReports(v)
  PROVE  \E w \in Unwatched : r = Report(w, v)
<1>1. /\ "Nil may only be used for records with known type" \in Unwatched
      /\ "Variable initialized with no value" \in Unwatched
      /\ "Variable initialized with another type" \in Unwatched
  BY Zenon DEF Unwatched
<1> QED BY <1>1, Zenon DEF VariableReports, Unless

LEMMA FunctionMessages ==
  ASSUME NEW f, NEW r \in FunctionReports(f)
  PROVE  \E w \in Unwatched : r = Report(w, f)
<1>1. /\ "Body returns another type" \in Unwatched
      /\ "Procedure body must not return a value" \in Unwatched
  BY Zenon DEF Unwatched
<1> QED BY <1>1, Zenon DEF FunctionReports, Unless

LEMMA RecordMessages ==
  ASSUME NEW e, NEW r \in RecordFieldReports(e)
  PROVE  \E w \in Unwatched :
           r = Report(w, e) \/ \E j \in DOMAIN prog[e].kids : r = Report(w, Kid(e, j))
<1>1. /\ "Unknown record type" \in Unwatched /\ "Type is not a record" \in Unwatched
      /\ "Type has another number of fields" \in Unwatched
      /\ "Different types for field" \in Unwatched
      /\ "Different names for field" \in Unwatched
  BY Zenon DEF Unwatched
<1>2. r \in RecordLiteralReports(e)
  BY Zenon DEF RecordFieldReports
<1>3. PICK d : d = RecordType(e)
  BY Zenon
<1>4. CASE d = Null
  BY <1>1, <1>2, <1>3, <1>4, Zenon DEF RecordLiteralReports
<1>5. CASE d # Null /\ ~ IsRecordType(d)
  BY <1>1, <1>2, <1>3, <1>5, Zenon DEF RecordLiteralReports
<1>6. CASE d # Null /\ IsRecordType(d) /\ ~ AsManyFields(e, d)
  BY <1>1, <1>2, <1>3, <1>6, Zenon DEF RecordLiteralReports
<1>7. CASE d # Null /\ IsRecordType(d) /\ AsManyFields(e, d)
  <2>1. PICK j \in DOMAIN prog[e].kids :
          r \in IF j \in Matching(e, d)
                THEN Unless(cache[Kid(e, j)] = prog[prog[d].params[j]].type,
                            "Different types for field", Kid(e, j))
                ELSE {Report("Different names for field", Kid(e, j))}
    BY <1>2, <1>3, <1>7, Zenon DEF RecordLiteralReports
  <2>2. CASE j \in Matching(e, d)
    BY <1>1, <2>1, <2>2, Zenon DEF Unless
  <2>3. CASE j \notin Matching(e, d)
    BY <1>1, <2>1, <2>3, Zenon
  <2> QED BY <2>2, <2>3, Zenon
<1> QED BY <1>4, <1>5, <1>6, <1>7, Zenon

\* A message of a checker that is no report of a watched rule.
Plain(r, n) == \E w \in Unwatched : r = Report(w, n)

LEMMA PlainUnless ==
  ASSUME NEW ok, NEW w \in Unwatched, NEW n, NEW r \in Unless(ok, w, n)
  PROVE  Plain(r, n)
<1>1. CASE ok
  BY <1>1, Zenon DEF Unless
<1>2. CASE ~ ok
  BY <1>2, Zenon DEF Unless, Plain
<1> QED BY <1>1, <1>2, Zenon

LEMMA BinaryOpMessages ==
  ASSUME NEW n, NEW r \in BinaryOpReports(n)
  PROVE  Plain(r, n) \/ \E k \in Kids(n) : Plain(r, k)
<1> DEFINE each == UNION {Unless(cache[k] \in Builtin,
                                 "Operand must be int or string", k) : k \in Kids(n)}
           both == Unless(cache[Kid(n, 1)] = cache[Kid(n, 2)],
                          "Types of operands should match", n)
<1>1. /\ "Types of operands should match" \in Unwatched
      /\ "Operand must be int or string" \in Unwatched
      /\ "Operand must be int" \in Unwatched
  BY Zenon DEF Unwatched
<1>2. CASE IsBinary(n, {"comparison"})
  <2> ~ IsBinary(n, {"logical"})
    BY <1>2 DEF IsBinary
  <2>1. r \in each \cup both
    BY <1>2, Zenon DEF BinaryOpReports
  <2>2. CASE r \in each
    <3>1. PICK k \in Kids(n) : r \in Unless(cache[k] \in Builtin,
                                             "Operand must be int or string", k)
      BY <2>2, Zenon
    <3>2. Plain(r, k)
      BY <1>1, <3>1, PlainUnless, Zenon
    <3> QED BY <3>2, Zenon
  <2>3. CASE r \in both
    BY <1>1, <2>3, PlainUnless, Zenon
  <2> HIDE DEF each, both
  <2> QED BY <2>1, <2>2, <2>3, Zenon
<1>3. CASE ~ IsBinary(n, {"comparison"}) /\ IsBinary(n, {"logical"})
  <2>1. PICK k \in Kids(n) : r \in Unless(cache[k] = "int", "Operand must be int", k)
    BY <1>3, Zenon DEF BinaryOpReports
  <2>2. Plain(r, k)
    BY <1>1, <2>1, PlainUnless, Zenon
  <2> QED BY <2>2, Zenon
<1>4. CASE ~ IsBinary(n, {"comparison"}) /\ ~ IsBinary(n, {"logical"})
  BY <1>4, Zenon DEF BinaryOpReports
<1> QED BY <1>2, <1>3, <1>4, Zenon

LEMMA ConditionalMessages ==
  ASSUME NEW n, NEW r \in ConditionalReports(n)
  PROVE  \E k \in Kids(n) : Plain(r, k)
<1>1. "Condition must be int" \in Unwatched
  BY Zenon DEF Unwatched
<1>2. PICK k \in ConditionalAsks(n) :
        r \in Unless(cache[k] = "int", "Condition must be int", k)
  BY Zenon DEF ConditionalReports
<1>3. k \in Kids(n)
  BY <1>2, Zenon DEF ConditionalAsks
<1>4. Plain(r, k)
  BY <1>1, <1>2, PlainUnless, Zenon
<1> QED BY <1>3, <1>4, Zenon

LEMMA NilMessages ==
  ASSUME NEW n, NEW r \in NilReports(n)
  PROVE  Plain(r, n) \/ \E k \in Kids(n) : Plain(r, k)
<1> DEFINE each == UNION {Unless(IsRecord(n, cache[k]), "Type is not a record type", k) :
                          k \in NilAsks(n)}
           own == Unless(AssignsNil(n) => IsRecord(n, returned),
                         "Type is not a record type", n)
<1>1. "Type is not a record type" \in Unwatched
  BY Zenon DEF Unwatched
<1>2. NilReports(n) = each \cup own
  BY Zenon DEF NilReports
<1>3. CASE r \in each
  <2>1. PICK k \in NilAsks(n) :
          r \in Unless(IsRecord(n, cache[k]), "Type is not a record type", k)
    BY <1>3, Zenon
  <2>2. k \in Kids(n)
    BY <2>1, Zenon DEF NilAsks
  <2>3. Plain(r, k)
    BY <1>1, <2>1, PlainUnless, Zenon
  <2> QED BY <2>2, <2>3, Zenon
<1>4. CASE r \in own
  BY <1>1, <1>4, PlainUnless, Zenon
<1> HIDE DEF each, own
<1> QED BY <1>2, <1>3, <1>4, Zenon

LEMMA FunctionCallMessages ==
  ASSUME NEW e, NEW r \in FunctionCallReports(e)
  PROVE  \E w \in Unwatched :
           r = Report(w, e) \/ \E j \in DOMAIN prog[e].kids : r = Report(w, Kid(e, j))
<1>1. /\ "Other number of arguments" \in Unwatched
      /\ "Type is not a record type" \in Unwatched
      /\ "Argument of another type" \in Unwatched
  BY Zenon DEF Unwatched
<1> QED BY <1>1, Zenon DEF FunctionCallReports, Arguments, Unless

LEMMA DeclarationMessages ==
  ASSUME prog \in Programs, NEW n \in Nodes, NEW r \in DeclarationReports(n)
  PROVE  /\ r.at \in Nodes
         /\ r.what \notin {BreakText, LoopVariableText}
         /\ r.what = CycleText =>
              /\ Kind(n) = "Let"
              /\ \E j \in DOMAIN prog[n].kids : r.at = Kid(n, j) /\ HasIllegalCycle(n, j)
<1>1. CASE Kind(n) = "Let"
  <2>1. r \in LetReports(n)
    BY <1>1, Zenon DEF DeclarationReports
  <2>2. PICK j \in DOMAIN prog[n].kids :
           \/ \E w \in Unwatched : r = Report(w, Kid(n, j))
           \/ r = Report(CycleText, Kid(n, j)) /\ HasIllegalCycle(n, j)
    BY <2>1, LetMessages
  <2>3. r.at = Kid(n, j) /\ Kid(n, j) \in Nodes
    BY <2>2, Said, KidNodes
  <2>4. r.what \in Unwatched \/ (r.what = CycleText /\ HasIllegalCycle(n, j))
    BY <2>2, Said
  <2> QED BY <1>1, <2>3, <2>4, TextsDiffer DEF Watched
<1>2. CASE Kind(n) \in {"VariableDeclaration", "FunctionDeclaration"}
  <2>1. r \in VariableReports(n) \/ r \in FunctionReports(n)
    BY <1>2, Zenon DEF DeclarationReports
  <2>2. PICK w \in Unwatched : r = Report(w, n)
    BY <2>1, VariableMessages, FunctionMessages
  <2> QED BY <2>2, Said, TextsDiffer DEF Watched
<1> QED BY <1>1, <1>2 DEF DeclarationReports

LEMMA OtherMessages ==
  ASSUME prog \in Programs, NEW n \in Nodes,
         NEW r \in RecordFieldReports(n) \cup BinaryOpReports(n)
                     \cup ConditionalReports(n) \cup NilReports(n)
                     \cup FunctionCallReports(n)
  PROVE  r.at \in Nodes /\ r.what \notin Watched
<1>1. \A j \in DOMAIN prog[n].kids : Kid(n, j) \in Nodes
  BY KidNodes
<1>2. \A k \in Kids(n) : k \in Nodes
  BY KidNodes
<1>3. \E m \in Nodes : Plain(r, m)
  <2>1. CASE r \in RecordFieldReports(n)
    BY <1>1, <2>1, RecordMessages, Zenon DEF Plain
  <2>2. CASE r \in FunctionCallReports(n)
    BY <1>1, <2>2, FunctionCallMessages, Zenon DEF Plain
  <2>3. CASE r \in BinaryOpReports(n)
    BY <1>2, <2>3, BinaryOpMessages, Zenon
  <2>4. CASE r \in ConditionalReports(n)
    BY <1>2, <2>4, ConditionalMessages, Zenon
  <2>5. CASE r \in NilReports(n)
    BY <1>2, <2>5, NilMessages, Zenon
  <2> QED BY <2>1, <2>2, <2>3, <2>4, <2>5, Zenon
<1>4. PICK m \in Nodes, w \in Unwatched : r = Report(w, m)
  BY <1>3, Zenon DEF Plain
<1> QED BY <1>4, Said, TextsDiffer

LEMMA StructureMessages ==
  ASSUME NEW n \in Nodes
  PROVE  /\ \A r \in StructureReports(n) :
              \/ \E w \in Unwatched : r = Report(w, n)
              \/ r = Report(BreakText, n) /\ Kind(n) = "Break" /\ ~ (loops_entered > 0)
              \/ r = Report(LoopVariableText, n) /\ AssignsLoopVariable(n)
         /\ Kind(n) = "Break" /\ ~ (loops_entered > 0) =>
              Report(BreakText, n) \in StructureReports(n)
         /\ AssignsLoopVariable(n) => Report(LoopVariableText, n) \in StructureReports(n)
<1> USE DEF BreakText, LoopVariableText
<1> /\ "Loop body must not return a value" \in Unwatched
    /\ "Branches must have same type" \in Unwatched
  BY Zenon DEF Unwatched
<1>1. CASE IsLoop(n)
  <2>1. Kind(n) \notin {"IfThenElse", "Break", "Assignment"}
    BY <1>1 DEF IsLoop
  <2>2. ~ AssignsLoopVariable(n)
    BY <2>1 DEF AssignsLoopVariable
  <2>3. StructureReports(n) = Unless(cache[LastKid(n)] = "NOTYPE",
                                     "Loop body must not return a value", n)
    BY <1>1, <2>1 DEF StructureReports
  <2> QED BY <2>1, <2>2, <2>3, Zenon DEF Unless
<1>2. CASE Kind(n) = "IfThenElse"
  <2>1. ~ IsLoop(n) /\ ~ AssignsLoopVariable(n)
    BY <1>2 DEF IsLoop, AssignsLoopVariable
  <2>2. StructureReports(n) = Unless(cache[Kid(n, 2)] = cache[Kid(n, 3)],
                                     "Branches must have same type", n)
    BY <1>2, <2>1 DEF StructureReports
  <2>3. Kind(n) # "Break"
    BY <1>2
  <2> QED BY <2>1, <2>2, <2>3, Zenon DEF Unless
<1>3. CASE Kind(n) = "Break"
  <2>1. ~ IsLoop(n) /\ ~ AssignsLoopVariable(n)
    BY <1>3 DEF IsLoop, AssignsLoopVariable
  <2>2. StructureReports(n) = Unless(loops_entered > 0, BreakText, n)
    BY <1>3, <2>1 DEF StructureReports
  <2> QED BY <1>3, <2>1, <2>2, Zenon DEF Unless
<1>4. CASE Kind(n) = "Assignment"
  <2>1. ~ IsLoop(n) /\ Kind(n) # "Break"
    BY <1>4 DEF IsLoop
  <2>2. StructureReports(n) = Unless(~ AssignsLoopVariable(n), LoopVariableText, n)
    BY <1>4, <2>1 DEF StructureReports
  <2> QED BY <2>1, <2>2, Zenon DEF Unless
<1>5. CASE ~ IsLoop(n) /\ Kind(n) \notin {"IfThenElse", "Break", "Assignment"}
  <2>1. StructureReports(n) = {} /\ ~ AssignsLoopVariable(n)
    BY <1>5 DEF StructureReports, AssignsLoopVariable
  <2> QED BY <1>5, <2>1
<1> QED BY <1>1, <1>2, <1>3, <1>4, <1>5

-----------------------------------------------------------------------------
(* Loops.                                                                  *)

LEMMA TreeFacts ==
  ASSUME prog \in Programs, NEW n \in Nodes
  PROVE  /\ prog[n].last \in Nodes /\ n <= prog[n].last
         /\ \A j \in DOMAIN prog[n].kids :
              /\ n < Kid(n, j) /\ Kid(n, j) <= prog[Kid(n, j)].last
              /\ prog[Kid(n, j)].binder = IF Opens(prog, n) THEN n ELSE prog[n].binder
              /\ \A i \in DOMAIN prog[n].kids : i < j => Kid(n, i) < Kid(n, j)
<1>1. prog \in Seq(Node(prog)) /\ Nodes = NodesOf(prog) /\ IsTree(prog)
  BY ProgramsAssumption DEF IsProgram, Nodes
<1>2. \A m \in Nodes : prog[m] \in Node(prog)
  BY <1>1 DEF NodesOf
<1>3. \A m \in Nodes : m <= prog[m].last /\ prog[m].last \in Nodes
  <2>1. \A m \in Nodes : prog[m].last \in Nodes
    BY <1>1, <1>2 DEF Node
  <2>2. \A m \in Nodes : m <= prog[m].last
    BY <1>1, Zenon DEF IsTree
  <2> QED BY <2>1, <2>2
<1>4. \A j \in DOMAIN prog[n].kids :
        LET k == prog[n].kids[j] IN
         /\ n < k
         /\ prog[k].binder = IF Opens(prog, n) THEN n ELSE prog[n].binder
         /\ \A i \in DOMAIN prog[n].kids : i < j => prog[prog[n].kids[i]].last < k
  BY <1>1, Zenon DEF IsTree
<1>5. \A j \in DOMAIN prog[n].kids : Kid(n, j) \in Nodes
  BY KidNodes
<1>6. \A j \in DOMAIN prog[n].kids :
        /\ Kid(n, j) \in Nodes /\ Kid(n, j) <= prog[Kid(n, j)].last
        /\ prog[Kid(n, j)].last \in Nodes
  BY <1>3, <1>5
<1>7. ASSUME NEW i \in DOMAIN prog[n].kids, NEW j \in DOMAIN prog[n].kids, i < j
      PROVE  Kid(n, i) < Kid(n, j)
  <2>1. prog[Kid(n, i)].last < Kid(n, j)
    BY <1>4, <1>7 DEF Kid
  <2> QED BY <1>6, <2>1, Numbers
<1> QED BY <1>2, <1>3, <1>4, <1>6, <1>7 DEF Kid

LEMMA BodiesFollow ==
  ASSUME prog \in Programs, NEW b \in LoopBodies
  PROVE  b \in Nodes /\ b > 1
<1>1. PICK n \in Nodes : IsLoop(n) /\ b = LastKid(n)
  BY DEF LoopBodies
<1>2. DOMAIN prog[n].kids = DOMAIN Children(Kind(n))
  <2>1. Kind(n) \notin Vectors
    BY <1>1 DEF IsLoop, Vectors
  <2> QED BY <2>1, ProgramsAssumption DEF IsProgram, IsShaped, Nodes, Kind
<1>3. Children(Kind(n)) \in {<<ExprKinds, ExprKinds>>, <<ExprKinds, ExprKinds, ExprKinds>>}
  BY <1>1 DEF Children, IsLoop, LValueKinds, Childless
<1>4. DOMAIN Children(Kind(n)) \in {1 .. 2, 1 .. 3}
  BY <1>3
<1>5. prog[n].kids \in Seq(Nodes)
  BY KidNodes
<1>6. Len(prog[n].kids) \in DOMAIN prog[n].kids
  <2>1. PICK s \in Seq(Nodes) : s = prog[n].kids
    BY <1>5
  <2>2. DOMAIN s = 1 .. Len(s) /\ Len(s) \in Nat
    BY <2>1
  <2>3. DOMAIN s \in {1 .. 2, 1 .. 3}
    BY <1>2, <1>4, <2>1, Zenon
  <2>4. 1 \in DOMAIN s
    BY <2>3
  <2>5. Len(s) \in DOMAIN s
    BY <2>2, <2>4
  <2> QED BY <2>1, <2>5
<1>7. b = Kid(n, Len(prog[n].kids)) /\ b \in Nodes /\ n < b
  BY <1>1, <1>6, KidNodes, TreeFacts DEF LastKid
<1> QED BY <1>7, Numbers

\* The bodies of loops a node is in.
Around(n) == {b \in LoopBodies : Within(n, b)}
LeftAfter(n) == {b \in LoopBodies : prog[b].last = n}

LEMMA AroundFinite ==
  ASSUME prog \in Programs, NEW n
  PROVE  /\ IsFiniteSet(Around(n)) /\ Cardinality(Around(n)) \in 0 .. Len(prog)
         /\ Cardinality(Around(n)) = 0 <=> Around(n) = {}
<1>1. Around(n) \in SUBSET Nodes
  BY BodiesFollow DEF Around
<1>2. Len(prog) \in Nat /\ 1 \in Int /\ Len(prog) \in Int /\ Nodes = 1 .. Len(prog)
  BY Numbers
<1>3. IsFiniteSet(Nodes) /\ Cardinality(Nodes) = Len(prog)
  BY <1>2, FS_Interval
<1>4. IsFiniteSet(Around(n)) /\ Cardinality(Around(n)) <= Cardinality(Nodes)
  BY <1>1, <1>3, FS_Subset
<1>5. Cardinality(Around(n)) \in Nat
  BY <1>4, FS_CardinalityType
<1> QED BY <1>2, <1>3, <1>4, <1>5, FS_EmptySet

\* The counter of StructureChecker counts them, from node to node.
LEMMA NextAround ==
  ASSUME prog \in Programs, NEW n \in Nodes
  PROVE  Cardinality(Around(n)) + (IF n + 1 \in LoopBodies THEN 1 ELSE 0)
           - Cardinality(LeftAfter(n))
         = Cardinality(Around(n + 1))
<1>1. /\ Nodes = 1 .. Len(prog) /\ Len(prog) \in Nat
      /\ \A b \in LoopBodies : b \in Nodes /\ prog[b].last \in Nodes /\ b <= prog[b].last
  BY BodiesFollow, TreeFacts, Numbers
<1>2. LeftAfter(n) \subseteq Around(n)
  BY <1>1 DEF LeftAfter, Around, Within
<1>3. Around(n) \cap LeftAfter(n) = LeftAfter(n)
  BY <1>2
<1>4. IsFiniteSet(Around(n))
  BY AroundFinite
<1> DEFINE Rest == Around(n) \ LeftAfter(n)
<1>5. IsFiniteSet(Rest) /\ Cardinality(Rest) = Cardinality(Around(n)) - Cardinality(LeftAfter(n))
  BY <1>3, <1>4, FS_Difference
<1>6. n + 1 \notin Rest
  BY <1>1 DEF Around, Within
<1>7. CASE n + 1 \in LoopBodies
  <2>1. Around(n + 1) = Rest \cup {n + 1}
    BY <1>1, <1>7 DEF Around, LeftAfter, Within
  <2>2. Cardinality(Around(n + 1)) = Cardinality(Rest) + 1
    BY <1>5, <1>6, <2>1, FS_AddElement
  <2>3. Cardinality(Around(n)) \in Nat /\ Cardinality(Rest) \in Nat
        /\ Cardinality(LeftAfter(n)) \in Nat
    BY <1>2, <1>4, <1>5, FS_CardinalityType, FS_Subset
  <2> QED BY <1>5, <1>7, <2>2, <2>3
<1>8. CASE n + 1 \notin LoopBodies
  <2>1. Around(n + 1) = Rest
    BY <1>1, <1>8 DEF Around, LeftAfter, Within
  <2>2. Cardinality(Around(n)) \in Nat /\ Cardinality(LeftAfter(n)) \in Nat
    BY <1>2, <1>4, FS_CardinalityType, FS_Subset
  <2> QED BY <1>5, <1>8, <2>1, <2>2
<1> QED BY <1>7, <1>8

LEMMA FirstAround == ASSUME prog \in Programs PROVE Cardinality(Around(1)) = 0
<1>1. \A b \in LoopBodies : b > 1 /\ b \in Int
  BY BodiesFollow, Numbers
<1>2. Around(1) = {}
  BY <1>1 DEF Around, Within
<1> QED BY <1>2, AroundFinite

LEMMA NoneAroundEnd ==
  ASSUME prog \in Programs PROVE Cardinality(Around(Len(prog) + 1)) = 0
<1>1. \A b \in LoopBodies : prog[b].last \in Nodes
  BY BodiesFollow, TreeFacts
<1>2. Nodes = 1 .. Len(prog) /\ Len(prog) \in Nat
  BY Numbers
<1>3. Around(Len(prog) + 1) = {}
  BY <1>1, <1>2 DEF Around, Within
<1> QED BY <1>3, AroundFinite

-----------------------------------------------------------------------------
(* The inductive invariant.                                                *)

\* Checker i has been at node n and gone on.
HasPassed(i, n) == pass > i \/ (pass = i /\ n < at)

\* The counter of loops is what the tree says of the node it is at.
LoopsCounted == loops_entered = IF pass = 7 THEN Cardinality(Around(at)) ELSE 0

BreaksTold ==
  \A n \in Nodes : Kind(n) = "Break" =>
    (Report(BreakText, n) \in reports <=> HasPassed(7, n) /\ Around(n) = {})

CyclesTold ==
  \A l \in Nodes : Kind(l) = "Let" =>
    \A j \in DOMAIN prog[l].kids : Kind(Kid(l, j)) = "TypeDeclaration" =>
      (Report(CycleText, Kid(l, j)) \in reports
         <=> HasPassed(1, l) /\ HasIllegalCycle(l, j))

LoopVariablesTold ==
  \A n \in Nodes : HasPassed(7, n) /\ AssignsLoopVariable(n) =>
    Report(LoopVariableText, n) \in reports

CheckerInv ==
  /\ Finder!FinderInv
  /\ Places
  /\ LoopsCounted
  /\ \A r \in reports : r.at \in Nodes
  /\ ~ HasPassed(1, 1) \/ Tf!St!Built
  /\ BreaksTold /\ CyclesTold /\ LoopVariablesTold

LEMMA SamePassed ==
  ASSUME Places, NEW n
  PROVE  /\ Passed("DeclarationChecker", n) <=> HasPassed(1, n)
         /\ Passed("StructureChecker", n) <=> HasPassed(7, n)
<1>1. \A i \in 1 .. 7 : /\ Passes[i] = "DeclarationChecker" <=> i = 1
                        /\ Passes[i] = "StructureChecker" <=> i = 7
  BY DEF Passes
<1> QED BY <1>1, SevenPasses DEF Places, Passed, HasPassed, Done

LEMMA PassedAfterCheck ==
  ASSUME Places, NEW name, NEW what, Check(name, what), NEW i \in 1 .. 7, NEW n \in Nodes
  PROVE  HasPassed(i, n)' <=> HasPassed(i, n) \/ (pass = i /\ n = at)
<1>1. \/ at < Len(prog) /\ at' = at + 1 /\ pass' = pass
      \/ at = Len(prog) /\ at' = 1 /\ pass' = pass + 1
  BY GoneOn
<1> QED BY <1>1, Numbers DEF HasPassed, Places

LEMMA InitChecker == Init => CheckerInv
<1> SUFFICES ASSUME Init PROVE CheckerInv
  OBVIOUS
<1>1. Finder!FinderInv
  BY FinderStarts DEF Init
<1>2. prog \in Programs
  BY DEF Init, Tf!Init, Tf!St!Init
<1>3. Places
  <2>1. 1 \in Nodes
    BY <1>2, Numbers
  <2>2. pass = 1 /\ at = 1
    BY DEF Init
  <2>3. l_value_asked \in BOOLEAN
    BY Zenon DEF Init
  <2>4. pass \in 1 .. 8 /\ at \in Nodes
    BY <2>1, <2>2
  <2> QED BY <1>2, <2>3, <2>4, Zenon DEF Places
<1>4. \A i \in 1 .. 7, n \in Nodes : ~ HasPassed(i, n)
  BY <1>2, Numbers DEF Init, HasPassed
<1>5. 1 \in Nodes
  BY <1>3 DEF Init, Places
<1>6. reports = {} /\ loops_entered = 0 /\ pass = 1
  BY DEF Init
<1> QED BY <1>1, <1>3, <1>4, <1>5, <1>6
        DEF CheckerInv, LoopsCounted, BreaksTold, CyclesTold, LoopVariablesTold

\* The tree stays what it is.
LEMMA TreeStays ==
  ASSUME prog' = prog
  PROVE  /\ Nodes' = Nodes
         /\ \A n : /\ Kind(n)' = Kind(n) /\ Around(n)' = Around(n) 
                   /\ \A j : Kid(n, j)' = Kid(n, j)
                   /\ \A j : HasIllegalCycle(n, j)' <=> HasIllegalCycle(n, j)
<1>1. \A n : Around(n)' = Around(n)
  BY DEF Around, LoopBodies, IsLoop, Kind, LastKid, Kid, Within, Nodes
<1>2. \A n, j : HasIllegalCycle(n, j)' <=> HasIllegalCycle(n, j)
  BY DEF HasIllegalCycle, NextInGroup, Group, Kind, Kid, AliasOf
<1> QED BY <1>1, <1>2 DEF Nodes, Kind, Kid

LEMMA TableLookupsStay ==
  ASSUME UNCHANGED tables, NEW n
  PROVE  AssignsLoopVariable(n)' <=> AssignsLoopVariable(n)
<1>1. \A x : lookupStorageLocation(n, x)' = lookupStorageLocation(n, x)
  BY DEF tables, lookupStorageLocation, FirstScope
<1>2. prog' = prog
  BY DEF tables
<1> QED BY <1>1, <1>2 DEF AssignsLoopVariable, Kind, Kid

LEMMA QuietStep ==
  ASSUME CheckerInv, Finder!FinderInv', Places', prog' = prog,
         UNCHANGED <<pass, at, loops_entered, reports>>,
         UNCHANGED tables \/ (~ Tf!St!Built /\ Tf!Build)
  PROVE  CheckerInv'
<1>1. /\ Nodes' = Nodes
      /\ \A n : /\ Kind(n)' = Kind(n) /\ Around(n)' = Around(n)
                /\ \A j : Kid(n, j)' = Kid(n, j)
                /\ \A j : HasIllegalCycle(n, j)' <=> HasIllegalCycle(n, j)
  BY TreeStays
<1>2. \A i, n : HasPassed(i, n)' <=> HasPassed(i, n)
  BY DEF HasPassed
<1>3. LoopsCounted'
  BY <1>1 DEF CheckerInv, LoopsCounted
<1>4. BreaksTold'
  BY <1>1, <1>2, Zenon DEF CheckerInv, BreaksTold
<1>5. CyclesTold'
  BY <1>1, <1>2, Zenon DEF CheckerInv, CyclesTold
<1>6. LoopVariablesTold' /\ (~ HasPassed(1, 1) \/ Tf!St!Built)'
  <2>1. CASE UNCHANGED tables
    <3>1. Tf!St!Built' <=> Tf!St!Built
      BY <2>1 DEF tables, Tf!St!Built
    <3>2. \A n : AssignsLoopVariable(n)' <=> AssignsLoopVariable(n)
      BY <2>1, TableLookupsStay
    <3> QED BY <1>1, <1>2, <3>1, <3>2, Zenon DEF CheckerInv, LoopVariablesTold
  <2>2. CASE ~ Tf!St!Built
    <3>1. ~ HasPassed(1, 1)
      BY <2>2 DEF CheckerInv
    <3>2. \A n \in Nodes : ~ HasPassed(7, n)
      BY <3>1, Numbers DEF HasPassed, CheckerInv, Places
    <3> QED BY <1>1, <1>2, <3>1, <3>2, Zenon DEF LoopVariablesTold
  <2> QED BY <2>1, <2>2
<1> QED BY <1>1, <1>3, <1>4, <1>5, <1>6, Zenon DEF CheckerInv

\* A check of a checker but the last leaves the counter at zero, which is what
\* the last one starts with.
LEMMA CheckKeepsRest ==
  ASSUME CheckerInv, NEW name, NEW what, Check(name, what),
         \A r \in what : r.at \in Nodes,
         loops_entered' = IF name = "StructureChecker" THEN LoopsEnteredAfter(at)
                                                       ELSE loops_entered
  PROVE  /\ LoopsCounted'
         /\ \A r \in reports' : r.at \in Nodes
         /\ Tf!St!Built'
<1>1. Places /\ prog \in Programs /\ at \in Nodes
  BY DEF CheckerInv, Places
<1>2. /\ pass \in 1 .. 7 /\ Passes[pass] = name
      /\ \/ at < Len(prog) /\ at' = at + 1 /\ pass' = pass
         \/ at = Len(prog) /\ at' = 1 /\ pass' = pass + 1
  BY <1>1, GoneOn, SevenPasses
<1>3. prog' = prog /\ Working /\ UNCHANGED tables /\ reports' = reports \cup what
  BY CheckEffect
<1>4. Tf!St!Built'
  BY <1>3 DEF Working, Tf!Idle, tables, Tf!St!Built
<1>5. \A n : Around(n)' = Around(n)
  BY <1>3, TreeStays
<1>6. LoopsCounted'
  <2>1. CASE pass = 7
    <3>1. name = "StructureChecker"
      BY <1>2, <2>1 DEF Passes
    <3>2. loops_entered = Cardinality(Around(at))
      BY <2>1 DEF CheckerInv, LoopsCounted
    <3>3. loops_entered' = Cardinality(Around(at + 1))
      BY <1>1, <3>1, <3>2, NextAround DEF LoopsEnteredAfter, LeftAfter
    <3>4. CASE at < Len(prog)
      <4>1. at' = at + 1 /\ pass' = 7
        BY <1>2, <2>1, <3>4, <1>1, Numbers
      <4> QED BY <1>5, <3>3, <4>1 DEF LoopsCounted
    <3>5. CASE at = Len(prog)
      <4>1. pass' = 8
        BY <1>2, <2>1, <3>5, <1>1, Numbers
      <4>2. loops_entered' = 0
        BY <1>1, <3>3, <3>5, NoneAroundEnd
      <4> QED BY <4>1, <4>2 DEF LoopsCounted
    <3> QED BY <1>2, <3>4, <3>5
  <2>2. CASE pass # 7
    <3>1. name # "StructureChecker"
      BY <1>2, <2>2 DEF Passes
    <3>2. loops_entered' = 0
      BY <2>2, <3>1 DEF CheckerInv, LoopsCounted
    <3>3. CASE pass' = 7
      <4>1. at' = 1
        BY <1>2, <2>2, <3>3
      <4>2. Cardinality(Around(1)) = 0
        BY <1>1, FirstAround
      <4> QED BY <1>5, <3>2, <3>3, <4>1, <4>2 DEF LoopsCounted
    <3>4. CASE pass' # 7
      BY <3>2, <3>4 DEF LoopsCounted
    <3> QED BY <3>3, <3>4
  <2> QED BY <2>1, <2>2
<1>7. \A r \in reports' : r.at \in Nodes
  BY <1>3 DEF CheckerInv
<1> QED BY <1>4, <1>6, <1>7

\* What checker i records at node n is what the invariant says it does.
Tells(i, n, what) ==
  /\ \A m \in Nodes : Kind(m) = "Break" =>
       (Report(BreakText, m) \in what <=> i = 7 /\ m = n /\ Around(n) = {})
  /\ \A l \in Nodes : Kind(l) = "Let" =>
       \A j \in DOMAIN prog[l].kids : Kind(Kid(l, j)) = "TypeDeclaration" =>
         (Report(CycleText, Kid(l, j)) \in what <=> i = 1 /\ l = n /\ HasIllegalCycle(l, j))
  /\ i = 7 /\ AssignsLoopVariable(n) => Report(LoopVariableText, n) \in what

LEMMA CheckKeepsInv ==
  ASSUME CheckerInv, Finder!FinderInv', Places', NEW name, NEW what, Check(name, what),
         \A r \in what : r.at \in Nodes, Tells(pass, at, what),
         loops_entered' = IF name = "StructureChecker" THEN LoopsEnteredAfter(at)
                                                       ELSE loops_entered
  PROVE  CheckerInv'
<1>1. LoopsCounted' /\ (\A r \in reports' : r.at \in Nodes) /\ Tf!St!Built'
  BY CheckKeepsRest
<1>2. prog' = prog /\ UNCHANGED tables /\ reports' = reports \cup what
  BY CheckEffect
<1>3. Places
  BY DEF CheckerInv
<1>4. /\ Nodes' = Nodes
      /\ \A n : /\ Kind(n)' = Kind(n) /\ Around(n)' = Around(n)
                /\ \A j : Kid(n, j)' = Kid(n, j)
                /\ \A j : HasIllegalCycle(n, j)' <=> HasIllegalCycle(n, j)
  BY <1>2, TreeStays
<1>5. \A n \in Nodes : /\ HasPassed(7, n)' <=> HasPassed(7, n) \/ (pass = 7 /\ n = at)
                       /\ HasPassed(1, n)' <=> HasPassed(1, n) \/ (pass = 1 /\ n = at)
  <2>1. 1 \in 1 .. 7 /\ 7 \in 1 .. 7
    OBVIOUS
  <2> QED BY <1>3, <2>1, PassedAfterCheck
<1>6. BreaksTold'
  <2> SUFFICES ASSUME NEW n \in Nodes, Kind(n) = "Break"
               PROVE  Report(BreakText, n) \in reports \cup what
                        <=> HasPassed(7, n)' /\ Around(n) = {}
    BY <1>2, <1>4, Zenon DEF BreaksTold
  <2>1. Report(BreakText, n) \in reports <=> HasPassed(7, n) /\ Around(n) = {}
    BY DEF CheckerInv, BreaksTold
  <2>2. Report(BreakText, n) \in what <=> pass = 7 /\ n = at /\ Around(at) = {}
    BY Zenon DEF Tells
  <2> QED BY <1>5, <2>1, <2>2
<1>7. CyclesTold'
  <2> SUFFICES ASSUME NEW l \in Nodes, Kind(l) = "Let", NEW j \in DOMAIN prog[l].kids,
                      Kind(Kid(l, j)) = "TypeDeclaration"
               PROVE  Report(CycleText, Kid(l, j)) \in reports \cup what
                        <=> HasPassed(1, l)' /\ HasIllegalCycle(l, j)
    BY <1>2, <1>4, Zenon DEF CyclesTold
  <2>1. Report(CycleText, Kid(l, j)) \in reports <=> HasPassed(1, l) /\ HasIllegalCycle(l, j)
    BY DEF CheckerInv, CyclesTold
  <2>2. Report(CycleText, Kid(l, j)) \in what
          <=> pass = 1 /\ l = at /\ HasIllegalCycle(l, j)
    BY Zenon DEF Tells
  <2> QED BY <1>5, <2>1, <2>2
<1>8. LoopVariablesTold'
  <2> SUFFICES ASSUME NEW n \in Nodes, HasPassed(7, n)', AssignsLoopVariable(n)
               PROVE  Report(LoopVariableText, n) \in reports \cup what
    BY <1>2, <1>4, TableLookupsStay, Zenon DEF LoopVariablesTold
  <2>1. HasPassed(7, n) => Report(LoopVariableText, n) \in reports
    BY DEF CheckerInv, LoopVariablesTold
  <2>2. pass = 7 /\ n = at => Report(LoopVariableText, n) \in what
    BY DEF Tells
  <2> QED BY <1>5, <2>1, <2>2
<1> QED BY <1>1, <1>4, <1>6, <1>7, <1>8, Zenon DEF CheckerInv

\* A declaration is in one Let, once.
LEMMA DeclaredOnce ==
  ASSUME prog \in Programs, NEW l \in Nodes, NEW n \in Nodes,
         Kind(l) = "Let", Kind(n) = "Let",
         NEW j \in DOMAIN prog[l].kids, NEW i \in DOMAIN prog[n].kids,
         Kid(l, j) = Kid(n, i)
  PROVE  l = n /\ j = i
<1>1. Opens(prog, l) /\ Opens(prog, n)
  BY DEF Opens, Kind
<1>2. l = n
  BY <1>1, TreeFacts
<1>3. DOMAIN prog[l].kids \subseteq Int
  <2>1. PICK s \in Seq(Nodes) : s = prog[l].kids
    BY KidNodes
  <2> QED BY <2>1
<1>4. \A k \in DOMAIN prog[l].kids : Kid(l, k) \in Int
  BY KidNodes, Numbers
<1>5. ~ (j < i) /\ ~ (i < j)
  BY <1>2, <1>4, TreeFacts
<1> QED BY <1>2, <1>3, <1>5

LEMMA CyclesAreTold ==
  ASSUME NEW l, Kind(l) = "Let", NEW j \in DOMAIN prog[l].kids,
         Kind(Kid(l, j)) = "TypeDeclaration", HasIllegalCycle(l, j)
  PROVE  Report(CycleText, Kid(l, j)) \in DeclarationReports(l)
<1>1. DeclarationReports(l) = LetReports(l)
  BY Zenon DEF DeclarationReports
<1>2. Report(CycleText, Kid(l, j)) \in Unless(~ HasIllegalCycle(l, j), "Illegal type cycle",
                                              Kid(l, j))
  BY Zenon DEF Unless, CycleText
<1>3. j \in {i \in DOMAIN prog[l].kids :
               Kind(Kid(l, i)) \in {"TypeDeclaration", "FunctionDeclaration"}}
  OBVIOUS
<1>4. PICK r : r = Report(CycleText, Kid(l, j))
  OBVIOUS
<1>5. r \in Unless(~ IsDuplicate(l, j), "Duplicate definition", Kid(l, j))
              \cup Unless(~ HasIllegalCycle(l, j), "Illegal type cycle", Kid(l, j))
  BY <1>2, <1>4, Zenon
<1>6. r \in LetReports(l)
  BY <1>3, <1>5, Zenon DEF LetReports
<1> QED BY <1>1, <1>4, <1>6, Zenon

LEMMA WatchedTexts == BreakText \in Watched /\ CycleText \in Watched /\ LoopVariableText \in Watched
BY DEF Watched

LEMMA DeclarationTells ==
  ASSUME prog \in Programs, NEW n \in Nodes
  PROVE  Tells(1, n, DeclarationReports(n))
<1>1. ASSUME NEW m \in Nodes PROVE Report(BreakText, m) \notin DeclarationReports(n)
  BY DeclarationMessages, Said
<1>2. ASSUME NEW l \in Nodes, Kind(l) = "Let", NEW j \in DOMAIN prog[l].kids,
             Kind(Kid(l, j)) = "TypeDeclaration",
             Report(CycleText, Kid(l, j)) \in DeclarationReports(n)
      PROVE  l = n /\ HasIllegalCycle(l, j)
  <2>1. PICK i \in DOMAIN prog[n].kids :
          Kind(n) = "Let" /\ Kid(l, j) = Kid(n, i) /\ HasIllegalCycle(n, i)
    BY <1>2, DeclarationMessages, Said
  <2>2. l = n /\ j = i
    BY <1>2, <2>1, DeclaredOnce
  <2> QED BY <2>1, <2>2
<1> QED BY <1>1, <1>2, CyclesAreTold DEF Tells

LEMMA OthersTell ==
  ASSUME prog \in Programs, NEW n \in Nodes, NEW i \in 2 .. 6, NEW what,
         \A r \in what : r.what \notin Watched
  PROVE  Tells(i, n, what)
<1>1. \A m : /\ Report(BreakText, m) \notin what
             /\ Report(CycleText, m) \notin what
  BY Said, WatchedTexts
<1> QED BY <1>1 DEF Tells

LEMMA StructureTells ==
  ASSUME CheckerInv, pass = 7
  PROVE  /\ Tells(7, at, StructureReports(at))
         /\ \A r \in StructureReports(at) : r.at \in Nodes
<1>1. prog \in Programs /\ at \in Nodes
  BY DEF CheckerInv, Places
<1>2. loops_entered > 0 <=> Around(at) # {}
  <2>1. loops_entered = Cardinality(Around(at))
    BY DEF CheckerInv, LoopsCounted
  <2> QED BY <1>1, <2>1, AroundFinite, Numbers
<1>3. ASSUME NEW r \in StructureReports(at)
      PROVE  /\ r.at = at /\ r.what # CycleText
             /\ r.what = BreakText => Kind(at) = "Break" /\ ~ (loops_entered > 0)
  <2>1. \/ \E w \in Unwatched : r = Report(w, at)
        \/ r = Report(BreakText, at) /\ Kind(at) = "Break" /\ ~ (loops_entered > 0)
        \/ r = Report(LoopVariableText, at) /\ AssignsLoopVariable(at)
    BY <1>1, StructureMessages
  <2> QED BY <2>1, Said, TextsDiffer, WatchedTexts
<1>4. \A m \in Nodes : Kind(m) = "Break" =>
       (Report(BreakText, m) \in StructureReports(at) <=> m = at /\ Around(at) = {})
  BY <1>1, <1>2, <1>3, Said, StructureMessages
<1>5. \A k : Report(CycleText, k) \notin StructureReports(at)
  BY <1>3, Said
<1>6. AssignsLoopVariable(at) => Report(LoopVariableText, at) \in StructureReports(at)
  BY <1>1, StructureMessages
<1> QED BY <1>1, <1>3, <1>4, <1>5, <1>6 DEF Tells

LEMMA ChecksKeepInv ==
  ASSUME CheckerInv, Finder!FinderInv', Places',
         \/ CheckDeclaration \/ CheckRecordField \/ CheckBinaryOp \/ CheckConditional
         \/ CheckNil \/ CheckFunctionCall \/ CheckStructure
  PROVE  CheckerInv'
<1>1. prog \in Programs /\ at \in Nodes /\ Places
  BY DEF CheckerInv, Places
<1>2. ASSUME NEW name, NEW what, Check(name, what) PROVE pass \in 1 .. 7 /\ Passes[pass] = name
  BY <1>1, <1>2, GoneOn, SevenPasses
<1>3. ASSUME NEW name, NEW what, Check(name, what), UNCHANGED loops_entered, name # Passes[1],
             name # Passes[7], \A r \in what : r.at \in Nodes /\ r.what \notin Watched
      PROVE  CheckerInv'
  <2>1. pass \in 2 .. 6 /\ name # "StructureChecker"
    BY <1>2, <1>3 DEF Passes
  <2>2. Tells(pass, at, what)
    BY <1>1, <1>3, <2>1, OthersTell
  <2> QED BY <1>3, <2>1, <2>2, CheckKeepsInv
<1>4. CASE CheckDeclaration
  <2>1. Check("DeclarationChecker", DeclarationReports(at)) /\ UNCHANGED loops_entered
    BY <1>4, Zenon DEF CheckDeclaration
  <2>2. pass = 1
    BY <1>2, <2>1 DEF Passes
  <2>3. Tells(pass, at, DeclarationReports(at))
    BY <1>1, <2>2, DeclarationTells
  <2>4. \A r \in DeclarationReports(at) : r.at \in Nodes
    BY <1>1, DeclarationMessages
  <2> QED BY <2>1, <2>3, <2>4, CheckKeepsInv
<1>5. CASE CheckStructure
  <2>1. /\ Check("StructureChecker", StructureReports(at))
        /\ loops_entered' = LoopsEnteredAfter(at)
    BY <1>5, Zenon DEF CheckStructure
  <2>2. pass = 7
    BY <1>2, <2>1 DEF Passes
  <2>3. /\ Tells(pass, at, StructureReports(at))
        /\ \A r \in StructureReports(at) : r.at \in Nodes
    BY <2>2, StructureTells
  <2> QED BY <2>1, <2>3, CheckKeepsInv
<1>6. CASE CheckRecordField
  <2>1. Check("RecordFieldChecker", RecordFieldReports(at)) /\ UNCHANGED loops_entered
    BY <1>6, Zenon DEF CheckRecordField
  <2>2. "RecordFieldChecker" # Passes[1] /\ "RecordFieldChecker" # Passes[7]
    BY DEF Passes
  <2> QED BY <1>1, <1>3, <2>1, <2>2, OtherMessages
<1>7. CASE CheckBinaryOp
  <2>1. Check("BinaryOpChecker", BinaryOpReports(at)) /\ UNCHANGED loops_entered
    BY <1>7, Zenon DEF CheckBinaryOp
  <2>2. "BinaryOpChecker" # Passes[1] /\ "BinaryOpChecker" # Passes[7]
    BY DEF Passes
  <2> QED BY <1>1, <1>3, <2>1, <2>2, OtherMessages
<1>8. CASE CheckConditional
  <2>1. Check("ConditionalChecker", ConditionalReports(at)) /\ UNCHANGED loops_entered
    BY <1>8, Zenon DEF CheckConditional
  <2>2. "ConditionalChecker" # Passes[1] /\ "ConditionalChecker" # Passes[7]
    BY DEF Passes
  <2> QED BY <1>1, <1>3, <2>1, <2>2, OtherMessages
<1>9. CASE CheckNil
  <2>1. Check("NilChecker", NilReports(at)) /\ UNCHANGED loops_entered
    BY <1>9, Zenon DEF CheckNil
  <2>2. "NilChecker" # Passes[1] /\ "NilChecker" # Passes[7]
    BY DEF Passes
  <2> QED BY <1>1, <1>3, <2>1, <2>2, OtherMessages
<1>10. CASE CheckFunctionCall
  <2>1. Check("FunctionCallChecker", FunctionCallReports(at)) /\ UNCHANGED loops_entered
    BY <1>10, Zenon DEF CheckFunctionCall
  <2>2. "FunctionCallChecker" # Passes[1] /\ "FunctionCallChecker" # Passes[7]
    BY DEF Passes
  <2> QED BY <1>1, <1>3, <2>1, <2>2, OtherMessages
<1> QED BY <1>4, <1>5, <1>6, <1>7, <1>8, <1>9, <1>10

\* The table is built once, before the first query.
LEMMA BuiltOnce == Finder!FinderInv /\ Tf!Build => ~ Tf!St!Built
<1> SUFFICES ASSUME Finder!FinderInv, Tf!Build PROVE ~ Tf!St!Built
  OBVIOUS
<1>1. Finder!Build
  BY SameBuild
<1>2. Finder!Table!LookupInv /\ Finder!St!BuildStep
  BY <1>1 DEF Finder!FinderInv, Finder!Build
<1>3. stack # <<>> \/ status = "unvisited"
  BY <1>2 DEF Finder!St!BuildStep, Finder!St!LeaveScope, Finder!St!LeaveOther,
              Finder!St!Return, Finder!St!Visit, Finder!St!Visited
<1>4. Finder!Table!NextIsUnvisited
  BY <1>2 DEF Finder!Table!LookupInv, Finder!Table!CompleteInv, Finder!Table!LexicalInv
<1>5. status = "built" => stack = <<>>
  BY <1>4 DEF Finder!Table!NextIsUnvisited
<1> QED BY <1>3, <1>5 DEF Tf!St!Built

LEMMA StepChecker == CheckerInv /\ [Next]_vars => CheckerInv'
<1> SUFFICES ASSUME CheckerInv, [Next]_vars PROVE CheckerInv'
  OBVIOUS
<1>1. Places /\ at \in Nodes /\ Finder!FinderInv
  BY DEF CheckerInv, Places
<1>2. [Tf!Next]_(Tf!vars) /\ prog' = prog
  BY <1>1, StepIsClients
<1>3. Finder!FinderInv' /\ Places'
  BY <1>1, <1>2, FinderGoesOn, StepPlaces
<1>4. CASE Build
  <2>1. Tf!Build /\ UNCHANGED <<pass, at, loops_entered, reports>> /\ ~ Tf!St!Built
    BY <1>1, <1>4, BuiltOnce DEF Build, checker
  <2> QED BY <1>2, <1>3, <2>1, QuietStep
<1>5. CASE Infer \/ AskLValue \/ Stop \/ UNCHANGED vars \/ \E e \in Exprs : Ask(e)
  <2>1. UNCHANGED <<pass, at, loops_entered, reports>> /\ UNCHANGED tables
    BY <1>5 DEF Infer, AskLValue, Stop, Ask, vars, checker, Tf!Step, Tf!tables, tables
  <2> QED BY <1>2, <1>3, <2>1, QuietStep
<1> QED BY <1>3, <1>4, <1>5, ChecksKeepInv DEF Next, CheckerStep

LEMMA CheckerInvariant == Spec => []CheckerInv
BY InitChecker, StepChecker, PTL DEF Spec

-----------------------------------------------------------------------------
(* Theorems.                                                               *)

\* Every message is about a node of the tree, and the counter of loops never
\* leaves the range of nodes, whatever is nested in what (checker.cc).
THEOREM CheckerTypes == Spec => []TypeOK
<1>1. CheckerInv => TypeOK
  <2> SUFFICES ASSUME CheckerInv PROVE TypeOK
    OBVIOUS
  <2>1. Places
    BY DEF CheckerInv
  <2>2. Cardinality(Around(at)) \in 0 .. Len(prog) /\ Len(prog) \in Nat
    BY <2>1, AroundFinite, Numbers DEF Places
  <2>3. loops_entered \in 0 .. Len(prog)
    BY <2>2 DEF CheckerInv, LoopsCounted
  <2>4. pass \in 1 .. Len(Passes) + 1 /\ at \in Nodes
    BY <2>1, SevenPasses DEF Places
  <2>5. l_value_asked \in BOOLEAN
    BY <2>1, Zenon DEF Places
  <2>6. \A r \in reports : r.at \in Nodes
    BY DEF CheckerInv
  <2> QED BY <2>3, <2>4, <2>5, <2>6, Zenon DEF TypeOK
<1> QED BY <1>1, CheckerInvariant, PTL

\* Once StructureChecker has been there, a break is reported if and only if it
\* is in no loop's body: LoopsEntered is the number of bodies around a node
\* (checker.cc:461).
THEOREM BreaksOutsideLoops == Spec => []BreaksReported
<1>1. CheckerInv => BreaksReported
  <2> SUFFICES ASSUME CheckerInv, NEW n \in Nodes, Kind(n) = "Break",
                      Passed("StructureChecker", n)
               PROVE  Report(BreakText, n) \in reports <=> ~ \E b \in LoopBodies : Within(n, b)
    BY Zenon DEF BreaksReported, BreakText
  <2>1. HasPassed(7, n)
    BY SamePassed DEF CheckerInv
  <2> QED BY <2>1 DEF CheckerInv, BreaksTold, Around
<1> QED BY <1>1, CheckerInvariant, PTL

LEMMA SameDeclarations ==
  ASSUME prog \in Programs, NEW f \in Nodes
  PROVE  DeclarationsBeside(f, prog[f].id)
           = Finder!St!StorageOf(prog[f].binder, prog[f].id)
BY Zenon DEF DeclarationsBeside, Kind, Nodes, NodesOf, Finder!St!StorageOf,
       Finder!St!Nodes, Finder!St!NodesOf, Finder!St!Kind, Finder!St!Binder,
       Finder!St!RangeOf

LEMMA LoopVariableFound ==
  ASSUME CheckerInv, Finder!St!Built, NEW f \in Nodes, NEW n \in Nodes, Kind(f) = "For",
         AssignsVariableOf(n, f), DeclarationsBeside(f, prog[f].id) = {f}
  PROVE  AssignsLoopVariable(n)
<1>1. prog \in Programs /\ Finder!Table!LookupInv
  BY DEF CheckerInv, Places, Finder!FinderInv
<1>2. /\ Kind(n) = "Assignment" /\ Within(n, LastKid(f))
      /\ Kind(Kid(n, 1)) = "Identifier" /\ prog[Kid(n, 1)].id = prog[f].id
      /\ prog[n].binder = prog[f].binder
  BY Zenon DEF AssignsVariableOf
<1>3. LastKid(f) \in LoopBodies
  BY DEF LoopBodies, IsLoop
<1>4. n \in Exprs \ {1}
  <2>1. LastKid(f) \in Nodes /\ LastKid(f) > 1
    BY <1>1, <1>3, BodiesFollow
  <2>2. n # 1
    BY <1>1, <1>2, <2>1, Numbers DEF Within
  <2> QED BY <1>2, <2>2 DEF Exprs, IsExpr, ExprKinds
<1>5. prog[f].id \in Identifiers
  <2>1. prog[f] \in Node(prog)
    BY <1>1, ProgramsAssumption DEF IsProgram, Nodes, NodesOf
  <2> QED BY <2>1 DEF Node
<1>6. Finder!St!StorageOf(prog[n].binder, prog[f].id) = {f}
  BY <1>1, <1>2, SameDeclarations
<1>7. n \in Finder!Exprs \ {1} /\ f \in Finder!Nodes
  BY <1>4 DEF Exprs, IsExpr, Kind, Nodes, NodesOf, ExprKinds, Finder!Exprs,
              Finder!IsExpr, Finder!Kind, Finder!Nodes, Finder!NodesOf, Finder!ExprKinds
<1>8. Finder!lookupStorageLocation(n, prog[f].id) = f
  BY <1>1, <1>5, <1>6, <1>7, SameAssumptions, Finder!OnlyDeclarationFound
<1>9. lookupStorageLocation(n, prog[f].id) = f
  BY <1>8, Zenon
     DEF lookupStorageLocation, FirstScope, NoScope, Null, Finder!lookupStorageLocation,
         Finder!FirstScope, Finder!NoScope, Finder!Null
<1>10. f # Null
  BY <1>1, Numbers DEF Null
<1> QED BY <1>2, <1>9, <1>10 DEF AssignsLoopVariable

\* An assignment to a loop's variable in its body is reported, where nothing
\* else in the Let or function around the loop has the name: then the table
\* finds the loop for it (checker.cc:466).
THEOREM LoopVariablesProtected == Spec => []OwnLoopVariablesKept
<1>1. CheckerInv => OwnLoopVariablesKept
  <2> SUFFICES ASSUME CheckerInv, NEW f \in Nodes, NEW n \in Nodes, Kind(f) = "For",
                      Passed("StructureChecker", n), AssignsVariableOf(n, f),
                      DeclarationsBeside(f, prog[f].id) = {f}
               PROVE  AssignmentReported(n)
    BY Zenon DEF OwnLoopVariablesKept
  <2>1. HasPassed(7, n)
    BY SamePassed DEF CheckerInv
  <2>2. HasPassed(1, 1)
    BY <2>1 DEF HasPassed, CheckerInv, Places
  <2>3. Finder!St!Built
    BY <2>2 DEF CheckerInv, Tf!St!Built, Finder!St!Built
  <2>4. Report(LoopVariableText, n) \in reports
    BY <2>1, <2>3, LoopVariableFound DEF CheckerInv, LoopVariablesTold
  <2> QED BY <2>4, Zenon DEF AssignmentReported, LoopVariableText
<1> QED BY <1>1, CheckerInvariant, PTL

\* The checkers, seven of them one after the other, use the table and the type
\* finder as module TypeFinder says a client does: so all that is proved of
\* the type finder holds while they run, its cache of types above all.
THEOREM CheckersAreClients == Spec => Tf!Init /\ [][Tf!Next]_(Tf!vars) /\ []Tf!CacheAgrees
<1>1. Init => Tf!Init
  BY DEF Init
<1>2. CheckerInv /\ [Next]_vars => [Tf!Next]_(Tf!vars)
  BY StepIsClients DEF CheckerInv, Places
<1>3. CheckerInv => Tf!CacheAgrees
  <2>1. CheckerInv => Finder!CacheAgrees
    BY SameAssumptions, Finder!CacheFollowsRules DEF CheckerInv
  <2>2. Tf!CacheAgrees <=> Finder!CacheAgrees
    BY Zenon
       DEF Tf!CacheAgrees, Tf!Delegate, Tf!OwnType, Tf!Function, Tf!HasBody,
           Tf!lookupFunction, Tf!lookupStorageLocation, Tf!FirstScope, Tf!Exprs,
           Tf!IsExpr, Tf!ExprKinds, Tf!Nodes, Tf!NodesOf, Tf!Kind, Tf!Kid, Tf!LastKid,
           Tf!Null, Tf!NoScope,
           Finder!CacheAgrees, Finder!Delegate, Finder!OwnType, Finder!Function,
           Finder!HasBody, Finder!lookupFunction, Finder!lookupStorageLocation,
           Finder!FirstScope, Finder!Exprs, Finder!IsExpr, Finder!ExprKinds,
           Finder!Nodes, Finder!NodesOf, Finder!Kind, Finder!Kid, Finder!LastKid,
           Finder!Null, Finder!NoScope
  <2> QED BY <2>1, <2>2
<1> QED BY <1>1, <1>2, <1>3, CheckerInvariant, PTL DEF Spec

-----------------------------------------------------------------------------
(* Circles.                                                                *)

\* h goes round from j along nx.
Orbit(h, N, T, nx, j) ==
  /\ h \in [0 .. N -> T]
  /\ h[0] = j
  /\ \A k \in 0 .. N - 1 : h[k + 1] = nx[h[k]]

LEMMA OrbitExists ==
  ASSUME NEW N \in Nat, NEW T, NEW nx \in [T -> T], NEW j \in T
  PROVE  \E h : Orbit(h, N, T, nx, j)
<1> DEFINE A == {n \in 0 .. N : \E h : Orbit(h, n, T, nx, j)}
<1>1. 0 \in A
  <2>1. Orbit([k \in 0 .. 0 |-> j], 0, T, nx, j)
    BY DEF Orbit
  <2> QED BY <2>1
<1>2. ASSUME NEW n \in 0 .. N - 1, n \in A PROVE n + 1 \in A
  <2>1. PICK h : Orbit(h, n, T, nx, j)
    BY <1>2
  <2> DEFINE g == [k \in 0 .. n + 1 |-> IF k = n + 1 THEN nx[h[n]] ELSE h[k]]
  <2>2. Orbit(g, n + 1, T, nx, j)
    <3>1. g \in [0 .. n + 1 -> T]
      BY <2>1 DEF Orbit
    <3>2. g[0] = j
      BY <2>1 DEF Orbit
    <3>3. ASSUME NEW k \in 0 .. n PROVE g[k + 1] = nx[g[k]]
      BY <2>1 DEF Orbit
    <3> QED BY <3>1, <3>2, <3>3 DEF Orbit
  <2> QED BY <1>2, <2>2
<1> HIDE DEF A
<1>3. \A k \in 0 .. N : k \in A
  BY <1>1, <1>2, SameAssumptions, Finder!BoundedInduction
<1>4. N \in A
  BY <1>3
<1> QED BY <1>4 DEF A

Closed(nx, C) == \A i \in C : nx[i] \in C

LEMMA OrbitStays ==
  ASSUME NEW N \in Nat, NEW T, NEW nx, NEW j, NEW h, Orbit(h, N, T, nx, j),
         NEW C, Closed(nx, C), NEW c \in 0 .. N, h[c] \in C
  PROVE  \A k \in c .. N : h[k] \in C
<1> DEFINE A == {k \in 0 .. N : h[k] \in C}
<1>1. c \in A
  OBVIOUS
<1>2. ASSUME NEW k \in c .. N - 1, k \in A PROVE k + 1 \in A
  BY <1>2 DEF Orbit, Closed
<1> HIDE DEF A
<1>3. \A k \in c .. N : k \in A
  BY <1>1, <1>2, SameAssumptions, Finder!BoundedInduction
<1> QED BY <1>3 DEF A

\* An orbit comes back to where it began exactly when that is in a smallest
\* closed set.
Smallest(nx, C) == \A D \in (SUBSET C) \ {{}, C} : ~ Closed(nx, D)

LEMMA OrbitReturns ==
  ASSUME NEW N \in Nat, NEW S \in SUBSET (1 .. N), NEW nx \in [S \cup {0} -> S \cup {0}],
         nx[0] = 0, NEW j \in S, NEW h, Orbit(h, N, S \cup {0}, nx, j),
         NEW k \in 1 .. N, h[k] = j
  PROVE  \E C \in SUBSET S : j \in C /\ Closed(nx, C) /\ Smallest(nx, C)
<1>1. /\ h \in [0 .. N -> S \cup {0}] /\ h[0] = j
      /\ \A i \in 0 .. N - 1 : h[i + 1] = nx[h[i]]
  BY DEF Orbit
<1>2. ASSUME NEW i \in 0 .. k PROVE h[i] \in S
  <2> SUFFICES ASSUME h[i] = 0 PROVE FALSE
    BY <1>1
  <2>1. Closed(nx, {0}) /\ i \in 0 .. N /\ h[i] \in {0}
    BY DEF Closed
  <2>2. \A m \in i .. N : h[m] \in {0}
    BY <2>1, OrbitStays
  <2>3. k \in i .. N
    OBVIOUS
  <2> QED BY <2>2, <2>3
<1> DEFINE C == {h[i] : i \in 0 .. k - 1}
<1>3. C \in SUBSET S
  BY <1>2
<1>4. j \in C
  BY <1>1
<1>5. Closed(nx, C)
  <2>1. ASSUME NEW i \in 0 .. k - 1 PROVE nx[h[i]] \in C
    <3>1. nx[h[i]] = h[i + 1]
      BY <1>1
    <3>2. CASE i + 1 = k
      BY <1>4, <3>1, <3>2
    <3>3. CASE i + 1 # k
      <4>1. i + 1 \in 0 .. k - 1
        BY <3>3
      <4> QED BY <3>1, <4>1
    <3> QED BY <3>2, <3>3
  <2> QED BY <2>1 DEF Closed
<1>6. ASSUME NEW D \in SUBSET C, D # {}, Closed(nx, D) PROVE D = C
  <2>1. PICK c \in 0 .. k - 1 : h[c] \in D
    BY <1>6
  <2>2. c \in 0 .. N /\ k \in c .. N
    OBVIOUS
  <2>3. \A m \in c .. N : h[m] \in D
    BY <1>6, <2>1, <2>2, OrbitStays
  <2>4. h[0] \in D /\ 0 \in 0 .. N
    BY <1>1, <2>2, <2>3
  <2>5. \A m \in 0 .. N : h[m] \in D
    BY <1>6, <2>4, OrbitStays
  <2> QED BY <2>5
<1>7. Smallest(nx, C)
  BY <1>6 DEF Smallest
<1> HIDE DEF C
<1> QED BY <1>3, <1>4, <1>5, <1>7

LEMMA SmallestReturns ==
  ASSUME NEW N \in Nat, NEW S \in SUBSET (1 .. N), NEW nx, NEW T,
         NEW j \in S, NEW h, Orbit(h, N, T, nx, j),
         NEW C \in SUBSET S, j \in C, Closed(nx, C), Smallest(nx, C)
  PROVE  \E k \in 1 .. N : h[k] = j
<1>1. /\ h[0] = j /\ DOMAIN h = 0 .. N /\ h = [k \in 0 .. N |-> h[k]]
      /\ \A i \in 0 .. N - 1 : h[i + 1] = nx[h[i]]
  BY DEF Orbit
<1>2. 0 \in 0 .. N /\ h[0] \in C
  BY <1>1
<1>3. \A k \in 0 .. N : h[k] \in C
  BY <1>2, OrbitStays
<1>4. h \in [0 .. N -> C]
  BY <1>1, <1>3
<1>5. IsFiniteSet(C) /\ Cardinality(C) <= N
  <2>1. 1 \in Int /\ N \in Int
    OBVIOUS
  <2>2. IsFiniteSet(1 .. N) /\ Cardinality(1 .. N) = N
    BY <2>1, FS_Interval
  <2>3. C \in SUBSET (1 .. N)
    OBVIOUS
  <2>4. IsFiniteSet(C) /\ Cardinality(C) <= Cardinality(1 .. N)
    BY <2>2, <2>3, FS_Subset
  <2> QED BY <2>2, <2>4
<1>6. IsFiniteSet(0 .. N) /\ Cardinality(0 .. N) = N + 1
  <2>1. 0 \in Int /\ N \in Int
    OBVIOUS
  <2> QED BY <2>1, FS_Interval
<1>7. Cardinality(C) \in Nat
  BY <1>5, FS_CardinalityType
<1>8. Cardinality(C) < Cardinality(0 .. N)
  BY <1>5, <1>6, <1>7
<1>9. \E a, b \in 0 .. N : a # b /\ h[a] = h[b]
  BY <1>4, <1>5, <1>6, <1>8, FS_PigeonHole
<1>10. PICK a \in 0 .. N, b \in 0 .. N : a < b /\ h[a] = h[b]
  BY <1>9
<1> DEFINE D == {h[m] : m \in a .. b - 1}
<1>11. Closed(nx, D)
  <2>1. ASSUME NEW i \in a .. b - 1 PROVE nx[h[i]] \in D
    <3>1. nx[h[i]] = h[i + 1]
      <4>1. i \in 0 .. N - 1
        BY <1>10
      <4> QED BY <1>1, <4>1
    <3>2. CASE i + 1 = b
      <4>1. a \in a .. b - 1
        BY <1>10
      <4> QED BY <1>10, <3>1, <3>2, <4>1
    <3>3. CASE i + 1 # b
      <4>1. i + 1 \in a .. b - 1
        BY <3>3
      <4> QED BY <3>1, <4>1
    <3> QED BY <3>2, <3>3
  <2> QED BY <2>1 DEF Closed
<1>12. D \in SUBSET C /\ D # {}
  <2>1. a \in a .. b - 1
    BY <1>10
  <2> QED BY <1>3, <2>1
<1>13. j \in D
  <2> HIDE DEF D
  <2> QED BY <1>11, <1>12 DEF Smallest
<1>14. PICK c \in a .. b - 1 : h[c] = j
  BY <1>13
<1> QED BY <1>1, <1>10, <1>14

\* Declarations a to b are of types.
AllTypes(l, a, b) ==
  \A k \in DOMAIN prog[l].kids :
    (a <= k /\ k <= b) \/ (b <= k /\ k <= a) => Kind(Kid(l, k)) = "TypeDeclaration"

\* A sequence of type declarations, no two of the same name.
DistinctTypes(l, j) ==
  /\ Kind(Kid(l, j)) = "TypeDeclaration"
  /\ \A i \in Group(l, j) : ~ IsDuplicate(l, i)

LEMMA KidNumbers ==
  ASSUME prog \in Programs, NEW l \in Nodes
  PROVE  Len(prog[l].kids) \in Nat /\ DOMAIN prog[l].kids = 1 .. Len(prog[l].kids)
<1>1. PICK s \in Seq(Nodes) : s = prog[l].kids
  BY KidNodes
<1> QED BY <1>1

LEMMA TypeGroups ==
  ASSUME prog \in Programs, NEW l \in Nodes, NEW j \in DOMAIN prog[l].kids,
         Kind(Kid(l, j)) = "TypeDeclaration"
  PROVE  /\ \A i \in DOMAIN prog[l].kids : i \in Group(l, j) <=> AllTypes(l, i, j)
         /\ Group(l, j) \subseteq DOMAIN prog[l].kids /\ j \in Group(l, j)
<1>1. DOMAIN prog[l].kids \subseteq Int
  BY KidNumbers
<1>2. AllTypes(l, j, j)
  <2>1. \A k \in DOMAIN prog[l].kids : (j <= k /\ k <= j) => k = j
    BY <1>1
  <2> QED BY <2>1 DEF AllTypes
<1> QED BY <1>2 DEF Group, AllTypes

LEMMA OneGroup ==
  ASSUME prog \in Programs, NEW l \in Nodes, NEW j \in DOMAIN prog[l].kids,
         Kind(Kid(l, j)) = "TypeDeclaration", NEW i \in Group(l, j)
  PROVE  Kind(Kid(l, i)) = "TypeDeclaration" /\ Group(l, i) = Group(l, j)
<1>1. DOMAIN prog[l].kids \subseteq Int
  BY KidNumbers
<1>2. i \in DOMAIN prog[l].kids /\ AllTypes(l, i, j)
  BY TypeGroups
<1>3. Kind(Kid(l, i)) = "TypeDeclaration"
  BY <1>1, <1>2 DEF AllTypes
<1>4. ASSUME NEW m \in DOMAIN prog[l].kids
      PROVE  AllTypes(l, m, i) <=> AllTypes(l, m, j)
  <2>1. ASSUME NEW k \in DOMAIN prog[l].kids
        PROVE  /\ (m <= k /\ k <= j) \/ (j <= k /\ k <= m) =>
                    \/ (m <= k /\ k <= i) \/ (i <= k /\ k <= m)
                    \/ (i <= k /\ k <= j) \/ (j <= k /\ k <= i)
               /\ (m <= k /\ k <= i) \/ (i <= k /\ k <= m) =>
                    \/ (m <= k /\ k <= j) \/ (j <= k /\ k <= m)
                    \/ (i <= k /\ k <= j) \/ (j <= k /\ k <= i)
    BY <1>1, <1>2
  <2> QED BY <1>2, <2>1, Zenon DEF AllTypes
<1> QED BY <1>2, <1>3, <1>4, TypeGroups

LEMMA NamesDistinct ==
  ASSUME prog \in Programs, NEW l \in Nodes, NEW j \in DOMAIN prog[l].kids,
         DistinctTypes(l, j), NEW i \in Group(l, j), NEW m \in Group(l, j),
         prog[Kid(l, i)].id = prog[Kid(l, m)].id
  PROVE  i = m
<1>1. Kind(Kid(l, j)) = "TypeDeclaration"
  BY DEF DistinctTypes
<1>2. Group(l, i) = Group(l, j) /\ Group(l, m) = Group(l, j)
  BY <1>1, OneGroup
<1>3. ~ (i < m) /\ ~ (m < i)
  BY <1>2 DEF DistinctTypes, IsDuplicate
<1>4. i \in Int /\ m \in Int
  BY <1>1, TypeGroups, KidNumbers
<1> QED BY <1>3, <1>4

LEMMA NextFacts ==
  ASSUME prog \in Programs, NEW l \in Nodes, NEW j \in DOMAIN prog[l].kids,
         DistinctTypes(l, j), NEW i \in Group(l, j)
  PROVE  /\ NextInGroup(l, i) \in Group(l, j) \cup {0}
         /\ \A m \in Group(l, j) :
              prog[Kid(l, m)].id = AliasOf(Kid(l, i)) <=> m = NextInGroup(l, i)
<1>1. Kind(Kid(l, j)) = "TypeDeclaration"
  BY DEF DistinctTypes
<1>2. Group(l, i) = Group(l, j) /\ Group(l, j) \subseteq 1 .. Len(prog[l].kids)
  BY <1>1, OneGroup, TypeGroups, KidNumbers
<1>3. Len(prog[l].kids) \in Nat
  BY KidNumbers
<1> DEFINE named == {m \in Group(l, i) : prog[Kid(l, m)].id = AliasOf(Kid(l, i))}
<1>4. NextInGroup(l, i) = IF named = {} THEN Null
                          ELSE CHOOSE m \in named : \A k \in named : m <= k
  BY DEF NextInGroup
<1>5. CASE named = {}
  BY <1>2, <1>3, <1>4, <1>5 DEF Null
<1>6. CASE named # {}
  <2>1. PICK m \in named : TRUE
    BY <1>6
  <2>2. named = {m}
    BY <1>2, <2>1, NamesDistinct
  <2>3. m \in Int
    BY <1>2, <1>3, <2>1
  <2>4. NextInGroup(l, i) = m
    <3> HIDE DEF named
    <3> QED BY <1>4, <2>2, <2>3
  <2> QED BY <1>2, <2>1, <2>2, <2>4
<1> QED BY <1>5, <1>6

\* What HasIllegalCycle has met after k steps, as it is written down there.
Met(met, l, j) ==
  met = [k \in 0 .. Len(prog[l].kids) |->
           IF k = 0 THEN {j} ELSE {NextInGroup(l, i) : i \in met[k-1]} \ {Null}]

\* The declaration that follows another in its sequence; none follows none.
Follows(l, S) == [i \in S \cup {0} |-> IF i = 0 THEN 0 ELSE NextInGroup(l, i)]

\* It has met the points of orbit h, one at each step.
MeetsOrbit(h, N, l, j) ==
  /\ \E met : Met(met, l, j)
  /\ \A met : Met(met, l, j) => \A k \in 0 .. N : met[k] = {h[k]} \ {0}

LEMMA OrbitIsMet ==
  ASSUME prog \in Programs, NEW l \in Nodes, NEW j \in DOMAIN prog[l].kids,
         DistinctTypes(l, j), NEW S, S = Group(l, j), NEW N, N = Len(prog[l].kids),
         NEW h, Orbit(h, N, S \cup {0}, Follows(l, S), j)
  PROVE  MeetsOrbit(h, N, l, j)
<1>1. N \in Nat /\ S \subseteq 1 .. N /\ j \in S
  BY TypeGroups, KidNumbers DEF DistinctTypes
<1>2. /\ \A k \in 0 .. N : h[k] \in S \cup {0}
      /\ h[0] = j
      /\ \A k \in 0 .. N - 1 : h[k + 1] = Follows(l, S)[h[k]]
  BY DEF Orbit
<1>3. \A i \in S : Follows(l, S)[i] = NextInGroup(l, i) /\ NextInGroup(l, i) \in S \cup {0}
  BY <1>1, NextFacts DEF Follows
<1>4. Follows(l, S)[0] = 0
  BY DEF Follows
<1>5. ASSUME NEW k \in 1 .. N, NEW M, M = {h[k - 1]} \ {0}
      PROVE  {NextInGroup(l, i) : i \in M} \ {Null} = {h[k]} \ {0}
  <2>1. k - 1 \in 0 .. N - 1 /\ k - 1 \in 0 .. N /\ (k - 1) + 1 = k
    BY <1>1
  <2>2. h[k] = Follows(l, S)[h[k - 1]] /\ h[k - 1] \in S \cup {0}
    BY <1>2, <2>1
  <2>3. CASE h[k - 1] = 0
    <3>1. h[k] = 0 /\ M = {}
      BY <1>4, <1>5, <2>2, <2>3
    <3> QED BY <3>1
  <2>4. CASE h[k - 1] # 0
    <3>1. M = {h[k - 1]} /\ h[k] = NextInGroup(l, h[k - 1])
      BY <1>3, <1>5, <2>2, <2>4
    <3> QED BY <3>1 DEF Null
  <2> QED BY <2>3, <2>4
<1> DEFINE m0 == [k \in 0 .. N |-> {h[k]} \ {0}]
<1>6. Met(m0, l, j)
  <2>1. m0[0] = {j}
    BY <1>1, <1>2
  <2>2. ASSUME NEW k \in 0 .. N, k # 0
        PROVE  m0[k] = {NextInGroup(l, i) : i \in m0[k - 1]} \ {Null}
    <3>1. k \in 1 .. N /\ k - 1 \in 0 .. N
      BY <1>1, <2>2
    <3>2. m0[k - 1] = {h[k - 1]} \ {0} /\ m0[k] = {h[k]} \ {0}
      BY <3>1
    <3> HIDE DEF m0
    <3> QED BY <1>5, <3>1, <3>2
  <2>3. m0 = [k \in 0 .. N |-> m0[k]]
    OBVIOUS
  <2>4. \A k \in 0 .. N :
          m0[k] = IF k = 0 THEN {j} ELSE {NextInGroup(l, i) : i \in m0[k - 1]} \ {Null}
    <3> HIDE DEF m0
    <3> QED BY <2>1, <2>2
  <2> HIDE DEF m0
  <2> QED BY <2>3, <2>4 DEF Met
<1>7. ASSUME NEW met, Met(met, l, j) PROVE \A k \in 0 .. N : met[k] = {h[k]} \ {0}
  <2> DEFINE A == {k \in 0 .. N : met[k] = {h[k]} \ {0}}
  <2>1. \A k \in 0 .. N :
          met[k] = IF k = 0 THEN {j} ELSE {NextInGroup(l, i) : i \in met[k - 1]} \ {Null}
    BY <1>7 DEF Met
  <2>2. 0 \in 0 .. N /\ 0 \in A
    <3>1. 0 \in 0 .. N /\ j # 0
      BY <1>1
    <3>2. met[0] = {j}
      BY <2>1, <3>1
    <3>3. {j} = {h[0]} \ {0}
      BY <1>2, <3>1
    <3> QED BY <3>1, <3>2, <3>3
  <2>3. ASSUME NEW k \in 0 .. N - 1, k \in A PROVE k + 1 \in A
    <3>1. k + 1 \in 1 .. N /\ (k + 1) - 1 = k /\ k + 1 \in 0 .. N /\ k + 1 # 0
      BY <1>1
    <3>2. met[k] = {h[k]} \ {0}
      BY <2>3
    <3>3. {NextInGroup(l, i) : i \in met[k]} \ {Null} = {h[k + 1]} \ {0}
      BY <1>5, <3>1, <3>2
    <3>4. met[k + 1] = {NextInGroup(l, i) : i \in met[k]} \ {Null}
      BY <2>1, <3>1
    <3> QED BY <3>1, <3>3, <3>4
  <2> HIDE DEF A
  <2>4. \A k \in 0 .. N : k \in A
    BY <1>1, <2>2, <2>3, SameAssumptions, Finder!BoundedInduction
  <2> QED BY <2>4 DEF A
<1> HIDE DEF m0
<1> QED BY <1>6, <1>7 DEF MeetsOrbit

LEMMA CyclesAreCircles ==
  ASSUME prog \in Programs, NEW l \in Nodes, NEW j \in DOMAIN prog[l].kids,
         DistinctTypes(l, j)
  PROVE  HasIllegalCycle(l, j) <=> \E C \in SUBSET Group(l, j) : j \in C /\ IsCycle(l, C)
<1>1. PICK S : S = Group(l, j)
  OBVIOUS
<1>2. PICK N : N = Len(prog[l].kids)
  OBVIOUS
<1>3. N \in Nat /\ S \in SUBSET (1 .. N) /\ j \in S
  BY <1>1, <1>2, TypeGroups, KidNumbers DEF DistinctTypes
<1>4. PICK nx : nx = Follows(l, S)
  OBVIOUS
<1>5. nx \in [S \cup {0} -> S \cup {0}] /\ nx[0] = 0
  BY <1>1, <1>4, NextFacts DEF Follows
<1>6. PICK h : Orbit(h, N, S \cup {0}, nx, j)
  BY <1>3, <1>5, OrbitExists
<1>7. PICK met : met = CHOOSE m : Met(m, l, j)
  OBVIOUS
<1>8. Met(met, l, j) /\ \A k \in 0 .. N : met[k] = {h[k]} \ {0}
  <2> Orbit(h, N, S \cup {0}, Follows(l, S), j)
    BY <1>4, <1>6
  <2>1. MeetsOrbit(h, N, l, j)
    BY <1>1, <1>2, OrbitIsMet
  <2>2. Met(met, l, j)
    BY <1>7, <2>1, Zenon DEF MeetsOrbit
  <2> QED BY <2>1, <2>2 DEF MeetsOrbit
<1>9. HasIllegalCycle(l, j) <=> \E k \in 1 .. N : j \in met[k]
  BY <1>2, <1>7 DEF HasIllegalCycle, Met
<1>10. \A k \in 1 .. N : j \in met[k] <=> h[k] = j
  BY <1>3, <1>8
<1>11. ASSUME NEW C \in SUBSET S PROVE Circular(l, C) <=> Closed(nx, C)
  <2>1. ASSUME NEW i \in C
        PROVE  (\E m \in C : prog[Kid(l, m)].id = AliasOf(Kid(l, i))) <=> nx[i] \in C
    <3>1. nx[i] = NextInGroup(l, i)
      BY <1>3, <1>4 DEF Follows
    <3>2. \A m \in C : prog[Kid(l, m)].id = AliasOf(Kid(l, i)) <=> m = nx[i]
      BY <1>1, <3>1, NextFacts
    <3> QED BY <3>2
  <2> QED BY <2>1 DEF Circular, Closed
<1>12. ASSUME NEW C \in SUBSET S, j \in C
       PROVE  IsCycle(l, C) <=> Closed(nx, C) /\ Smallest(nx, C)
  <2>1. \A D \in SUBSET C : Circular(l, D) <=> Closed(nx, D)
    BY <1>11
  <2>2. C # {} /\ (Circular(l, C) <=> Closed(nx, C))
    BY <1>12, <2>1
  <2> QED BY <2>1, <2>2 DEF IsCycle, Smallest
<1>13. ASSUME NEW k \in 1 .. N, h[k] = j PROVE \E C \in SUBSET S : j \in C /\ IsCycle(l, C)
  BY <1>3, <1>5, <1>6, <1>12, <1>13, OrbitReturns
<1>14. ASSUME NEW C \in SUBSET S, j \in C, IsCycle(l, C) PROVE \E k \in 1 .. N : h[k] = j
  BY <1>3, <1>6, <1>12, <1>14, SmallestReturns
<1> QED BY <1>1, <1>9, <1>10, <1>13, <1>14

\* Once DeclarationChecker has been at a Let, it has reported of the types of
\* a sequence with distinct names exactly those on a circle of aliases, though
\* it follows one chain at a time and no further than there are declarations
\* (checker.cc:378).
THEOREM CirclesAreReported == Spec => []CyclesReported
<1>1. CheckerInv => CyclesReported
  <2> SUFFICES ASSUME CheckerInv, NEW l \in Nodes, Kind(l) = "Let",
                      Passed("DeclarationChecker", l), NEW j \in DOMAIN prog[l].kids,
                      DistinctTypes(l, j)
               PROVE  Report(CycleText, Kid(l, j)) \in reports
                        <=> \E C \in SUBSET Group(l, j) : j \in C /\ IsCycle(l, C)
    BY Zenon DEF CyclesReported, CycleText, DistinctTypes
  <2>1. HasPassed(1, l) /\ prog \in Programs
    BY SamePassed DEF CheckerInv, Places
  <2>2. Report(CycleText, Kid(l, j)) \in reports <=> HasIllegalCycle(l, j)
    BY <2>1 DEF CheckerInv, CyclesTold, DistinctTypes
  <2> QED BY <2>1, <2>2, CyclesAreCircles
<1> QED BY <1>1, CheckerInvariant, PTL

-----------------------------------------------------------------------------
(* Arguments.                                                              *)

ArgumentText == "Argument of another type"

\* What FunctionCallChecker, gone on from call e, has made of argument j.
ArgumentTold(e, j) ==
  /\ WalkEnds(e, ParameterType(e, j), {})
  /\ ~ IsNil(Kid(e, j)) =>
       /\ cache[Kid(e, j)] # Uncached
       /\ \/ Report(ArgumentText, Kid(e, j)) \in reports
          \/ cache[Kid(e, j)] \in {Unaliased(e, ParameterType(e, j)), "NOTYPE"}

ArgumentsTold ==
  \A e \in Nodes : HasPassed(6, e) => \A j \in Arguments(e) : ArgumentTold(e, j)

LEMMA ArgumentFacts ==
  ASSUME prog \in Programs, NEW e \in Nodes, NEW j \in Arguments(e)
  PROVE  /\ Kind(e) = "FunctionCall" /\ Function(e) # Null
         /\ Len(prog[e].kids) = Len(prog[Function(e)].params)
         /\ DOMAIN prog[e].kids = 1 .. Len(prog[e].kids) /\ Len(prog[e].kids) \in Nat
         /\ Arguments(e) = DOMAIN prog[e].kids /\ j \in DOMAIN prog[e].kids
         /\ Kid(e, j) \in Exprs \ {1} /\ e \in Exprs
<1>1. /\ Kind(e) = "FunctionCall" /\ Function(e) # Null
      /\ Len(prog[e].kids) = Len(prog[Function(e)].params)
      /\ Arguments(e) = DOMAIN prog[e].kids
  BY DEF Arguments
<1>2. DOMAIN prog[e].kids = 1 .. Len(prog[e].kids) /\ Len(prog[e].kids) \in Nat
  BY KidNumbers
<1>3. Kid(e, j) \in Nodes /\ e < Kid(e, j)
  BY <1>1, KidNodes, TreeFacts
<1>4. Kid(e, j) # 1
  BY <1>3, Numbers
<1>5. Kind(Kid(e, j)) \in ExprKinds
  BY <1>1, ProgramsAssumption DEF IsProgram, IsShaped, Nodes, Kind, Kid, Vectors
<1>6. e \in Exprs
  BY <1>1 DEF Exprs, IsExpr, ExprKinds
<1> QED BY <1>1, <1>2, <1>3, <1>4, <1>5, <1>6 DEF Exprs, IsExpr

\* Nothing of it depends on anything but the tables, ...
LEMMA ArgumentsStay ==
  ASSUME UNCHANGED tables
  PROVE  \A e : /\ Arguments(e)' = Arguments(e)
                /\ \A j : /\ ParameterType(e, j)' = ParameterType(e, j)
                          /\ Kid(e, j)' = Kid(e, j)
                          /\ IsNil(Kid(e, j))' <=> IsNil(Kid(e, j))
                /\ \A x : /\ WalkEnds(e, x, {})' <=> WalkEnds(e, x, {})
                          /\ Unaliased(e, x)' = Unaliased(e, x)
<1>1. prog' = prog /\ scopes' = scopes /\ scope_by_expr' = scope_by_expr
  BY DEF tables
<1>2. \A e, x : lookupFunction(e, x)' = lookupFunction(e, x)
  BY <1>1 DEF lookupFunction, FirstScope
<1>3. \A e, x : lookupType(e, x)' = lookupType(e, x)
  BY <1>1 DEF lookupType, FirstScope
<1>4. \A e : Function(e)' = Function(e)
  BY <1>1, <1>2 DEF Function
<1>5. \A e, x : Walked(e, x, {})' = Walked(e, x, {})
  BY <1>1 DEF Walked, NextName, GoesOn, IsAlias, AliasOf, lookupType, FirstScope
<1>6. \A d : GoesOn(d, {})' <=> GoesOn(d, {})
  BY <1>1 DEF GoesOn, IsAlias, AliasOf
<1>7. \A e, x : WalkEnds(e, x, {})' <=> WalkEnds(e, x, {})
  BY <1>3, <1>5, <1>6 DEF WalkEnds
<1> QED BY <1>1, <1>4, <1>5, <1>7 DEF Arguments, ParameterType, Kid, IsNil, Kind, Unaliased

\* ... the cache and the reports, of which nothing is taken back.
LEMMA ToldStays ==
  ASSUME prog \in Programs, UNCHANGED tables, reports \subseteq reports',
         \A n \in Nodes : cache[n] # Uncached => cache'[n] = cache[n],
         NEW e \in Nodes, NEW j \in Arguments(e), ArgumentTold(e, j)
  PROVE  ArgumentTold(e, j)'
<1>1. /\ ParameterType(e, j)' = ParameterType(e, j) /\ Kid(e, j)' = Kid(e, j)
      /\ IsNil(Kid(e, j))' <=> IsNil(Kid(e, j))
      /\ \A x : /\ WalkEnds(e, x, {})' <=> WalkEnds(e, x, {})
                /\ Unaliased(e, x)' = Unaliased(e, x)
  BY ArgumentsStay
<1>2. Kid(e, j) \in Nodes
  BY ArgumentFacts DEF Exprs
<1>3. PICK x, a : x = ParameterType(e, j) /\ a = Kid(e, j)
  OBVIOUS
<1>4. WalkEnds(e, ParameterType(e, j), {})'
  BY <1>1, <1>3 DEF ArgumentTold
<1>5. ASSUME ~ IsNil(Kid(e, j))
      PROVE  /\ cache'[Kid(e, j)] # Uncached
             /\ \/ Report(ArgumentText, Kid(e, j)) \in reports'
                \/ cache'[Kid(e, j)] \in {Unaliased(e, ParameterType(e, j)), "NOTYPE"}
  BY <1>2, <1>5 DEF ArgumentTold
<1> QED BY <1>1, <1>3, <1>4, <1>5 DEF ArgumentTold, Report

\* Where the call is checked, all of it is made true.
LEMMA ToldByCheck ==
  ASSUME CheckerInv, Check("FunctionCallChecker", FunctionCallReports(at)),
         NEW e, e = at, NEW j \in Arguments(e)
  PROVE  ArgumentTold(e, j)'
<1>1. /\ prog \in Programs /\ e \in Nodes /\ Pass = "FunctionCallChecker"
      /\ Unasked = {} /\ ~ WalksForever(e)
      /\ reports' = reports \cup FunctionCallReports(e) /\ UNCHANGED <<tables, cache>>
  BY CheckEffect DEF CheckerInv, Places, Answered, finder
<1>2. /\ Kind(e) = "FunctionCall" /\ DOMAIN prog[e].kids = 1 .. Len(prog[e].kids)
      /\ Len(prog[e].kids) \in Nat
      /\ Arguments(e) = DOMAIN prog[e].kids /\ j \in DOMAIN prog[e].kids
  BY <1>1, ArgumentFacts
<1>3. /\ ParameterType(e, j)' = ParameterType(e, j) /\ Kid(e, j)' = Kid(e, j)
      /\ IsNil(Kid(e, j))' <=> IsNil(Kid(e, j))
      /\ \A x : /\ WalkEnds(e, x, {})' <=> WalkEnds(e, x, {})
                /\ Unaliased(e, x)' = Unaliased(e, x)
  BY <1>1, ArgumentsStay
<1>4. \A i \in Arguments(e) : WalkEnds(e, ParameterType(e, i), {})
  BY <1>1 DEF WalksForever
<1>5. PICK x, a : x = ParameterType(e, j) /\ a = Kid(e, j)
  OBVIOUS
<1>6. ASSUME ~ IsNil(a) PROVE cache[a] # Uncached
  <2>1. \A k \in 1 .. j - 1 : k \in Arguments(e)
    BY <1>2
  <2>2. a \in FunctionCallAsks(e)
    BY <1>4, <1>5, <1>6, <2>1 DEF FunctionCallAsks
  <2>3. Asks(e) = FunctionCallAsks(e)
    BY <1>1 DEF Asks
  <2> QED BY <1>1, <2>2, <2>3 DEF Unasked
<1>7. ASSUME ~ IsNil(a), cache[a] \notin {Unaliased(e, x), "NOTYPE"}
      PROVE  Report(ArgumentText, a) \in FunctionCallReports(e)
  <2>1. Report(ArgumentText, a)
          \in Unless(cache[a] \in {Unaliased(e, x), "NOTYPE"}, "Argument of another type", a)
    BY <1>7, Zenon DEF Unless, ArgumentText
  <2>2. PICK r : r = Report(ArgumentText, a)
    OBVIOUS
  <2>3. r \in IF IsNil(Kid(e, j))
              THEN Unless(IsRecord(e, ParameterType(e, j)),
                          "Type is not a record type", Kid(e, j))
              ELSE Unless(cache[Kid(e, j)] \in
                            {Unaliased(e, ParameterType(e, j)), "NOTYPE"},
                          "Argument of another type", Kid(e, j))
    BY <1>5, <1>7, <2>1, <2>2, Zenon
  <2>4. r \in FunctionCallReports(e)
    BY <1>2, <2>3, Zenon DEF FunctionCallReports
  <2> QED BY <2>2, <2>4
<1>8. WalkEnds(e, x, {})' /\ WalkEnds(e, x, {})
  BY <1>3, <1>4, <1>5
<1>9. ~ IsNil(a) => /\ cache'[a] # Uncached
                    /\ \/ Report(ArgumentText, a) \in reports'
                       \/ cache'[a] \in {Unaliased(e, x), "NOTYPE"}
  BY <1>1, <1>6, <1>7
<1> QED BY <1>3, <1>5, <1>8, <1>9 DEF ArgumentTold, Report

LEMMA CheckTellsArguments ==
  ASSUME CheckerInv, ArgumentsTold, NEW name, NEW what, Check(name, what),
         name = "FunctionCallChecker" => what = FunctionCallReports(at)
  PROVE  ArgumentsTold'
<1>1. /\ Places /\ prog \in Programs /\ at \in Nodes /\ Pass = name
      /\ UNCHANGED <<tables, cache>> /\ reports \subseteq reports' /\ prog' = prog
  BY CheckEffect DEF CheckerInv, Places, finder
<1>2. Nodes' = Nodes /\ \A e : Arguments(e)' = Arguments(e)
  BY <1>1, TreeStays, ArgumentsStay
<1>3. \A e \in Nodes : HasPassed(6, e)' <=> HasPassed(6, e) \/ (pass = 6 /\ e = at)
  <2>1. 6 \in 1 .. 7
    OBVIOUS
  <2> QED BY <1>1, <2>1, PassedAfterCheck
<1>4. SUFFICES ASSUME NEW e \in Nodes, HasPassed(6, e)', NEW j \in Arguments(e)
               PROVE  ArgumentTold(e, j)'
  BY <1>2, Zenon DEF ArgumentsTold
<1>5. CASE HasPassed(6, e)
  <2>1. ArgumentTold(e, j)
    BY <1>5, Zenon DEF ArgumentsTold
  <2> QED BY <1>1, <2>1, ToldStays
<1>6. CASE pass = 6 /\ e = at
  <2>1. name = "FunctionCallChecker"
    BY <1>1, <1>6 DEF Pass, Passes
  <2>2. Check("FunctionCallChecker", FunctionCallReports(at))
    BY <2>1
  <2> QED BY <1>6, <2>2, ToldByCheck
<1> QED BY <1>3, <1>4, <1>5, <1>6

LEMMA QuietTellsArguments ==
  ASSUME CheckerInv, ArgumentsTold, prog' = prog, UNCHANGED <<pass, at, reports>>,
         \A n \in Nodes : cache[n] # Uncached => cache'[n] = cache[n],
         UNCHANGED tables \/ ~ Tf!St!Built
  PROVE  ArgumentsTold'
<1>1. Nodes' = Nodes /\ prog \in Programs /\ \A e : HasPassed(6, e)' <=> HasPassed(6, e)
  BY TreeStays DEF HasPassed, CheckerInv, Places
<1>2. CASE UNCHANGED tables
  <2>1. SUFFICES ASSUME NEW e \in Nodes, HasPassed(6, e), NEW j \in Arguments(e)
                 PROVE  ArgumentTold(e, j)'
    BY <1>1, <1>2, ArgumentsStay, Zenon DEF ArgumentsTold
  <2>2. ArgumentTold(e, j)
    BY <2>1, Zenon DEF ArgumentsTold
  <2> QED BY <1>1, <1>2, <2>2, ToldStays
<1>3. CASE ~ Tf!St!Built
  <2>1. ~ HasPassed(1, 1)
    BY <1>3 DEF CheckerInv
  <2>2. \A e \in Nodes : ~ HasPassed(6, e)
    BY <2>1, Numbers DEF HasPassed, CheckerInv, Places
  <2> QED BY <1>1, <2>2, Zenon DEF ArgumentsTold
<1> QED BY <1>2, <1>3

LEMMA StepArguments == CheckerInv /\ ArgumentsTold /\ [Next]_vars => ArgumentsTold'
<1>1. SUFFICES ASSUME CheckerInv, ArgumentsTold, [Next]_vars PROVE ArgumentsTold'
  OBVIOUS
<1> at \in Nodes /\ Finder!FinderInv
  BY <1>1, Zenon DEF CheckerInv, Places
<1>2. [Tf!Next]_(Tf!vars) /\ prog' = prog
  BY <1>1, StepIsClients, Zenon
<1>3. \A n \in Nodes : cache[n] # Uncached => cache'[n] = cache[n]
  BY <1>2, FinderKeeps, Zenon
<1>4. CASE Build
  <2>1. UNCHANGED <<pass, at, reports>>
    BY <1>4 DEF Build, checker
  <2>2. ~ Tf!St!Built
    BY <1>4, BuiltOnce, Zenon DEF Build
  <2> QED BY <1>1, <1>2, <1>3, <2>1, <2>2, QuietTellsArguments, Zenon
<1>5. CASE Infer \/ AskLValue \/ Stop \/ UNCHANGED vars \/ \E e \in Exprs : Ask(e)
  <2>1. UNCHANGED <<pass, at, reports>> /\ UNCHANGED tables
    BY <1>5 DEF Infer, AskLValue, Stop, Ask, vars, checker, Tf!Step, Tf!tables, tables
  <2> QED BY <1>1, <1>2, <1>3, <2>1, QuietTellsArguments, Zenon
<1>6. ASSUME NEW name, NEW what, Check(name, what),
             name = "FunctionCallChecker" => what = FunctionCallReports(at)
      PROVE  ArgumentsTold'
  BY <1>1, <1>6, CheckTellsArguments, Zenon
<1>7. CASE CheckFunctionCall
  BY <1>6, <1>7 DEF CheckFunctionCall
<1>8. CASE \/ CheckDeclaration \/ CheckRecordField \/ CheckBinaryOp
           \/ CheckConditional \/ CheckNil \/ CheckStructure
  <2>1. PICK name, what : name # "FunctionCallChecker" /\ Check(name, what)
    BY <1>8 DEF CheckDeclaration, CheckRecordField, CheckBinaryOp, CheckConditional,
                CheckNil, CheckStructure
  <2> QED BY <1>6, <2>1
<1> QED BY <1>1, <1>4, <1>5, <1>7, <1>8 DEF Next, CheckerStep

LEMMA ArgumentsInvariant == Spec => []ArgumentsTold
<1>1. Init => ArgumentsTold
  <2> SUFFICES ASSUME Init PROVE ArgumentsTold
    OBVIOUS
  <2>1. prog \in Programs /\ pass = 1 /\ at = 1
    BY DEF Init, Tf!Init, Tf!St!Init
  <2>2. \A e \in Nodes : ~ HasPassed(6, e)
    BY <2>1 DEF HasPassed
  <2> QED BY <2>2, Zenon DEF ArgumentsTold
<1> QED BY <1>1, CheckerInvariant, StepArguments, PTL DEF Spec


\* The names that see their types from e and from q alike.
SeenFrom(e, q) ==
  {y \in Identifiers : Finder!Table!Sees(e, y) /\ Finder!Table!Sees(q, y)}

LEMMA TypesNamedWithin ==
  ASSUME TypeNamesClear, NEW n \in Nodes
  PROVE  Finder!Table!NamedWithin(n, prog[n].type)
<1>1. \A d \in Nodes : Kind(d) = "TypeDeclaration" /\ prog[n].type = prog[d].id =>
        Within(n, prog[d].binder)
  BY Zenon DEF TypeNamesClear
<1> QED BY <1>1, Zenon
  DEF Within, Nodes, NodesOf, Kind, Finder!Table!NamedWithin, Finder!Table!Nodes,
      Finder!Table!NodesOf, Finder!Table!Kind, Finder!Table!Below, Finder!Table!Binder

LEMMA TypesFound ==
  ASSUME CheckerInv, Finder!St!Built, NEW e \in Exprs \ {1}, NEW x \in Identifiers
  PROVE  /\ lookupType(e, x) # Null =>
              /\ lookupType(e, x) \in Nodes
              /\ Kind(lookupType(e, x)) = "TypeDeclaration"
              /\ prog[lookupType(e, x)].id = x
              /\ \A y : Finder!Table!NamedWithin(lookupType(e, x), y) =>
                   Finder!Table!Sees(e, y)
         /\ Finder!Table!Sees(e, x) /\ lookupType(e, x) = Null =>
              ~ \E t \in Nodes : Kind(t) = "TypeDeclaration" /\ prog[t].id = x
<1>1. Finder!Table!LookupInv
  BY Zenon DEF CheckerInv, Finder!FinderInv
<1>2. lookupType(e, x) = Finder!lookupType(e, x) /\ Null = Finder!Null
  BY Zenon DEF lookupType, FirstScope, NoScope, Null,
         Finder!lookupType, Finder!FirstScope, Finder!NoScope, Finder!Null
<1>3. e \in Finder!Exprs /\ e \in Finder!Exprs \ {1}
  BY DEF Exprs, IsExpr, Kind, Nodes, NodesOf, ExprKinds, Finder!Exprs, Finder!IsExpr,
         Finder!Kind, Finder!Nodes, Finder!NodesOf, Finder!ExprKinds
<1>4. /\ Finder!lookupType(e, x) # Finder!Null =>
           /\ prog[Finder!lookupType(e, x)].id = x
           /\ \A y : Finder!Table!NamedWithin(Finder!lookupType(e, x), y) =>
                Finder!Table!Sees(e, y)
      /\ Finder!Table!Sees(e, x) /\ Finder!lookupType(e, x) = Finder!Null =>
           ~ \E t \in Finder!Nodes : Finder!Kind(t) = "TypeDeclaration" /\ prog[t].id = x
  BY <1>1, <1>3, SameAssumptions, Finder!TypesAround
<1>5. Finder!lookupType(e, x) # Finder!Null =>
        /\ Finder!lookupType(e, x) \in Finder!Nodes
        /\ Finder!Kind(Finder!lookupType(e, x)) = "TypeDeclaration"
  BY <1>1, <1>3, SameAssumptions, Finder!Lookups
<1>6. /\ \A n : Kind(n) = Finder!Kind(n)
      /\ Nodes = Finder!Nodes
  BY Zenon DEF Kind, Nodes, NodesOf, Finder!Kind, Finder!Nodes, Finder!NodesOf
<1> QED BY <1>2, <1>4, <1>5, <1>6, Zenon

LEMMA SameTypes ==
  ASSUME CheckerInv, Finder!St!Built, TypeNamesClear, NEW e \in Exprs \ {1},
         NEW q \in Exprs \ {1}, NEW x \in SeenFrom(e, q)
  PROVE  lookupType(e, x) = lookupType(q, x)
<1>1. /\ x \in Identifiers /\ Finder!Table!Sees(e, x) /\ Finder!Table!Sees(q, x)
  BY Zenon DEF SeenFrom
<1>2. \A c, d \in Nodes :
        /\ Kind(c) = "TypeDeclaration" /\ Kind(d) = "TypeDeclaration"
        /\ prog[c].id = prog[d].id
        => c = d
  BY Zenon DEF TypeNamesClear
<1>3. PICK c : c = lookupType(e, x)
  OBVIOUS
<1>4. PICK d : d = lookupType(q, x)
  OBVIOUS
<1>5. /\ c # Null => c \in Nodes /\ Kind(c) = "TypeDeclaration" /\ prog[c].id = x
      /\ c = Null => ~ \E t \in Nodes : Kind(t) = "TypeDeclaration" /\ prog[t].id = x
  BY <1>1, <1>3, TypesFound, Zenon
<1>6. /\ d # Null => d \in Nodes /\ Kind(d) = "TypeDeclaration" /\ prog[d].id = x
      /\ d = Null => ~ \E t \in Nodes : Kind(t) = "TypeDeclaration" /\ prog[t].id = x
  BY <1>1, <1>4, TypesFound, Zenon
<1>7. c = d
  BY <1>2, <1>5, <1>6, Zenon
<1> QED BY <1>3, <1>4, <1>7

\* A walk from such a name stays among them and goes the same way from both.
LEMMA SameNextName ==
  ASSUME CheckerInv, Finder!St!Built, TypeNamesClear, NEW e \in Exprs \ {1},
         NEW q \in Exprs \ {1}, NEW x \in SeenFrom(e, q)
  PROVE  NextName(e, x, {}) = NextName(q, x, {}) /\ NextName(e, x, {}) \in SeenFrom(e, q)
<1>1. PICK d : d = lookupType(e, x)
  OBVIOUS
<1>2. d = lookupType(q, x)
  BY <1>1, SameTypes
<1>3. x \in Identifiers
  BY Zenon DEF SeenFrom
<1>4. CASE ~ GoesOn(d, {})
  BY <1>1, <1>2, <1>4 DEF NextName
<1>5. CASE GoesOn(d, {})
  <2>1. d # Null /\ prog[d].form = "alias" /\ AliasOf(d) = prog[d].type
    BY <1>5 DEF GoesOn, IsAlias, AliasOf
  <2>2. d \in Nodes /\ Kind(d) = "TypeDeclaration"
    BY <1>1, <1>3, <2>1, TypesFound, Zenon
  <2>3. prog[d].type \in Identifiers
    <3>1. d \in Finder!Nodes /\ Finder!Kind(d) = "TypeDeclaration" /\ prog \in Programs
      BY <2>2, Zenon DEF CheckerInv, Places, Kind, Nodes, NodesOf, Finder!Kind,
                         Finder!Nodes, Finder!NodesOf
    <3>2. prog[d].form \in {"alias", "array"}
      BY <2>1
    <3> QED BY <3>1, <3>2, SameAssumptions, Finder!TypedNodes
  <2>4. Finder!Table!NamedWithin(d, prog[d].type)
    BY <2>2, TypesNamedWithin
  <2>5. Finder!Table!Sees(e, prog[d].type)
    BY <1>1, <1>3, <2>1, <2>4, TypesFound, Zenon
  <2>6. Finder!Table!Sees(q, prog[d].type)
    BY <1>2, <1>3, <2>1, <2>4, TypesFound, Zenon
  <2>7. NextName(e, x, {}) = prog[d].type
    BY <1>1, <1>5, <2>1, Zenon DEF NextName
  <2>8. NextName(q, x, {}) = prog[d].type
    BY <1>2, <1>5, <2>1, Zenon DEF NextName
  <2>9. prog[d].type \in SeenFrom(e, q)
    BY <2>3, <2>5, <2>6, Zenon DEF SeenFrom
  <2> QED BY <2>7, <2>8, <2>9
<1> QED BY <1>4, <1>5

\* What Walked has met after k steps, as it is written down there.
WalkMet(met, e, x, stops) ==
  met = [k \in 0 .. Len(prog) |->
           IF k = 0 THEN {x} ELSE {NextName(e, y, stops) : y \in met[k-1]}]

\* It has met the points of orbit h, one at each step.
WalksOrbit(h, N, e, x, stops) ==
  /\ \E met : WalkMet(met, e, x, stops)
  /\ \A met : WalkMet(met, e, x, stops) => \A k \in 0 .. N : met[k] = {h[k]}

LEMMA OrbitIsWalked ==
  ASSUME NEW N \in Nat, N = Len(prog), NEW e, NEW stops, NEW T, NEW nx \in [T -> T],
         \A y \in T : NextName(e, y, stops) = nx[y], NEW x \in T,
         NEW h, Orbit(h, N, T, nx, x)
  PROVE  WalksOrbit(h, N, e, x, stops)
<1>1. /\ \A k \in 0 .. N : h[k] \in T
      /\ h[0] = x
      /\ \A k \in 0 .. N - 1 : h[k + 1] = nx[h[k]]
  BY DEF Orbit
<1>2. ASSUME NEW k \in 1 .. N
      PROVE  {NextName(e, y, stops) : y \in {h[k - 1]}} = {h[k]}
  <2>1. k - 1 \in 0 .. N - 1 /\ k - 1 \in 0 .. N /\ (k - 1) + 1 = k
    OBVIOUS
  <2>2. h[k] = NextName(e, h[k - 1], stops)
    BY <1>1, <2>1
  <2> QED BY <2>2, Zenon
<1> DEFINE m0 == [k \in 0 .. N |-> {h[k]}]
<1>3. WalkMet(m0, e, x, stops)
  <2>1. m0[0] = {x}
    BY <1>1
  <2>2. ASSUME NEW k \in 0 .. N, k # 0
        PROVE  m0[k] = {NextName(e, y, stops) : y \in m0[k - 1]}
    <3>1. k \in 1 .. N /\ k - 1 \in 0 .. N
      BY <2>2
    <3>2. m0[k - 1] = {h[k - 1]} /\ m0[k] = {h[k]}
      BY <3>1
    <3> HIDE DEF m0
    <3> QED BY <1>2, <3>1, <3>2
  <2>3. m0 = [k \in 0 .. N |-> m0[k]]
    OBVIOUS
  <2>4. \A k \in 0 .. N :
          m0[k] = IF k = 0 THEN {x} ELSE {NextName(e, y, stops) : y \in m0[k - 1]}
    <3> HIDE DEF m0
    <3> QED BY <2>1, <2>2
  <2> HIDE DEF m0
  <2> QED BY <2>3, <2>4 DEF WalkMet
<1>4. ASSUME NEW met, WalkMet(met, e, x, stops) PROVE \A k \in 0 .. N : met[k] = {h[k]}
  <2> DEFINE A == {k \in 0 .. N : met[k] = {h[k]}}
  <2>1. \A k \in 0 .. N :
          met[k] = IF k = 0 THEN {x} ELSE {NextName(e, y, stops) : y \in met[k - 1]}
    BY <1>4 DEF WalkMet
  <2>2. 0 \in 0 .. N /\ 0 \in A
    <3>1. 0 \in 0 .. N
      OBVIOUS
    <3> QED BY <1>1, <2>1, <3>1
  <2>3. ASSUME NEW k \in 0 .. N - 1, k \in A PROVE k + 1 \in A
    <3>1. k + 1 \in 1 .. N /\ (k + 1) - 1 = k /\ k + 1 \in 0 .. N /\ k + 1 # 0
      OBVIOUS
    <3>2. met[k] = {h[k]}
      BY <2>3
    <3>3. {NextName(e, y, stops) : y \in met[k]} = {h[k + 1]}
      BY <1>2, <3>1, <3>2
    <3>4. met[k + 1] = {NextName(e, y, stops) : y \in met[k]}
      BY <2>1, <3>1
    <3> QED BY <3>1, <3>3, <3>4
  <2> HIDE DEF A
  <2>4. \A k \in 0 .. N : k \in A
    BY <2>2, <2>3, SameAssumptions, Finder!BoundedInduction
  <2> QED BY <2>4 DEF A
<1> HIDE DEF m0
<1> QED BY <1>3, <1>4 DEF WalksOrbit

LEMMA WalkedIsLast ==
  ASSUME NEW N \in Nat, N = Len(prog), NEW e, NEW stops, NEW T, NEW nx \in [T -> T],
         \A y \in T : NextName(e, y, stops) = nx[y], NEW x \in T,
         NEW h, Orbit(h, N, T, nx, x)
  PROVE  Walked(e, x, stops) = h[N]
<1>1. WalksOrbit(h, N, e, x, stops)
  BY OrbitIsWalked
<1>2. PICK met : met = CHOOSE m : WalkMet(m, e, x, stops)
  OBVIOUS
<1>3. WalkMet(met, e, x, stops)
  BY <1>1, <1>2, Zenon DEF WalksOrbit
<1>4. met[N] = {h[N]}
  BY <1>1, <1>3 DEF WalksOrbit
<1>5. Walked(e, x, stops) = CHOOSE y \in met[N] : TRUE
  BY <1>2, Zenon DEF Walked, WalkMet
<1> QED BY <1>4, <1>5

LEMMA SameWalk ==
  ASSUME CheckerInv, Finder!St!Built, TypeNamesClear, NEW e \in Exprs \ {1},
         NEW q \in Exprs \ {1}, NEW x \in SeenFrom(e, q)
  PROVE  Walked(e, x, {}) = Walked(q, x, {}) /\ Walked(e, x, {}) \in SeenFrom(e, q)
<1>1. PICK T : T = SeenFrom(e, q)
  OBVIOUS
<1>2. PICK nx : nx = [y \in T |-> NextName(e, y, {})]
  OBVIOUS
<1>3. \A y \in T : NextName(e, y, {}) = NextName(q, y, {}) /\ NextName(e, y, {}) \in T
  BY <1>1, SameNextName, Zenon
<1>4. /\ nx \in [T -> T]
      /\ \A y \in T : NextName(e, y, {}) = nx[y]
      /\ \A y \in T : NextName(q, y, {}) = nx[y]
  BY <1>2, <1>3
<1>5. PICK N \in Nat : N = Len(prog)
  BY ProgramsAssumption DEF CheckerInv, Places, IsProgram, IsTree
<1>6. x \in T
  BY <1>1
<1>7. PICK h : Orbit(h, N, T, nx, x)
  BY <1>4, <1>6, OrbitExists
<1>8. Walked(e, x, {}) = h[N]
  BY <1>4, <1>5, <1>6, <1>7, WalkedIsLast
<1>9. Walked(q, x, {}) = h[N]
  BY <1>4, <1>5, <1>6, <1>7, WalkedIsLast
<1>10. h[N] \in T
  BY <1>7 DEF Orbit
<1> QED BY <1>1, <1>8, <1>9, <1>10

\* A walk that goes nowhere has ended where it began.
LEMMA StandingWalk ==
  ASSUME prog \in Programs, NEW e, NEW x, NextName(e, x, {}) = x
  PROVE  Walked(e, x, {}) = x
<1>1. PICK T : T = {x}
  OBVIOUS
<1>2. PICK nx : nx = [y \in T |-> x]
  OBVIOUS
<1>3. nx \in [T -> T] /\ (\A y \in T : NextName(e, y, {}) = nx[y]) /\ x \in T
  BY <1>1, <1>2
<1>4. PICK N \in Nat : N = Len(prog)
  BY ProgramsAssumption DEF IsProgram, IsTree
<1>5. PICK h : Orbit(h, N, T, nx, x)
  BY <1>3, OrbitExists
<1>6. Walked(e, x, {}) = h[N]
  BY <1>3, <1>4, <1>5, WalkedIsLast
<1>7. h[N] \in T
  BY <1>5 DEF Orbit
<1> QED BY <1>1, <1>6, <1>7

\* The body of a function and the value of a variable.
LEMMA FirstKidFacts ==
  ASSUME prog \in Programs, NEW n \in Nodes,
         Kind(n) \in {"VariableDeclaration", "FunctionDeclaration"}
  PROVE  Kid(n, 1) \in Exprs \ {1}
<1>1. n \in Finder!Nodes /\ Finder!Kind(n) \in {"VariableDeclaration", "FunctionDeclaration"}
  BY DEF Nodes, NodesOf, Kind, Finder!Nodes, Finder!NodesOf, Finder!Kind
<1>2. Finder!Kid(n, 1) \in Finder!Exprs
  BY <1>1, SameAssumptions, Finder!KidSorts
<1>3. Kid(n, 1) \in Exprs
  BY <1>2 DEF Exprs, IsExpr, Kind, Nodes, NodesOf, ExprKinds, Kid, Finder!Exprs,
       Finder!IsExpr, Finder!Kind, Finder!Nodes, Finder!NodesOf, Finder!ExprKinds, Finder!Kid
<1>4. 1 \in DOMAIN prog[n].kids
  <2>1. IsShaped(prog) /\ n \in NodesOf(prog)
    BY ProgramsAssumption DEF IsProgram, Nodes
  <2>2. prog[n].kind \in {"VariableDeclaration", "FunctionDeclaration"}
    BY DEF Kind
  <2>3. prog[n].kind \notin Vectors
    BY <2>2 DEF Vectors
  <2>4. DOMAIN prog[n].kids = DOMAIN Children(prog[n].kind)
    BY <2>1, <2>3, Zenon DEF IsShaped
  <2>5. 1 \in DOMAIN Children(prog[n].kind)
    BY <2>2 DEF Children, Childless
  <2> QED BY <2>4, <2>5
<1>5. n < Kid(n, 1)
  BY <1>4, TreeFacts
<1>6. Kid(n, 1) # 1
  BY <1>5, Numbers
<1> QED BY <1>3, <1>6

LEMMA ParamFacts ==
  ASSUME prog \in Programs, NEW f \in Nodes, Kind(f) = "FunctionDeclaration"
  PROVE  /\ DOMAIN prog[f].params = 1 .. Len(prog[f].params)
         /\ \A i \in DOMAIN prog[f].params :
              prog[f].params[i] \in Nodes /\ Kind(prog[f].params[i]) = "TypeField"
<1>1. prog[f].params \in Seq(Nodes)
  <2>1. prog[f] \in Node(prog)
    BY ProgramsAssumption DEF IsProgram, Nodes, NodesOf
  <2> QED BY <2>1 DEF Node, Nodes
<1>2. ASSUME NEW i \in DOMAIN prog[f].params PROVE Kind(prog[f].params[i]) = "TypeField"
  <2>1. prog[f].params[i] \in ParamsOf(prog, f)
    BY DEF ParamsOf
  <2>2. \A m \in ParamsOf(prog, f) :
          prog[m].kind = IF prog[f].kind = "RecordLiteral" THEN "FieldAssignment" ELSE "TypeField"
    BY ProgramsAssumption DEF IsProgram, IsShaped, Nodes
  <2> QED BY <2>1, <2>2 DEF Kind
<1> QED BY <1>1, <1>2

\* What an accepted call with a variable for an argument comes down to.
ArgumentAccepted(e, j, v) ==
  /\ WalkEnds(e, ParameterType(e, j), {})
  /\ prog[v].type = Unaliased(e, ParameterType(e, j))

LEMMA VariableAccepted ==
  ASSUME CheckerInv, Finder!St!Built, TypeNamesClear, reports = {},
         NEW e \in Nodes, NEW j \in Arguments(e), ArgumentTold(e, j),
         Kind(Kid(e, j)) = "LValue", Kind(Kid(Kid(e, j), 1)) = "Identifier",
         NEW v, v = lookupVariable(Kid(e, j), prog[Kid(Kid(e, j), 1)].id),
         v # Null, prog[v].type # NoType
  PROVE  ArgumentAccepted(e, j, v) /\ v \in Nodes /\ Kind(v) = "VariableDeclaration"
<1>1. PICK arg : arg = Kid(e, j)
  OBVIOUS
<1>2. PICK id : id = prog[Kid(arg, 1)].id
  OBVIOUS
<1>3. Kind(arg) = "LValue" /\ Kind(Kid(arg, 1)) = "Identifier" /\ prog \in Programs
  BY <1>1 DEF CheckerInv, Places
<1>4. arg \in Exprs \ {1}
  BY <1>1, <1>3, ArgumentFacts
<1>5. arg \in Finder!Exprs /\ arg \in Finder!Nodes /\ Finder!Kind(arg) = "LValue"
      /\ Finder!Kid(arg, 1) = Kid(arg, 1)
  BY <1>3, <1>4 DEF Exprs, IsExpr, Kind, Nodes, NodesOf, ExprKinds, Finder!Exprs,
       Finder!IsExpr, Finder!Kind, Finder!Nodes, Finder!NodesOf, Finder!ExprKinds,
       Kid, Finder!Kid
<1>6. id \in Identifiers
  <2>1. Kid(arg, 1) \in Finder!Nodes
    BY <1>3, <1>5, SameAssumptions, Finder!KidSorts
  <2>2. Kid(arg, 1) \in Nodes
    BY <2>1 DEF Nodes, NodesOf, Finder!Nodes, Finder!NodesOf
  <2>3. prog[Kid(arg, 1)] \in Node(prog)
    BY <1>3, <2>2, ProgramsAssumption DEF IsProgram, Nodes, NodesOf
  <2> QED BY <1>2, <2>3 DEF Node
<1>7. v = lookupStorageLocation(arg, id) /\ Kind(v) = "VariableDeclaration"
  BY <1>1, <1>2 DEF lookupVariable
<1>8. lookupStorageLocation(arg, id) = Finder!lookupStorageLocation(arg, id)
      /\ Null = Finder!Null
  BY Zenon
     DEF lookupStorageLocation, FirstScope, NoScope, Null, Finder!lookupStorageLocation,
         Finder!FirstScope, Finder!NoScope, Finder!Null
<1>9. v \in Nodes
  <2>1. Finder!Table!LookupInv
    BY Zenon DEF CheckerInv, Finder!FinderInv
  <2>2. Finder!lookupStorageLocation(arg, id) # Finder!Null =>
          Finder!lookupStorageLocation(arg, id) \in Finder!Nodes
    BY <1>5, <1>6, <2>1, SameAssumptions, Finder!Lookups
  <2>3. v \in Finder!Nodes
    BY <1>7, <1>8, <2>2
  <2> QED BY <2>3 DEF Nodes, NodesOf, Finder!Nodes, Finder!NodesOf
<1>10. cache[arg] # Uncached /\ cache[arg] \in {Unaliased(e, ParameterType(e, j)), "NOTYPE"}
  <2>1. ~ IsNil(arg)
    BY <1>3 DEF IsNil
  <2> QED BY <1>1, <2>1 DEF ArgumentTold
<1>11. cache[arg] = prog[v].type
  <2>1. Finder!CacheAgrees
    BY SameAssumptions, Finder!CacheFollowsRules DEF CheckerInv
  <2>2. Finder!Delegate(arg) = Finder!Null
    BY <1>5 DEF Finder!Delegate
  <2>3. PICK d : d = Finder!lookupStorageLocation(arg, prog[Finder!Kid(arg, 1)].id)
    OBVIOUS
  <2>4. Finder!Kind(Finder!Kid(arg, 1)) = "Identifier"
    BY <1>3, <1>5 DEF Kind, Finder!Kind
  <2>5. cache[arg] = IF d = Finder!Null THEN "NOTYPE"
                     ELSE IF Finder!Kind(d) = "For" THEN "int"
                     ELSE IF prog[d].type # NoType THEN prog[d].type
                     ELSE cache[Finder!Kid(d, 1)]
    BY <1>5, <1>10, <2>1, <2>2, <2>3, <2>4, Zenon DEF Finder!CacheAgrees
  <2>6. d = v
    BY <1>2, <1>5, <1>7, <1>8, <2>3
  <2>7. Finder!Kind(v) = "VariableDeclaration"
    BY <1>7 DEF Kind, Finder!Kind
  <2> QED BY <1>8, <2>5, <2>6, <2>7
<1>12. prog[v].type # "NOTYPE"
  BY <1>9, Zenon DEF TypeNamesClear
<1> QED BY <1>7, <1>9, <1>10, <1>11, <1>12 DEF ArgumentTold, ArgumentAccepted

\* The parameter of a call's argument: its type is seen from the call and from
\* the body of the function.
LEMMA ParameterSeen ==
  ASSUME CheckerInv, Finder!St!Built, TypeNamesClear, NEW e \in Exprs,
         NEW j \in Arguments(e)
  PROVE  /\ e # 1 /\ Kid(Function(e), 1) \in Exprs \ {1}
         /\ ParameterType(e, j) \in SeenFrom(e, Kid(Function(e), 1))
<1>1. PICK f : f = Function(e)
  OBVIOUS
<1>2. PICK p : p = prog[f].params[j]
  OBVIOUS
<1>3. prog \in Programs /\ Finder!Table!LookupInv
  BY Zenon DEF CheckerInv, Places, Finder!FinderInv
<1>4. /\ Kind(e) = "FunctionCall" /\ f # Null
      /\ Len(prog[e].kids) = Len(prog[f].params)
      /\ DOMAIN prog[e].kids = 1 .. Len(prog[e].kids) /\ j \in DOMAIN prog[e].kids
  BY <1>1, <1>3, ArgumentFacts DEF Exprs
<1>5. e \in Finder!Exprs
  BY DEF Exprs, IsExpr, Kind, Nodes, NodesOf, ExprKinds, Finder!Exprs, Finder!IsExpr,
         Finder!Kind, Finder!Nodes, Finder!NodesOf, Finder!ExprKinds
<1>6. PICK x : x = prog[e].id
  OBVIOUS
<1>7. x \in Identifiers
  <2>1. prog[e] \in Node(prog)
    BY <1>3, ProgramsAssumption DEF IsProgram, Exprs, Nodes, NodesOf
  <2> QED BY <1>6, <2>1 DEF Node
<1>8. f = Finder!lookupFunction(e, x) /\ Null = Finder!Null
  <2>1. lookupFunction(e, x) = Finder!lookupFunction(e, x) /\ Null = Finder!Null
    BY Zenon DEF lookupFunction, FirstScope, NoScope, Null, Finder!lookupFunction,
                 Finder!FirstScope, Finder!NoScope, Finder!Null
  <2> QED BY <1>1, <1>6, <2>1 DEF Function
<1>9. f \in Nodes /\ Kind(f) = "FunctionDeclaration" /\ f \in Finder!Nodes
      /\ Finder!Kind(f) = "FunctionDeclaration"
  <2>1. f \in Finder!Nodes /\ Finder!Kind(f) = "FunctionDeclaration"
    BY <1>3, <1>4, <1>5, <1>7, <1>8, SameAssumptions, Finder!Lookups
  <2> QED BY <2>1 DEF Nodes, NodesOf, Kind, Finder!Nodes, Finder!NodesOf, Finder!Kind
<1>10. /\ DOMAIN prog[f].params = 1 .. Len(prog[f].params)
       /\ \A i \in DOMAIN prog[f].params :
            prog[f].params[i] \in Nodes /\ Kind(prog[f].params[i]) = "TypeField"
  BY <1>3, <1>9, ParamFacts
<1>11. j \in DOMAIN prog[f].params
  BY <1>4, <1>10
<1>12. p \in Nodes /\ Kind(p) = "TypeField" /\ p \in ParamsOf(prog, f)
  BY <1>2, <1>10, <1>11 DEF ParamsOf
<1>13. prog[p].type \in Identifiers
  <2>1. p \in Finder!Nodes /\ Finder!Kind(p) = "TypeField"
    BY <1>12 DEF Nodes, NodesOf, Kind, Finder!Nodes, Finder!NodesOf, Finder!Kind
  <2> QED BY <1>3, <2>1, SameAssumptions, Finder!TypedNodes
<1>14. PICK y : y = prog[p].type
  OBVIOUS
<1>15. Finder!Table!NamedWithin(p, y)
  BY <1>12, <1>14, TypesNamedWithin
<1>16. p \in Finder!ParamsOf(prog, f)
  BY <1>12, Zenon DEF ParamsOf, Finder!ParamsOf
<1>17. /\ e # 1
       /\ Finder!Table!Sees(e, y) /\ Finder!Table!Sees(Finder!Kid(f, 1), y)
  BY <1>3, <1>4, <1>5, <1>7, <1>8, <1>15, <1>16, SameAssumptions,
     Finder!ParametersAround
<1>18. Kid(f, 1) = Finder!Kid(f, 1)
  BY Zenon DEF Kid, Finder!Kid
<1>19. Kid(f, 1) \in Exprs \ {1}
  BY <1>3, <1>9, FirstKidFacts
<1>20. ParameterType(e, j) = y
  BY <1>1, <1>2, <1>14 DEF ParameterType
<1>21. y \in SeenFrom(e, Kid(f, 1))
  BY <1>13, <1>14, <1>17, <1>18 DEF SeenFrom
<1> QED BY <1>1, <1>17, <1>19, <1>20, <1>21

LEMMA ArgumentMatched ==
  ASSUME CheckerInv, Finder!St!Built, TypeNamesClear, NEW e \in Exprs,
         NEW j \in Arguments(e), NEW v \in Nodes, Kind(v) = "VariableDeclaration",
         prog[v].type # NoType, ArgumentAccepted(e, j, v)
  PROVE  /\ lookupUnaliasedType(Kid(v, 1), prog[v].type) =
              lookupUnaliasedType(Kid(Function(e), 1), ParameterType(e, j))
         /\ Unaliased(Kid(v, 1), prog[v].type) =
              Unaliased(Kid(Function(e), 1), ParameterType(e, j))
<1>1. PICK b : b = Kid(Function(e), 1)
  OBVIOUS
<1>2. PICK i : i = Kid(v, 1)
  OBVIOUS
<1>3. PICK y : y = ParameterType(e, j)
  OBVIOUS
<1>4. PICK u : u = Walked(e, y, {})
  OBVIOUS
<1>5. e \in Exprs \ {1} /\ b \in Exprs \ {1} /\ y \in SeenFrom(e, b)
  BY <1>1, <1>3, ParameterSeen
<1>6. prog[v].type = u /\ WalkEnds(e, y, {})
  BY <1>3, <1>4 DEF ArgumentAccepted, Unaliased
<1>7. Walked(b, y, {}) = u /\ u \in SeenFrom(e, b)
  BY <1>4, <1>5, SameWalk
<1>8. lookupType(b, u) = lookupType(e, u)
  BY <1>5, <1>7, SameTypes
<1>9. prog \in Programs
  BY DEF CheckerInv, Places
<1>10. i \in Exprs \ {1}
  BY <1>2, <1>9, FirstKidFacts
<1>11. u \in SeenFrom(e, i)
  <2>1. Finder!Table!NamedWithin(v, u)
    BY <1>6, TypesNamedWithin
  <2>2. v \in Finder!Nodes /\ Finder!Kind(v) = "VariableDeclaration"
    BY DEF Nodes, NodesOf, Kind, Finder!Nodes, Finder!NodesOf, Finder!Kind
  <2>3. Finder!Table!Sees(Finder!Kid(v, 1), u)
    BY <1>9, <2>1, <2>2, SameAssumptions, Finder!VariablesAround
  <2>4. i = Finder!Kid(v, 1)
    BY <1>2, Zenon DEF Kid, Finder!Kid
  <2> QED BY <1>7, <2>3, <2>4 DEF SeenFrom
<1>12. lookupType(i, u) = lookupType(e, u)
  BY <1>5, <1>10, <1>11, SameTypes
<1>13. ~ GoesOn(lookupType(i, u), {})
  BY <1>4, <1>6, <1>12 DEF WalkEnds
<1>14. NextName(i, u, {}) = u
  BY <1>13, Zenon DEF NextName
<1>15. Walked(i, u, {}) = u
  BY <1>9, <1>14, StandingWalk
<1>16. /\ Unaliased(i, prog[v].type) = u /\ Unaliased(b, y) = u
       /\ lookupUnaliasedType(i, prog[v].type) = lookupType(i, u)
       /\ lookupUnaliasedType(b, y) = lookupType(b, u)
  BY <1>6, <1>7, <1>15, Zenon DEF Unaliased, lookupUnaliasedType
<1> QED BY <1>1, <1>2, <1>3, <1>8, <1>12, <1>16

\* In a program without a message whose type names are clear, a variable handed
\* to a function is of the type of its parameter, though FunctionCallChecker
\* looks the parameter's type up from the call and not from the function
\* (checker.cc:230).
THEOREM ArgumentsOfParametersTypes == Spec => []ArgumentsMatch
<1>1. CheckerInv /\ ArgumentsTold => ArgumentsMatch
  <2> SUFFICES ASSUME CheckerInv, ArgumentsTold, Accepted, TypeNamesClear,
                      NEW e \in Exprs, NEW j \in Arguments(e)
               PROVE  ArgumentMatches(e, j)
    BY Zenon DEF ArgumentsMatch
  <2> e \in Nodes
    BY DEF Exprs
  <2>1. HasPassed(6, e) /\ HasPassed(1, 1) /\ reports = {}
    BY SevenPasses DEF Accepted, Done, HasPassed, CheckerInv, Places
  <2>2. Finder!St!Built
    BY <2>1 DEF CheckerInv, Tf!St!Built, Finder!St!Built
  <2>3. ArgumentTold(e, j)
    BY <2>1, Zenon DEF ArgumentsTold
  <2>4. PICK v : v = IF Kind(Kid(e, j)) = "LValue" /\ Kind(Kid(Kid(e, j), 1)) = "Identifier"
                     THEN lookupVariable(Kid(e, j), prog[Kid(Kid(e, j), 1)].id) ELSE Null
    OBVIOUS
  <2>5. ASSUME v # Null, prog[v].type # NoType
        PROVE  /\ lookupUnaliasedType(Kid(v, 1), prog[v].type) =
                    lookupUnaliasedType(Kid(Function(e), 1), ParameterType(e, j))
               /\ Unaliased(Kid(v, 1), prog[v].type) =
                    Unaliased(Kid(Function(e), 1), ParameterType(e, j))
    <3>1. /\ Kind(Kid(e, j)) = "LValue" /\ Kind(Kid(Kid(e, j), 1)) = "Identifier"
          /\ v = lookupVariable(Kid(e, j), prog[Kid(Kid(e, j), 1)].id)
      BY <2>4, <2>5
    <3>2. ArgumentAccepted(e, j, v) /\ v \in Nodes /\ Kind(v) = "VariableDeclaration"
      BY <2>1, <2>2, <2>3, <2>5, <3>1, VariableAccepted
    <3> QED BY <2>2, <2>5, <3>2, ArgumentMatched
  <2> QED BY <2>4, <2>5, Zenon DEF ArgumentMatches
<1> QED BY <1>1, CheckerInvariant, ArgumentsInvariant, PTL
=============================================================================
