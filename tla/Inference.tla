------------------------------ MODULE Inference ------------------------------
(***************************************************************************)
(* What type_finder.cc answers about an expression, as a function of the   *)
(* tree and its symbol table: the inference rules, apart from the order in *)
(* which calls are made and from what is cached.                           *)
(*                                                                         *)
(* A call of the code need not return: it may ask for its own answer, or   *)
(* follow aliases in a circle.  What a call returns is therefore a set: of *)
(* one element, or empty when there is no return.                          *)
(***************************************************************************)
EXTENDS Lookups

-----------------------------------------------------------------------------
(* What the handlers of operator() ask the tree and the symbol table.      *)

HasBody(n) == prog[n].kids # <<>> /\ Kind(LastKid(n)) \in ExprKinds
Function(e) == lookupFunction(e, prog[e].id)

\* The expression whose type e has, Null if e's type does not come from one.
Delegate(e) ==
  CASE Kind(e) = "Binary" -> Kid(e, 1)
    [] Kind(e) = "IfThenElse" -> Kid(e, 2)
    [] Kind(e) \in {"Let", "Parenthesized"} -> IF HasBody(e) THEN LastKid(e) ELSE Null
    [] Kind(e) = "FunctionCall" ->
         IF Function(e) # Null /\ prog[Function(e)].type = NoType
         THEN Kid(Function(e), 1) ELSE Null
    [] OTHER -> Null

\* The type of an expression without a delegate, l-values apart.
OwnType(e) ==
  CASE Kind(e) = "StringConstant" -> "string"
    [] Kind(e) \in {"IntegerConstant", "Negated"} -> "int"
    [] Kind(e) \in {"RecordLiteral", "ArrayLiteral"} -> prog[e].type
    [] Kind(e) = "FunctionCall" /\ Function(e) # Null -> prog[Function(e)].type
    [] OTHER -> "NOTYPE"

NotAFunction(e) == Kind(e) = "FunctionCall" /\ Function(e) = Null

FieldNamed(d, x) ==
  IF \E j \in DOMAIN prog[d].params : prog[prog[d].params[j]].id = x
  THEN prog[d].params[CHOOSE j \in DOMAIN prog[d].params :
         /\ prog[prog[d].params[j]].id = x
         /\ \A i \in 1 .. j-1 : prog[prog[d].params[i]].id # x]
  ELSE Null

-----------------------------------------------------------------------------
(* Who asks whom.                                                          *)

\* The identifier an l-value starts with.
Variable(l) ==
  LET inner[n \in Nodes] ==
        IF Kind(n) \in {"RecordField", "ArrayElement"} THEN inner[Kid(n, 1)] ELSE n
  IN  inner[l]

VariableLocation(e) ==
  lookupStorageLocation(e, prog[Variable(Kid(e, 1))].id)

\* The expression whose type is asked for on the way to e's, Null if none.
AsksFor(e) ==
  IF Kind(e) # "LValue" THEN Delegate(e)
  ELSE LET d == VariableLocation(e) IN
       IF /\ d # Null /\ Kind(d) = "VariableDeclaration"
          /\ prog[d].type = NoType
       THEN Kid(d, 1) ELSE Null

\* Asking on from e comes back to where it was.
Endless(e) ==
  LET asked[k \in 0 .. Len(prog)] ==
        IF k = 0 THEN {e}
        ELSE {AsksFor(last) : last \in asked[k-1]} \ {Null}
  IN  asked[Len(prog)] # {}

-----------------------------------------------------------------------------
(* Answers.                                                                *)

\* The declaration lookupUnaliasedType finds, Null if there is none.
UnaliasedType(e, x) ==
  LET walk[k \in 0 .. Len(prog)] ==
        IF k = 0 THEN {lookupType(e, x)}
        ELSE {IF d = Null \/ AliasOf(d) = NoType THEN d ELSE lookupType(e, AliasOf(d)) :
              d \in walk[k-1]}
  IN  {d \in walk[Len(prog)] : d = Null \/ AliasOf(d) = NoType}

\* The type of part n, a field or an element, of an l-value whose type is
\* declared by d.
PartType(n, d) ==
  CASE d # Null /\ Kind(n) = "ArrayElement" /\ prog[d].form = "array" -> prog[d].type
    [] /\ d # Null /\ Kind(n) = "RecordField" /\ prog[d].form = "record"
       /\ FieldNamed(d, prog[n].id) # Null -> prog[FieldNamed(d, prog[n].id)].type
    [] OTHER -> "NOTYPE"

\* What operator() returns for e.  A call about node n, an expression or an
\* l-value of expression e, makes at most one other; when as many calls as
\* there are nodes are under way, one of them is under way twice.
Answer(e) ==
  LET variable(d) ==
        IF d = Null THEN "NOTYPE" ELSE IF Kind(d) = "For" THEN "int" ELSE prog[d].type
      answer[k \in 0 .. Len(prog), from \in Exprs, n \in Nodes] ==
        IF k = 0 THEN {}
        ELSE CASE Kind(n) = "LValue" -> answer[k-1, n, Kid(n, 1)]
               [] IsExpr(n) /\ Kind(n) # "LValue" ->
                    LET d == Delegate(n) IN
                    IF d # Null THEN answer[k-1, d, d] ELSE {OwnType(n)}
               [] Kind(n) = "Identifier" ->
                    LET d == lookupStorageLocation(from, prog[n].id) IN
                    IF variable(d) # NoType THEN {variable(d)}
                    ELSE answer[k-1, Kid(d, 1), Kid(d, 1)]
               [] OTHER ->
                    {PartType(n, d) : d \in UNION {UnaliasedType(from, t) :
                       t \in answer[k-1, from, Kid(n, 1)]}}
  IN  answer[Len(prog), e, e]
=============================================================================
