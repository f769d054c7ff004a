------------------------------- MODULE Syntax -------------------------------
(***************************************************************************)
(* The abstract syntax tree of syntax.h, as the later passes see it.       *)
(*                                                                         *)
(* A program is a sequence of nodes, one per Expr, LValue, Declaration and *)
(* TypeField object of the tree, numbered in the order VisitChildren       *)
(* reaches them: node 1 is the root Expr, and a node number stands for the *)
(* object's address.  FieldAssignment objects only forward to their Expr,  *)
(* so the kids of a RecordLiteral are the field expressions themselves.    *)
(* Literal values are left out.                                            *)
(*                                                                         *)
(*   kind    the C++ struct                                                *)
(*   id      the name it declares or mentions                              *)
(*   type    the TypeId it mentions, NoType when there is none: declared   *)
(*           type, literal's type, alias target or array element type      *)
(*   form    of a TypeDeclaration's value: "alias", "record" or "array";   *)
(*           of a Binary's operator: "comparison" (<, >, <=, >=),          *)
(*           "logical" (&, |) or "arithmetic" (the others)                 *)
(*   kids    what VisitChildren hands to the visitor, in order             *)
(*   params  TypeField nodes: parameters of a function, fields of a        *)
(*           record; FieldAssignment nodes: the field names of a literal   *)
(*                                                                         *)
(* Two attributes of the tree are recorded for the properties, no code     *)
(* reads them: last, the greatest node number in the subtree, and binder,  *)
(* the innermost Let or FunctionDeclaration around the node (0: none).     *)
(***************************************************************************)
EXTENDS Integers, Sequences

CONSTANTS Identifiers,  \* names of variables, functions, types and fields
          NoType        \* an absent std::optional<TypeId>

ExprKinds ==
  {"StringConstant", "IntegerConstant", "Nil", "LValue", "Negated", "Binary",
   "Assignment", "FunctionCall", "RecordLiteral", "ArrayLiteral", "IfThen",
   "IfThenElse", "While", "For", "Break", "Let", "Parenthesized"}
LValueKinds == {"Identifier", "RecordField", "ArrayElement"}
DeclarationKinds ==
  {"TypeDeclaration", "VariableDeclaration", "FunctionDeclaration"}
NodeKinds == ExprKinds \cup LValueKinds \cup DeclarationKinds
               \cup {"TypeField", "FieldAssignment"}

Forms == {"alias", "record", "array", "comparison", "logical", "arithmetic"}

NodesOf(p) == 1 .. Len(p)
Opens(p, n) == p[n].kind \in {"Let", "FunctionDeclaration"}

Node(p) == [kind : NodeKinds, id : Identifiers, type : Identifiers \cup {NoType},
            form : Forms,
            kids : Seq(NodesOf(p)), params : Seq(NodesOf(p)),
            last : NodesOf(p), binder : 0 .. Len(p)]

ParamsOf(p, n) == {p[n].params[j] : j \in DOMAIN p[n].params}
Below(p, m, n) == n <= m /\ m <= p[n].last

\* A node's children lie after it and its parameters, in disjoint intervals
\* inside its own that leave room for the parameters only, and all of them see
\* the binder the node is or sees.
IsTree(p) ==
  \A n \in NodesOf(p) :
    /\ n <= p[n].last
    /\ \A m \in ParamsOf(p, n) :
         n < m /\ p[m].binder = IF Opens(p, n) THEN n ELSE p[n].binder
    /\ \A j \in DOMAIN p[n].kids :
         LET k == p[n].kids[j] IN
         /\ n < k
         /\ \A m \in ParamsOf(p, n) : m < k
         /\ p[k].last <= p[n].last
         /\ p[k].binder = IF Opens(p, n) THEN n ELSE p[n].binder
         /\ \A i \in DOMAIN p[n].kids : i < j => p[p[n].kids[i]].last < k
    /\ \A m \in NodesOf(p) :
         Below(p, m, n) =>
           \/ m = n
           \/ m \in ParamsOf(p, n)
           \/ \E j \in DOMAIN p[n].kids : Below(p, m, p[n].kids[j])

\* The kinds whose VisitChildren hands nothing over.
Childless ==
  {"StringConstant", "IntegerConstant", "Nil", "Break", "Identifier",
   "TypeDeclaration", "TypeField", "FieldAssignment"}

\* The sorts of node VisitChildren hands over, field by field.  The fields of
\* FunctionCall, RecordLiteral and Parenthesized are vectors of any length,
\* and a Let has its declarations first, then the expressions of its body.
Children(kind) ==
  CASE kind \in {"LValue", "RecordField"} -> <<LValueKinds>>
    [] kind \in {"ArrayElement", "Assignment"} -> <<LValueKinds, ExprKinds>>
    [] kind \in {"Negated", "VariableDeclaration", "FunctionDeclaration"} ->
         <<ExprKinds>>
    [] kind \in {"Binary", "ArrayLiteral", "IfThen", "While"} ->
         <<ExprKinds, ExprKinds>>
    [] kind \in {"IfThenElse", "For"} -> <<ExprKinds, ExprKinds, ExprKinds>>
    [] kind \in Childless -> <<>>
Vectors == {"FunctionCall", "RecordLiteral", "Parenthesized", "Let"}

IsShaped(p) ==
  \A n \in NodesOf(p) :
    LET sort(j) == p[p[n].kids[j]].kind IN
    /\ \A m \in ParamsOf(p, n) :
         p[m].kind = IF p[n].kind = "RecordLiteral" THEN "FieldAssignment" ELSE "TypeField"
    /\ p[n].kind \notin Vectors =>
         /\ DOMAIN p[n].kids = DOMAIN Children(p[n].kind)
         /\ \A j \in DOMAIN p[n].kids : sort(j) \in Children(p[n].kind)[j]
    /\ p[n].kind \in Vectors \ {"Let"} =>
         \A j \in DOMAIN p[n].kids : sort(j) \in ExprKinds
    /\ p[n].kind = "Let" =>
         \A j \in DOMAIN p[n].kids :
           \/ sort(j) \in ExprKinds
           \/ /\ sort(j) \in DeclarationKinds
              /\ \A i \in 1 .. j : sort(i) \in DeclarationKinds

\* The structs whose TypeId is no std::optional: literals, fields, parameters,
\* aliases and arrays name a type.
IsTyped(p) ==
  \A n \in NodesOf(p) :
    \/ p[n].kind \in {"RecordLiteral", "ArrayLiteral", "TypeField"}
    \/ p[n].kind = "TypeDeclaration" /\ p[n].form \in {"alias", "array"}
    => p[n].type # NoType

\* What the parser hands on: p is the sequence of nodes of a tree.
IsProgram(p) ==
  /\ p \in Seq(Node(p))
  /\ Len(p) > 0
  /\ p[1].kind \in ExprKinds
  /\ p[1].binder = 0 /\ p[1].last = Len(p)
  /\ IsTree(p)
  /\ IsShaped(p)
=============================================================================
