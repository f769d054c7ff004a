------------------------------ MODULE Lookups ------------------------------
(***************************************************************************)
(* What class St of symbol_table.cc answers about a tree.                  *)
(*                                                                         *)
(* A Scope is numbered by its place in the vector scopes, from 1 (its id   *)
(* plus one), and NoScope is the null pointer.  Its three maps give a node *)
(* number for a name, Null when the name is absent.                        *)
(***************************************************************************)
EXTENDS Syntax

VARIABLES prog,               \* the tree Build was called on
          scopes,
          scope_by_expr

Null    == 0
NoScope == 0
Nodes   == NodesOf(prog)
Kind(n) == prog[n].kind
IsExpr(n) == Kind(n) \in ExprKinds
Exprs   == {n \in Nodes : IsExpr(n)}
Kid(n, j)  == prog[n].kids[j]
LastKid(n) == Kid(n, Len(prog[n].kids))

\* The first scope on the parent chain of expression e whose map has name x.
FirstScope(e, map, x) ==
  LET search[s \in 0 .. Len(scopes)] ==
        IF s = NoScope \/ scopes[s][map][x] # Null THEN s
        ELSE search[scopes[s].parent]
  IN  search[scope_by_expr[e]]

lookupFunction(e, x) ==
  LET s == FirstScope(e, "function", x)
  IN  IF s = NoScope THEN Null ELSE scopes[s].function[x]

lookupStorageLocation(e, x) ==
  LET s == FirstScope(e, "storage", x)
  IN  IF s = NoScope THEN Null ELSE scopes[s].storage[x]

lookupVariable(e, x) ==
  LET d == lookupStorageLocation(e, x)
  IN  IF d # Null /\ Kind(d) = "VariableDeclaration" THEN d ELSE Null

lookupType(e, x) ==
  LET s == FirstScope(e, "type", x)
  IN  IF s = NoScope THEN Null ELSE scopes[s].type[x]

getDefiningScope(e, x) == FirstScope(e, "storage", x)

\* A type declaration's name for another one, NoType for records and arrays.
AliasOf(d) == IF prog[d].form = "alias" THEN prog[d].type ELSE NoType
=============================================================================
