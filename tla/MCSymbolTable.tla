--------------------------- MODULE MCSymbolTable ---------------------------
(***************************************************************************)
(* Programs for the symbol table, in the notation of module Trees:         *)
(* declarations of the same names in nested Lets, functions and loops, in  *)
(* every order.                                                            *)
(***************************************************************************)
EXTENDS SymbolTable, Trees

Names == {"_", "x", "f"}

Var == <<"lv", "id", "x">>
CallOfOne == <<"call", "f", "1", ")">>
Call == <<"call", "f", ")">>
Uses == {Var, CallOfOne}

\* Declarations whose inner expression is e.
Around(e) ==
  {<<"var", "x", "-">> \o e, <<"function", "f", "-">> \o e,
   <<"function", "f", "-", "field", "x", "x">> \o e}
Leaves == {<<"type", "x", "x">>, <<"var", "x", "-", "1">>}
Loop(e) == <<"for", "x">> \o Var \o <<"1">> \o e
Let(d, e) == <<"let">> \o d \o e \o <<")">>

\* A Let in a Let, as initialiser, function body or body expression, a loop
\* before, after or around it.
Inner ==
  {Let(d, u) : d \in Around(Var) \cup Leaves, u \in Uses}
  \cup {Loop(u) : u \in Uses}
  \cup {<<"(">> \o Loop(Call) \o <<":=", "id", "x">> \o Var \o <<")">>}
Shapes ==
  {Let(d \o l, u) : d \in UNION {Around(e) : e \in Inner}, l \in Leaves, u \in Uses}
  \cup {Let(l \o d, <<"(">> \o u \o e \o <<")">>) :
          l \in Leaves, d \in Around(<<"s">>), u \in Uses, e \in Inner}
  \cup {Loop(e) : e \in Inner}

\* One tree with every kind of node.
Everything ==
  <<"let", "record", "f", "field", "x", "f", ")", "array", "x", "f",
      "var", "x", "f", "new", "f", "init", "x", "nil", ")",
      "function", "f", "x", "field", "x", "x", "field", "f", "f",
        "newarray", "x", "1", "lv", "id", "x",
      "function", "f", "-", "while", "1", "break",
    ":=", "dot", "x", "sub", "id", "x", "neg", "1", "nil",
    "ifelse", "+", "1", "lv", "sub", "id", "x", "call", "f", "s", "nil", ")",
      "if", "1", "(", ")", "let", ")", ")">>

AllPrograms == {Program(text) : text \in Shapes \cup {Everything}}
=============================================================================
