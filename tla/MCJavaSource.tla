---------------------------- MODULE MCJavaSource ----------------------------
(***************************************************************************)
(* Programs, in the notation of module Trees, whose functions and Lets are *)
(* nested, share names and call each other across scopes, and whose array  *)
(* literals stand in every place an assignment or a declaration has.       *)
(***************************************************************************)
EXTENDS JavaSource, Trees

Names == {"int", "string", "NOTYPE", "_", "a", "b", "f", "g", "A", "R"}

\* A function calls itself and its neighbours from a Let inside another one,
\* and shares its name with a function of a sibling scope.
Nested ==
  <<"let", "var", "a", "-", "1",
      "function", "f", "int", "field", "b", "int",
        "let", "var", "a", "-", "lv", "id", "b",
          "function", "g", "int", "field", "a", "int",
            "+", "call", "f", "lv", "id", "a", ")", "lv", "id", "b",
          "call", "g", "call", "f", "lv", "id", "a", ")", ")", ")",
      "function", "g", "int",
        "let", "function", "f", "-", "call", "g", ")", "call", "f", ")", ")",
    "(", "call", "f", "lv", "id", "a", ")", "call", "g", ")", ")", ")">>

\* Sibling Lets, one of them in the bounds of a loop, one without a body.
Siblings ==
  <<"let", "var", "a", "-", "let", "var", "b", "-", "1", "lv", "id", "b", ")",
      "record", "R", "field", "a", "int", ")",
    "for", "b", "let", "var", "a", "int", "lv", "id", "a", "lv", "id", "a", ")", "lv", "id", "a",
      "ifelse", "<", "lv", "id", "b", "lv", "id", "a",
        "let", "var", "b", "-", "lv", "id", "a", "while", "lv", "id", "b", "break", ")",
        "if", "lv", "id", "b", ":=", "id", "a", "lv", "id", "b",
    "let", "var", "b", "-", "lv", "id", "a", ")",
    "lv", "dot", "a", "id", "a", "new", "R", "init", "a", "lv", "id", "a", ")", ")">>

\* Array literals: declared, assigned, assigned inside another assignment,
\* in a subscript, in an argument, in an inner Let and in a function.
Arrays ==
  <<"let", "array", "A", "int", "var", "a", "-", "newarray", "A", "1", "lv", "id", "a",
      "var", "b", "A", "newarray", "A", "(", ":=", "id", "a", "lv", "id", "b", ")", "neg", "lv", "id", "b",
      "function", "f", "-", ":=", "sub", "id", "a", "lv", "id", "b", "newarray", "A", "1", "nil",
    ":=", "sub", "id", "a", "newarray", "A", "1", "lv", "id", "b",
      "(", ":=", "id", "b", "newarray", "A", "1", "lv", "id", "a",
        "newarray", "A", "1", "lv", "id", "b", ")",
    ":=", "id", "a", "newarray", "A", "1", "newarray", "A", "1", "lv", "id", "a",
    ":=", "id", "b", "let", "var", "b", "-", "1", "newarray", "A", "1", "lv", "id", "b", ")",
    "newarray", "A", "1", "call", "f", "s", ")", ")">>

\* The loop's variable in a function, and out of the loop.
Loops ==
  <<"let", "function", "f", "-", "nil",
    "for", "a", "1", "1",
      "let", "function", "f", "-", "lv", "id", "a", "call", "f", ")", ")", ")">>

\* Names nobody declares, at the root and below.
Undeclared == <<"(", "lv", "id", "a", "call", "f", "lv", "id", "a", ")", ")">>

\* Types that lead back to themselves through a record.
Types ==
  <<"(", "let", "type", "g", "A", "array", "A", "R",
      "record", "R", "field", "a", "g", "field", "b", "int", ")",
      "function", "f", "A", "field", "a", "g", "lv", "id", "a",
      "var", "a", "A", "newarray", "A", "1", "new", "R", ")",
      "var", "b", "-", "lv", "dot", "a", "sub", "id", "a", "1",
    "call", "f", "ifelse", "1", "lv", "id", "b", "call", "f", "lv", "id", "a", ")", ")", ")", ")">>

\* Types that do so without, around each place a Java type is printed for, and
\* procedures in those where the type finder is asked.
InCircleOf(text) ==
  <<"let", "type", "A", "R", "array", "R", "A", "let">> \o text \o <<")", ")">>
Asking(text) ==
  <<"let", "function", "f", "-">> \o text \o <<"call", "f", ")", ")">>
Unending ==
  {InCircleOf(<<"var", "a", "R", "nil", "1">>),
   InCircleOf(<<"var", "a", "-", "newarray", "A", "1", "nil", "1">>),
   InCircleOf(<<"function", "f", "-", "field", "a", "A", "nil", "1">>),
   InCircleOf(<<"function", "f", "A", "nil", "1">>),
   InCircleOf(<<"record", "g", "field", "a", "R", ")", "1">>),
   InCircleOf(<<"newarray", "g", "1", "new", "A", ")">>),
   InCircleOf(<<"type", "f", "g", "type", "g", "f", "var", "a", "f", "nil", "1">>),
   Asking(<<"ifelse", "1", "call", "f", ")", "nil">>),
   Asking(<<"newarray", "A", "1", "let", "function", "f", "-", "call", "f", ")",
              "call", "f", ")", ")">>)}

AllPrograms ==
  {Program(text) : text \in {Nested, Siblings, Arrays, Loops, Undeclared, Types}
                             \cup Unending}
LoopPrograms == {Program(Loops)}
=============================================================================
