---------------------------- MODULE MCTypeFinder ----------------------------
(***************************************************************************)
(* Programs, in the notation of module Trees, whose types come from        *)
(* aliases, records, arrays, initial values, parameters, loops and         *)
(* recursive functions, and programs with every error type_finder.cc       *)
(* reports.                                                                *)
(***************************************************************************)
EXTENDS TypeFinder, Trees

Names == Reserved \cup {"_", "a", "f", "R", "A"}

\* Elements and fields behind an alias, an inferred variable, a loop's.
Structures ==
  <<"let", "type", "f", "A", "array", "A", "R",
      "record", "R", "field", "a", "int", ")", "var", "a", "f", "nil",
      "var", "f", "-", "lv", "sub", "id", "a", "1",
    "for", "R", "1", "1",
      ":=", "dot", "a", "sub", "id", "a", "lv", "id", "R", "nil",
    "lv", "dot", "a", "id", "f", ")">>

\* Functions with and without a type, calling each other and themselves.
Functions ==
  <<"let", "function", "f", "A", "field", "a", "R", "lv", "id", "a",
      "function", "a", "-", "ifelse", "1", "call", "f", "s", ")", "nil",
      "function", "R", "-", "(", "nil", "call", "R", ")", ")",
    "+", "call", "a", ")", "call", "R", ")", ")">>

\* An error of every kind, met more than once.
Unknown ==
  <<"(", "+", "call", "f", ")", "call", "f", ")",
    ":=", "dot", "f", "id", "a", "nil", "let", ")", "lv", "id", "a", ")">>
Mismatched ==
  <<"let", "record", "R", "field", "a", "int", ")", "array", "A", "int",
      "var", "a", "R", "nil", "var", "f", "A", "nil",
    ":=", "dot", "f", "id", "a", "lv", "dot", "a", "id", "f",
    "lv", "sub", "id", "a", "1", "lv", "sub", "id", "f", "1", ")">>

\* Initial values and aliases that lead back to themselves.
SelfInitialised ==
  <<"let", "var", "a", "-", "neg", "lv", "id", "a",
      "var", "f", "-", "lv", "id", "f",
    "lv", "id", "a", "lv", "id", "f", ")">>
SelfAliased ==
  <<"let", "type", "A", "R", "type", "R", "A", "var", "a", "A", "nil",
    ":=", "dot", "f", "id", "a", "nil", ")">>

\* Two programs the Tiger language allows: a procedure that calls itself, and
\* an inner type named like the one its alias stands for.
RecursiveProcedure ==
  <<"let", "function", "f", "-", "ifelse", "1", "call", "f", ")", "(", ")",
    "call", "f", ")", ")">>
ShadowedType ==
  <<"let", "record", "A", "field", "a", "int", ")", "type", "R", "A",
    "let", "type", "A", "R", "var", "a", "A", "nil",
      "lv", "dot", "a", "id", "a", ")", ")">>

AllPrograms ==
  {Program(text) : text \in {Structures, Functions, Unknown, Mismatched,
                             SelfInitialised, SelfAliased}}
LegalPrograms == {Program(text) : text \in {RecursiveProcedure, ShadowedType}}
=============================================================================
