------------------------------ MODULE MCChecker ------------------------------
(***************************************************************************)
(* Programs, in the notation of module Trees, that break every rule of     *)
(* checker.cc and programs that break none, with loops in loops, circles   *)
(* of aliases and names declared twice.                                    *)
(***************************************************************************)
EXTENDS Checker, Trees

Names == {"int", "string", "NOTYPE", "_", "a", "f", "R", "A"}

Loops ==
  <<"(", "while", "break",
           "while", "1", "(", "break", "while", "1", "break", ")",
         "for", "a", "1", "ifelse", "1", "1", "s",
           "(", ":=", "id", "a", "1", "while", "s", "1", ")",
         "break", ":=", "id", "a", "1", ")">>
LoopInFunction ==
  <<"let", "function", "f", "-",
             "(", "for", "a", "1", "1", ":=", "id", "a", "1", "break", ")",
           "var", "R", "int", "1",
    "while", "1",
      "let", "var", "f", "int", "1", ":=", "id", "f", "1", "break", ")", ")">>
Circles ==
  <<"let", "type", "a", "f", "type", "f", "R", "type", "R", "f",
           "var", "a", "-", "1", "type", "A", "A",
           "record", "int", "field", "a", "int", ")", "type", "string", "int",
    "1", ")">>
Duplicates ==
  <<"let", "type", "a", "int", "type", "a", "R", "array", "R", "a",
           "type", "R", "f", "function", "f", "int", "1", "function", "f", "int", "s",
           "function", "a", "-", "1", "function", "R", "-", "(", ")",
    "nil", ")">>
Records ==
  <<"let", "record", "R", "field", "a", "int", "field", "f", "R", ")",
           "type", "A", "R", "type", "f", "int", "array", "a", "R",
    "new", "A", "init", "a", "init", "f", "1", "new", "R", ")", ")",
    "new", "R", "init", "f", "init", "f", "1", "s", ")",
    "new", "f", ")", "new", "a", ")", "new", "_", ")", ")">>
Operators ==
  <<"let", "record", "R", "field", "a", "int", ")", "var", "a", "R", "nil",
           "var", "f", "-", "nil", "var", "A", "int", "nil",
           "var", "R", "int", "s", "var", "_", "-", "(", ")",
    "<", "1", "s", "<", "nil", "lv", "id", "a", "&", "1", "s", "+", "nil", "nil",
    "+", "lv", "id", "a", "nil", ":=", "id", "a", "nil", ":=", "id", "A", "nil",
    ":=", "dot", "a", "id", "a", "1", "if", "s", "(", ")",
    "ifelse", "1", "nil", "1", ")">>
Calls ==
  <<"let", "function", "f", "int", "field", "a", "A", "field", "R", "R", "1",
           "record", "R", "field", "a", "int", ")", "type", "A", "int",
           "var", "a", "R", "nil",
    "call", "f", "1", "lv", "id", "a", ")", "call", "f", "nil", "nil", ")",
    "call", "f", "lv", "id", "a", "(", ")", ")", "call", "f", ")",
    "call", "a", ")", ")">>

\* Accepted without a message: a record handed to a parameter whose type is an
\* alias of its own.
Legal ==
  <<"let", "record", "R", "field", "a", "int", ")", "type", "A", "R",
           "function", "f", "R", "field", "a", "A", "field", "f", "int",
             "lv", "id", "R",
           "var", "R", "R", "new", "R", "init", "a", "1", ")",
           "var", "a", "int", "1",
    "while", "<", "1", "lv", "id", "a",
      "if", "&", "1", "1", "(", "call", "f", "nil", "1", ")", "break", ")",
    "+", "lv", "id", "R", "nil", "call", "f", "lv", "id", "R", "lv", "id", "a", ")", ")">>

\* A call out of a Let with types of its own.
CalledFromInside ==
  <<"let", "record", "R", "field", "a", "int", ")", "type", "f", "R",
           "function", "f", "int", "field", "a", "f", "1",
    "let", "type", "A", "R", "var", "a", "R", "new", "R", "init", "a", "1", ")",
      "call", "f", "lv", "id", "a", ")", ")", ")">>

\* One wrong argument, nothing else.
WrongArgument ==
  <<"let", "record", "R", "field", "a", "int", ")",
           "function", "f", "int", "field", "a", "R", "1", "var", "a", "int", "1",
    "call", "f", "lv", "id", "a", ")", ")">>

\* One undeclared name that a value comes from, and undeclared ones that
\* nobody uses the value of.
NotDeclared ==
  <<"let", "function", "f", "int", "field", "a", "int", "1",
    "call", "f", "(", "nil", "let", "lv", "id", "R", ")", ")", ")", ")">>
NotUsed ==
  <<"(", "call", "f", ")", ":=", "id", "a", "1", "lv", "id", "a", "1", ")">>

\* Walks without an end, one for each checker that walks, and a recursion
\* without one.
InCircle(text) ==
  <<"let", "type", "A", "R", "type", "R", "A">> \o text \o <<")">>
Unending ==
  {InCircle(<<"var", "a", "A", "nil", "1">>),
   InCircle(<<"new", "A", ")">>),
   InCircle(<<"+", "nil", "newarray", "A", "1", "1">>),
   InCircle(<<"function", "f", "A", "field", "a", "A", ":=", "id", "a", "nil">>),
   InCircle(<<"function", "f", "int", "field", "a", "int", "field", "f", "R",
                "field", "a", "int", "1",
              "call", "f", "1", "1", "call", "A", ")", ")">>),
   InCircle(<<"function", "f", "int", "field", "a", "A", "lv", "dot", "a", "id", "a">>),
   <<"let", "function", "f", "-", "call", "f", ")", ")">>}

AllPrograms ==
  {Program(text) : text \in {Loops, LoopInFunction, Circles, Duplicates, Records,
                             Operators, Calls, Legal, CalledFromInside,
                             WrongArgument, NotDeclared, NotUsed} \cup Unending}

\* What the documentation says and the code does not do.
LoopBeforeNamesake ==
  <<"let", "var", "R", "int",
             "(", "for", "a", "1", "1", ":=", "id", "a", "1", "1", ")",
           "var", "a", "int", "1", "1", ")">>
Shadowed ==
  <<"let", "record", "R", "field", "a", "int", ")",
           "var", "a", "R", "new", "R", "init", "a", "1", ")",
    "let", "record", "R", "field", "f", "string", ")",
           "function", "f", "string", "field", "A", "R", "lv", "dot", "f", "id", "A",
      "call", "f", "lv", "id", "a", ")", ")", ")">>
AliasHandedOn ==
  <<"let", "type", "A", "int", "var", "a", "A", "1",
           "function", "f", "int", "field", "R", "A", "1",
    "call", "f", "lv", "id", "a", ")", ")">>
DocumentedPrograms ==
  {Program(text) : text \in {LoopBeforeNamesake, Shadowed, AliasHandedOn}}
=============================================================================
