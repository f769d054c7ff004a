------------------------------- MODULE Program -------------------------------
(***************************************************************************)
(* What emit.h promises of a Program: an assembler with symbolic operands. *)
(*                                                                         *)
(* A client asks for string and integer constants and library functions,   *)
(* gets something that can be pushed or invoked, strings such pushes and   *)
(* calls together into a block of instructions, defines functions from     *)
(* blocks and has the class written out.  Here every instruction names the *)
(* value it pushes or the method it calls; that a class file spreads them  *)
(* over a table of numbered constants (module ClassFile) must not show.    *)
(***************************************************************************)
EXTENDS Integers, Sequences

CONSTANTS Strings,        \* texts given to DefineStringConstant
          Ints,           \* integers given to DefineIntegerConstant
          LibraryNames,   \* names given to LookupLibraryFunction
          Library,        \* library function name -> its descriptor
          Functions,      \* <<name, descriptor>> given to DefineFunction
          MaxArguments    \* bound: arguments of one Call

VARIABLES known,          \* the values the client holds a reference to
          block,          \* the client's block of instructions
          functions,      \* the functions defined so far
          file            \* the class last written out

vars == <<known, block, functions, file>>

\* A value is a string, an integer or a method <<class, name, descriptor>>.
StringValue(t) == [kind |-> "string", texts |-> <<t>>, int |-> 0]
IntValue(i)    == [kind |-> "int", texts |-> <<>>, int |-> i]
Method(c, n, d) == [kind |-> "method", texts |-> <<c, n, d>>, int |-> 0]
NoValue        == [kind |-> "none", texts |-> <<>>, int |-> 0]

PushOf(v)   == [op |-> "push", what |-> v]
InvokeOf(v) == [op |-> "invokestatic", what |-> v]

Constructor ==
  [name |-> "<init>", descriptor |-> "()V",
   body |-> <<[op |-> "aload_0", what |-> NoValue],
              [op |-> "invokespecial",
               what |-> Method("java/lang/Object", "<init>", "()V")],
              [op |-> "return", what |-> NoValue]>>]

NoFile == [class |-> "none", super |-> "none", functions |-> <<>>]

Arguments(S) == UNION {[1 .. n -> S] : n \in 0 .. MaxArguments}

-----------------------------------------------------------------------------

DefineStringConstant(t) ==
  /\ known' = known \cup {StringValue(t)}
  /\ UNCHANGED <<block, functions, file>>

DefineIntegerConstant(i) ==
  /\ known' = known \cup {IntValue(i)}
  /\ UNCHANGED <<block, functions, file>>

LookupLibraryFunction(n) ==
  /\ known' = IF n \in DOMAIN Library
              THEN known \cup {Method("Std", n, Library[n])} ELSE known
  /\ UNCHANGED <<block, functions, file>>

Call(f, args) ==
  /\ f \in known /\ f.kind = "method"
  /\ \A j \in DOMAIN args : args[j] \in known /\ args[j].kind # "method"
  /\ block' = Append(block \o [j \in DOMAIN args |-> PushOf(args[j])],
                     InvokeOf(f))
  /\ UNCHANGED <<known, functions, file>>

DefineFunction(n, d) ==
  /\ functions' = Append(functions,
                         [name |-> n, descriptor |-> d, body |-> block])
  /\ block' = <<>>
  /\ UNCHANGED <<known, file>>

\* The class written has all functions so far and one constructor.
Emit ==
  /\ functions' = IF \E j \in DOMAIN functions : functions[j] = Constructor
                  THEN functions ELSE Append(functions, Constructor)
  /\ file' = [class |-> "Main", super |-> "java/lang/Object",
              functions |-> functions']
  /\ UNCHANGED <<known, block>>

Init ==
  /\ known = {}
  /\ block = <<>>
  /\ functions = <<>>
  /\ file = NoFile

Next ==
  \/ \E t \in Strings : DefineStringConstant(t)
  \/ \E i \in Ints : DefineIntegerConstant(i)
  \/ \E n \in LibraryNames : LookupLibraryFunction(n)
  \/ \E f \in known, args \in Arguments(known) : Call(f, args)
  \/ \E f \in Functions : DefineFunction(f[1], f[2])
  \/ Emit

Spec == Init /\ [][Next]_vars
=============================================================================
