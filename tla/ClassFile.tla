------------------------------ MODULE ClassFile ------------------------------
(***************************************************************************)
(* JvmProgram of emit.cc: the Program that writes a Java class file.       *)
(*                                                                         *)
(* Strings, integers, classes and methods live in the constant pool, a     *)
(* vector searched linearly and appended to, and refer to each other, and  *)
(* are referred to by instructions, by their u2 index.  The vector owns    *)
(* its entries through pointers, so what a client holds (a handle) is an   *)
(* entry, here its position, and stays good when the vector grows; the     *)
(* index of an entry is its position narrowed to IndexLimit values, and    *)
(* the operand of ldc is an index narrowed to ByteLimit values.            *)
(*                                                                         *)
(* Left out: access flags, the fixed max_stack and max_locals, and the     *)
(* encoding of the records as bytes.                                       *)
(***************************************************************************)
EXTENDS Integers, Sequences

CONSTANTS Strings, Ints, LibraryNames, Library, Functions, MaxArguments,
                          \* as in Program
          MaxBlock,       \* bound: instructions in a block
          MaxFunctions,   \* bound: functions a client defines
          MaxEmits,       \* bound: calls of Emit
          MaxPool,        \* bound: entries of the constant pool
          IndexLimit,     \* 2^16: the values of a u2
          ByteLimit       \* 2^8: the values of one byte

ASSUME LimitsAssumption ==
  /\ IndexLimit \in Nat /\ ByteLimit \in Nat /\ MaxPool \in Nat
  /\ 0 < ByteLimit /\ ByteLimit <= IndexLimit

ASSUME ClientAssumption ==
  /\ Ints \subseteq Int /\ MaxEmits \in Nat /\ MaxArguments \in Nat
  /\ \A f \in Functions : f = <<f[1], f[2]>>

VARIABLES constant_pool, methods,
          handles,        \* positions of the entries the client refers to
          block,          \* the instructions the client is writing
          file,           \* what the last Emit wrote
          emits           \* calls of Emit so far

vars == <<constant_pool, methods, handles, block, file, emits>>

-----------------------------------------------------------------------------
(* Constants.                                                              *)

Constant(tag, text, int, refs) ==
  [tag |-> tag, text |-> text, int |-> int, refs |-> refs]
Utf8(text)        == Constant("Utf8", text, 0, <<>>)
String(utf8)      == Constant("String", "none", 0, <<utf8>>)
Integer(i)        == Constant("Integer", "none", i, <<>>)
Class(utf8)       == Constant("Class", "none", 0, <<utf8>>)
NameAndType(n, d) == Constant("NameAndType", "none", 0, <<n, d>>)
Methodref(c, nt)  == Constant("Methodref", "none", 0, <<c, nt>>)

\* u2 index = 1 + constant_pool.size() when the entry is adopted.
IndexOf(position) == position % IndexLimit

\* Fault: only Utf8Constant overrides the Matches its search calls.
MatchesUtf8Only(p, i, c) == c.tag = "Utf8" /\ p[i] = c

\* The search loops: the first entry with c's tag that Matches its data.
\* IntegerConstant::Matches(int) is false whatever the value.
Matches(p, i, c) == c.tag # "Integer" /\ p[i] = c
IsFirst(p, i, c) == Matches(p, i, c) /\ \A j \in 1 .. i-1 : ~ Matches(p, j, c)

\* Fault: the position is taken after the vector has grown.
InternPastEnd(p, c) ==
  IF \E i \in DOMAIN p : IsFirst(p, i, c)
  THEN [pool |-> p, at |-> CHOOSE i \in DOMAIN p : IsFirst(p, i, c)]
  ELSE [pool |-> Append(p, c), at |-> Len(p) + 2]

\* Fault: a new entry is put before the others.
InternInFront(p, c) ==
  IF \E i \in DOMAIN p : IsFirst(p, i, c)
  THEN [pool |-> p, at |-> CHOOSE i \in DOMAIN p : IsFirst(p, i, c)]
  ELSE [pool |-> <<c>> \o p, at |-> 1]

\* Find an entry or adopt a new one: the pool afterwards, and its position.
Intern(p, c) ==
  IF \E i \in DOMAIN p : IsFirst(p, i, c)
  THEN [pool |-> p, at |-> CHOOSE i \in DOMAIN p : IsFirst(p, i, c)]
  ELSE [pool |-> Append(p, c), at |-> Len(p) + 1]

utf8Constant(p, text) == Intern(p, Utf8(text))

stringConstant(p, text) ==
  LET utf8 == utf8Constant(p, text)
  IN  Intern(utf8.pool, String(IndexOf(utf8.at)))

integerConstant(p, i) == Intern(p, Integer(i))

\* Fault: the name's entry is taken to be the last one, as if always new.
classConstantOfLast(p, name) ==
  LET utf8 == utf8Constant(p, name)
  IN  Intern(utf8.pool, Class(IndexOf(Len(utf8.pool))))

classConstant(p, name) ==
  LET utf8 == utf8Constant(p, name)
  IN  Intern(utf8.pool, Class(IndexOf(utf8.at)))

nameAndTypeConstant(p, name, descriptor) ==
  LET n == utf8Constant(p, name)
      d == utf8Constant(n.pool, descriptor)
  IN  Intern(d.pool, NameAndType(IndexOf(n.at), IndexOf(d.at)))

methodRefConstant(p, class, name, type) ==
  LET c  == classConstant(p, class)
      nt == nameAndTypeConstant(c.pool, name, type)
  IN  Intern(nt.pool, Methodref(IndexOf(c.at), IndexOf(nt.at)))

-----------------------------------------------------------------------------
(* Instructions.                                                           *)

Instruction(op, operand) == [op |-> op, operand |-> operand]

\* Fault: the short form is used for one index too many.
PushShort(handle) ==
  IF IndexOf(handle) <= ByteLimit
  THEN Instruction("ldc", IndexOf(handle) % ByteLimit)
  ELSE Instruction("ldc_w", IndexOf(handle))

Push(handle) ==
  IF IndexOf(handle) < ByteLimit
  THEN Instruction("ldc", IndexOf(handle) % ByteLimit)
  ELSE Instruction("ldc_w", IndexOf(handle))

Invoke(handle) == Instruction("invokestatic", IndexOf(handle))

IsPushable(handle)  == constant_pool[handle].tag \in {"String", "Integer"}
IsInvocable(handle) == constant_pool[handle].tag = "Methodref"

-----------------------------------------------------------------------------
(* The operations of Program.                                              *)

Fits(p) == Len(p) <= MaxPool

Hand(entry) ==
  /\ Fits(entry.pool)
  /\ constant_pool' = entry.pool
  /\ handles' = handles \cup {entry.at}
  /\ UNCHANGED <<methods, block, file, emits>>

DefineStringConstant(text) == Hand(stringConstant(constant_pool, text))

DefineIntegerConstant(i) == Hand(integerConstant(constant_pool, i))

LookupLibraryFunction(name) ==
  IF name \in DOMAIN Library
  THEN Hand(methodRefConstant(constant_pool, "Std", name, Library[name]))
  ELSE UNCHANGED vars

\* Invocable::Call, into the client's block.
Call(f, args) ==
  /\ Len(block) + Len(args) < MaxBlock
  /\ IsInvocable(f)
  /\ \A j \in DOMAIN args : IsPushable(args[j])
  /\ block' = Append(block \o [j \in DOMAIN args |-> Push(args[j])],
                     Invoke(f))
  /\ UNCHANGED <<constant_pool, methods, handles, file, emits>>

\* The method DefineFunction adds, and the pool afterwards.
NewMethod(p, name, descriptor, code) ==
  LET n == utf8Constant(p, name)
      d == utf8Constant(n.pool, descriptor)
      c == utf8Constant(d.pool, "Code")
  IN  [pool   |-> c.pool,
       method |-> [name |-> IndexOf(n.at), descriptor |-> IndexOf(d.at),
                   code_name |-> IndexOf(c.at), code |-> code]]

DefineFunction(name, descriptor) ==
  LET new == NewMethod(constant_pool, name, descriptor, block) IN
  /\ Len(methods) < MaxFunctions + emits
  /\ Fits(new.pool)
  /\ constant_pool' = new.pool
  /\ methods' = Append(methods, new.method)
  /\ block' = <<>>
  /\ UNCHANGED <<handles, file, emits>>

NewConstructor(p) ==
  LET object == methodRefConstant(p, "java/lang/Object", "<init>", "()V")
  IN  NewMethod(object.pool, "<init>", "()V",
                <<Instruction("aload_0", 0),
                  Instruction("invokespecial", IndexOf(object.at)),
                  Instruction("return", 0)>>)

Emit ==
  LET new   == NewConstructor(constant_pool)
      this  == classConstant(new.pool, "Main")
      super == classConstant(this.pool, "java/lang/Object")
  IN
  /\ emits < MaxEmits
  /\ Fits(super.pool)
  /\ constant_pool' = super.pool
  /\ methods' = Append(methods, new.method)
  /\ file' = [count       |-> IndexOf(Len(super.pool) + 1),
              pool        |-> super.pool,
              this_class  |-> IndexOf(this.at),
              super_class |-> IndexOf(super.at),
              methods     |-> methods']
  /\ emits' = emits + 1
  /\ UNCHANGED <<handles, block>>

NothingWritten ==
  [count |-> 0, pool |-> <<>>, this_class |-> 0, super_class |-> 0,
   methods |-> <<>>]

Init ==
  /\ constant_pool = <<>>
  /\ methods = <<>>
  /\ handles = {}
  /\ block = <<>>
  /\ file = NothingWritten
  /\ emits = 0

Arguments(S) == UNION {[1 .. n -> S] : n \in 0 .. MaxArguments}

Next ==
  \/ \E t \in Strings : DefineStringConstant(t)
  \/ \E i \in Ints : DefineIntegerConstant(i)
  \/ \E n \in LibraryNames : LookupLibraryFunction(n)
  \/ \E f \in handles, args \in Arguments(handles) : Call(f, args)
  \/ \E f \in Functions : DefineFunction(f[1], f[2])
  \/ Emit

Spec == Init /\ [][Next]_vars

-----------------------------------------------------------------------------
(* Properties.                                                             *)

Indices == 0 .. IndexLimit - 1

\* What the entries an entry refers to have to be.
RefTags ==
  [Utf8 |-> <<>>, Integer |-> <<>>, String |-> <<"Utf8">>, Class |-> <<"Utf8">>,
   NameAndType |-> <<"Utf8", "Utf8">>, Methodref |-> <<"Class", "NameAndType">>]

Tags == {"Utf8", "String", "Integer", "Class", "NameAndType", "Methodref"}
\* The texts of Utf8 entries.
ClientTexts ==
  Strings \cup DOMAIN Library \cup {Library[n] : n \in DOMAIN Library}
    \cup {f[1] : f \in Functions} \cup {f[2] : f \in Functions}
OwnTexts ==
  {"Code", "<init>", "()V", "Std", "Main", "java/lang/Object", "none"}
Texts == ClientTexts \cup OwnTexts

Opcodes ==
  {"ldc", "ldc_w", "invokestatic", "invokespecial", "aload_0", "return"}

Entry == [tag : Tags, text : Texts, int : Int, refs : Seq(Indices)]
Code == Seq([op : Opcodes, operand : Indices])
MethodInfo ==
  [name : Indices, descriptor : Indices, code_name : Indices, code : Code]

\* Shapes of the variables; a handle is an entry of the pool.
TypeOK ==
  /\ constant_pool \in Seq(Entry)
  /\ Len(constant_pool) <= MaxPool
  /\ methods \in Seq(MethodInfo)
  /\ handles \subseteq DOMAIN constant_pool
  /\ block \in Code
  /\ file \in [count : Indices, pool : Seq(Entry), this_class : Indices,
              super_class : Indices, methods : Seq(MethodInfo)]
  /\ emits \in 0 .. MaxEmits

At(p, r, tag) == r \in DOMAIN p /\ p[r].tag = tag

\* Every index stored in the pool is that of an earlier entry of the sort the
\* format requires there, whatever texts, constants and class names share
\* entries: the u2 fields of emit.cc's Constants.
ReferencesResolve ==
  \A i \in DOMAIN constant_pool :
    LET c == constant_pool[i] IN
    /\ Len(c.refs) = Len(RefTags[c.tag])
    /\ \A j \in DOMAIN c.refs :
         c.refs[j] < i /\ At(constant_pool, c.refs[j], RefTags[c.tag][j])

\* The search loops find what is there: no entry but an Integer is stored
\* twice, whichever operation stored it first.
EntriesShared ==
  \A i, j \in DOMAIN constant_pool :
    /\ constant_pool[i].tag # "Integer"
    /\ constant_pool[i] = constant_pool[j]
    => i = j

\* An index written into an instruction, a method or another entry is never
\* outdated: entries are neither moved nor changed.
PoolOnlyGrows ==
  [][ /\ Len(constant_pool) <= Len(constant_pool')
      /\ \A i \in DOMAIN constant_pool :
           constant_pool'[i] = constant_pool[i] ]_vars

-----------------------------------------------------------------------------
(* The symbolic program the tables stand for.                              *)

Nothing == Constant("none", "none", 0, <<0, 0>>)
Deref(p, r, tag) == IF At(p, r, tag) THEN p[r] ELSE Nothing
TextAt(p, r) == Deref(p, r, "Utf8").text
ClassAt(p, r) == TextAt(p, Deref(p, r, "Class").refs[1])

\* What the JVM finds at index r, as a value of module Program.
ValueAt(p, r) ==
  LET method == Deref(p, r, "Methodref")
      type   == Deref(p, method.refs[2], "NameAndType")
      none   == [kind |-> "none", texts |-> <<>>, int |-> 0]
  IN  CASE At(p, r, "String") ->
             [none EXCEPT !.kind = "string",
                          !.texts = <<TextAt(p, p[r].refs[1])>>]
        [] At(p, r, "Integer") -> [none EXCEPT !.kind = "int", !.int = p[r].int]
        [] At(p, r, "Methodref") ->
             [none EXCEPT !.kind = "method",
                          !.texts = <<ClassAt(p, method.refs[1]),
                                      TextAt(p, type.refs[1]),
                                      TextAt(p, type.refs[2])>>]
        [] OTHER -> none

Symbolic(p, code) ==
  [j \in DOMAIN code |->
     [op   |-> IF code[j].op \in {"ldc", "ldc_w"} THEN "push" ELSE code[j].op,
      what |-> ValueAt(p, code[j].operand)]]

SymbolicMethods(p, ms) ==
  [j \in DOMAIN ms |->
     [name |-> TextAt(p, ms[j].name),
      descriptor |-> TextAt(p, ms[j].descriptor),
      body |-> IF TextAt(p, ms[j].code_name) = "Code"
               THEN Symbolic(p, ms[j].code) ELSE <<>>]]

\* Nothing can be read from a file whose pool has not the length it says.
SymbolicFile ==
  LET p == IF file.count = Len(file.pool) + 1 THEN file.pool ELSE <<>>
  IN  [class |-> ClassAt(p, file.this_class),
       super |-> ClassAt(p, file.super_class),
       functions |-> SymbolicMethods(p, file.methods)]

Abstract == INSTANCE Program
  WITH known <- {ValueAt(constant_pool, h) : h \in handles},
       block <- Symbolic(constant_pool, block),
       functions <- SymbolicMethods(constant_pool, methods),
       file <- SymbolicFile

\* The class file is the program its client assembled: every push pushes the
\* value the client asked for and every call names its method, in blocks, in
\* the methods defined and in the file written, and no operation changes what
\* earlier ones meant.
Implements == Abstract!Spec
=============================================================================
