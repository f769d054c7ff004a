------------------------- MODULE SymbolTable_proofs -------------------------
(***************************************************************************)
(* Proofs about module SymbolTable, for every set of programs that are     *)
(* trees (ProgramsAssumption) and every set of names.                      *)
(*                                                                         *)
(* First the invariant, LexicalInv, and the theorems that follow from it;  *)
(* then, on top of it, that Build forgets nothing (TableIsComplete).       *)
(***************************************************************************)
EXTENDS SymbolTable, SequenceTheorems, TLAPS

TypeInv == prog \in Programs /\ TypeOK

-----------------------------------------------------------------------------
(* Trees.                                                                  *)

\* What the proofs use of a node and of the child a visitor is handed.
LEMMA NodeTyping ==
  ASSUME prog \in Programs, NEW n \in Nodes
  PROVE  /\ Len(prog) \in Nat
         /\ n \in Nat
         /\ prog[n].id \in Identifiers
         /\ prog[n].kids \in Seq(Nodes)
         /\ prog[n].params \in Seq(Nodes)
         /\ prog[n].binder \in 0 .. Len(prog)
         /\ prog[n].last \in Nodes
<1>1. prog \in Seq(Node(prog))
  BY ProgramsAssumption DEF IsProgram
<1>2. n \in 1 .. Len(prog) /\ Nodes = 1 .. Len(prog)
  BY DEF Nodes, NodesOf
<1>3. prog[n] \in Node(prog) /\ Len(prog) \in Nat
  BY <1>1, <1>2
<1> QED BY <1>2, <1>3 DEF Node, NodesOf

LEMMA RootIsNode == ASSUME prog \in Programs PROVE 1 \in Nodes
BY ProgramsAssumption DEF IsProgram, NodesOf, Nodes

LEMMA LastOfTyping ==
  ASSUME NEW S \in SUBSET Nodes PROVE LastOf(S) \in Nodes \cup {Null}
BY DEF LastOf

LEMMA NamedTyping ==
  ASSUME prog \in Programs, NEW S \in SUBSET Nodes, NEW kind
  PROVE  Named(S, kind) \in NameMap
<1>1. Nodes \cup {Null} = 0 .. Len(prog)
  BY RootIsNode, NodeTyping DEF Nodes, NodesOf, Null
<1>2. ASSUME NEW x \in Identifiers
      PROVE  LastOf({n \in S : Kind(n) = kind /\ prog[n].id = x})
               \in 0 .. Len(prog)
  BY <1>1, LastOfTyping
<1> QED BY <1>2 DEF Named, NameMap

LEMMA NewScopeTyping ==
  ASSUME TypeInv, NEW n \in Nodes
  PROVE  LetScope(n) \in ScopeRecord /\ FunctionScope(n) \in ScopeRecord
<1>1. RangeOf(prog[n].kids) \in SUBSET Nodes /\ RangeOf(prog[n].params) \in SUBSET Nodes
  BY NodeTyping DEF RangeOf, TypeInv
<1>2. current \in Nat
  BY DEF TypeInv, TypeOK
<1>3. NoNames \in NameMap
  BY RootIsNode, NodeTyping DEF NoNames, NameMap, Null, TypeInv, Nodes, NodesOf
<1> QED BY <1>1, <1>2, <1>3, NamedTyping
        DEF LetScope, FunctionScope, EmptyScope, ScopeRecord, TypeInv

LEMMA VisitedIsNode ==
  ASSUME TypeInv, NEW n, Visited(n) PROVE n \in Nodes
<1>1. CASE status = "unvisited" /\ n = 1
  BY <1>1, RootIsNode DEF TypeInv
<1>2. CASE stack # <<>> /\ HasNext(Top) /\ n = prog[Top.node].kids[Top.next]
  <2>1. stack \in Seq(StackFrame) /\ stack # <<>>
    BY <1>2 DEF TypeInv, TypeOK
  <2>2. Len(stack) \in DOMAIN stack
    BY <2>1
  <2>3. Top \in StackFrame
    BY <2>1, <2>2 DEF Top
  <2>4. prog[Top.node].kids \in Seq(Nodes)
    BY <2>3, NodeTyping DEF TypeInv, StackFrame
  <2>5. Top.next \in DOMAIN prog[Top.node].kids
    BY <1>2 DEF HasNext
  <2> QED BY <1>2, <2>4, <2>5
<1> QED BY <1>1, <1>2 DEF Visited

-----------------------------------------------------------------------------
(* Type correctness.                                                       *)

LEMMA TopTyping ==
  ASSUME TypeInv, stack # <<>>
  PROVE  /\ stack \in Seq(StackFrame)
         /\ Len(stack) \in DOMAIN stack
         /\ Top \in StackFrame
         /\ Top.node \in Nodes
         /\ Top.next \in Nat \ {0}
<1>1. stack \in Seq(StackFrame)
  BY DEF TypeInv, TypeOK
<1>2. Len(stack) \in DOMAIN stack
  BY <1>1
<1>3. Top \in StackFrame
  BY <1>1, <1>2 DEF Top
<1> QED BY <1>1, <1>2, <1>3 DEF StackFrame

\* A push or a pop keeps the stack typed while the table of scopes grows.
LEMMA StackTyping ==
  ASSUME TypeInv, prog' = prog, Len(scopes) <= Len(scopes'),
         scopes' \in Seq(ScopeRecord),
         NEW n \in Nodes, Enter(n) \/ Return
  PROVE  stack' \in Seq(StackFrame)'
<1>1. scopes \in Seq(ScopeRecord) /\ current \in DOMAIN scopes
  BY DEF TypeInv, TypeOK
<1>2. DOMAIN scopes \subseteq DOMAIN scopes'
  BY <1>1
<1>3. Nodes' = Nodes
  BY DEF Nodes
<1>4. \A f \in StackFrame : f \in StackFrame'
  BY <1>2, <1>3 DEF StackFrame
<1>5. \A s \in Seq(StackFrame) : s \in Seq(StackFrame)'
  BY <1>4
<1>6. CASE Enter(n)
  <2>1. Frame(n) \in StackFrame
    BY <1>1 DEF Frame, StackFrame
  <2>2. CASE stack = <<>>
    <3>1. stack \in Seq(StackFrame)
      BY DEF TypeInv, TypeOK
    <3>2. stack' \in Seq(StackFrame)
      BY <1>6, <2>1, <2>2, <3>1, AppendProperties DEF Enter
    <3> QED BY <1>5, <3>2
  <2>3. CASE stack # <<>>
    <3>1. [stack EXCEPT ![Len(stack)].next = @ + 1]
            = [stack EXCEPT ![Len(stack)] = [Top EXCEPT !.next = @ + 1]]
      BY <2>3, TopTyping DEF Top
    <3>2. [Top EXCEPT !.next = @ + 1] \in StackFrame
      <4>1. Top \in StackFrame /\ Top.next + 1 \in Nat \ {0}
        BY <2>3, TopTyping DEF StackFrame
      <4> QED BY ONLY <4>1 DEF StackFrame
    <3>. DEFINE moved == [Top EXCEPT !.next = @ + 1]
    <3>a. moved \in StackFrame
      BY <3>2
    <3>. HIDE DEF moved
    <3>b. [stack EXCEPT ![Len(stack)] = moved] \in Seq(StackFrame)
      BY <2>3, <3>a, TopTyping, ExceptSeq
    <3>3. [stack EXCEPT ![Len(stack)].next = @ + 1] \in Seq(StackFrame)
      BY <3>1, <3>b DEF moved
    <3>4. stack' \in Seq(StackFrame)
      BY <1>6, <2>1, <2>3, <3>3 DEF Enter
    <3> QED BY <3>4, <1>5
  <2> QED BY <2>2, <2>3
<1>7. CASE Return
  <2>1. SubSeq(stack, 1, Len(stack) - 1) \in Seq(StackFrame)
    BY <1>7, TopTyping DEF Return
  <2> QED BY <1>5, <1>7, <2>1 DEF Return
<1> QED BY <1>6, <1>7

\* What a later version r of a scope q has kept: its parent, and every name.
Keeps(r, q) ==
  /\ r.parent = q.parent
  /\ \A x \in Identifiers :
       /\ q.function[x] # Null => r.function[x] # Null
       /\ q.storage[x] # Null => r.storage[x] # Null
       /\ q.type[x] # Null => r.type[x] # Null

\* A store into one map of one scope keeps the scopes typed, and what they
\* have.
LEMMA StoreTyping ==
  ASSUME TypeInv, NEW n \in Nodes,
         NEW new \in { [scopes EXCEPT ![current].storage[prog[n].id] = n],
                       [scopes EXCEPT ![current].type[prog[n].id] = n],
                       [scopes EXCEPT ![current].function[prog[n].id] = n] }
  PROVE  /\ new \in Seq(ScopeRecord) /\ Len(new) = Len(scopes)
         /\ \A s \in DOMAIN scopes : Keeps(new[s], scopes[s])
<1>1. scopes \in Seq(ScopeRecord) /\ current \in DOMAIN scopes
  BY DEF TypeInv, TypeOK
<1>2. prog[n].id \in Identifiers /\ n \in 0 .. Len(prog) /\ n # Null
  BY NodeTyping DEF TypeInv, Nodes, NodesOf, Null
<1>3. \A m \in NameMap :
        /\ [m EXCEPT ![prog[n].id] = n] \in NameMap
        /\ \A x \in Identifiers :
             m[x] # Null => [m EXCEPT ![prog[n].id] = n][x] # Null
  BY <1>2 DEF NameMap
<1>4. scopes[current] \in ScopeRecord
  BY <1>1
<1> DEFINE stored == [scopes[current] EXCEPT !.storage[prog[n].id] = n]
           typed  == [scopes[current] EXCEPT !.type[prog[n].id] = n]
           called == [scopes[current] EXCEPT !.function[prog[n].id] = n]
<1>5. stored \in ScopeRecord /\ typed \in ScopeRecord /\ called \in ScopeRecord
  BY <1>3, <1>4 DEF ScopeRecord
<1>6. /\ Keeps(stored, scopes[current])
      /\ Keeps(typed, scopes[current])
      /\ Keeps(called, scopes[current])
  BY <1>3, <1>4 DEF ScopeRecord, Keeps
<1>7. /\ [scopes EXCEPT ![current].storage[prog[n].id] = n]
           = [scopes EXCEPT ![current] = stored]
      /\ [scopes EXCEPT ![current].type[prog[n].id] = n]
           = [scopes EXCEPT ![current] = typed]
      /\ [scopes EXCEPT ![current].function[prog[n].id] = n]
           = [scopes EXCEPT ![current] = called]
  BY <1>1
<1> HIDE DEF stored, typed, called
<1>8. PICK r \in ScopeRecord : /\ new = [scopes EXCEPT ![current] = r]
                               /\ Keeps(r, scopes[current])
  BY <1>5, <1>6, <1>7
<1>9. \A s \in DOMAIN scopes : Keeps(scopes[s], scopes[s])
  BY DEF Keeps
<1>10. new \in Seq(ScopeRecord) /\ Len(new) = Len(scopes)
  BY <1>1, <1>8, ExceptSeq
<1>11. \A s \in DOMAIN scopes : new[s] = IF s = current THEN r ELSE scopes[s]
  BY <1>1, <1>8
<1> QED BY <1>8, <1>9, <1>10, <1>11

LEMMA InitTyping == Init => TypeInv
<1> SUFFICES ASSUME Init PROVE TypeInv
  OBVIOUS
<1>1. Len(prog) \in Nat
  BY RootIsNode, NodeTyping DEF Init
<1>2. NoNames \in NameMap
  BY <1>1 DEF NoNames, NameMap, Null
<1>3. scopes \in Seq(ScopeRecord) /\ Len(scopes) = 1
  BY <1>2 DEF Init, EmptyScope, ScopeRecord, NoScope
<1> QED BY <1>3 DEF Init, TypeInv, TypeOK, ScopeNumbers, NoScope

\* What a step of the builder must show to keep TypeInv.
LEMMA TypingOfStep ==
  ASSUME TypeInv, prog' = prog, NEW n \in Nodes, Enter(n) \/ Return,
         scopes' \in Seq(ScopeRecord), Len(scopes) <= Len(scopes'),
         current' \in 1 .. Len(scopes'),
         scope_by_expr' \in [Nodes -> 0 .. Len(scopes')],
         scope_by_let' \in [Nodes -> 0 .. Len(scopes')],
         scope_by_function' \in [Nodes -> 0 .. Len(scopes')]
  PROVE  TypeInv'
<1>1. stack' \in Seq(StackFrame)'
  BY StackTyping
<1>2. status' \in {"unvisited", "visiting", "built"}
  BY DEF Enter, Return, TypeInv, TypeOK
<1>3. Nodes' = Nodes /\ ScopeNumbers' = 0 .. Len(scopes') /\ ScopeRecord' = ScopeRecord
  BY DEF Nodes, ScopeNumbers, ScopeRecord, NameMap
<1>4. TypeOK'
  BY <1>1, <1>2, <1>3 DEF TypeOK
<1> QED BY <1>4 DEF TypeInv

\* TypeOK unfolded, once for all the steps.
LEMMA TablesTyping ==
  ASSUME TypeInv
  PROVE  /\ prog \in Programs
         /\ scopes \in Seq(ScopeRecord)
         /\ Len(scopes) \in Nat
         /\ DOMAIN scopes = 1 .. Len(scopes)
         /\ current \in 1 .. Len(scopes)
         /\ scope_by_expr \in [Nodes -> 0 .. Len(scopes)]
         /\ scope_by_let \in [Nodes -> 0 .. Len(scopes)]
         /\ scope_by_function \in [Nodes -> 0 .. Len(scopes)]
BY DEF TypeInv, TypeOK, ScopeNumbers

\* The vector of scopes after a handler that opens one, and after one that
\* only stores a name.
LEMMA OpeningTyping ==
  ASSUME TypeInv, NEW n \in Nodes, VisitLet(n) \/ VisitFunctionDeclaration(n)
  PROVE  /\ scopes' \in Seq(ScopeRecord)
         /\ Len(scopes') = Len(scopes) + 1
         /\ current' = Len(scopes) + 1
<1>1. CASE VisitLet(n)
  BY <1>1, NewScopeTyping, TablesTyping, AppendProperties DEF VisitLet, Open
<1>2. CASE VisitFunctionDeclaration(n)
  <2> DEFINE stored == [scopes EXCEPT ![current].function[prog[n].id] = n]
  <2>1. stored \in Seq(ScopeRecord) /\ Len(stored) = Len(scopes)
    BY StoreTyping, Zenon
  <2>2. scopes' = Append(stored, FunctionScope(n)) /\ current' = Len(scopes) + 1
    BY <1>2 DEF VisitFunctionDeclaration
  <2> HIDE DEF stored
  <2> QED BY <2>1, <2>2, NewScopeTyping, AppendProperties
<1> QED BY <1>1, <1>2

LEMMA StoringTyping ==
  ASSUME TypeInv, NEW n \in Nodes,
         VisitVariableDeclaration(n) \/ VisitTypeDeclaration(n) \/ VisitFor(n)
  PROVE  /\ scopes' \in Seq(ScopeRecord) /\ Len(scopes') = Len(scopes)
         /\ \A s \in DOMAIN scopes : Keeps(scopes'[s], scopes[s])
<1>1. scopes' \in { [scopes EXCEPT ![current].storage[prog[n].id] = n],
                   [scopes EXCEPT ![current].type[prog[n].id] = n],
                   [scopes EXCEPT ![current].function[prog[n].id] = n] }
  BY DEF VisitVariableDeclaration, VisitTypeDeclaration, VisitFor, StoreVariable
<1> QED BY <1>1, StoreTyping

\* TypingOfStep for the steps that open no scope.
LEMMA TypingOfQuietStep ==
  ASSUME TypeInv, prog' = prog, NEW n \in Nodes, Enter(n) \/ Return,
         scopes' \in Seq(ScopeRecord), Len(scopes') = Len(scopes),
         current' \in 1 .. Len(scopes),
         scope_by_expr' \in [Nodes -> 0 .. Len(scopes)],
         scope_by_let' = scope_by_let, scope_by_function' = scope_by_function
  PROVE  TypeInv'
<1>1. /\ Len(scopes) <= Len(scopes')
      /\ current' \in 1 .. Len(scopes')
      /\ scope_by_expr' \in [Nodes -> 0 .. Len(scopes')]
      /\ scope_by_let' \in [Nodes -> 0 .. Len(scopes')]
      /\ scope_by_function' \in [Nodes -> 0 .. Len(scopes')]
  BY TablesTyping
<1> QED BY <1>1, TypingOfStep, Zenon

LEMMA VisitTyping ==
  ASSUME TypeInv, NEW n \in Nodes, Visit(n) PROVE TypeInv'
<1>0. Enter(n) /\ prog' = prog
  BY DEF Visit, VisitLet, VisitFunctionDeclaration, VisitFor, VisitOther,
     VisitVariableDeclaration, VisitTypeDeclaration, Enter
<1>1. ASSUME RecordScope(n)
      PROVE  scope_by_expr' \in [Nodes -> 0 .. Len(scopes)]
  BY <1>1, TablesTyping DEF RecordScope
<1>2. CASE VisitLet(n)
  <2>1. RecordScope(n) /\ scope_by_let' = [scope_by_let EXCEPT ![n] = current']
        /\ scope_by_function' = scope_by_function
    BY <1>2 DEF VisitLet
  <2>2. /\ scope_by_expr' \in [Nodes -> 0 .. Len(scopes')]
        /\ scope_by_let' \in [Nodes -> 0 .. Len(scopes')]
        /\ scope_by_function' \in [Nodes -> 0 .. Len(scopes')]
    BY <1>1, <1>2, <2>1, TablesTyping, OpeningTyping
  <2>3. /\ scopes' \in Seq(ScopeRecord) /\ Len(scopes) <= Len(scopes')
        /\ current' \in 1 .. Len(scopes')
    BY <1>2, OpeningTyping, TablesTyping
  <2> QED BY <1>0, <2>2, <2>3, TypingOfStep, Zenon
<1>3. CASE VisitFunctionDeclaration(n)
  <2>1. /\ scope_by_function' = [scope_by_function EXCEPT ![n] = current']
        /\ scope_by_expr' = scope_by_expr /\ scope_by_let' = scope_by_let
    BY <1>3 DEF VisitFunctionDeclaration
  <2>2. /\ scope_by_expr' \in [Nodes -> 0 .. Len(scopes')]
        /\ scope_by_let' \in [Nodes -> 0 .. Len(scopes')]
        /\ scope_by_function' \in [Nodes -> 0 .. Len(scopes')]
    BY <1>3, <2>1, TablesTyping, OpeningTyping
  <2>3. /\ scopes' \in Seq(ScopeRecord) /\ Len(scopes) <= Len(scopes')
        /\ current' \in 1 .. Len(scopes')
    BY <1>3, OpeningTyping, TablesTyping
  <2> QED BY <1>0, <2>2, <2>3, TypingOfStep, Zenon
<1>4. CASE VisitVariableDeclaration(n) \/ VisitTypeDeclaration(n) \/ VisitFor(n)
  <2>1. /\ scope_by_expr' \in [Nodes -> 0 .. Len(scopes)]
        /\ scope_by_let' = scope_by_let /\ scope_by_function' = scope_by_function
        /\ current' \in 1 .. Len(scopes)
    BY <1>1, <1>4, TablesTyping
       DEF VisitVariableDeclaration, VisitTypeDeclaration, VisitFor
  <2>2. scopes' \in Seq(ScopeRecord) /\ Len(scopes') = Len(scopes)
    BY <1>4, StoringTyping
  <2> QED BY <1>0, <2>1, <2>2, TypingOfQuietStep, Zenon
<1>5. CASE VisitOther(n)
  <2>1. /\ scope_by_expr' \in [Nodes -> 0 .. Len(scopes)]
        /\ scopes' \in Seq(ScopeRecord) /\ Len(scopes') = Len(scopes)
        /\ scope_by_let' = scope_by_let /\ scope_by_function' = scope_by_function
        /\ current' \in 1 .. Len(scopes)
    BY <1>1, <1>5, TablesTyping DEF VisitOther
  <2> QED BY <1>0, <2>1, TypingOfQuietStep, Zenon
<1> QED BY <1>2, <1>3, <1>4, <1>5 DEF Visit

LEMMA StepTyping == TypeInv /\ [Next]_vars => TypeInv'
<1> SUFFICES ASSUME TypeInv, [Next]_vars PROVE TypeInv'
  OBVIOUS
<1>1. ASSUME NEW n \in Nodes, Visit(n) PROVE TypeInv'
  BY <1>1, VisitTyping
<1>2. CASE LeaveScope \/ LeaveOther
  <2>1. /\ prog' = prog /\ scopes' \in Seq(ScopeRecord) /\ Len(scopes') = Len(scopes)
        /\ scope_by_expr' \in [Nodes -> 0 .. Len(scopes)]
        /\ scope_by_let' = scope_by_let /\ scope_by_function' = scope_by_function
        /\ Return
    BY <1>2, TablesTyping DEF LeaveScope, LeaveOther, Return
  <2>2. current' \in 1 .. Len(scopes)
    BY <1>2, <2>1, TopTyping, TablesTyping
       DEF LeaveScope, LeaveOther, Return, StackFrame
  <2>3. 1 \in Nodes
    BY TablesTyping, RootIsNode
  <2> QED BY <2>1, <2>2, <2>3, TypingOfQuietStep, Zenon
<1>3. CASE UNCHANGED vars
  BY <1>3 DEF vars, TypeInv, TypeOK, Nodes, ScopeRecord, ScopeNumbers, NameMap,
              StackFrame
<1> QED BY <1>1, <1>2, <1>3 DEF Next, BuildStep, Terminating

LEMMA Typing == Spec => []TypeInv
BY InitTyping, StepTyping, PTL DEF Spec

\* Whatever tree Build is given, its variables keep their types: current is
\* always an existing scope, and nothing maps to a scope that does not exist.
THEOREM TypeCorrect == Spec => []TypeOK
<1>1. TypeInv => TypeOK
  BY DEF TypeInv
<1> QED BY <1>1, Typing, PTL

-----------------------------------------------------------------------------
(* Static scoping.  ScopesAreLexical is not inductive: that current is the *)
(* right scope when an expression is recorded rests on what the frames     *)
(* below saved, and that a recorded fact stays true rests on every node    *)
(* being visited once.                                                     *)

Kids(n) == prog[n].kids

\* A frame's node is the child the frame below handed over last.
Linked ==
  \A i \in DOMAIN stack :
    \/ i = 1 /\ stack[i].node = 1
    \/ /\ i > 1
       /\ stack[i-1].next - 1 \in DOMAIN Kids(stack[i-1].node)
       /\ stack[i].node = Kids(stack[i-1].node)[stack[i-1].next - 1]

\* prev is the scope the frame's node is written in.
PrevIsOuter ==
  \A i \in DOMAIN stack :
    stack[i].prev = ScopeOpenedBy(Binder(stack[i].node))

Marked(n) ==
  \/ scope_by_expr[n] # NoScope
  \/ scope_by_let[n] # NoScope
  \/ scope_by_function[n] # NoScope

\* The children still to be visited come after everything visited.
NextIsUnvisited ==
  /\ status = "unvisited" => stack = <<>> /\ \A n \in Nodes : ~ Marked(n)
  /\ stack # <<>> => status = "visiting"
  /\ \A i \in DOMAIN stack : \A j \in DOMAIN Kids(stack[i].node) :
       j >= stack[i].next =>
         \A n \in Nodes : Marked(n) => n < Kids(stack[i].node)[j]

\* They also come after everything a frame above may still visit.
NextIsBeyond ==
  \A i, k \in DOMAIN stack : i < k =>
    \A j \in DOMAIN Kids(stack[i].node) :
      j >= stack[i].next => prog[stack[k].node].last < Kids(stack[i].node)[j]

\* An opened scope is nested in an opened scope.
NestedInOpened ==
  \A b \in Nodes : (Opens(prog, b) /\ ScopeOpenedBy(b) # NoScope) =>
    ScopeOpenedBy(Binder(b)) # NoScope

LexicalInv ==
  /\ TypeInv
  /\ Linked
  /\ PrevIsOuter
  /\ NextIsUnvisited
  /\ NextIsBeyond
  /\ NestedInOpened
  /\ CurrentIsInnermost
  /\ ScopesAreLexical

LEMMA KidFacts ==
  ASSUME prog \in Programs, NEW n \in Nodes, NEW j \in DOMAIN Kids(n)
  PROVE  /\ Kids(n)[j] \in Nodes
         /\ n < Kids(n)[j]
         /\ Kids(n)[j] <= prog[Kids(n)[j]].last
         /\ prog[Kids(n)[j]].last <= prog[n].last
         /\ Binder(Kids(n)[j]) = IF Opens(prog, n) THEN n ELSE Binder(n)
         /\ \A i \in DOMAIN Kids(n) :
              i < j => prog[Kids(n)[i]].last < Kids(n)[j]
<1>1. IsTree(prog)
  BY ProgramsAssumption DEF IsProgram
<1>2. Kids(n)[j] \in Nodes
  BY NodeTyping DEF Kids
<1> QED BY <1>1, <1>2 DEF IsTree, Kids, Binder, Nodes

LEMMA RootBinder == ASSUME prog \in Programs PROVE Binder(1) = 0
BY ProgramsAssumption DEF IsProgram, Binder

LEMMA FrameFacts ==
  ASSUME TypeInv, NEW i \in DOMAIN stack
  PROVE  /\ i \in Nat
         /\ stack[i].node \in Nodes
         /\ stack[i].next \in Nat \ {0}
         /\ stack[i].prev \in DOMAIN scopes
         /\ stack[i].prev # NoScope
<1>1. stack[i] \in StackFrame
  BY DEF TypeInv, TypeOK
<1>2. \A s \in DOMAIN scopes : s # NoScope
  BY TablesTyping DEF NoScope
<1>3. i \in Nat
  BY DEF TypeInv, TypeOK
<1> QED BY <1>1, <1>2, <1>3 DEF StackFrame

\* The stack after a push and after a pop, entry by entry.
LEMMA PushFacts ==
  ASSUME TypeInv, NEW n \in Nodes, Enter(n)
  PROVE  /\ Len(stack) \in Nat
         /\ DOMAIN stack = 1 .. Len(stack)
         /\ DOMAIN stack' = 1 .. Len(stack) + 1
         /\ Len(stack') = Len(stack) + 1
         /\ stack'[Len(stack) + 1].node = n
         /\ stack'[Len(stack) + 1].next = 1
         /\ stack'[Len(stack) + 1].prev = current
         /\ \A i \in DOMAIN stack :
              /\ stack'[i].node = stack[i].node
              /\ stack'[i].prev = stack[i].prev
              /\ stack'[i].next = IF i = Len(stack) THEN stack[i].next + 1
                                  ELSE stack[i].next
<1>1. stack \in Seq(StackFrame)
  BY DEF TypeInv, TypeOK
<1>2. Frame(n) \in StackFrame
  BY TablesTyping DEF Frame, StackFrame
<1>3. CASE stack = <<>>
  <2>1. stack' = Append(stack, Frame(n))
    BY <1>3 DEF Enter
  <2> QED BY <1>1, <1>2, <1>3, <2>1, AppendProperties DEF Frame
<1>4. CASE stack # <<>>
  <2> DEFINE moved == [Top EXCEPT !.next = @ + 1]
             below == [stack EXCEPT ![Len(stack)] = moved]
  <2>1. /\ moved \in StackFrame /\ moved.next = Top.next + 1
        /\ moved.node = Top.node /\ moved.prev = Top.prev
    BY <1>4, TopTyping DEF StackFrame
  <2>2. stack' = Append(below, Frame(n))
    BY <1>4, TopTyping DEF Enter, Top
  <2> HIDE DEF moved
  <2>3. /\ below \in Seq(StackFrame) /\ Len(below) = Len(stack)
        /\ \A i \in 1 .. Len(stack) :
             below[i] = IF i = Len(stack) THEN moved ELSE stack[i]
    BY <1>1, <1>4, <2>1, TopTyping, ExceptSeq
  <2> HIDE DEF below
  <2>4. /\ Len(stack') = Len(stack) + 1
        /\ \A i \in 1 .. Len(stack) : stack'[i] = below[i]
        /\ stack'[Len(stack) + 1] = Frame(n)
        /\ stack' \in Seq(StackFrame)
    BY <1>2, <2>2, <2>3, AppendProperties
  <2> QED BY <1>1, <2>1, <2>3, <2>4 DEF Frame, Top
<1> QED BY <1>3, <1>4

LEMMA PopFacts ==
  ASSUME TypeInv, Return
  PROVE  /\ Len(stack) \in Nat \ {0}
         /\ DOMAIN stack = 1 .. Len(stack)
         /\ DOMAIN stack' = 1 .. Len(stack) - 1
         /\ Len(stack') = Len(stack) - 1
         /\ \A i \in DOMAIN stack' : stack'[i] = stack[i]
<1>1. stack \in Seq(StackFrame) /\ stack # <<>>
  BY DEF TypeInv, TypeOK, Return
<1>2. stack' = SubSeq(stack, 1, Len(stack) - 1)
  BY DEF Return
<1>3. Len(stack) \in Nat \ {0} /\ DOMAIN stack = 1 .. Len(stack)
  BY <1>1
<1>4. /\ Len(stack') = Len(stack) - 1
      /\ \A i \in 1 .. Len(stack) - 1 : stack'[i] = stack[i]
      /\ stack' \in Seq(StackFrame)
  BY <1>1, <1>2, <1>3, SubSeqProperties
<1> QED BY <1>3, <1>4

\* The node a visitor is handed has not been visited, and current is the
\* scope it is written in.
LEMMA VisitedFacts ==
  ASSUME LexicalInv, NEW n, Visited(n)
  PROVE  /\ n \in Nodes
         /\ ~ Marked(n)
         /\ current = ScopeOpenedBy(Binder(n))
         /\ status # "visiting" => stack = <<>>
<1>0. n \in Nodes /\ TypeInv
  BY VisitedIsNode DEF LexicalInv
<1>1. CASE status = "unvisited" /\ n = 1
  <2>1. stack = <<>> /\ ~ Marked(n)
    BY <1>0, <1>1 DEF LexicalInv, NextIsUnvisited
  <2>2. Binder(n) = 0
    BY <1>0, <1>1, RootBinder DEF TypeInv
  <2> QED BY <1>0, <2>1, <2>2 DEF LexicalInv, CurrentIsInnermost, ScopeOpenedBy
<1>2. CASE stack # <<>> /\ HasNext(Top) /\ n = Kids(Top.node)[Top.next]
  <2>1. /\ Len(stack) \in DOMAIN stack /\ Top.node \in Nodes
        /\ Top.next \in Nat /\ Top.next \in DOMAIN Kids(Top.node)
    BY <1>0, <1>2, TopTyping DEF HasNext, Kids
  <2>2. \A m \in Nodes : Marked(m) => m < Kids(Top.node)[Top.next]
    <3>1. \A j \in DOMAIN Kids(stack[Len(stack)].node) :
            j >= stack[Len(stack)].next =>
              \A m \in Nodes : Marked(m) => m < Kids(stack[Len(stack)].node)[j]
      BY <2>1 DEF LexicalInv, NextIsUnvisited
    <3>2. Top.next >= Top.next
      BY <2>1
    <3> QED BY <2>1, <3>1, <3>2 DEF Top
  <2>3. Binder(n) = IF Opens(prog, Top.node) THEN Top.node ELSE Binder(Top.node)
    BY <1>0, <1>2, <2>1, KidFacts DEF TypeInv
  <2>4. current = ScopeOpenedBy(Binder(n))
    BY <1>2, <2>3 DEF LexicalInv, CurrentIsInnermost
  <2>5. status = "visiting"
    BY <1>2 DEF LexicalInv, NextIsUnvisited
  <2>6. n \in Nat
    BY <1>0, NodeTyping DEF TypeInv
  <2>7. ~ Marked(n)
    BY <1>0, <1>2, <2>2, <2>6
  <2> QED BY <1>0, <2>4, <2>5, <2>7
<1> QED BY <1>1, <1>2 DEF Visited, Kids

\* What a handler does to the tables: only the entries of its own node
\* change, scopes keep their parents and their names, and a new scope is a
\* child of the current one.
LEMMA VisitEffect ==
  ASSUME TypeInv, NEW n \in Nodes, Visit(n), ~ Marked(n)
  PROVE  /\ Enter(n) /\ Visited(n) /\ prog' = prog
         /\ \A m \in Nodes : m # n =>
              /\ scope_by_expr'[m] = scope_by_expr[m]
              /\ scope_by_let'[m] = scope_by_let[m]
              /\ scope_by_function'[m] = scope_by_function[m]
         /\ scope_by_expr'[n] \in {NoScope, current}
         /\ \A s \in DOMAIN scopes :
              s \in DOMAIN scopes' /\ Keeps(scopes'[s], scopes[s])
         /\ ~ Opens(prog, n) =>
              /\ current' = current
              /\ scope_by_let'[n] = NoScope /\ scope_by_function'[n] = NoScope
         /\ Opens(prog, n) =>
              /\ current' = Len(scopes) + 1
              /\ current' = ScopeOpenedBy(n)'
              /\ scopes'[current'].parent = current
<1>0. /\ scopes \in Seq(ScopeRecord) /\ Len(scopes) \in Nat
      /\ current \in 1 .. Len(scopes)
      /\ DOMAIN scopes = 1 .. Len(scopes)
      /\ DOMAIN scope_by_expr = Nodes
      /\ DOMAIN scope_by_let = Nodes
      /\ DOMAIN scope_by_function = Nodes
      /\ n # 0
  BY TablesTyping, NodeTyping DEF TypeInv, Nodes, NodesOf
<1>1. Enter(n) /\ Visited(n) /\ prog' = prog
  BY DEF Visit, VisitLet, VisitFunctionDeclaration, VisitFor, VisitOther,
     VisitVariableDeclaration, VisitTypeDeclaration, Enter
<1>2. /\ scope_by_expr[n] = NoScope /\ scope_by_let[n] = NoScope
      /\ scope_by_function[n] = NoScope
  BY DEF Marked
<1>3. ASSUME RecordScope(n)
      PROVE  /\ \A m \in Nodes : m # n => scope_by_expr'[m] = scope_by_expr[m]
             /\ scope_by_expr'[n] \in {NoScope, current}
  BY <1>0, <1>2, <1>3 DEF RecordScope
<1>8. \A s \in DOMAIN scopes : Keeps(scopes[s], scopes[s])
  BY DEF Keeps
<1>4. CASE VisitLet(n)
  <2>1. Kind(n) = "Let" /\ RecordScope(n) /\ Opens(prog, n)
    BY <1>4 DEF VisitLet, Opens, Kind
  <2>2. /\ scope_by_let' = [scope_by_let EXCEPT ![n] = current']
        /\ scope_by_function' = scope_by_function
        /\ scopes' = Append(scopes, LetScope(n)) /\ current' = Len(scopes) + 1
    BY <1>4 DEF VisitLet, Open
  <2>3. /\ \A s \in DOMAIN scopes : s \in DOMAIN scopes' /\ scopes'[s] = scopes[s]
        /\ scopes'[current'] = LetScope(n)
    BY <1>0, <2>2, NewScopeTyping, AppendProperties
  <2>4. ScopeOpenedBy(n)' = current'
    BY <1>0, <1>1, <2>1, <2>2 DEF ScopeOpenedBy, Kind
  <2>5. LetScope(n).parent = current
    BY DEF LetScope
  <2> QED BY <1>0, <1>1, <1>3, <1>8, <2>1, <2>2, <2>3, <2>4, <2>5
<1>5. CASE VisitFunctionDeclaration(n)
  <2> DEFINE stored == [scopes EXCEPT ![current].function[prog[n].id] = n]
  <2>1. Kind(n) = "FunctionDeclaration" /\ Opens(prog, n)
    BY <1>5 DEF VisitFunctionDeclaration, Opens, Kind
  <2>2. /\ scope_by_function' = [scope_by_function EXCEPT ![n] = current']
        /\ scope_by_let' = scope_by_let /\ scope_by_expr' = scope_by_expr
        /\ scopes' = Append(stored, FunctionScope(n)) /\ current' = Len(scopes) + 1
    BY <1>5 DEF VisitFunctionDeclaration
  <2>3. /\ stored \in Seq(ScopeRecord) /\ Len(stored) = Len(scopes)
        /\ \A s \in DOMAIN scopes : Keeps(stored[s], scopes[s])
    BY StoreTyping, Zenon
  <2> HIDE DEF stored
  <2>4. /\ \A s \in DOMAIN scopes : s \in DOMAIN scopes' /\ scopes'[s] = stored[s]
        /\ scopes'[current'] = FunctionScope(n)
    BY <1>0, <2>2, <2>3, NewScopeTyping, AppendProperties
  <2>5. ScopeOpenedBy(n)' = current'
    BY <1>0, <1>1, <2>1, <2>2 DEF ScopeOpenedBy, Kind
  <2>6. FunctionScope(n).parent = current
    BY DEF FunctionScope, EmptyScope
  <2> QED BY <1>0, <1>1, <1>2, <2>1, <2>2, <2>3, <2>4, <2>5, <2>6
<1>6. CASE VisitVariableDeclaration(n) \/ VisitTypeDeclaration(n) \/ VisitFor(n)
           \/ VisitOther(n)
  <2>1. ~ Opens(prog, n)
    BY <1>6 DEF VisitVariableDeclaration, VisitTypeDeclaration, VisitFor,
                VisitOther, Opens, Kind, DeclarationKinds
  <2>2. /\ scope_by_let' = scope_by_let /\ scope_by_function' = scope_by_function
        /\ current' = current
        /\ RecordScope(n) \/ scope_by_expr' = scope_by_expr
    BY <1>6 DEF VisitVariableDeclaration, VisitTypeDeclaration, VisitFor, VisitOther
  <2>3. \A s \in DOMAIN scopes :
          s \in DOMAIN scopes' /\ Keeps(scopes'[s], scopes[s])
    <3>1. CASE VisitOther(n)
      BY <1>8, <3>1 DEF VisitOther
    <3>2. CASE ~ VisitOther(n)
      BY <1>0, <1>6, <3>2, StoringTyping
    <3> QED BY <3>1, <3>2
  <2> QED BY <1>0, <1>1, <1>2, <1>3, <2>1, <2>2, <2>3
<1> QED BY <1>4, <1>5, <1>6 DEF Visit

\* Once a binder has its scope it keeps it.
LEMMA OpenedScopeStays ==
  ASSUME LexicalInv, NEW n \in Nodes, Visit(n),
         NEW b \in Nodes \cup {0}, ScopeOpenedBy(b) # NoScope
  PROVE  ScopeOpenedBy(b)' = ScopeOpenedBy(b)
<1>1. TypeInv /\ ~ Marked(n)
  BY VisitedFacts DEF LexicalInv, Visit
<1>2. b # n
  <2>1. n # 0
    BY <1>1, NodeTyping DEF TypeInv, Nodes, NodesOf
  <2> QED BY <1>1, <2>1 DEF ScopeOpenedBy, Marked, NoScope
<1>3. CASE b = 0
  BY <1>3 DEF ScopeOpenedBy
<1>4. CASE b # 0
  BY <1>1, <1>2, <1>4, VisitEffect DEF ScopeOpenedBy, Kind
<1> QED BY <1>3, <1>4

LEMMA BinderTyping ==
  ASSUME TypeInv, NEW n \in Nodes PROVE Binder(n) \in Nodes \cup {0}
BY NodeTyping DEF Binder, TypeInv, Nodes, NodesOf

LEMMA OuterScopeStays ==
  ASSUME LexicalInv, NEW n \in Nodes, Visit(n),
         NEW m \in Nodes, ScopeOpenedBy(Binder(m)) # NoScope
  PROVE  ScopeOpenedBy(Binder(m))' = ScopeOpenedBy(Binder(m))
<1>1. TypeInv /\ ~ Marked(n)
  BY VisitedFacts DEF LexicalInv, Visit
<1>2. PICK b \in Nodes \cup {0} : b = Binder(m)
  BY <1>1, BinderTyping
<1>3. Binder(m)' = b
  BY <1>1, <1>2, VisitEffect DEF Binder
<1>4. ScopeOpenedBy(b)' = ScopeOpenedBy(b)
  BY <1>2, OpenedScopeStays
<1> QED BY <1>2, <1>3, <1>4 DEF ScopeOpenedBy

-----------------------------------------------------------------------------
(* The conjuncts after a handler has handed a node over.                   *)

LEMMA VisitStackLinked ==
  ASSUME LexicalInv, NEW n \in Nodes, Visit(n) PROVE Linked'
<1>1. TypeInv /\ Linked /\ ~ Marked(n)
  BY VisitedFacts DEF LexicalInv, Visit
<1>2. Enter(n) /\ Visited(n) /\ prog' = prog
  BY <1>1, VisitEffect
<1>p. /\ Len(stack) \in Nat
      /\ DOMAIN stack = 1 .. Len(stack)
      /\ DOMAIN stack' = 1 .. Len(stack) + 1
      /\ stack'[Len(stack) + 1].node = n
      /\ \A i \in DOMAIN stack :
           /\ stack'[i].node = stack[i].node
           /\ stack'[i].next = IF i = Len(stack) THEN stack[i].next + 1
                               ELSE stack[i].next
  BY <1>1, <1>2, PushFacts
<1>3. SUFFICES ASSUME NEW i \in DOMAIN stack'
      PROVE  \/ i = 1 /\ stack'[i].node = 1
             \/ /\ i > 1
                /\ stack'[i-1].next - 1 \in DOMAIN Kids(stack'[i-1].node)
                /\ stack'[i].node = Kids(stack'[i-1].node)[stack'[i-1].next - 1]
  BY <1>2 DEF Linked, Kids
<1>4. CASE i \in DOMAIN stack
  <2>1. CASE i = 1
    <3>1. stack[i].node = 1
      BY <1>1, <1>4, <2>1 DEF Linked
    <3> QED BY <1>p, <1>4, <2>1, <3>1
  <2>2. CASE i > 1
    <3>1. i - 1 \in DOMAIN stack /\ i - 1 # Len(stack)
      BY <1>p, <1>4, <2>2
    <3> QED BY <1>p, <1>1, <1>2, <1>4, <2>2, <3>1 DEF Linked
  <2> QED BY <1>p, <1>4, <2>1, <2>2
<1>5. CASE i = Len(stack) + 1
  <2>1. stack'[i].node = n
    BY <1>p, <1>5
  <2>2. CASE stack = <<>>
    <3>1. n = 1 /\ i = 1
      BY <1>p, <1>2, <1>5, <2>2, VisitedFacts DEF Visited
    <3> QED BY <1>p, <2>1, <3>1
  <2>3. CASE stack # <<>>
    <3>1. /\ Len(stack) \in DOMAIN stack /\ HasNext(Top)
          /\ n = Kids(Top.node)[Top.next] /\ Top.next \in Nat
          /\ i > 1 /\ i - 1 = Len(stack)
      BY <1>p, <1>1, <1>2, <1>5, <2>3, TopTyping
         DEF Visited, Kids, LexicalInv, NextIsUnvisited
    <3>2. /\ stack'[Len(stack)].node = Top.node
          /\ stack'[Len(stack)].next = Top.next + 1
      BY <1>p, <1>1, <1>2, <3>1 DEF Top
    <3>3. stack'[i-1].next - 1 = Top.next
      BY <1>p, <3>1, <3>2
    <3> QED BY <1>p, <2>1, <3>1, <3>2, <3>3 DEF HasNext, Kids
  <2> QED BY <1>p, <2>2, <2>3
<1> QED BY <1>p, <1>4, <1>5

\* current after the handler is the scope of what n's children see.
LEMMA VisitCurrent ==
  ASSUME LexicalInv, NEW n \in Nodes, Visit(n) PROVE CurrentIsInnermost'
<1>1. TypeInv /\ ~ Marked(n) /\ current = ScopeOpenedBy(Binder(n))
  BY VisitedFacts DEF LexicalInv, Visit
<1>2. Enter(n) /\ Visited(n) /\ prog' = prog
  BY <1>1, VisitEffect
<1>3. stack' # <<>> /\ Top'.node = n
  <2>1. /\ Len(stack) \in Nat
        /\ Len(stack') = Len(stack) + 1
        /\ stack'[Len(stack) + 1].node = n
    BY <1>1, <1>2, PushFacts
  <2>2. stack' # <<>>
    BY <2>1
  <2> QED BY <2>1, <2>2 DEF Top
<1>4. current # NoScope /\ Binder(n) \in Nodes \cup {0}
  BY <1>1, TablesTyping, BinderTyping DEF NoScope
<1>5. ScopeOpenedBy(Binder(n))' = current
  BY <1>1, <1>2, <1>4, OpenedScopeStays DEF Binder
<1>6. current' = IF Opens(prog, n) THEN ScopeOpenedBy(n)' ELSE ScopeOpenedBy(Binder(n))'
  BY <1>1, <1>5, VisitEffect
<1> QED BY <1>2, <1>3, <1>6 DEF CurrentIsInnermost, ScopeOpenedBy, Binder, Kind

LEMMA VisitPrev ==
  ASSUME LexicalInv, NEW n \in Nodes, Visit(n) PROVE PrevIsOuter'
<1>1. TypeInv /\ ~ Marked(n) /\ current = ScopeOpenedBy(Binder(n)) /\ PrevIsOuter
  BY VisitedFacts DEF LexicalInv, Visit
<1>2. Enter(n) /\ prog' = prog
  BY <1>1, VisitEffect
<1>3. ASSUME NEW i \in DOMAIN stack'
      PROVE  stack'[i].prev = ScopeOpenedBy(Binder(stack[i].node))'
  <2>1. PICK m : m = stack'[i].node
    OBVIOUS
  <2>2. SUFFICES stack'[i].prev = ScopeOpenedBy(Binder(m))'
    BY <2>1 DEF ScopeOpenedBy, Binder
  <2>3. CASE i \in DOMAIN stack
    <3>1. stack'[i].node = stack[i].node /\ stack'[i].prev = stack[i].prev
      BY <1>1, <1>2, <2>3, PushFacts
    <3>2. /\ m \in Nodes /\ stack[i].prev # NoScope
          /\ stack[i].prev = ScopeOpenedBy(Binder(m))
      BY <1>1, <2>1, <2>3, <3>1, FrameFacts DEF PrevIsOuter
    <3> QED BY <3>1, <3>2, OuterScopeStays
  <2>4. CASE i = Len(stack) + 1
    <3>1. m = n /\ stack'[i].prev = current
      BY <1>1, <1>2, <2>1, <2>4, PushFacts
    <3>2. current # NoScope
      BY <1>1, TablesTyping DEF NoScope
    <3> QED BY <1>1, <3>1, <3>2, OuterScopeStays
  <2>5. Len(stack) \in Nat /\ DOMAIN stack = 1 .. Len(stack)
        /\ DOMAIN stack' = 1 .. Len(stack) + 1
    BY <1>1, <1>2, PushFacts
  <2> QED BY <2>3, <2>4, <2>5
<1> QED BY <1>3 DEF PrevIsOuter

LEMMA VisitScopes ==
  ASSUME LexicalInv, NEW n \in Nodes, Visit(n)
  PROVE  ScopesAreLexical' /\ NestedInOpened'
<1>1. /\ TypeInv /\ ~ Marked(n) /\ current = ScopeOpenedBy(Binder(n))
      /\ ScopesAreLexical /\ NestedInOpened
  BY VisitedFacts DEF LexicalInv, Visit
<1>2. prog' = prog
  BY <1>1, VisitEffect
<1>3. /\ current # NoScope /\ Binder(n) \in Nodes \cup {0}
      /\ ScopeOpenedBy(Binder(n))' = current
  BY <1>1, TablesTyping, BinderTyping, OuterScopeStays DEF NoScope
<1>4. ASSUME NEW e \in Exprs, scope_by_expr'[e] # NoScope
      PROVE  scope_by_expr'[e] = ScopeOpenedBy(Binder(e))'
  <2>1. CASE e = n
    BY <1>1, <1>3, <1>4, <2>1, VisitEffect
  <2>2. CASE e # n
    <3>1. e \in Nodes /\ Binder(e) \in Nodes \cup {0}
      BY <1>1, BinderTyping DEF Exprs
    <3>2. scope_by_expr'[e] = scope_by_expr[e]
      BY <1>1, <2>2, <3>1, VisitEffect
    <3>3. scope_by_expr[e] = ScopeOpenedBy(Binder(e))
      BY <1>1, <1>4, <3>2 DEF ScopesAreLexical
    <3> QED BY <1>4, <3>1, <3>2, <3>3, OuterScopeStays
  <2> QED BY <2>1, <2>2
<1>5. ASSUME NEW b \in Nodes, Opens(prog, b), ScopeOpenedBy(b)' # NoScope
      PROVE  /\ scopes'[ScopeOpenedBy(b)'].parent = ScopeOpenedBy(Binder(b))'
             /\ ScopeOpenedBy(Binder(b))' # NoScope
  <2>1. CASE b = n
    BY <1>1, <1>3, <1>5, <2>1, VisitEffect
  <2>2. CASE b # n
    <3>0. b # 0
      BY <1>1, NodeTyping DEF TypeInv, Nodes, NodesOf
    <3>1. ScopeOpenedBy(b)' = ScopeOpenedBy(b)
      BY <1>1, <1>2, <2>2, <3>0, VisitEffect DEF ScopeOpenedBy, Kind
    <3>2. /\ scopes[ScopeOpenedBy(b)].parent = ScopeOpenedBy(Binder(b))
          /\ ScopeOpenedBy(Binder(b)) # NoScope
      BY <1>1, <1>5, <3>1 DEF ScopesAreLexical, NestedInOpened
    <3>3. ScopeOpenedBy(Binder(b))' = ScopeOpenedBy(Binder(b))
      BY <3>2, OuterScopeStays
    <3>4. ScopeOpenedBy(b) \in DOMAIN scopes
      BY <1>1, <1>5, <3>0, <3>1, TablesTyping DEF ScopeOpenedBy, NoScope
    <3> QED BY <1>1, <3>1, <3>2, <3>3, <3>4, VisitEffect DEF Keeps
  <2> QED BY <2>1, <2>2
<1>6. Nodes' = Nodes /\ Exprs' = Exprs /\ \A b : Opens(prog, b)' = Opens(prog, b)
  BY <1>2 DEF Nodes, Exprs, IsExpr, Kind, Opens
<1>7. ScopesAreLexical'
  BY <1>2, <1>4, <1>5, <1>6 DEF ScopesAreLexical, ScopeOpenedBy, Binder, Kind
<1>8. NestedInOpened'
  BY <1>2, <1>5, <1>6 DEF NestedInOpened, ScopeOpenedBy, Binder, Kind
<1> QED BY <1>7, <1>8

\* The node just handed over lies between what was visited and what is left.
LEMMA VisitAhead ==
  ASSUME LexicalInv, NEW n \in Nodes, Visit(n),
         NEW i \in DOMAIN stack, NEW j \in DOMAIN Kids(stack[i].node),
         j >= stack'[i].next
  PROVE  prog[n].last < Kids(stack[i].node)[j] /\ j >= stack[i].next
<1>1. /\ TypeInv /\ ~ Marked(n) /\ stack # <<>> /\ NextIsBeyond
      /\ prog \in Programs
  BY VisitedFacts, TablesTyping DEF LexicalInv, Visit
<1>2. Enter(n) /\ Visited(n)
  BY <1>1, VisitEffect
<1>3. /\ Len(stack) \in DOMAIN stack /\ Top.node \in Nodes
      /\ Top.next \in Nat /\ Top.next \in DOMAIN Kids(Top.node)
      /\ n = Kids(Top.node)[Top.next]
  BY <1>1, <1>2, TopTyping
     DEF Visited, HasNext, Kids, LexicalInv, NextIsUnvisited
<1>4. i \in Nat /\ stack[i].next \in Nat /\ stack[i].node \in Nodes
  BY <1>1, FrameFacts
<1>5. j \in Nat
  BY <1>1, <1>4, NodeTyping DEF Kids
<1>6. Len(stack) \in Nat /\ DOMAIN stack = 1 .. Len(stack)
  BY <1>1, <1>2, PushFacts
<1>7. stack'[i].next = IF i = Len(stack) THEN stack[i].next + 1 ELSE stack[i].next
  BY <1>1, <1>2, PushFacts
<1>8. j >= stack[i].next
  BY <1>4, <1>5, <1>7
<1>9. CASE i = Len(stack)
  <2>1. Top = stack[i] /\ j > Top.next
    BY <1>4, <1>5, <1>7, <1>9 DEF Top
  <2> QED BY <1>1, <1>3, <1>8, <2>1, KidFacts
<1>10. CASE i # Len(stack)
  <2>1. i < Len(stack)
    BY <1>4, <1>6, <1>10
  <2>2. prog[Top.node].last < Kids(stack[i].node)[j]
    BY <1>1, <1>3, <1>8, <2>1 DEF NextIsBeyond, Top
  <2>3. prog[n].last <= prog[Top.node].last
    BY <1>1, <1>3, KidFacts
  <2>4. /\ prog[n].last \in Nat /\ prog[Top.node].last \in Nat
        /\ Kids(stack[i].node)[j] \in Nat
    <3>1. \A m \in Nodes : m \in Nat /\ prog[m].last \in Nat
      BY <1>1, NodeTyping
    <3> QED BY <1>1, <1>3, <1>4, <3>1, KidFacts
  <2> QED BY <1>8, <2>2, <2>3, <2>4
<1> QED BY <1>9, <1>10

LEMMA VisitNext ==
  ASSUME LexicalInv, NEW n \in Nodes, Visit(n)
  PROVE  NextIsUnvisited' /\ NextIsBeyond'
<1>1. /\ TypeInv /\ ~ Marked(n) /\ NextIsUnvisited /\ NextIsBeyond
      /\ prog \in Programs
  BY VisitedFacts, TablesTyping DEF LexicalInv, Visit
<1>2. Enter(n) /\ Visited(n) /\ prog' = prog /\ status' = "visiting"
  BY <1>1, VisitEffect DEF Enter
<1>3. /\ Len(stack) \in Nat
      /\ DOMAIN stack = 1 .. Len(stack)
      /\ DOMAIN stack' = 1 .. Len(stack) + 1
      /\ stack'[Len(stack) + 1].node = n
      /\ \A i \in DOMAIN stack : stack'[i].node = stack[i].node
  BY <1>1, <1>2, PushFacts
<1>4. \A m \in Nodes : m # n /\ Marked(m)' => Marked(m)
  BY <1>1, VisitEffect DEF Marked
<1>5. \A m \in Nodes : m \in Nat /\ prog[m].last \in Nat
  BY <1>1, NodeTyping
<1>6. ASSUME NEW i \in DOMAIN stack', NEW j \in DOMAIN Kids(stack'[i].node),
             j >= stack'[i].next, NEW m \in Nodes, Marked(m)'
      PROVE  m < Kids(stack'[i].node)[j]
  <2>1. CASE i \in DOMAIN stack
    <3>1. stack[i].node \in Nodes /\ stack'[i].node = stack[i].node
      BY <1>1, <1>3, <2>1, FrameFacts
    <3>2. j >= stack[i].next /\ prog[n].last < Kids(stack[i].node)[j]
      BY <1>6, <2>1, <3>1, VisitAhead
    <3>3. CASE m = n
      <4>1. n <= prog[n].last
        BY <1>1 , ProgramsAssumption DEF IsProgram, IsTree, Nodes
      <4>2. Kids(stack[i].node)[j] \in Nat
        BY <1>1, <1>5, <1>6, <3>1, KidFacts
      <4> QED BY <1>5, <3>1, <3>2, <3>3, <4>1, <4>2
    <3>4. CASE m # n
      BY <1>1, <1>4, <1>6, <2>1, <3>1, <3>2, <3>4 DEF NextIsUnvisited
    <3> QED BY <3>3, <3>4
  <2>2. CASE i = Len(stack) + 1
    <3>1. stack'[i].node = n /\ j \in DOMAIN Kids(n)
      BY <1>3, <1>6, <2>2
    <3>2. n < Kids(n)[j] /\ Kids(n)[j] \in Nat
      BY <1>1, <1>5, <3>1, KidFacts
    <3>3. CASE m = n
      BY <3>1, <3>2, <3>3
    <3>4. CASE m # n
      <4>1. Marked(m)
        BY <1>4, <1>6, <3>4
      <4>2. stack # <<>> /\ n = Kids(Top.node)[Top.next]
            /\ Top.next \in DOMAIN Kids(Top.node)
        BY <1>1, <1>2, <4>1, VisitedFacts
           DEF Visited, HasNext, Kids, NextIsUnvisited
      <4>3. m < n
        <5>1. Len(stack) \in DOMAIN stack /\ Top.next \in Nat
          BY <1>1, <4>2, TopTyping
        <5>2. \A k \in DOMAIN Kids(stack[Len(stack)].node) :
                k >= stack[Len(stack)].next =>
                  \A l \in Nodes : Marked(l) => l < Kids(stack[Len(stack)].node)[k]
          BY <1>1, <5>1 DEF NextIsUnvisited
        <5>3. Top.next >= Top.next
          BY <5>1
        <5>4. Marked(m) => m < Kids(Top.node)[Top.next]
          BY <4>2, <5>2, <5>3 DEF Top
        <5> QED BY <4>1, <4>2, <5>4
      <4> QED BY <1>5, <3>1, <3>2, <4>3
    <3> QED BY <3>3, <3>4
  <2> QED BY <1>3, <2>1, <2>2
<1>7. ASSUME NEW i \in DOMAIN stack', NEW k \in DOMAIN stack', i < k,
             NEW j \in DOMAIN Kids(stack'[i].node), j >= stack'[i].next
      PROVE  prog[stack'[k].node].last < Kids(stack'[i].node)[j]
  <2>1. i \in DOMAIN stack /\ stack'[i].node = stack[i].node
    BY <1>3, <1>7
  <2>2. j >= stack[i].next /\ prog[n].last < Kids(stack[i].node)[j]
    BY <1>7, <2>1, VisitAhead
  <2>3. CASE k \in DOMAIN stack
    BY <1>1, <1>3, <1>7, <2>1, <2>2, <2>3 DEF NextIsBeyond
  <2>4. CASE k = Len(stack) + 1
    BY <1>3, <2>1, <2>2, <2>4
  <2> QED BY <1>3, <2>3, <2>4
<1>8. Nodes' = Nodes /\ \A m : Kids(m)' = Kids(m)
  BY <1>2 DEF Nodes, Kids
<1>9. NextIsUnvisited'
  BY <1>2, <1>6, <1>8 DEF NextIsUnvisited, Kids
<1>10. NextIsBeyond'
  BY <1>2, <1>7, <1>8 DEF NextIsBeyond, Kids
<1> QED BY <1>9, <1>10

-----------------------------------------------------------------------------
(* The conjuncts after a handler has returned.                             *)

LEMMA ReturnKeepsInv ==
  ASSUME LexicalInv, LeaveScope \/ LeaveOther PROVE LexicalInv'
<1>1. /\ TypeInv /\ Return /\ Linked /\ PrevIsOuter /\ CurrentIsInnermost
      /\ NextIsUnvisited /\ NextIsBeyond /\ NestedInOpened /\ ScopesAreLexical
      /\ prog \in Programs
  BY TablesTyping DEF LexicalInv, LeaveScope, LeaveOther
<1>2. /\ prog' = prog /\ scopes' = scopes /\ scope_by_expr' = scope_by_expr
      /\ scope_by_let' = scope_by_let
      /\ scope_by_function' = scope_by_function /\ stack # <<>>
  BY <1>1 DEF Return
<1>3. TypeInv'
  BY <1>1, StepTyping DEF Next, BuildStep
<1>4. /\ Len(stack) \in Nat \ {0}
      /\ DOMAIN stack = 1 .. Len(stack)
      /\ DOMAIN stack' = 1 .. Len(stack) - 1
      /\ Len(stack') = Len(stack) - 1
      /\ \A i \in DOMAIN stack' : stack'[i] = stack[i]
  BY <1>1, PopFacts
<1>5. \A b : ScopeOpenedBy(b)' = ScopeOpenedBy(b)
  BY <1>2 DEF ScopeOpenedBy, Kind
<1>6. /\ Nodes' = Nodes /\ Exprs' = Exprs
      /\ \A b : /\ Kids(b)' = Kids(b) /\ Binder(b)' = Binder(b)
                /\ Opens(prog, b)' = Opens(prog, b)
                /\ Marked(b)' = Marked(b)
  BY <1>2 DEF Nodes, Exprs, IsExpr, Kind, Kids, Binder, Opens, Marked
<1>7. Linked'
  <2>1. \A i \in DOMAIN stack' : i > 1 => i - 1 \in DOMAIN stack'
    BY <1>4
  <2> QED BY <1>1, <1>2, <1>4, <2>1 DEF Linked, Kids
<1>8. PrevIsOuter'
  BY <1>1, <1>2, <1>4 DEF PrevIsOuter, ScopeOpenedBy, Binder, Kind
<1>9. NextIsUnvisited'
  <2>1. status = "visiting" /\ status' \in {"visiting", "built"}
    BY <1>1, <1>2 DEF NextIsUnvisited, Return
  <2>2. stack' # <<>> => status' = "visiting"
    BY <1>1, <1>4, <2>1 DEF Return
  <2> QED BY <1>1, <1>2, <1>4, <2>1, <2>2 DEF NextIsUnvisited, Kids, Marked, Nodes
<1>10. NextIsBeyond'
  BY <1>1, <1>2, <1>4 DEF NextIsBeyond, Kids
<1>11. NestedInOpened' /\ ScopesAreLexical'
  BY <1>1, <1>2 DEF NestedInOpened, ScopesAreLexical, ScopeOpenedBy, Binder,
                    Kind, Nodes, Exprs, IsExpr, Opens
\* The scope restored is the one the popped node is written in, which is the
\* one the children of the frame below see.
<1>12. current' = ScopeOpenedBy(Binder(Top.node))
  <2>1. Top.prev = ScopeOpenedBy(Binder(Top.node))
    BY <1>1, <1>4 DEF PrevIsOuter, Top
  <2>2. CASE Opens(prog, Top.node)
    BY <2>1, <2>2 DEF LeaveScope, LeaveOther
  <2>3. CASE ~ Opens(prog, Top.node)
    BY <1>1, <1>2, <2>3 DEF LeaveScope, LeaveOther, CurrentIsInnermost
  <2> QED BY <2>2, <2>3
<1>13. CurrentIsInnermost'
  <2>1. CASE Len(stack) = 1
    <3>1. stack' = <<>>
      BY <1>3, <1>4, <2>1 DEF TypeInv, TypeOK
    <3>2. Top.node = 1
      BY <1>1, <1>4, <2>1 DEF Linked, Top
    <3>3. current' = 1
      BY <1>1, <1>12, <3>2, RootBinder DEF ScopeOpenedBy
    <3> QED BY <3>1, <3>3 DEF CurrentIsInnermost
  <2>2. CASE Len(stack) # 1
    <3> DEFINE m == Len(stack) - 1
    <3>1. /\ stack' # <<>> /\ Top' = stack[m] /\ m \in DOMAIN stack
          /\ Len(stack) - 1 = m /\ Len(stack) > 1
      BY <1>4, <2>2 DEF Top
    <3>2. /\ stack[m].next - 1 \in DOMAIN Kids(stack[m].node)
          /\ Top.node = Kids(stack[m].node)[stack[m].next - 1]
      BY <1>1, <1>4, <3>1 DEF Linked, Top
    <3>3. stack[m].node \in Nodes
      BY <1>1, <3>1, FrameFacts
    <3>4. Binder(Top.node) = IF Opens(prog, stack[m].node) THEN stack[m].node
                             ELSE Binder(stack[m].node)
      BY <1>1, <3>2, <3>3, KidFacts
    <3>5. current' = IF Opens(prog, stack[m].node)
                     THEN ScopeOpenedBy(stack[m].node)
                     ELSE ScopeOpenedBy(Binder(stack[m].node))
      BY <1>12, <3>4
    <3> QED BY <1>2, <3>1, <3>5
            DEF CurrentIsInnermost, ScopeOpenedBy, Binder, Kind
  <2> QED BY <2>1, <2>2
<1> QED BY <1>3, <1>7, <1>8, <1>9, <1>10, <1>11, <1>13 DEF LexicalInv

LEMMA InitLexical == Init => LexicalInv
<1> SUFFICES ASSUME Init PROVE LexicalInv
  OBVIOUS
<1>1. TypeInv
  BY InitTyping
<1>2. Linked /\ PrevIsOuter /\ NextIsBeyond /\ CurrentIsInnermost
  BY DEF Init, Linked, PrevIsOuter, NextIsBeyond, CurrentIsInnermost
<1>3. NextIsUnvisited
  BY DEF Init, NextIsUnvisited, Marked
<1>4. \A b \in Nodes : b # 0
  BY <1>1, NodeTyping DEF TypeInv, Nodes, NodesOf
<1>5. NestedInOpened /\ ScopesAreLexical
  BY <1>4 DEF Init, NestedInOpened, ScopesAreLexical, ScopeOpenedBy, Exprs, Opens
<1> QED BY <1>1, <1>2, <1>3, <1>5 DEF LexicalInv

LEMMA StepLexical == LexicalInv /\ [Next]_vars => LexicalInv'
<1> SUFFICES ASSUME LexicalInv, [Next]_vars PROVE LexicalInv'
  OBVIOUS
<1>1. ASSUME NEW n \in Nodes, Visit(n) PROVE LexicalInv'
  <2>1. TypeInv'
    BY <1>1, VisitTyping DEF LexicalInv
  <2>2. Linked' /\ PrevIsOuter' /\ CurrentIsInnermost'
    BY <1>1, VisitStackLinked, VisitPrev, VisitCurrent
  <2>3. NextIsUnvisited' /\ NextIsBeyond'
    BY <1>1, VisitNext
  <2>4. ScopesAreLexical' /\ NestedInOpened'
    BY <1>1, VisitScopes
  <2> QED BY <2>1, <2>2, <2>3, <2>4 DEF LexicalInv
<1>2. CASE LeaveScope \/ LeaveOther
  BY <1>2, ReturnKeepsInv
<1>3. CASE UNCHANGED vars
  <2>1. TypeInv'
    BY <1>3, StepTyping DEF LexicalInv
  <2> QED BY <1>3, <2>1
          DEF vars, LexicalInv, Linked, PrevIsOuter, CurrentIsInnermost,
              NextIsUnvisited, NextIsBeyond, NestedInOpened, ScopesAreLexical,
              ScopeOpenedBy, Binder, Kind, Kids, Marked, Nodes, Exprs, IsExpr,
              Opens, Top
<1> QED BY <1>1, <1>2, <1>3 DEF Next, BuildStep, Terminating

LEMMA StepParents ==
  LexicalInv /\ ParentsAreOlder /\ [Next]_vars => ParentsAreOlder'
<1> SUFFICES ASSUME LexicalInv, ParentsAreOlder, [Next]_vars
             PROVE  ParentsAreOlder'
  OBVIOUS
<1>1. ASSUME NEW n \in Nodes, Visit(n) PROVE ParentsAreOlder'
  <2>1. TypeInv /\ ~ Marked(n)
    BY <1>1, VisitedFacts DEF LexicalInv, Visit
  <2>2. /\ Len(scopes) \in Nat /\ DOMAIN scopes = 1 .. Len(scopes)
        /\ current \in 1 .. Len(scopes)
    BY <2>1, TablesTyping
  <2>3. \A s \in DOMAIN scopes : scopes'[s].parent = scopes[s].parent
    BY <1>1, <2>1, VisitEffect DEF Keeps
  <2>4. CASE VisitLet(n) \/ VisitFunctionDeclaration(n)
    <3>1. /\ scopes' \in Seq(ScopeRecord) /\ Len(scopes') = Len(scopes) + 1
          /\ current' = Len(scopes) + 1
      BY <2>1, <2>4, OpeningTyping
    <3>2. Opens(prog, n)
      BY <2>4 DEF VisitLet, VisitFunctionDeclaration, Opens, Kind
    <3>3. scopes'[current'].parent = current
      BY <1>1, <2>1, <3>2, VisitEffect
    <3> QED BY <2>2, <2>3, <3>1, <3>3 DEF ParentsAreOlder
  <2>5. CASE ~ (VisitLet(n) \/ VisitFunctionDeclaration(n))
    <3>1. scopes' \in Seq(ScopeRecord) /\ Len(scopes') = Len(scopes)
      BY <1>1, <2>1, <2>5, StoringTyping, TablesTyping DEF Visit, VisitOther
    <3> QED BY <2>2, <2>3, <3>1 DEF ParentsAreOlder
  <2> QED BY <2>4, <2>5
<1>2. CASE LeaveScope \/ LeaveOther \/ UNCHANGED vars
  BY <1>2 DEF LeaveScope, LeaveOther, Return, vars, ParentsAreOlder
<1> QED BY <1>1, <1>2 DEF Next, BuildStep, Terminating

LEMMA LexicalInvariant == Spec => []LexicalInv
BY InitLexical, StepLexical, PTL DEF Spec

\* However Lets, functions and loops are nested, an expression is mapped to
\* the scope of the Let or function it is written in, and the scopes' parent
\* chain follows the nesting: the names an expression sees are those of the
\* binders around it.
THEOREM StaticScoping == Spec => []ScopesAreLexical
<1>1. LexicalInv => ScopesAreLexical
  BY DEF LexicalInv
<1> QED BY <1>1, LexicalInvariant, PTL

\* current is restored on every way out of a handler: it is always the scope
\* of the innermost Let or function being visited.
THEOREM CurrentScopeRestored == Spec => []CurrentIsInnermost
<1>1. LexicalInv => CurrentIsInnermost
  BY DEF LexicalInv
<1> QED BY <1>1, LexicalInvariant, PTL

\* A scope's parent is older than the scope: every walk along the parent
\* chain, so every lookup, ends.
THEOREM LookupsEnd == Spec => []ParentsAreOlder
<1>1. Init => ParentsAreOlder
  BY DEF Init, ParentsAreOlder, EmptyScope, NoScope
<1> QED BY <1>1, StepParents, LexicalInvariant, PTL DEF Spec

\* A scope, an expression's scope and the presence of a name are never
\* revised once recorded, so a pointer handed out stays good.
THEOREM TablesNeverRevised == Spec => TablesOnlyGrow
<1> DEFINE Grow ==
      /\ \A n \in Nodes :
           /\ scope_by_expr[n] # NoScope =>
                scope_by_expr'[n] = scope_by_expr[n]
           /\ scope_by_let[n] # NoScope => scope_by_let'[n] = scope_by_let[n]
           /\ scope_by_function[n] # NoScope =>
                scope_by_function'[n] = scope_by_function[n]
      /\ \A s \in DOMAIN scopes : s \in DOMAIN scopes' /\ Keeps(scopes'[s], scopes[s])
<1>1. ASSUME LexicalInv, [Next]_vars PROVE Grow
  <2>1. ASSUME NEW n \in Nodes, Visit(n) PROVE Grow
    <3>1. TypeInv /\ ~ Marked(n)
      BY <1>1, <2>1, VisitedFacts DEF LexicalInv, Visit
    <3>2. \A m \in Nodes :
           /\ scope_by_expr[m] # NoScope => scope_by_expr'[m] = scope_by_expr[m]
           /\ scope_by_let[m] # NoScope => scope_by_let'[m] = scope_by_let[m]
           /\ scope_by_function[m] # NoScope =>
                scope_by_function'[m] = scope_by_function[m]
      BY <2>1, <3>1, VisitEffect DEF Marked
    <3>3. \A s \in DOMAIN scopes : s \in DOMAIN scopes' /\ Keeps(scopes'[s], scopes[s])
      BY <2>1, <3>1, VisitEffect
    <3> QED BY <3>2, <3>3
  <2>2. CASE LeaveScope \/ LeaveOther \/ UNCHANGED vars
    BY <2>2 DEF LeaveScope, LeaveOther, Return, vars, Keeps
  <2> QED BY <1>1, <2>1, <2>2 DEF Next, BuildStep, Terminating
<1>2. ASSUME LexicalInv, [Next]_vars
      PROVE  [ /\ \A n \in Nodes :
                    /\ scope_by_expr[n] # NoScope =>
                         scope_by_expr'[n] = scope_by_expr[n]
                    /\ scope_by_let[n] # NoScope =>
                         scope_by_let'[n] = scope_by_let[n]
                    /\ scope_by_function[n] # NoScope =>
                         scope_by_function'[n] = scope_by_function[n]
               /\ \A s \in DOMAIN scopes :
                    /\ s \in DOMAIN scopes'
                    /\ scopes'[s].parent = scopes[s].parent
                    /\ \A x \in Identifiers :
                         /\ scopes[s].function[x] # Null =>
                              scopes'[s].function[x] # Null
                         /\ scopes[s].type[x] # Null =>
                              scopes'[s].type[x] # Null
                         /\ scopes[s].storage[x] # Null =>
                              scopes'[s].storage[x] # Null ]_vars
  BY <1>1, <1>2 DEF Keeps
<1> QED BY <1>2, LexicalInvariant, PTL DEF Spec, TablesOnlyGrow

-----------------------------------------------------------------------------
(* That Build forgets nothing: what is unrecorded is still ahead.          *)

\* m is in a subtree that some frame has still to hand over.
Ahead(m) ==
  \/ status = "unvisited"
  \/ \E i \in DOMAIN stack : \E j \in DOMAIN Kids(stack[i].node) :
       j >= stack[i].next /\ Below(prog, m, Kids(stack[i].node)[j])

Recorded(m) ==
  /\ (IsExpr(m) /\ m # 1) => scope_by_expr[m] # NoScope
  /\ Opens(prog, m) => ScopeOpenedBy(m) # NoScope

\* Nothing is passed over: what is not ahead has been recorded.
NothingMissed == \A m \in Nodes : Ahead(m) \/ Recorded(m)

\* Every scope but the first is one binder's, and no two binders share one.
Binders == {b \in Nodes : Opens(prog, b)}
OneScopeEach ==
  /\ \A s \in 2 .. Len(scopes) : \E b \in Binders : ScopeOpenedBy(b) = s
  /\ \A a, b \in Binders :
       ScopeOpenedBy(a) # NoScope /\ ScopeOpenedBy(a) = ScopeOpenedBy(b) => a = b
  /\ \A b \in Binders : ScopeOpenedBy(b) # 1

CompleteInv ==
  /\ LexicalInv
  /\ NothingMissed
  /\ OneScopeEach
  /\ scope_by_expr[1] = NoScope

-----------------------------------------------------------------------------
(* Subtrees.                                                               *)

LEMMA SubtreeFacts ==
  ASSUME prog \in Programs, NEW n \in Nodes, NEW m \in Nodes, Below(prog, m, n)
  PROVE  \/ m = n
         \/ m \in ParamsOf(prog, n)
         \/ \E j \in DOMAIN Kids(n) : Below(prog, m, Kids(n)[j])
BY ProgramsAssumption DEF IsProgram, IsTree, Kids, Nodes

LEMMA RootIsAll ==
  ASSUME prog \in Programs, NEW m \in Nodes PROVE Below(prog, m, 1)
<1>1. prog[1].last = Len(prog) /\ Nodes = 1 .. Len(prog)
  BY ProgramsAssumption DEF IsProgram, Nodes, NodesOf
<1> QED BY <1>1 DEF Below

\* Nothing is recorded for parameters and fields.
LEMMA ParamsNeedNothing ==
  ASSUME prog \in Programs, NEW n \in Nodes, NEW m \in ParamsOf(prog, n)
  PROVE  ~ IsExpr(m) /\ ~ Opens(prog, m)
<1>1. prog[m].kind \in {"TypeField", "FieldAssignment"}
  BY ProgramsAssumption DEF IsProgram, IsShaped, Nodes
<1> QED BY <1>1 DEF IsExpr, Kind, ExprKinds, Opens

LEMMA BindersAreNodes ==
  ASSUME TypeInv, NEW b \in Binders
  PROVE  /\ b \in Nodes /\ b # 0 /\ Opens(prog, b)
         /\ ScopeOpenedBy(b) \in 0 .. Len(scopes)
<1>1. b \in Nodes /\ Opens(prog, b)
  BY DEF Binders
<1>2. b # 0
  BY <1>1, NodeTyping DEF TypeInv, Nodes, NodesOf
<1> QED BY <1>1, <1>2, TablesTyping DEF ScopeOpenedBy

-----------------------------------------------------------------------------
(* A handler hands a node over.                                            *)

\* Of n itself everything is recorded.
LEMMA VisitRecords ==
  ASSUME LexicalInv, NEW n \in Nodes, Visit(n) PROVE Recorded(n)'
<1>1. TypeInv /\ ~ Marked(n)
  BY VisitedFacts DEF LexicalInv, Visit
<1>2. prog' = prog
  BY <1>1, VisitEffect
<1>3. current \in 1 .. Len(scopes) /\ Len(scopes) \in Nat /\ DOMAIN scope_by_expr = Nodes
  BY <1>1, TablesTyping
<1>4. ASSUME IsExpr(n), n # 1 PROVE scope_by_expr'[n] # NoScope
  <2>1. RecordScope(n)
    BY <1>4 DEF Visit, VisitLet, VisitFor, VisitOther, VisitFunctionDeclaration,
                VisitVariableDeclaration, VisitTypeDeclaration, IsExpr, ExprKinds
  <2>2. status = "visiting"
    <3>1. stack # <<>>
      BY <1>4 DEF Visit, Visited
    <3> QED BY <3>1 DEF LexicalInv, NextIsUnvisited
  <2>3. scope_by_expr'[n] = current
    BY <1>3, <1>4, <2>1, <2>2 DEF RecordScope
  <2> QED BY <1>3, <2>3 DEF NoScope
<1>5. ASSUME Opens(prog, n) PROVE ScopeOpenedBy(n)' # NoScope
  <2>1. current' = Len(scopes) + 1 /\ current' = ScopeOpenedBy(n)'
    BY <1>1, <1>5, VisitEffect
  <2> QED BY <1>3, <2>1 DEF NoScope
<1> QED BY <1>2, <1>4, <1>5 DEF Recorded, IsExpr, Kind, Opens

\* What is below a child of n is ahead of n's own frame.
LEMMA VisitAheadOfKids ==
  ASSUME LexicalInv, NEW n \in Nodes, Visit(n), NEW m \in Nodes,
         NEW j \in DOMAIN Kids(n), Below(prog, m, Kids(n)[j])
  PROVE  Ahead(m)'
<1>1. TypeInv /\ ~ Marked(n) /\ prog \in Programs
  BY VisitedFacts, TablesTyping DEF LexicalInv, Visit
<1>2. Enter(n) /\ prog' = prog
  BY <1>1, VisitEffect
<1> DEFINE i == Len(stack) + 1
<1>3. i \in DOMAIN stack' /\ stack'[i].node = n /\ stack'[i].next = 1
  BY <1>1, <1>2, PushFacts
<1>4. j >= 1
  BY <1>1, NodeTyping DEF Kids
<1>5. \E k \in DOMAIN stack' : \E l \in DOMAIN Kids(stack'[k].node) :
        l >= stack'[k].next /\ Below(prog, m, Kids(stack'[k].node)[l])
  BY <1>3, <1>4
<1> QED BY <1>2, <1>5 DEF Ahead, Kids

LEMMA VisitAheadOfBelow ==
  ASSUME LexicalInv, NEW n \in Nodes, Visit(n), NEW m \in Nodes, Below(prog, m, n)
  PROVE  Ahead(m)' \/ Recorded(m)'
<1>1. TypeInv /\ ~ Marked(n) /\ prog \in Programs
  BY VisitedFacts, TablesTyping DEF LexicalInv, Visit
<1>2. Enter(n) /\ prog' = prog
  BY <1>1, VisitEffect
<1>3. CASE m = n
  BY <1>3, VisitRecords
<1>4. CASE m \in ParamsOf(prog, n)
  BY <1>1, <1>2, <1>4, ParamsNeedNothing DEF Recorded, IsExpr, Kind, Opens
<1>5. ASSUME NEW j \in DOMAIN Kids(n), Below(prog, m, Kids(n)[j]) PROVE Ahead(m)'
  BY <1>5, VisitAheadOfKids
<1> QED BY <1>1, <1>3, <1>4, <1>5, SubtreeFacts

\* What is ahead stays ahead, but for what is below n.
LEMMA VisitKeepsAhead ==
  ASSUME LexicalInv, NEW n \in Nodes, Visit(n), NEW m \in Nodes,
         ~ Below(prog, m, n), Ahead(m)
  PROVE  Ahead(m)'
<1>1. TypeInv /\ ~ Marked(n) /\ prog \in Programs
  BY VisitedFacts, TablesTyping DEF LexicalInv, Visit
<1>2. Enter(n) /\ Visited(n) /\ prog' = prog
  BY <1>1, VisitEffect
<1>3. n # 1
  BY <1>1, RootIsAll
<1>4. stack # <<>> /\ n = Kids(Top.node)[Top.next]
  BY <1>2, <1>3 DEF Visited, Kids
<1>5. status = "visiting"
  BY <1>4 DEF LexicalInv, NextIsUnvisited
<1>6. PICK i \in DOMAIN stack : \E j \in DOMAIN Kids(stack[i].node) :
        j >= stack[i].next /\ Below(prog, m, Kids(stack[i].node)[j])
  BY <1>5 DEF Ahead
<1>7. PICK j \in DOMAIN Kids(stack[i].node) :
        j >= stack[i].next /\ Below(prog, m, Kids(stack[i].node)[j])
  BY <1>6
<1>8. /\ i \in DOMAIN stack' /\ stack'[i].node = stack[i].node
      /\ stack'[i].next = IF i = Len(stack) THEN stack[i].next + 1 ELSE stack[i].next
  BY <1>1, <1>2, PushFacts
<1>9. i = Len(stack) => j # stack[i].next
  BY <1>4, <1>7 DEF Top
<1>10. stack[i].next \in Nat /\ j \in Nat
  BY <1>1, FrameFacts, NodeTyping DEF Kids
<1>11. j >= stack'[i].next
  BY <1>7, <1>8, <1>9, <1>10
<1>12. \E k \in DOMAIN stack' : \E l \in DOMAIN Kids(stack'[k].node) :
         l >= stack'[k].next /\ Below(prog, m, Kids(stack'[k].node)[l])
  BY <1>7, <1>8, <1>11
<1> QED BY <1>2, <1>12 DEF Ahead, Kids

LEMMA VisitMissesNothing ==
  ASSUME LexicalInv, NothingMissed, NEW n \in Nodes, Visit(n) PROVE NothingMissed'
<1>1. TypeInv /\ ~ Marked(n) /\ prog \in Programs
  BY VisitedFacts, TablesTyping DEF LexicalInv, Visit
<1>2. Enter(n) /\ Visited(n) /\ prog' = prog
  BY <1>1, VisitEffect
<1>3. SUFFICES ASSUME NEW m \in Nodes PROVE Ahead(m)' \/ Recorded(m)'
  BY <1>2 DEF NothingMissed, Nodes
<1>4. CASE Below(prog, m, n)
  BY <1>4, VisitAheadOfBelow
<1>5. CASE ~ Below(prog, m, n) /\ Ahead(m)
  BY <1>5, VisitKeepsAhead
<1>6. CASE ~ Below(prog, m, n) /\ Recorded(m)
  <2>1. m # n
    BY <1>1, <1>6, ProgramsAssumption DEF Below, IsProgram, IsTree, Nodes, NodesOf
  <2>2. m # 0
    BY <1>1, NodeTyping DEF Nodes, NodesOf
  <2>3. /\ scope_by_expr'[m] = scope_by_expr[m]
        /\ scope_by_let'[m] = scope_by_let[m]
        /\ scope_by_function'[m] = scope_by_function[m]
    BY <1>1, <2>1, VisitEffect
  <2> QED BY <1>2, <1>6, <2>2, <2>3
          DEF Recorded, ScopeOpenedBy, IsExpr, Kind, Opens
<1> QED BY <1>4, <1>5, <1>6 DEF NothingMissed

\* A new scope is the newest and n's alone.
LEMMA VisitScopeEach ==
  ASSUME LexicalInv, OneScopeEach, NEW n \in Nodes, Visit(n) PROVE OneScopeEach'
<1>1. TypeInv /\ ~ Marked(n)
  BY VisitedFacts DEF LexicalInv, Visit
<1>2. prog' = prog /\ Binders' = Binders
  BY <1>1, VisitEffect DEF Binders, Nodes, Opens
<1>3. Len(scopes) \in Nat \ {0}
  BY <1>1, TablesTyping
<1>4. \A b \in Binders : b # n => ScopeOpenedBy(b)' = ScopeOpenedBy(b)
  BY <1>1, <1>2, BindersAreNodes, VisitEffect DEF ScopeOpenedBy, Kind
<1>5. \A b \in Binders : ScopeOpenedBy(b) \in 0 .. Len(scopes)
  BY <1>1, BindersAreNodes
<1>6. CASE Opens(prog, n)
  <2>1. n \in Binders /\ ScopeOpenedBy(n)' = Len(scopes) + 1
    BY <1>1, <1>6, VisitEffect DEF Binders
  <2>2. Len(scopes') = Len(scopes) + 1
    <3>1. VisitLet(n) \/ VisitFunctionDeclaration(n)
      BY <1>6 DEF Visit, VisitFor, VisitOther, VisitVariableDeclaration,
                  VisitTypeDeclaration, Opens, Kind, DeclarationKinds
    <3> QED BY <1>1, <3>1, OpeningTyping
  <2>3. ScopeOpenedBy(n) = NoScope
    BY <1>1, <2>1, BindersAreNodes DEF ScopeOpenedBy, Marked
  <2>4. \A s \in 2 .. Len(scopes) : \E b \in Binders : ScopeOpenedBy(b)' = s
    <3>1. TAKE s \in 2 .. Len(scopes)
    <3>2. PICK b \in Binders : ScopeOpenedBy(b) = s
      BY DEF OneScopeEach
    <3>3. b # n
      BY <2>3, <3>2 DEF NoScope
    <3> QED BY <1>4, <3>2, <3>3
  <2>5. \A s \in (2 .. Len(scopes))' : \E b \in Binders : ScopeOpenedBy(b)' = s
    BY <1>3, <2>1, <2>2, <2>4
  <2>6. \A a, b \in Binders :
          ScopeOpenedBy(a)' # NoScope /\ ScopeOpenedBy(a)' = ScopeOpenedBy(b)' => a = b
    BY <1>3, <1>4, <1>5, <2>1 DEF OneScopeEach
  <2>7. \A b \in Binders : ScopeOpenedBy(b)' # 1
    BY <1>3, <1>4, <2>1 DEF OneScopeEach
  <2> QED BY <1>2, <2>5, <2>6, <2>7 DEF OneScopeEach
<1>7. CASE ~ Opens(prog, n)
  <2>1. \A b \in Binders : ScopeOpenedBy(b)' = ScopeOpenedBy(b)
    BY <1>4, <1>7 DEF Binders
  <2>2. Len(scopes') = Len(scopes)
    <3>1. VisitVariableDeclaration(n) \/ VisitTypeDeclaration(n) \/ VisitFor(n) \/ VisitOther(n)
      BY <1>7 DEF Visit, VisitLet, VisitFunctionDeclaration, Opens, Kind
    <3> QED BY <1>1, <3>1, StoringTyping DEF VisitOther
  <2> QED BY <1>2, <2>1, <2>2 DEF OneScopeEach
<1> QED BY <1>6, <1>7

\* The root is handed over first, when no scope is recorded.
LEMMA VisitRoot ==
  ASSUME LexicalInv, scope_by_expr[1] = NoScope, NEW n \in Nodes, Visit(n)
  PROVE  scope_by_expr'[1] = NoScope
<1>1. TypeInv /\ ~ Marked(n) /\ 1 \in Nodes /\ prog \in Programs
  BY VisitedFacts, TablesTyping, RootIsNode DEF LexicalInv, Visit
<1>2. CASE n = 1
  <2>1. stack = <<>>
    <3>1. SUFFICES ASSUME stack # <<>> PROVE FALSE
      OBVIOUS
    <3>2. /\ Top.node \in Nodes /\ Top.next \in DOMAIN Kids(Top.node)
          /\ n = Kids(Top.node)[Top.next]
      BY <1>1, <3>1, TopTyping DEF Visit, Visited, HasNext, Kids, LexicalInv, NextIsUnvisited
    <3>3. Top.node < 1 /\ Top.node \in 1 .. Len(prog)
      BY <1>1, <1>2, <3>2, KidFacts DEF Nodes, NodesOf
    <3> QED BY <1>1, <3>3, NodeTyping
  <2>2. status # "visiting"
    BY <2>1 DEF Visit, Visited
  <2>3. scope_by_expr' = scope_by_expr
    BY <2>2 DEF Visit, VisitLet, VisitFor, VisitOther, VisitFunctionDeclaration,
                VisitVariableDeclaration, VisitTypeDeclaration, RecordScope
  <2> QED BY <2>3
<1>3. CASE n # 1
  BY <1>1, <1>3, VisitEffect
<1> QED BY <1>2, <1>3

-----------------------------------------------------------------------------
(* The invariant.                                                          *)

\* A handler that returns has nothing to hand over.
LEMMA ReturnKeepsAhead ==
  ASSUME LexicalInv, Return, NEW m \in Nodes, Ahead(m) PROVE Ahead(m)'
<1>1. TypeInv /\ prog' = prog /\ stack # <<>> /\ ~ HasNext(Top)
  BY DEF LexicalInv, Return
<1>2. status = "visiting"
  BY <1>1 DEF LexicalInv, NextIsUnvisited
<1>3. PICK i \in DOMAIN stack : \E j \in DOMAIN Kids(stack[i].node) :
        j >= stack[i].next /\ Below(prog, m, Kids(stack[i].node)[j])
  BY <1>2 DEF Ahead
<1>4. i # Len(stack)
  <2>1. SUFFICES ASSUME i = Len(stack) PROVE FALSE
    OBVIOUS
  <2>2. Top.next \in Nat \ {0} /\ Top.node \in Nodes
    BY <1>1, TopTyping
  <2>3. Kids(Top.node) \in Seq(Nodes)
    BY <1>1, <2>2, NodeTyping DEF Kids, TypeInv
  <2> QED BY <1>1, <1>3, <2>1, <2>2, <2>3 DEF Top, HasNext, Kids
<1>5. i \in DOMAIN stack' /\ stack'[i] = stack[i]
  BY <1>1, <1>4, PopFacts
<1> QED BY <1>1, <1>3, <1>5 DEF Ahead, Kids

LEMMA ReturnComplete ==
  ASSUME CompleteInv, LeaveScope \/ LeaveOther PROVE CompleteInv'
<1>1. LexicalInv /\ TypeInv /\ Return
  BY DEF CompleteInv, LexicalInv, LeaveScope, LeaveOther
<1>2. /\ prog' = prog /\ scopes' = scopes /\ scope_by_expr' = scope_by_expr
      /\ scope_by_let' = scope_by_let /\ scope_by_function' = scope_by_function
      /\ stack # <<>> /\ ~ HasNext(Top)
  BY <1>1 DEF Return
<1>3. LexicalInv'
  BY <1>1, ReturnKeepsInv
<1>4. OneScopeEach' /\ scope_by_expr'[1] = NoScope
  BY <1>2 DEF CompleteInv, OneScopeEach, Binders, Nodes, Opens, ScopeOpenedBy, Kind
<1>5. ASSUME NEW m \in Nodes PROVE Ahead(m)' \/ Recorded(m)'
  <2>1. CASE Recorded(m)
    BY <1>2, <2>1 DEF Recorded, ScopeOpenedBy, IsExpr, Kind, Opens
  <2>2. CASE Ahead(m)
    BY <1>1, <2>2, ReturnKeepsAhead
  <2> QED BY <2>1, <2>2 DEF CompleteInv, NothingMissed
<1>6. NothingMissed'
  BY <1>2, <1>5 DEF NothingMissed, Nodes
<1> QED BY <1>3, <1>4, <1>6 DEF CompleteInv

LEMMA InitComplete == Init => CompleteInv
<1> SUFFICES ASSUME Init PROVE CompleteInv
  OBVIOUS
<1>1. LexicalInv /\ TypeInv /\ 1 \in Nodes
  BY InitLexical, InitTyping, RootIsNode DEF Init
<1>2. NothingMissed
  BY DEF Init, NothingMissed, Ahead
<1>3. scope_by_expr[1] = NoScope
  BY <1>1 DEF Init
<1>4. \A b \in Binders : ScopeOpenedBy(b) = NoScope
  BY <1>1, BindersAreNodes DEF Init, ScopeOpenedBy
<1>5. Len(scopes) = 1
  BY DEF Init
<1>6. OneScopeEach
  BY <1>4, <1>5 DEF OneScopeEach, NoScope
<1> QED BY <1>1, <1>2, <1>3, <1>6 DEF CompleteInv

LEMMA StepComplete == CompleteInv /\ [Next]_vars => CompleteInv'
<1> SUFFICES ASSUME CompleteInv, [Next]_vars PROVE CompleteInv'
  OBVIOUS
<1>1. LexicalInv'
  BY StepLexical DEF CompleteInv
<1>2. ASSUME NEW n \in Nodes, Visit(n) PROVE CompleteInv'
  BY <1>1, <1>2, VisitMissesNothing, VisitScopeEach, VisitRoot DEF CompleteInv
<1>3. CASE LeaveScope \/ LeaveOther
  BY <1>3, ReturnComplete
<1>4. CASE UNCHANGED vars
  BY <1>1, <1>4 DEF vars, CompleteInv, NothingMissed, OneScopeEach, Ahead, Recorded,
     Binders, Nodes, Opens, ScopeOpenedBy, Kind, Kids, IsExpr
<1> QED BY <1>2, <1>3, <1>4 DEF Next, BuildStep, Terminating

LEMMA CompleteInvariant == Spec => []CompleteInv
BY InitComplete, StepComplete, PTL DEF Spec

LEMMA CompleteTable == CompleteInv => TableIsComplete
<1> SUFFICES ASSUME CompleteInv, Built PROVE TableIsComplete
  BY DEF TableIsComplete
<1>1. TypeInv /\ stack = <<>> /\ status = "built"
  BY DEF CompleteInv, LexicalInv, NextIsUnvisited, Built
<1>2. \A m \in Nodes : Recorded(m)
  BY <1>1 DEF CompleteInv, NothingMissed, Ahead
<1>3. \A e \in Exprs \ {1} : scope_by_expr[e] # NoScope
  BY <1>2 DEF Exprs, Recorded
<1>4. \A b \in Binders : ScopeOpenedBy(b) # NoScope
  BY <1>2 DEF Binders, Recorded
<1>5. \A b \in Binders : ScopeOpenedBy(b) \in 2 .. Len(scopes)
  <2>1. \A b \in Binders : ScopeOpenedBy(b) \in 0 .. Len(scopes)
    BY <1>1, BindersAreNodes
  <2>2. \A b \in Binders : ScopeOpenedBy(b) # 1
    BY DEF CompleteInv, OneScopeEach
  <2> QED BY <1>1, <1>4, <2>1, <2>2, TablesTyping DEF NoScope
<1>6. \A s \in 2 .. Len(scopes) : \E b \in Binders : ScopeOpenedBy(b) = s
  BY DEF CompleteInv, OneScopeEach
<1>7. {ScopeOpenedBy(b) : b \in Binders} = 2 .. Len(scopes)
  BY <1>5, <1>6
<1>8. \A a, b \in Binders : ScopeOpenedBy(a) = ScopeOpenedBy(b) => a = b
  BY <1>4 DEF CompleteInv, OneScopeEach
<1> QED BY <1>3, <1>7, <1>8 DEF TableIsComplete, CompleteInv, Binders

-----------------------------------------------------------------------------
(* When Build returns.                                                     *)

\* When Build returns, every expression but the root, every Let and every
\* function of the tree has its scope, and each scope but the first is that of
\* exactly one of them: no child is passed over and none is visited twice.
THEOREM BuildForgetsNothing == Spec => []TableIsComplete
BY CompleteInvariant, CompleteTable, PTL

=============================================================================
