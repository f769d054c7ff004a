----------------------- MODULE LookupsLexical_proofs -----------------------
(***************************************************************************)
(* That lookups follow static scoping: the proof of LookupsAreLexical, on  *)
(* top of the invariants of SymbolTable_proofs.                            *)
(*                                                                         *)
(* Part one is about trees and about walks along parents; arguments that   *)
(* would be inductions are by a least counterexample.  Part two is an      *)
(* invariant of Build: each map holds the last declaration visited so far  *)
(* or one that is still ahead.  Part three puts the two together.          *)
(***************************************************************************)
EXTENDS SymbolTable_proofs, WellFoundedInduction

-----------------------------------------------------------------------------
(* Trees.                                                                  *)

LEMMA LeastNatural ==
  ASSUME NEW T \in SUBSET Nat, T # {}
  PROVE  \E x \in T : \A y \in T : x <= y
<1>1. \E x \in T : \A y \in T : ~ (<<y, x>> \in OpToRel(<, Nat))
  BY WFMin, NatLessThanWellFounded, Zenon
<1>2. PICK x \in T : \A y \in T : ~ (<<y, x>> \in OpToRel(<, Nat))
  BY <1>1
<1>3. ASSUME NEW y \in T PROVE ~ (y < x)
  BY <1>2, <1>3, Zenon DEF OpToRel
<1>4. \A y \in T : x <= y
  BY <1>3
<1> QED BY <1>4

IsParam(m) == Kind(m) \in {"TypeField", "FieldAssignment"}

\* The parameters and fields are of kinds of their own, and have no children.
LEMMA ParamFacts ==
  ASSUME prog \in Programs, NEW n \in Nodes
  PROVE  /\ \A m \in ParamsOf(prog, n) : m \in Nodes /\ IsParam(m)
         /\ IsParam(n) => DOMAIN Kids(n) = {}
<1>1. IsShaped(prog) /\ Nodes = NodesOf(prog)
  BY ProgramsAssumption DEF IsProgram, Nodes
<1>2. \A m \in ParamsOf(prog, n) : m \in Nodes
  BY NodeTyping DEF ParamsOf
<1>3. \A m \in ParamsOf(prog, n) : IsParam(m)
  BY <1>1 DEF IsShaped, IsParam, Kind
<1>4. ASSUME IsParam(n) PROVE DOMAIN Kids(n) = {}
  <2>1. prog[n].kind \notin Vectors
    BY <1>4 DEF IsParam, Kind, Vectors
  <2>2. DOMAIN prog[n].kids = DOMAIN Children(prog[n].kind)
    BY <1>1, <2>1 DEF IsShaped
  <2>3. Children(prog[n].kind) = <<>>
    BY <1>4 DEF Children, Childless, IsParam, Kind
  <2> QED BY <2>2, <2>3 DEF Kids
<1> QED BY <1>2, <1>3, <1>4

\* The subtrees m is in are nested, and the innermost of the others is that of
\* its parent.
LEMMA OwnerExists ==
  ASSUME prog \in Programs, NEW m \in Nodes, m # 1
  PROVE  \E a \in Nodes : \/ m \in ParamsOf(prog, a)
                         \/ \E j \in DOMAIN Kids(a) : m = Kids(a)[j]
<1>1. Nodes = 1 .. Len(prog) /\ Len(prog) \in Nat /\ 1 \in Nodes
  BY RootIsNode, NodeTyping DEF Nodes, NodesOf
<1> DEFINE Gap == {m - a : a \in {b \in Nodes : b # m /\ Below(prog, m, b)}}
<1>2. Below(prog, m, 1)
  BY RootIsAll
<1>3. Gap \in SUBSET Nat /\ Gap # {}
  BY <1>1, <1>2 DEF Below
<1> HIDE DEF Gap
<1>4. PICK g \in Gap : \A h \in Gap : g <= h
  BY <1>3, LeastNatural
<1>5. PICK a \in Nodes : a # m /\ Below(prog, m, a) /\ g = m - a
  BY <1>4 DEF Gap
<1>6. SUFFICES ASSUME m \notin ParamsOf(prog, a)
      PROVE  \E j \in DOMAIN Kids(a) : m = Kids(a)[j]
  BY <1>5
<1>7. PICK j \in DOMAIN Kids(a) : Below(prog, m, Kids(a)[j])
  BY <1>5, <1>6, SubtreeFacts
<1>8. Kids(a)[j] \in Nodes /\ a < Kids(a)[j]
  BY <1>5, <1>7, KidFacts
<1>9. SUFFICES ASSUME Kids(a)[j] # m PROVE FALSE
  BY <1>5, <1>7
<1>10. m - Kids(a)[j] \in Gap
  BY <1>7, <1>8, <1>9 DEF Gap
<1>11. m - a <= m - Kids(a)[j]
  BY <1>4, <1>5, <1>10
<1> QED BY <1>1, <1>5, <1>8, <1>11

\* A binder comes before what sees it.
LEMMA BinderIsOlder ==
  ASSUME prog \in Programs, NEW n \in Nodes
  PROVE  Binder(n) < n
<1> DEFINE Bad == {m \in Nodes : ~ (Binder(m) < m)}
<1>1. Nodes = 1 .. Len(prog) /\ Len(prog) \in Nat
  BY NodeTyping DEF Nodes, NodesOf
<1>2. SUFFICES ASSUME Bad # {} PROVE FALSE
  OBVIOUS
<1>3. Bad \in SUBSET Nat
  BY <1>1
<1>4. PICK m \in Bad : \A k \in Bad : m <= k
  <2> HIDE DEF Bad
  <2> QED BY <1>2, <1>3, LeastNatural
<1>5. m \in Nodes /\ ~ (Binder(m) < m)
  OBVIOUS
<1>6. m # 1
  BY <1>5, RootBinder
<1>7. PICK a \in Nodes : \/ m \in ParamsOf(prog, a)
                         \/ \E j \in DOMAIN Kids(a) : m = Kids(a)[j]
  BY <1>5, <1>6, OwnerExists
<1>8. a < m /\ Binder(m) = IF Opens(prog, a) THEN a ELSE Binder(a)
  <2>1. CASE m \in ParamsOf(prog, a)
    BY <2>1, ProgramsAssumption DEF IsProgram, IsTree, Nodes, Binder
  <2>2. ASSUME NEW j \in DOMAIN Kids(a), m = Kids(a)[j]
        PROVE  a < m /\ Binder(m) = IF Opens(prog, a) THEN a ELSE Binder(a)
    BY <2>2, KidFacts
  <2> QED BY <1>7, <2>1, <2>2
<1>9. Binder(a) \in 0 .. Len(prog)
  BY NodeTyping DEF Binder
<1>10. a \notin Bad
  BY <1>1, <1>4, <1>8
<1> QED BY <1>1, <1>5, <1>8, <1>9, <1>10

\* The binder of a node is a Let or function around it.
LEMMA BinderFacts ==
  ASSUME prog \in Programs, NEW n \in Nodes, ~ IsParam(n), Binder(n) # 0
  PROVE  /\ Binder(n) \in Binders
         /\ Binder(n) < n
         /\ prog[n].last <= prog[Binder(n)].last
<1> DEFINE Good(m) == \/ Binder(m) = 0
                      \/ /\ Binder(m) \in Binders
                         /\ Binder(m) < m
                         /\ prog[m].last <= prog[Binder(m)].last
           Bad == {m \in Nodes : ~ IsParam(m) /\ ~ Good(m)}
<1>1. Nodes = 1 .. Len(prog) /\ Len(prog) \in Nat
  BY NodeTyping DEF Nodes, NodesOf
<1>2. SUFFICES ASSUME Bad # {} PROVE FALSE
  OBVIOUS
<1>3. Bad \in SUBSET Nat
  BY <1>1
<1>4. PICK m \in Bad : \A k \in Bad : m <= k
  <2> HIDE DEF Bad
  <2> QED BY <1>2, <1>3, LeastNatural
<1>5. m \in Nodes /\ ~ IsParam(m) /\ ~ Good(m)
  OBVIOUS
<1>6. m # 1
  BY <1>5, RootBinder
<1>7. PICK a \in Nodes : \/ m \in ParamsOf(prog, a)
                         \/ \E j \in DOMAIN Kids(a) : m = Kids(a)[j]
  BY <1>5, <1>6, OwnerExists
<1>8. PICK j \in DOMAIN Kids(a) : m = Kids(a)[j]
  BY <1>5, <1>7, ParamFacts
<1>9. /\ a < m /\ m <= prog[m].last /\ prog[m].last <= prog[a].last
      /\ Binder(m) = IF Opens(prog, a) THEN a ELSE Binder(a)
  BY <1>8, KidFacts
<1>10. prog[m].last \in Nodes /\ prog[a].last \in Nodes
  BY <1>5, NodeTyping
<1>11. CASE Opens(prog, a)
  BY <1>1, <1>5, <1>9, <1>10, <1>11 DEF Binders
<1>12. CASE ~ Opens(prog, a)
  <2>1. ~ IsParam(a)
    BY <1>8, ParamFacts
  <2>2. Good(a)
    BY <1>1, <1>4, <1>5, <1>9, <2>1
  <2>3. /\ Binder(a) \in Binders /\ Binder(a) < a /\ Binder(m) = Binder(a)
        /\ prog[a].last <= prog[Binder(a)].last
    BY <1>5, <1>9, <1>12, <2>2
  <2>4. Binder(a) \in Nodes /\ prog[Binder(a)].last \in Nodes
    BY <2>3, NodeTyping DEF Binders
  <2> QED BY <1>1, <1>5, <1>9, <1>10, <2>3, <2>4
<1> QED BY <1>11, <1>12

\* What is declared under a binder lies below one of its children, after its
\* parameters.
LEMMA BelowBinder ==
  ASSUME prog \in Programs, NEW n \in Nodes, ~ IsParam(n), Binder(n) # 0
  PROVE  /\ Binder(n) \in Nodes
         /\ \E j \in DOMAIN Kids(Binder(n)) : Below(prog, n, Kids(Binder(n))[j])
         /\ \A m \in ParamsOf(prog, Binder(n)) : m < n
<1>1. PICK b \in Nodes : b = Binder(n) /\ b < n /\ prog[n].last <= prog[b].last
  BY BinderFacts DEF Binders
<1>2. IsTree(prog)
  BY ProgramsAssumption DEF IsProgram
<1>3. n <= prog[n].last
  BY <1>2 DEF IsTree, Nodes
<1>4. /\ Nodes = 1 .. Len(prog) /\ Len(prog) \in Nat
      /\ prog[n].last \in Nodes /\ prog[b].last \in Nodes
  BY <1>1, NodeTyping DEF Nodes, NodesOf
<1>5. Below(prog, n, b) /\ n # b
  BY <1>1, <1>3, <1>4 DEF Below
<1>6. n \notin ParamsOf(prog, b)
  BY <1>1, ParamFacts
<1>7. PICK j \in DOMAIN Kids(b) : Below(prog, n, Kids(b)[j])
  BY <1>5, <1>6, SubtreeFacts
<1>8. Kids(b)[j] \in Nodes
  BY <1>7, KidFacts
<1>9. \A m \in ParamsOf(prog, b) : m < Kids(b)[j]
  BY <1>2, <1>7 DEF IsTree, Kids, Nodes
<1>10. \A m \in ParamsOf(prog, b) : m < n
  <2>1. TAKE m \in ParamsOf(prog, b)
  <2>2. m \in Nodes /\ m < Kids(b)[j]
    BY <1>9, ParamFacts
  <2> QED BY <1>4, <1>7, <1>8, <2>2 DEF Below
<1> QED BY <1>1, <1>7, <1>10

-----------------------------------------------------------------------------
(* What is still ahead of the visit.                                       *)

\* A frame's node comes before those of the frames above it.
LEMMA FramesAscend ==
  ASSUME TypeInv, Linked, NEW i \in DOMAIN stack
  PROVE  stack[i].node <= Top.node
<1>1. /\ prog \in Programs /\ Len(stack) \in DOMAIN stack
      /\ DOMAIN stack = 1 .. Len(stack) /\ Len(stack) \in Nat
  BY TablesTyping, TopTyping DEF TypeInv, TypeOK
<1> DEFINE Bad == {Len(stack) - k : k \in {l \in DOMAIN stack : ~ (stack[l].node <= Top.node)}}
<1>2. SUFFICES ASSUME Bad # {} PROVE FALSE
  OBVIOUS
<1>3. Bad \in SUBSET Nat
  BY <1>1
<1> HIDE DEF Bad
<1>4. PICK g \in Bad : \A h \in Bad : g <= h
  BY <1>2, <1>3, LeastNatural
<1>5. PICK k \in DOMAIN stack : g = Len(stack) - k /\ ~ (stack[k].node <= Top.node)
  BY <1>4 DEF Bad
<1>6. stack[k].node \in Nodes /\ stack[k].node \in Nat
  BY <1>1, <1>5, FrameFacts, NodeTyping
<1>7. k # Len(stack)
  BY <1>5, <1>6 DEF Top
<1>8. k + 1 \in DOMAIN stack /\ k + 1 > 1 /\ (k + 1) - 1 = k
  BY <1>1, <1>7
<1>9. /\ stack[k].next - 1 \in DOMAIN Kids(stack[k].node)
      /\ stack[k + 1].node = Kids(stack[k].node)[stack[k].next - 1]
  BY <1>8 DEF Linked
<1>10. stack[k].node < stack[k + 1].node
  BY <1>1, <1>6, <1>9, KidFacts
<1>11. Len(stack) - (k + 1) \notin Bad
  BY <1>1, <1>4, <1>5, <1>8
<1>12. stack[k + 1].node <= Top.node
  BY <1>8, <1>11 DEF Bad
<1>13. stack[k + 1].node \in Nat /\ Top.node \in Nat
  BY <1>1, <1>8, FrameFacts, NodeTyping DEF Top
<1> QED BY <1>5, <1>6, <1>10, <1>12, <1>13

\* All nodes after the one a visitor has just entered are ahead, parameters
\* and fields excepted.
LaterAhead ==
  TypeInv /\ Linked /\ stack # <<>> /\ Top.next = 1 =>
    \A w \in Nodes : w > Top.node => Ahead(w) \/ IsParam(w)

LEMMA LaterIsAhead == LaterAhead
<1> SUFFICES ASSUME TypeInv, Linked, stack # <<>>, Top.next = 1,
                    NEW w \in Nodes, w > Top.node
             PROVE  Ahead(w) \/ IsParam(w)
  BY DEF LaterAhead
<1>1. /\ prog \in Programs /\ Len(stack) \in DOMAIN stack
      /\ DOMAIN stack = 1 .. Len(stack) /\ Len(stack) \in Nat
      /\ 1 \in DOMAIN stack
  BY TablesTyping, TopTyping DEF TypeInv, TypeOK
<1>2. \A k \in DOMAIN stack : stack[k].node \in Nodes /\ stack[k].node \in Nat
  BY <1>1, FrameFacts, NodeTyping
<1>3. w \in Nat
  BY <1>1, NodeTyping
<1> DEFINE Gap == {Len(stack) - k : k \in {l \in DOMAIN stack : Below(prog, w, stack[l].node)}}
<1>4. Gap \in SUBSET Nat /\ Gap # {}
  <2>1. stack[1].node = 1
    BY <1>1 DEF Linked
  <2> QED BY <1>1, <2>1, RootIsAll
<1> HIDE DEF Gap
<1>5. PICK g \in Gap : \A h \in Gap : g <= h
  BY <1>4, LeastNatural
<1>6. PICK i \in DOMAIN stack : g = Len(stack) - i /\ Below(prog, w, stack[i].node)
  BY <1>5 DEF Gap
<1>7. w # stack[i].node
  BY <1>1, <1>2, <1>3, FramesAscend DEF Top
<1>8. CASE w \in ParamsOf(prog, stack[i].node)
  BY <1>1, <1>2, <1>8, ParamFacts
<1>9. ASSUME NEW j \in DOMAIN Kids(stack[i].node), Below(prog, w, Kids(stack[i].node)[j])
      PROVE  Ahead(w)
  <2>1. SUFFICES ASSUME ~ (j >= stack[i].next) PROVE FALSE
    BY <1>9 DEF Ahead
  <2>2. j \in Nat \ {0} /\ stack[i].next \in Nat
    BY <1>1, <1>2, NodeTyping, FrameFacts DEF Kids
  <2>3. i # Len(stack)
    BY <2>1, <2>2 DEF Top
  <2>4. i + 1 \in DOMAIN stack /\ i + 1 > 1 /\ (i + 1) - 1 = i
    BY <1>1, <2>3
  <2>5. /\ stack[i].next - 1 \in DOMAIN Kids(stack[i].node)
        /\ stack[i + 1].node = Kids(stack[i].node)[stack[i].next - 1]
    BY <2>4 DEF Linked
  <2>6. CASE j = stack[i].next - 1
    <3>1. Len(stack) - (i + 1) \in Gap
      BY <1>9, <2>4, <2>5, <2>6 DEF Gap
    <3> QED BY <1>1, <1>5, <1>6, <3>1
  <2>7. CASE j < stack[i].next - 1
    <3>1. prog[Kids(stack[i].node)[j]].last < stack[i + 1].node
      BY <1>1, <1>2, <2>5, <2>7, KidFacts
    <3>2. Kids(stack[i].node)[j] \in Nodes
      BY <1>1, <1>2, <1>9, KidFacts
    <3>3. prog[Kids(stack[i].node)[j]].last \in Nat
      BY <1>1, <3>2, NodeTyping DEF Nodes, NodesOf
    <3>4. stack[i + 1].node <= Top.node /\ stack[i + 1].node \in Nat /\ Top.node \in Nat
      BY <1>1, <1>2, <2>4, FramesAscend DEF Top
    <3> QED BY <1>3, <1>9, <3>1, <3>3, <3>4 DEF Below
  <2> QED BY <2>1, <2>2, <2>6, <2>7
<1> QED BY <1>1, <1>2, <1>6, <1>7, <1>8, <1>9, SubtreeFacts

LEMMA VisitLaterIsAhead ==
  ASSUME LexicalInv, NEW n \in Nodes, Visit(n), NEW w \in Nodes, w > n
  PROVE  Ahead(w)' \/ IsParam(w)
<1>1. TypeInv /\ ~ Marked(n)
  BY VisitedFacts DEF LexicalInv, Visit
<1>2. Enter(n) /\ prog' = prog
  BY <1>1, VisitEffect
<1>3. LexicalInv'
  BY StepLexical DEF Next, BuildStep
<1>4. stack' # <<>> /\ Top'.node = n /\ Top'.next = 1
  <2>1. /\ Len(stack') = Len(stack) + 1 /\ Len(stack) \in Nat
        /\ stack'[Len(stack) + 1].node = n /\ stack'[Len(stack) + 1].next = 1
        /\ DOMAIN stack' = 1 .. Len(stack) + 1
    BY <1>1, <1>2, PushFacts
  <2> QED BY <2>1 DEF Top
<1>5. LaterAhead'
  BY LaterIsAhead, PTL
<1>6. \A m \in Nodes : m > n => Ahead(m)' \/ IsParam(m)
  BY <1>2, <1>3, <1>4, <1>5 DEF LaterAhead, LexicalInv, Nodes, IsParam, Kind
<1> QED BY <1>6

LEMMA VisitOthersStayAhead ==
  ASSUME LexicalInv, NEW n \in Nodes, Visit(n),
         NEW w \in Nodes, w # n, Ahead(w), ~ IsParam(w)
  PROVE  Ahead(w)'
<1>1. TypeInv /\ prog \in Programs
  BY TablesTyping DEF LexicalInv
<1>2. CASE Below(prog, w, n)
  <2>1. w \notin ParamsOf(prog, n)
    BY <1>1, ParamFacts
  <2>2. PICK j \in DOMAIN Kids(n) : Below(prog, w, Kids(n)[j])
    BY <1>1, <1>2, <2>1, SubtreeFacts
  <2> QED BY <2>2, VisitAheadOfKids
<1>3. CASE ~ Below(prog, w, n)
  BY <1>3, VisitKeepsAhead
<1> QED BY <1>2, <1>3

-----------------------------------------------------------------------------
(* What the maps hold while Build runs.                                    *)

\* v is the last of the declarations D, but for those still to be visited.
UpToDate(v, D) ==
  /\ v \in D \cup {Null}
  /\ \A w \in D : w <= v \/ (Ahead(w) /\ ~ IsParam(w))

MapsUpToDate ==
  \A b \in Binders \cup {0} : ScopeOpenedBy(b) # NoScope =>
    \A x \in Identifiers :
      /\ UpToDate(scopes[ScopeOpenedBy(b)].function[x], FunctionsOf(b, x))
      /\ UpToDate(scopes[ScopeOpenedBy(b)].type[x], TypesOf(b, x))
      /\ UpToDate(scopes[ScopeOpenedBy(b)].storage[x], StorageOf(b, x))

LEMMA UpToDateKept ==
  ASSUME LexicalInv, NEW n \in Nodes, Visit(n), NEW D \in SUBSET Nodes, NEW v,
         UpToDate(v, D), n \notin D \/ IsParam(n)
  PROVE  UpToDate(v, D)'
<1>1. TypeInv /\ ~ Marked(n)
  BY VisitedFacts DEF LexicalInv, Visit
<1>2. prog' = prog
  BY <1>1, VisitEffect
<1>3. \A w \in D : w <= v \/ (Ahead(w)' /\ ~ IsParam(w))
  BY VisitOthersStayAhead DEF UpToDate
<1> QED BY <1>2, <1>3 DEF UpToDate, IsParam, Kind

LEMMA UpToDateStored ==
  ASSUME LexicalInv, NEW n \in Nodes, Visit(n), NEW D \in SUBSET Nodes, n \in D,
         \A w \in D : IsParam(w) => w <= n
  PROVE  UpToDate(n, D)'
<1>1. TypeInv /\ ~ Marked(n) /\ prog \in Programs
  BY VisitedFacts, TablesTyping DEF LexicalInv, Visit
<1>2. prog' = prog
  BY <1>1, VisitEffect
<1>3. ASSUME NEW w \in D PROVE w <= n \/ (Ahead(w)' /\ ~ IsParam(w))
  <2>1. w \in Nat /\ n \in Nat
    BY <1>1, NodeTyping
  <2>2. w > n => Ahead(w)' \/ IsParam(w)
    BY VisitLaterIsAhead
  <2> QED BY <2>1, <2>2
<1> QED BY <1>2, <1>3 DEF UpToDate, IsParam, Kind

LEMMA UpToDateFresh ==
  ASSUME LexicalInv, NEW n \in Nodes, Visit(n), NEW D \in SUBSET Nodes,
         NEW v \in D \cup {Null},
         \A w \in D : \/ w <= v
                      \/ /\ ~ IsParam(w)
                         /\ \E j \in DOMAIN Kids(n) : Below(prog, w, Kids(n)[j])
  PROVE  UpToDate(v, D)'
<1>1. TypeInv /\ ~ Marked(n)
  BY VisitedFacts DEF LexicalInv, Visit
<1>2. prog' = prog
  BY <1>1, VisitEffect
<1>3. \A w \in D : w <= v \/ (Ahead(w)' /\ ~ IsParam(w))
  BY VisitAheadOfKids
<1> QED BY <1>2, <1>3 DEF UpToDate, IsParam, Kind

LEMMA LastOfFacts ==
  ASSUME prog \in Programs, NEW S \in SUBSET Nodes
  PROVE  /\ S = {} => LastOf(S) = Null
         /\ S # {} => LastOf(S) \in S /\ \A m \in S : m <= LastOf(S)
<1>1. Nodes = 1 .. Len(prog) /\ Len(prog) \in Nat
  BY RootIsNode, NodeTyping DEF Nodes, NodesOf
<1>2. ASSUME S # {} PROVE \E n \in S : \A m \in S : m <= n
  <2> DEFINE Gap == {Len(prog) - m : m \in S}
  <2>1. Gap \in SUBSET Nat /\ Gap # {}
    <3>1. \A m \in S : Len(prog) - m \in Nat
      BY <1>1
    <3> QED BY <1>2, <3>1
  <2> HIDE DEF Gap
  <2>2. PICK g \in Gap : \A h \in Gap : g <= h
    BY <2>1, LeastNatural
  <2>3. PICK n \in S : g = Len(prog) - n
    BY <2>2 DEF Gap
  <2>4. \A m \in S : g <= Len(prog) - m
    BY <2>2 DEF Gap
  <2> QED BY <1>1, <2>3, <2>4
<1> QED BY <1>2 DEF LastOf

\* What a handler writes into a scope that was there before.
LEMMA VisitWrites ==
  ASSUME LexicalInv, NEW n \in Nodes, Visit(n),
         NEW s \in DOMAIN scopes, NEW x \in Identifiers
  PROVE  /\ scopes'[s].function[x] =
              IF Kind(n) = "FunctionDeclaration" /\ s = current /\ x = prog[n].id
              THEN n ELSE scopes[s].function[x]
         /\ scopes'[s].type[x] =
              IF Kind(n) = "TypeDeclaration" /\ s = current /\ x = prog[n].id
              THEN n ELSE scopes[s].type[x]
         /\ scopes'[s].storage[x] =
              IF /\ Kind(n) \in {"VariableDeclaration", "For"}
                 /\ s = current /\ x = prog[n].id
              THEN n ELSE scopes[s].storage[x]
<1>1. /\ TypeInv /\ scopes \in Seq(ScopeRecord) /\ current \in DOMAIN scopes
      /\ DOMAIN scopes = 1 .. Len(scopes) /\ Len(scopes) \in Nat
  BY TablesTyping DEF LexicalInv
<1>2. /\ scopes[s] \in ScopeRecord
      /\ DOMAIN scopes[s].function = Identifiers
      /\ DOMAIN scopes[s].type = Identifiers
      /\ DOMAIN scopes[s].storage = Identifiers
  <2>1. scopes[s] \in ScopeRecord
    BY <1>1
  <2>2. \A m \in NameMap : DOMAIN m = Identifiers
    BY DEF NameMap
  <2> QED BY <2>1, <2>2 DEF ScopeRecord
<1>3. CASE VisitLet(n)
  <2>1. scopes' = Append(scopes, LetScope(n)) /\ Kind(n) = "Let"
    BY <1>3 DEF VisitLet, Open
  <2>2. scopes'[s] = scopes[s]
    BY <1>1, <2>1, NewScopeTyping, AppendProperties
  <2> QED BY <2>1, <2>2
<1>4. CASE VisitFunctionDeclaration(n)
  <2> DEFINE stored == [scopes EXCEPT ![current].function[prog[n].id] = n]
  <2>1. stored \in Seq(ScopeRecord) /\ Len(stored) = Len(scopes)
    BY <1>1, StoreTyping, Zenon
  <2>2. /\ scopes' = Append(stored, FunctionScope(n))
        /\ Kind(n) = "FunctionDeclaration"
    BY <1>4 DEF VisitFunctionDeclaration
  <2>3. stored[s] = IF s = current
                    THEN [scopes[s] EXCEPT !.function[prog[n].id] = n] ELSE scopes[s]
    BY <1>1
  <2> HIDE DEF stored
  <2>4. scopes'[s] = stored[s]
    BY <1>1, <2>1, <2>2, NewScopeTyping, AppendProperties
  <2> QED BY <1>2, <2>2, <2>3, <2>4 DEF ScopeRecord
<1>5. CASE VisitVariableDeclaration(n) \/ VisitFor(n)
  <2>1. /\ scopes' = [scopes EXCEPT ![current].storage[prog[n].id] = n]
        /\ Kind(n) \in {"VariableDeclaration", "For"}
    BY <1>5 DEF VisitVariableDeclaration, VisitFor, StoreVariable
  <2>2. scopes'[s] = IF s = current
                     THEN [scopes[s] EXCEPT !.storage[prog[n].id] = n] ELSE scopes[s]
    BY <1>1, <2>1
  <2> QED BY <1>2, <2>1, <2>2 DEF ScopeRecord
<1>6. CASE VisitTypeDeclaration(n)
  <2>1. /\ scopes' = [scopes EXCEPT ![current].type[prog[n].id] = n]
        /\ Kind(n) = "TypeDeclaration"
    BY <1>6 DEF VisitTypeDeclaration
  <2>2. scopes'[s] = IF s = current
                     THEN [scopes[s] EXCEPT !.type[prog[n].id] = n] ELSE scopes[s]
    BY <1>1, <2>1
  <2> QED BY <1>2, <2>1, <2>2 DEF ScopeRecord
<1>7. CASE VisitOther(n)
  BY <1>7 DEF VisitOther, DeclarationKinds
<1> QED BY <1>3, <1>4, <1>5, <1>6, <1>7 DEF Visit

\* No other binder's scope is the one a node is declared in.
LEMMA CurrentIsBinders ==
  ASSUME CompleteInv, NEW n \in Nodes, Visit(n), ~ IsParam(n),
         NEW b \in Binders \cup {0}, ScopeOpenedBy(b) # NoScope
  PROVE  ScopeOpenedBy(b) = current <=> b = Binder(n)
<1>1. /\ TypeInv /\ prog \in Programs /\ current = ScopeOpenedBy(Binder(n))
      /\ current # NoScope
  BY VisitedFacts, TablesTyping DEF CompleteInv, LexicalInv, Visit, NoScope
<1>2. Binder(n) \in Binders \cup {0}
  BY <1>1, BinderFacts
<1>3. ScopeOpenedBy(0) = 1 /\ 0 \notin Binders
  BY <1>1, BindersAreNodes DEF ScopeOpenedBy
<1> QED BY <1>1, <1>2, <1>3 DEF CompleteInv, OneScopeEach

\* The maps of a scope that was there before stay up to date: n itself is
\* stored if it is one of the declarations.
LEMMA OldScopeUpToDate ==
  ASSUME CompleteInv, MapsUpToDate, NEW n \in Nodes, Visit(n),
         NEW b \in Binders \cup {0}, ScopeOpenedBy(b) # NoScope,
         NEW x \in Identifiers
  PROVE  /\ UpToDate(scopes[ScopeOpenedBy(b)].function[x], FunctionsOf(b, x))'
         /\ UpToDate(scopes[ScopeOpenedBy(b)].type[x], TypesOf(b, x))'
         /\ UpToDate(scopes[ScopeOpenedBy(b)].storage[x], StorageOf(b, x))'
<1>1. /\ LexicalInv /\ TypeInv /\ ~ Marked(n) /\ prog \in Programs
      /\ current = ScopeOpenedBy(Binder(n))
  BY VisitedFacts, TablesTyping DEF CompleteInv, LexicalInv, Visit
<1>2. prog' = prog
  BY <1>1, VisitEffect
<1>3. b \in Nodes \cup {0}
  BY DEF Binders
<1>4. ScopeOpenedBy(b)' = ScopeOpenedBy(b)
  BY <1>1, <1>3, OpenedScopeStays
<1>5. PICK s : s = ScopeOpenedBy(b)
  OBVIOUS
<1>6. s \in DOMAIN scopes
  <2>1. s \in 0 .. Len(scopes)
    <3>1. CASE b = 0
      BY <1>1, <1>5, <3>1, TablesTyping DEF ScopeOpenedBy
    <3>2. CASE b # 0
      BY <1>1, <1>5, <3>2, BindersAreNodes
    <3> QED BY <3>1, <3>2
  <2> QED BY <1>1, <1>5, <2>1, TablesTyping DEF NoScope
<1>7. ~ IsParam(n) => (s = current <=> b = Binder(n))
  BY <1>5, CurrentIsBinders
<1>8. PICK F \in SUBSET Nodes : F = FunctionsOf(b, x)
  BY DEF FunctionsOf
<1>9. PICK T \in SUBSET Nodes : T = TypesOf(b, x)
  BY DEF TypesOf
<1>10. PICK S \in SUBSET Nodes : S = StorageOf(b, x)
  BY DEF StorageOf
<1>11. FunctionsOf(b, x)' = F /\ TypesOf(b, x)' = T /\ StorageOf(b, x)' = S
  BY <1>2, <1>8, <1>9, <1>10 DEF FunctionsOf, TypesOf, StorageOf, Nodes, Kind, Binder
<1>12. PICK f, t, v : /\ f = scopes[s].function[x] /\ t = scopes[s].type[x]
                      /\ v = scopes[s].storage[x]
  OBVIOUS
<1>13. UpToDate(f, F) /\ UpToDate(t, T) /\ UpToDate(v, S)
  BY <1>5, <1>8, <1>9, <1>10, <1>12 DEF MapsUpToDate
<1>14. UpToDate(f, F)' \/ (n \in F /\ ~ IsParam(n))
  BY <1>1, <1>13, UpToDateKept
<1>15. UpToDate(t, T)' \/ (n \in T /\ ~ IsParam(n))
  BY <1>1, <1>13, UpToDateKept
<1>16. UpToDate(v, S)' \/ (n \in S /\ ~ IsParam(n))
  BY <1>1, <1>13, UpToDateKept
<1>17. ~ IsParam(n) =>
         /\ scopes'[s].function[x] = IF n \in F THEN n ELSE f
         /\ scopes'[s].type[x] = IF n \in T THEN n ELSE t
         /\ scopes'[s].storage[x] = IF n \in S THEN n ELSE v
  <2>1. SUFFICES ASSUME ~ IsParam(n)
        PROVE  /\ scopes'[s].function[x] = IF n \in F THEN n ELSE f
               /\ scopes'[s].type[x] = IF n \in T THEN n ELSE t
               /\ scopes'[s].storage[x] = IF n \in S THEN n ELSE v
    OBVIOUS
  <2>2. n \in F <=> (Kind(n) = "FunctionDeclaration" /\ s = current /\ x = prog[n].id)
    BY <1>7, <1>8, <2>1 DEF FunctionsOf
  <2>3. n \in T <=> (Kind(n) = "TypeDeclaration" /\ s = current /\ x = prog[n].id)
    BY <1>7, <1>9, <2>1 DEF TypesOf
  <2>4. n \in S <=> /\ Kind(n) \in {"VariableDeclaration", "For"}
                    /\ s = current /\ x = prog[n].id
    <3>1. ASSUME b # 0 PROVE n \notin RangeOf(prog[b].params)
      <4>1. b \in Nodes
        BY <1>3, <3>1
      <4> QED BY <1>1, <2>1, <4>1, ParamFacts DEF ParamsOf, RangeOf
    <3> QED BY <1>7, <1>10, <2>1, <3>1 DEF StorageOf
  <2> QED BY <1>1, <1>6, <1>12, <2>2, <2>3, <2>4, VisitWrites
<1>18. IsParam(n) => /\ scopes'[s].function[x] = f
                     /\ scopes'[s].type[x] = t
                     /\ scopes'[s].storage[x] = v
  BY <1>1, <1>6, <1>12, VisitWrites DEF IsParam
<1>19. /\ n \in F => UpToDate(n, F)' \/ IsParam(n)
       /\ n \in T => UpToDate(n, T)' \/ IsParam(n)
       /\ n \in S => UpToDate(n, S)' \/ IsParam(n)
  <2>1. \A w \in F \cup T : ~ IsParam(w)
    BY <1>8, <1>9 DEF FunctionsOf, TypesOf, IsParam
  <2>2. ASSUME n \in S, ~ IsParam(n), NEW w \in S, IsParam(w) PROVE w <= n
    <3>1. /\ b # 0 /\ w \in RangeOf(prog[b].params)
      BY <1>10, <2>2 DEF StorageOf, IsParam
    <3>2. b \in Nodes
      BY <1>3, <3>1
    <3>3. n \notin RangeOf(prog[b].params)
      BY <1>1, <2>2, <3>2, ParamFacts DEF ParamsOf, RangeOf
    <3>4. Binder(n) = b
      BY <1>10, <2>2, <3>3 DEF StorageOf
    <3>5. w < n
      BY <1>1, <2>2, <3>1, <3>4, BelowBinder DEF ParamsOf, RangeOf
    <3>6. w \in Nodes /\ w \in Nat /\ n \in Nat
      BY <1>1, <2>2, NodeTyping
    <3> QED BY <3>5, <3>6
  <2> QED BY <1>1, <2>1, <2>2, UpToDateStored
<1>20. PICK f1, t1, v1 : /\ f1 = scopes'[s].function[x] /\ t1 = scopes'[s].type[x]
                         /\ v1 = scopes'[s].storage[x]
  OBVIOUS
<1>21. UpToDate(f1, F)' /\ UpToDate(t1, T)' /\ UpToDate(v1, S)'
  BY <1>14, <1>15, <1>16, <1>17, <1>18, <1>19, <1>20
<1> QED BY <1>4, <1>5, <1>11, <1>20, <1>21 DEF UpToDate

\* What a new scope holds, a Let's from the first pass over its declarations
\* and a function's its parameters.
LEMMA NewScopeHolds ==
  ASSUME LexicalInv, NEW n \in Nodes, Visit(n), Opens(prog, n),
         NEW x \in Identifiers
  PROVE  LET scope == scopes'[Len(scopes) + 1] IN
         /\ scope.function[x] \in FunctionsOf(n, x) \cup {Null}
         /\ scope.type[x] \in TypesOf(n, x) \cup {Null}
         /\ scope.storage[x] \in StorageOf(n, x) \cup {Null}
         /\ \A w \in ParamsOf(prog, n) :
              w \in StorageOf(n, x) => w <= scope.storage[x]
<1>1. /\ TypeInv /\ prog \in Programs /\ n # 0
      /\ scopes \in Seq(ScopeRecord) /\ Len(scopes) \in Nat
  BY TablesTyping, NodeTyping DEF LexicalInv, Nodes, NodesOf
<1> DEFINE Declared(kind) == {m \in RangeOf(Kids(n)) : Kind(m) = kind /\ prog[m].id = x}
           Passed == {m \in ParamsOf(prog, n) : Kind(m) = "TypeField" /\ prog[m].id = x}
<1>2. \A m \in RangeOf(Kids(n)) : m \in Nodes /\ Binder(m) = n
  BY <1>1, KidFacts DEF RangeOf
<1>3. CASE VisitLet(n)
  <2>1. scopes' = Append(scopes, LetScope(n)) /\ Kind(n) = "Let"
    BY <1>3 DEF VisitLet, Open
  <2>2. scopes'[Len(scopes) + 1] = LetScope(n)
    BY <1>1, <2>1, NewScopeTyping, AppendProperties
  <2>3. /\ LetScope(n).function[x] = LastOf(Declared("FunctionDeclaration"))
        /\ LetScope(n).type[x] = LastOf(Declared("TypeDeclaration"))
        /\ LetScope(n).storage[x] = LastOf(Declared("VariableDeclaration"))
    BY DEF LetScope, Named, Kids
  <2>4. ASSUME NEW kind PROVE LastOf(Declared(kind)) \in Declared(kind) \cup {Null}
    BY DEF LastOf
  <2>5. /\ Declared("FunctionDeclaration") \subseteq FunctionsOf(n, x)
        /\ Declared("TypeDeclaration") \subseteq TypesOf(n, x)
        /\ Declared("VariableDeclaration") \subseteq StorageOf(n, x)
    BY <1>2 DEF FunctionsOf, TypesOf, StorageOf
  <2>6. \A w \in ParamsOf(prog, n) : w \notin StorageOf(n, x)
    BY <1>1, <2>1, ParamFacts DEF StorageOf, IsParam
  <2> HIDE DEF Declared
  <2> QED BY <2>2, <2>3, <2>4, <2>5, <2>6
<1>4. CASE VisitFunctionDeclaration(n)
  <2> DEFINE stored == [scopes EXCEPT ![current].function[prog[n].id] = n]
  <2>1. stored \in Seq(ScopeRecord) /\ Len(stored) = Len(scopes)
    BY <1>1, StoreTyping, Zenon
  <2>2. /\ scopes' = Append(stored, FunctionScope(n))
        /\ Kind(n) = "FunctionDeclaration"
    BY <1>4 DEF VisitFunctionDeclaration
  <2> HIDE DEF stored
  <2>3. scopes'[Len(scopes) + 1] = FunctionScope(n)
    BY <1>1, <2>1, <2>2, NewScopeTyping, AppendProperties
  <2>4. /\ FunctionScope(n).function[x] = Null
        /\ FunctionScope(n).type[x] = Null
        /\ FunctionScope(n).storage[x] = LastOf(Passed)
    BY DEF FunctionScope, EmptyScope, NoNames, Named, RangeOf, ParamsOf
  <2>5. Passed \in SUBSET Nodes
    BY <1>1, ParamFacts
  <2>6. /\ LastOf(Passed) \in Passed \cup {Null}
        /\ \A w \in Passed : w <= LastOf(Passed)
    BY <1>1, <2>5, LastOfFacts
  <2>7. Passed \subseteq StorageOf(n, x)
    BY <1>1, <2>2, <2>5 DEF StorageOf, RangeOf, ParamsOf
  <2>8. ASSUME NEW w \in ParamsOf(prog, n), w \in StorageOf(n, x) PROVE w \in Passed
    <3>1. prog[w].id = x
      BY <2>8 DEF StorageOf
    <3>2. prog[w].kind = "TypeField"
      BY <1>1, <2>2, ProgramsAssumption DEF IsProgram, IsShaped, Nodes, Kind
    <3> QED BY <3>1, <3>2 DEF Kind
  <2> HIDE DEF Passed
  <2> QED BY <2>3, <2>4, <2>6, <2>7, <2>8
<1> QED BY <1>3, <1>4 DEF Visit, VisitFor, VisitOther, VisitVariableDeclaration,
           VisitTypeDeclaration, Opens, Kind, DeclarationKinds

\* A new scope is up to date: all that is declared under n but its parameters
\* is still to be visited.
LEMMA NewScopeUpToDate ==
  ASSUME LexicalInv, NEW n \in Nodes, Visit(n), Opens(prog, n),
         NEW x \in Identifiers
  PROVE  /\ UpToDate(scopes[ScopeOpenedBy(n)].function[x], FunctionsOf(n, x))'
         /\ UpToDate(scopes[ScopeOpenedBy(n)].type[x], TypesOf(n, x))'
         /\ UpToDate(scopes[ScopeOpenedBy(n)].storage[x], StorageOf(n, x))'
<1>1. TypeInv /\ ~ Marked(n) /\ prog \in Programs /\ n # 0
  BY VisitedFacts, TablesTyping, NodeTyping DEF LexicalInv, Visit, Nodes, NodesOf
<1>2. prog' = prog /\ ScopeOpenedBy(n)' = Len(scopes) + 1
  BY <1>1, VisitEffect
<1>3. PICK F \in SUBSET Nodes : F = FunctionsOf(n, x)
  BY DEF FunctionsOf
<1>4. PICK T \in SUBSET Nodes : T = TypesOf(n, x)
  BY DEF TypesOf
<1>5. PICK S \in SUBSET Nodes : S = StorageOf(n, x)
  BY DEF StorageOf
<1>6. FunctionsOf(n, x)' = F /\ TypesOf(n, x)' = T /\ StorageOf(n, x)' = S
  BY <1>2, <1>3, <1>4, <1>5 DEF FunctionsOf, TypesOf, StorageOf, Nodes, Kind, Binder
<1>7. PICK f, t, v : /\ f = scopes'[Len(scopes) + 1].function[x]
                     /\ t = scopes'[Len(scopes) + 1].type[x]
                     /\ v = scopes'[Len(scopes) + 1].storage[x]
  OBVIOUS
<1>8. /\ f \in F \cup {Null} /\ t \in T \cup {Null} /\ v \in S \cup {Null}
      /\ \A w \in ParamsOf(prog, n) : w \in S => w <= v
  BY <1>3, <1>4, <1>5, <1>7, NewScopeHolds
<1>9. ASSUME NEW w \in Nodes, ~ IsParam(w), Binder(w) = n
      PROVE  \E j \in DOMAIN Kids(n) : Below(prog, w, Kids(n)[j])
  BY <1>1, <1>9, BelowBinder
<1>10. \A w \in F \cup T : ~ IsParam(w) /\ Binder(w) = n
  BY <1>3, <1>4 DEF FunctionsOf, TypesOf, IsParam
<1>11. \A w \in S : w \in ParamsOf(prog, n) \/ (~ IsParam(w) /\ Binder(w) = n)
  BY <1>5 DEF StorageOf, IsParam, RangeOf, ParamsOf
<1>12. UpToDate(f, F)' /\ UpToDate(t, T)'
  BY <1>8, <1>9, <1>10, UpToDateFresh
<1>13. UpToDate(v, S)'
  BY <1>8, <1>9, <1>11, UpToDateFresh
<1> QED BY <1>2, <1>6, <1>7, <1>12, <1>13 DEF UpToDate

LookupInv == CompleteInv /\ MapsUpToDate /\ ParentsAreOlder
                         /\ scopes[1].parent = NoScope

LEMMA VisitMapsUpToDate ==
  ASSUME CompleteInv, MapsUpToDate, NEW n \in Nodes, Visit(n)
  PROVE  MapsUpToDate'
<1>1. LexicalInv /\ TypeInv /\ ~ Marked(n)
  BY VisitedFacts DEF CompleteInv, LexicalInv, Visit
<1>2. prog' = prog /\ Binders' = Binders
  BY <1>1, VisitEffect DEF Binders, Nodes, Opens
<1>3. SUFFICES ASSUME NEW b \in Binders \cup {0}, ScopeOpenedBy(b)' # NoScope,
                      NEW x \in Identifiers
      PROVE  /\ UpToDate(scopes[ScopeOpenedBy(b)].function[x], FunctionsOf(b, x))'
             /\ UpToDate(scopes[ScopeOpenedBy(b)].type[x], TypesOf(b, x))'
             /\ UpToDate(scopes[ScopeOpenedBy(b)].storage[x], StorageOf(b, x))'
  BY <1>2 DEF MapsUpToDate
<1>4. CASE b = n
  <2>1. Opens(prog, n)
    BY <1>1, <1>4, BindersAreNodes, NodeTyping DEF TypeInv, Nodes, NodesOf
  <2>2. /\ UpToDate(scopes[ScopeOpenedBy(n)].function[x], FunctionsOf(n, x))'
        /\ UpToDate(scopes[ScopeOpenedBy(n)].type[x], TypesOf(n, x))'
        /\ UpToDate(scopes[ScopeOpenedBy(n)].storage[x], StorageOf(n, x))'
    BY <1>1, <2>1, NewScopeUpToDate
  <2> QED BY <1>2, <1>4, <2>2
          DEF ScopeOpenedBy, FunctionsOf, TypesOf, StorageOf, Nodes, Kind, Binder
<1>5. CASE b # n
  <2>1. ScopeOpenedBy(b)' = ScopeOpenedBy(b)
    <3>1. CASE b = 0
      BY <3>1 DEF ScopeOpenedBy
    <3>2. CASE b # 0
      BY <1>1, <1>2, <1>5, <3>2, BindersAreNodes, VisitEffect DEF ScopeOpenedBy, Kind
    <3> QED BY <3>1, <3>2
  <2>2. ScopeOpenedBy(b) # NoScope
    BY <1>3, <2>1
  <2> QED BY <2>2, OldScopeUpToDate
<1> QED BY <1>4, <1>5

\* Nor does anything change while nothing is stored and nothing left behind.
LEMMA QuietMapsUpToDate ==
  ASSUME MapsUpToDate, prog' = prog, scopes' = scopes,
         scope_by_let' = scope_by_let, scope_by_function' = scope_by_function,
         \A m \in Nodes : Ahead(m) => Ahead(m)'
  PROVE  MapsUpToDate'
<1>1. /\ prog' = prog /\ scopes' = scopes
      /\ scope_by_let' = scope_by_let /\ scope_by_function' = scope_by_function
  OBVIOUS
<1>2. SUFFICES ASSUME NEW b \in Binders \cup {0}, ScopeOpenedBy(b) # NoScope,
                      NEW x \in Identifiers
      PROVE  /\ UpToDate(scopes[ScopeOpenedBy(b)].function[x], FunctionsOf(b, x))'
             /\ UpToDate(scopes[ScopeOpenedBy(b)].type[x], TypesOf(b, x))'
             /\ UpToDate(scopes[ScopeOpenedBy(b)].storage[x], StorageOf(b, x))'
  BY <1>1 DEF MapsUpToDate, Binders, Nodes, Opens, ScopeOpenedBy, Kind
<1>3. ASSUME NEW D \in SUBSET Nodes, NEW v, UpToDate(v, D) PROVE UpToDate(v, D)'
  BY <1>1, <1>3 DEF UpToDate, IsParam, Kind
<1>4. PICK F, T, S \in SUBSET Nodes :
        F = FunctionsOf(b, x) /\ T = TypesOf(b, x) /\ S = StorageOf(b, x)
  BY DEF FunctionsOf, TypesOf, StorageOf
<1>5. FunctionsOf(b, x)' = F /\ TypesOf(b, x)' = T /\ StorageOf(b, x)' = S
  BY <1>1, <1>4 DEF FunctionsOf, TypesOf, StorageOf, Nodes, Kind, Binder
<1>6. PICK s : s = ScopeOpenedBy(b)
  OBVIOUS
<1>7. ScopeOpenedBy(b)' = s
  BY <1>1, <1>6 DEF ScopeOpenedBy, Kind
<1>8. PICK f, t, v : /\ f = scopes[s].function[x] /\ t = scopes[s].type[x]
                     /\ v = scopes[s].storage[x]
  OBVIOUS
<1>9. UpToDate(f, F) /\ UpToDate(t, T) /\ UpToDate(v, S)
  BY <1>2, <1>4, <1>6, <1>8 DEF MapsUpToDate
<1>10. UpToDate(f, F)' /\ UpToDate(t, T)' /\ UpToDate(v, S)'
  BY <1>3, <1>4, <1>9
<1> QED BY <1>1, <1>5, <1>7, <1>8, <1>10 DEF UpToDate

LEMMA InitLookup == Init => LookupInv
<1> SUFFICES ASSUME Init PROVE LookupInv
  OBVIOUS
<1>1. CompleteInv /\ TypeInv
  BY InitComplete, InitTyping
<1>2. ParentsAreOlder /\ scopes[1].parent = NoScope
  BY DEF Init, ParentsAreOlder, EmptyScope, NoScope
<1>3. \A b \in Binders : ScopeOpenedBy(b) = NoScope
  BY <1>1, BindersAreNodes DEF Init, ScopeOpenedBy
<1>4. ScopeOpenedBy(0) = 1 /\ \A x \in Identifiers :
        scopes[1].function[x] = Null /\ scopes[1].type[x] = Null
        /\ scopes[1].storage[x] = Null
  BY DEF Init, EmptyScope, NoNames, ScopeOpenedBy
<1>5. ASSUME NEW x \in Identifiers
      PROVE  /\ UpToDate(Null, FunctionsOf(0, x))
             /\ UpToDate(Null, TypesOf(0, x))
             /\ UpToDate(Null, StorageOf(0, x))
  <2>1. \A w : Ahead(w)
    BY DEF Init, Ahead
  <2> QED BY <2>1 DEF UpToDate, FunctionsOf, TypesOf, StorageOf, IsParam
<1>6. MapsUpToDate
  BY <1>3, <1>4, <1>5 DEF MapsUpToDate
<1> QED BY <1>1, <1>2, <1>6 DEF LookupInv

LEMMA StepLookup == LookupInv /\ [Next]_vars => LookupInv'
<1> SUFFICES ASSUME LookupInv, [Next]_vars PROVE LookupInv'
  OBVIOUS
<1>1. CompleteInv /\ LexicalInv /\ TypeInv
  BY DEF LookupInv, CompleteInv, LexicalInv
<1>2. CompleteInv' /\ ParentsAreOlder'
  BY <1>1, StepComplete, StepParents DEF LookupInv
<1>3. scopes[1].parent = NoScope /\ 1 \in DOMAIN scopes
  BY <1>1, TablesTyping DEF LookupInv
<1>4. ASSUME NEW n \in Nodes, Visit(n) PROVE LookupInv'
  <2>1. ~ Marked(n)
    BY <1>1, <1>4, VisitedFacts DEF Visit
  <2>2. scopes'[1].parent = NoScope
    BY <1>1, <1>3, <1>4, <2>1, VisitEffect DEF Keeps
  <2>3. MapsUpToDate'
    BY <1>1, <1>4, VisitMapsUpToDate DEF LookupInv
  <2> QED BY <1>2, <2>2, <2>3 DEF LookupInv
<1>5. CASE LeaveScope \/ LeaveOther
  <2>1. Return
    BY <1>5 DEF LeaveScope, LeaveOther
  <2>2. scopes'[1].parent = NoScope
    BY <1>3, <2>1 DEF Return
  <2>3. MapsUpToDate'
    <3>1. /\ prog' = prog /\ scopes' = scopes /\ scope_by_let' = scope_by_let
          /\ scope_by_function' = scope_by_function
      BY <2>1 DEF Return
    <3>2. \A m \in Nodes : Ahead(m) => Ahead(m)'
      BY <1>1, <2>1, ReturnKeepsAhead
    <3> QED BY <3>1, <3>2, QuietMapsUpToDate DEF LookupInv
  <2> QED BY <1>2, <2>2, <2>3 DEF LookupInv
<1>6. CASE UNCHANGED vars
  <2>1. scopes'[1].parent = NoScope
    BY <1>3, <1>6 DEF vars
  <2>2. MapsUpToDate'
    <3>1. \A m \in Nodes : Ahead(m) => Ahead(m)'
      BY <1>6 DEF vars, Ahead, Kids
    <3> QED BY <1>6, <3>1, QuietMapsUpToDate DEF vars, LookupInv
  <2> QED BY <1>2, <2>1, <2>2 DEF LookupInv
<1> QED BY <1>4, <1>5, <1>6 DEF Next, BuildStep, Terminating

LEMMA LookupInvariant == Spec => []LookupInv
BY InitLookup, StepLookup, PTL DEF Spec

-----------------------------------------------------------------------------
(* Walks.                                                                  *)

\* A walk from a number to ever smaller ones, up to one of the set stop, has
\* an end: the recursive function that searches along it exists.
Descends(N, stop, up) ==
  \A s \in 0 .. N : s \notin stop => up[s] \in 0 .. N /\ up[s] < s

Searches(g, N, stop, base, up) ==
  g = [s \in 0 .. N |-> IF s \in stop THEN base[s] ELSE g[up[s]]]

LEMMA WalkExists ==
  ASSUME NEW N \in Nat, NEW stop, NEW base, NEW up, Descends(N, stop, up)
  PROVE  \E g : Searches(g, N, stop, base, up)
<1> USE DEF Descends, Searches
<1> DEFINE Walk(g, n) == Searches(g, n, stop, base, up)
           Bad == {n \in 0 .. N : ~ \E g : Walk(g, n)}
<1>1. SUFFICES ASSUME Bad # {} PROVE FALSE
  <2>1. N \in 0 .. N
    OBVIOUS
  <2> QED BY <1>1, <2>1
<1>2. PICK n \in Bad : \A k \in Bad : n <= k
  <2>1. Bad \in SUBSET Nat
    OBVIOUS
  <2> HIDE DEF Bad
  <2> QED BY <1>1, <2>1, LeastNatural
<1>3. n \in 0 .. N /\ ~ \E g : Walk(g, n)
  OBVIOUS
<1>4. PICK g : n = 0 \/ Walk(g, n - 1)
  BY <1>2, <1>3
<1> DEFINE h == [s \in 0 .. n |-> IF s \in stop THEN base[s] ELSE g[up[s]]]
<1>5. ASSUME NEW s \in 0 .. n, s \notin stop PROVE h[up[s]] = g[up[s]]
  <2>1. up[s] \in 0 .. n - 1 /\ n # 0
    BY <1>3, <1>5
  <2>2. up[s] \in 0 .. n
    BY <1>3, <2>1
  <2>3. h[up[s]] = IF up[s] \in stop THEN base[up[s]] ELSE g[up[up[s]]]
    BY <2>2
  <2>4. g[up[s]] = IF up[s] \in stop THEN base[up[s]] ELSE g[up[up[s]]]
    BY <1>4, <2>1
  <2> QED BY <2>3, <2>4
<1>6. Walk(h, n)
  BY <1>5
<1> QED BY <1>3, <1>6

\* A lookup's walk along the parents, where V[s] is what scope s holds, and
\* the definition's along the binders, where D[b] is what b declares.
WalksUp(g, V) ==
  g = [s \in 0 .. Len(scopes) |->
         IF s = NoScope \/ V[s] # Null THEN s ELSE g[scopes[s].parent]]
WalksOut(g, D) ==
  g = [b \in 0 .. Len(prog) |->
         IF D[b] # {} THEN LastOf(D[b])
         ELSE IF b = 0 THEN Null ELSE g[Binder(b)]]

LEMMA ScopeWalk == ASSUME LookupInv, NEW V PROVE \E g : WalksUp(g, V)
<1>1. /\ TypeInv /\ Len(scopes) \in Nat /\ DOMAIN scopes = 1 .. Len(scopes)
      /\ \A s \in DOMAIN scopes : scopes[s].parent \in Nat /\ scopes[s].parent < s
  <2>1. /\ TypeInv /\ Len(scopes) \in Nat /\ DOMAIN scopes = 1 .. Len(scopes)
        /\ scopes \in Seq(ScopeRecord)
    BY TablesTyping DEF LookupInv, CompleteInv, LexicalInv
  <2>2. \A s \in DOMAIN scopes : scopes[s].parent \in Nat
    <3>1. \A s \in DOMAIN scopes : scopes[s] \in ScopeRecord
      BY <2>1
    <3> QED BY <3>1 DEF ScopeRecord
  <2> QED BY <2>1, <2>2 DEF LookupInv, ParentsAreOlder
<1>2. PICK N \in Nat : N = Len(scopes)
  BY <1>1
<1>3. PICK stop : stop = {s \in 0 .. N : s = NoScope \/ V[s] # Null}
  OBVIOUS
<1>4. PICK base : base = [s \in 0 .. N |-> s]
  OBVIOUS
<1>5. PICK up : up = [s \in 0 .. N |-> scopes[s].parent]
  OBVIOUS
<1>6. Descends(N, stop, up)
  BY <1>1, <1>2, <1>3, <1>5 DEF Descends, NoScope
<1>7. PICK g : Searches(g, N, stop, base, up)
  BY <1>6, WalkExists
<1>8. [s \in 0 .. N |-> IF s \in stop THEN base[s] ELSE g[up[s]]]
        = [s \in 0 .. N |-> IF s = NoScope \/ V[s] # Null THEN s
                            ELSE g[scopes[s].parent]]
  BY <1>3, <1>4, <1>5
<1> QED BY <1>2, <1>7, <1>8 DEF Searches, WalksUp

LEMMA BinderWalk == ASSUME prog \in Programs, NEW D PROVE \E g : WalksOut(g, D)
<1>1. Nodes = 1 .. Len(prog) /\ Len(prog) \in Nat
  BY RootIsNode, NodeTyping DEF Nodes, NodesOf
<1>2. PICK N \in Nat : N = Len(prog)
  BY <1>1
<1>3. PICK stop : stop = {b \in 0 .. N : b = 0 \/ D[b] # {}}
  OBVIOUS
<1>4. PICK base : base = [b \in 0 .. N |-> IF D[b] # {} THEN LastOf(D[b]) ELSE Null]
  OBVIOUS
<1>5. PICK up : up = [b \in 0 .. N |-> Binder(b)]
  OBVIOUS
<1>6. Descends(N, stop, up)
  <2>1. \A b \in Nodes : Binder(b) \in 0 .. N /\ Binder(b) < b
    BY <1>2, BinderIsOlder, NodeTyping DEF Binder
  <2> QED BY <1>1, <1>2, <1>3, <1>5, <2>1 DEF Descends
<1>7. PICK g : Searches(g, N, stop, base, up)
  BY <1>6, WalkExists
<1>8. [b \in 0 .. N |-> IF b \in stop THEN base[b] ELSE g[up[b]]]
        = [b \in 0 .. N |-> IF D[b] # {} THEN LastOf(D[b])
                            ELSE IF b = 0 THEN Null ELSE g[Binder(b)]]
  BY <1>3, <1>4, <1>5
<1> QED BY <1>2, <1>7, <1>8 DEF Searches, WalksOut

\* Where every scope holds the last declaration of its binder, the two walks
\* find the same one.
LEMMA WalksAgree ==
  ASSUME LookupInv, Built, NEW V, NEW D,
         NEW g, NEW h, WalksUp(g, V), WalksOut(h, D),
         \A b \in Binders \cup {0} :
           D[b] \in SUBSET Nodes /\ V[ScopeOpenedBy(b)] = LastOf(D[b]),
         NEW c \in Binders \cup {0}
  PROVE  LET s == g[ScopeOpenedBy(c)]
         IN  /\ s \in 0 .. Len(scopes)
             /\ h[c] = IF s = NoScope THEN Null ELSE V[s]
<1>1. /\ TypeInv /\ prog \in Programs /\ Len(scopes) \in Nat /\ Len(scopes) >= 1
      /\ Nodes = 1 .. Len(prog) /\ Len(prog) \in Nat
  <2>1. TypeInv /\ 1 \in Nodes
    BY RootIsNode DEF LookupInv, CompleteInv, LexicalInv, TypeInv
  <2> QED BY <2>1, TablesTyping, NodeTyping DEF Nodes, NodesOf
<1>2. \A b \in Binders : /\ b \in Nodes /\ ~ IsParam(b)
                         /\ ScopeOpenedBy(b) \in 1 .. Len(scopes)
                         /\ ScopeOpenedBy(b) # NoScope
  <2>1. TableIsComplete
    BY CompleteTable DEF LookupInv
  <2>2. \A b \in Binders : ScopeOpenedBy(b) \in 2 .. Len(scopes)
    BY <2>1, Zenon DEF TableIsComplete, Binders
  <2>3. \A b \in Binders : b \in Nodes /\ ~ IsParam(b)
    BY DEF Binders, Opens, IsParam, Kind
  <2> QED BY <1>1, <2>2, <2>3 DEF NoScope
<1>3. \A b \in Binders \cup {0} :
        IF D[b] = {} THEN V[ScopeOpenedBy(b)] = Null
        ELSE V[ScopeOpenedBy(b)] = LastOf(D[b]) /\ LastOf(D[b]) # Null
  BY <1>1, LastOfFacts DEF Null
<1>a. \A s \in 0 .. Len(scopes) :
        g[s] = IF s = NoScope \/ V[s] # Null THEN s ELSE g[scopes[s].parent]
  BY DEF WalksUp
<1>b. \A b \in 0 .. Len(prog) :
        h[b] = IF D[b] # {} THEN LastOf(D[b])
               ELSE IF b = 0 THEN Null ELSE h[Binder(b)]
  BY DEF WalksOut
<1>4. g[NoScope] = NoScope
  BY <1>1, <1>a DEF NoScope
<1> DEFINE Agree(b) == /\ g[ScopeOpenedBy(b)] \in 0 .. Len(scopes)
                       /\ h[b] = IF g[ScopeOpenedBy(b)] = NoScope THEN Null
                                 ELSE V[g[ScopeOpenedBy(b)]]
           Bad == {b \in Binders \cup {0} : ~ Agree(b)}
<1>5. SUFFICES ASSUME Bad # {} PROVE FALSE
  OBVIOUS
<1>6. PICK b \in Bad : \A k \in Bad : b <= k
  <2>1. Bad \in SUBSET Nat
    BY <1>1, <1>2
  <2> HIDE DEF Bad
  <2> QED BY <1>5, <2>1, LeastNatural
<1>7. /\ b \in Binders \cup {0} /\ ~ Agree(b)
      /\ \A k \in Binders \cup {0} : k < b => Agree(k)
  <2>1. b \in Binders \cup {0} /\ ~ Agree(b)
    OBVIOUS
  <2>2. ASSUME NEW k \in Binders \cup {0}, ~ Agree(k) PROVE b <= k
    <3>1. k \in Bad
      BY <2>2
    <3> HIDE DEF Bad
    <3> QED BY <1>6, <3>1
  <2>3. \A k \in Binders \cup {0} : k \in 0 .. Len(prog)
    BY <1>1, <1>2
  <2> HIDE DEF Bad, Agree
  <2>4. ASSUME NEW k \in Binders \cup {0}, k < b PROVE Agree(k)
    <3>1. ~ (b <= k)
      BY <1>1, <2>1, <2>3, <2>4
    <3> QED BY <2>2, <3>1
  <2> QED BY <2>1, <2>4
<1> HIDE DEF Bad, Agree
<1>8. PICK s : s = ScopeOpenedBy(b)
  OBVIOUS
<1>9. s \in 1 .. Len(scopes) /\ s # NoScope
  <2>1. ScopeOpenedBy(0) = 1
    BY DEF ScopeOpenedBy
  <2> QED BY <1>1, <1>2, <1>7, <1>8, <2>1 DEF NoScope
<1>10. g[s] = IF V[s] # Null THEN s ELSE g[scopes[s].parent]
  BY <1>1, <1>9, <1>a
<1>11. h[b] = IF D[b] # {} THEN LastOf(D[b])
              ELSE IF b = 0 THEN Null ELSE h[Binder(b)]
  BY <1>1, <1>2, <1>7, <1>b
<1>12. CASE D[b] # {}
  <2>1. g[s] = s /\ h[b] = V[s] /\ s \in 0 .. Len(scopes)
    BY <1>1, <1>3, <1>7, <1>8, <1>9, <1>10, <1>11, <1>12
  <2> QED BY <1>7, <1>8, <1>9, <2>1 DEF Agree
<1>13. CASE D[b] = {} /\ b = 0
  <2>1. scopes[s].parent = NoScope
    BY <1>8, <1>13 DEF LookupInv, ScopeOpenedBy
  <2>2. g[s] = NoScope /\ h[b] = Null
    BY <1>3, <1>4, <1>7, <1>8, <1>10, <1>11, <1>13, <2>1
  <2>3. NoScope \in 0 .. Len(scopes)
    BY <1>1 DEF NoScope
  <2> QED BY <1>7, <1>8, <2>2, <2>3 DEF Agree
<1>14. CASE D[b] = {} /\ b # 0
  <2>1. b \in Binders /\ b \in Nodes /\ Opens(prog, b)
    BY <1>2, <1>7, <1>14 DEF Binders
  <2>2. Binder(b) \in Binders \cup {0} /\ Binder(b) < b
    BY <1>1, <1>2, <2>1, BinderFacts, BinderIsOlder
  <2>3. scopes[s].parent = ScopeOpenedBy(Binder(b))
    BY <1>8, <1>9, <2>1 DEF LookupInv, CompleteInv, LexicalInv, ScopesAreLexical
  <2>4. g[s] = g[ScopeOpenedBy(Binder(b))] /\ h[b] = h[Binder(b)]
    BY <1>3, <1>7, <1>8, <1>10, <1>11, <1>14, <2>3
  <2>5. Agree(Binder(b))
    BY <1>7, <2>2
  <2> QED BY <1>7, <1>8, <2>4, <2>5 DEF Agree
<1> QED BY <1>12, <1>13, <1>14

-----------------------------------------------------------------------------
(* When Build has returned.                                                *)

LEMMA BuiltHoldsLast ==
  ASSUME LookupInv, Built, NEW D \in SUBSET Nodes, NEW v, UpToDate(v, D)
  PROVE  v = LastOf(D)
<1>1. /\ TypeInv /\ prog \in Programs /\ stack = <<>> /\ status = "built"
  BY TablesTyping DEF LookupInv, CompleteInv, LexicalInv, NextIsUnvisited, Built
<1>2. \A w \in D : w <= v
  BY <1>1 DEF UpToDate, Ahead
<1>3. \A w \in Nodes : w \in Nat \ {0}
  BY <1>1, NodeTyping DEF Nodes, NodesOf
<1>4. v \in D \cup {Null}
  BY DEF UpToDate
<1>5. CASE D = {}
  BY <1>1, <1>4, <1>5, LastOfFacts
<1>6. CASE D # {}
  <2>1. PICK l \in D : l = LastOf(D) /\ \A m \in D : m <= l
    BY <1>1, <1>6, LastOfFacts
  <2>2. v \in D
    BY <1>2, <1>3, <1>4, <2>1 DEF Null
  <2>3. v <= l /\ l <= v
    BY <1>2, <2>1, <2>2
  <2> QED BY <1>3, <2>1, <2>2, <2>3
<1> QED BY <1>5, <1>6

LEMMA BuiltMaps ==
  ASSUME LookupInv, Built, NEW b \in Binders \cup {0}, NEW x \in Identifiers
  PROVE  /\ scopes[ScopeOpenedBy(b)].function[x] = LastOf(FunctionsOf(b, x))
         /\ scopes[ScopeOpenedBy(b)].type[x] = LastOf(TypesOf(b, x))
         /\ scopes[ScopeOpenedBy(b)].storage[x] = LastOf(StorageOf(b, x))
<1>1. ScopeOpenedBy(b) # NoScope
  <2>1. TableIsComplete
    BY CompleteTable DEF LookupInv
  <2>2. \A c \in Binders : ScopeOpenedBy(c) \in 2 .. Len(scopes)
    BY <2>1, Zenon DEF TableIsComplete, Binders
  <2>3. ScopeOpenedBy(0) = 1
    BY DEF ScopeOpenedBy
  <2> QED BY <2>2, <2>3 DEF NoScope
<1>2. /\ UpToDate(scopes[ScopeOpenedBy(b)].function[x], FunctionsOf(b, x))
      /\ UpToDate(scopes[ScopeOpenedBy(b)].type[x], TypesOf(b, x))
      /\ UpToDate(scopes[ScopeOpenedBy(b)].storage[x], StorageOf(b, x))
  BY <1>1 DEF LookupInv, MapsUpToDate
<1>3. /\ FunctionsOf(b, x) \in SUBSET Nodes /\ TypesOf(b, x) \in SUBSET Nodes
      /\ StorageOf(b, x) \in SUBSET Nodes
  BY DEF FunctionsOf, TypesOf, StorageOf
<1> QED BY <1>2, <1>3, BuiltHoldsLast

\* The binder an expression is written in, and its scope.
LEMMA ExprScope ==
  ASSUME LookupInv, Built, NEW e \in Exprs \ {1}
  PROVE  /\ Binder(e) \in Binders \cup {0}
         /\ scope_by_expr[e] = ScopeOpenedBy(Binder(e))
<1>1. prog \in Programs /\ ScopesAreLexical
  BY TablesTyping DEF LookupInv, CompleteInv, LexicalInv
<1>2. e \in Nodes /\ ~ IsParam(e)
  BY DEF Exprs, IsExpr, ExprKinds, IsParam
<1>3. TableIsComplete
  BY CompleteTable DEF LookupInv
<1>4. scope_by_expr[e] # NoScope
  BY <1>3 DEF TableIsComplete
<1> QED BY <1>1, <1>2, <1>4, BinderFacts DEF ScopesAreLexical

\* The scopes of binders are scopes, and binders are nodes.
LEMMA BuiltRanges ==
  ASSUME LookupInv, Built, NEW b \in Binders \cup {0}
  PROVE  ScopeOpenedBy(b) \in 0 .. Len(scopes) /\ b \in 0 .. Len(prog)
<1>1. TypeInv /\ 1 \in Nodes
  BY RootIsNode DEF LookupInv, CompleteInv, LexicalInv, TypeInv
<1>2. Len(scopes) \in Nat /\ Len(scopes) >= 1 /\ Len(prog) \in Nat
  BY <1>1, TablesTyping, NodeTyping
<1>3. CASE b = 0
  BY <1>2, <1>3 DEF ScopeOpenedBy
<1>4. CASE b \in Binders
  BY <1>1, <1>4, BindersAreNodes DEF Nodes, NodesOf
<1> QED BY <1>3, <1>4

\* What getDefiningScope and the lookups look for, in a form of its own.
Search(g, map, x) ==
  g = [s \in 0 .. Len(scopes) |->
         IF s = NoScope \/ scopes[s][map][x] # Null THEN s ELSE g[scopes[s].parent]]

LEMMA FirstFound ==
  ASSUME NEW e, NEW map, NEW x
  PROVE  FirstScope(e, map, x) = (CHOOSE g : Search(g, map, x))[scope_by_expr[e]]
BY DEF FirstScope, Search

LEMMA FunctionLookups ==
  ASSUME LookupInv, Built, NEW e \in Exprs \ {1}, NEW x \in Identifiers
  PROVE  lookupFunction(e, x) = Innermost(e, LAMBDA b : FunctionsOf(b, x))
<1> DEFINE Up(g) == Search(g, "function", x)
           Out(g) == g = [b \in 0 .. Len(prog) |->
                            IF FunctionsOf(b, x) # {} THEN LastOf(FunctionsOf(b, x))
                            ELSE IF b = 0 THEN Null ELSE g[Binder(b)]]
<1>1. PICK up, out : up = (CHOOSE g : Up(g)) /\ out = (CHOOSE g : Out(g))
  OBVIOUS
<1>2. lookupFunction(e, x) = LET s == up[scope_by_expr[e]]
                             IN  IF s = NoScope THEN Null ELSE scopes[s].function[x]
  BY <1>1, FirstFound DEF lookupFunction
<1>3. Innermost(e, LAMBDA b : FunctionsOf(b, x)) = out[Binder(e)]
  BY <1>1 DEF Innermost
<1>4. PICK V : V = [s \in 0 .. Len(scopes) |-> scopes[s].function[x]]
  OBVIOUS
<1>5. PICK D : D = [b \in 0 .. Len(prog) |-> FunctionsOf(b, x)]
  OBVIOUS
<1>6. WalksUp(up, V)
  <2>1. PICK g : WalksUp(g, V)
    BY ScopeWalk
  <2>2. Up(g)
    BY <1>4, <2>1 DEF WalksUp, Search
  <2>3. Up(up)
    BY <1>1, <2>2
  <2> QED BY <1>4, <2>3 DEF WalksUp, Search
<1>7. WalksOut(out, D)
  <2>1. PICK g : WalksOut(g, D)
    BY BinderWalk, TablesTyping DEF LookupInv, CompleteInv, LexicalInv
  <2>2. Out(g)
    BY <1>5, <2>1 DEF WalksOut
  <2>3. Out(out)
    BY <1>1, <2>2
  <2> QED BY <1>5, <2>3 DEF WalksOut
<1> HIDE DEF Up, Out
<1>8. \A b \in Binders \cup {0} :
        D[b] \in SUBSET Nodes /\ V[ScopeOpenedBy(b)] = LastOf(D[b])
  BY <1>4, <1>5, BuiltMaps, BuiltRanges DEF FunctionsOf
<1>9. LET s == up[ScopeOpenedBy(Binder(e))]
      IN  /\ s \in 0 .. Len(scopes)
          /\ out[Binder(e)] = IF s = NoScope THEN Null ELSE V[s]
  BY <1>6, <1>7, <1>8, ExprScope, WalksAgree
<1> QED BY <1>2, <1>3, <1>4, <1>9, ExprScope

LEMMA TypeLookups ==
  ASSUME LookupInv, Built, NEW e \in Exprs \ {1}, NEW x \in Identifiers
  PROVE  lookupType(e, x) = Innermost(e, LAMBDA b : TypesOf(b, x))
<1> DEFINE Up(g) == Search(g, "type", x)
           Out(g) == g = [b \in 0 .. Len(prog) |->
                            IF TypesOf(b, x) # {} THEN LastOf(TypesOf(b, x))
                            ELSE IF b = 0 THEN Null ELSE g[Binder(b)]]
<1>1. PICK up, out : up = (CHOOSE g : Up(g)) /\ out = (CHOOSE g : Out(g))
  OBVIOUS
<1>2. lookupType(e, x) = LET s == up[scope_by_expr[e]]
                             IN  IF s = NoScope THEN Null ELSE scopes[s].type[x]
  BY <1>1, FirstFound DEF lookupType
<1>3. Innermost(e, LAMBDA b : TypesOf(b, x)) = out[Binder(e)]
  BY <1>1 DEF Innermost
<1>4. PICK V : V = [s \in 0 .. Len(scopes) |-> scopes[s].type[x]]
  OBVIOUS
<1>5. PICK D : D = [b \in 0 .. Len(prog) |-> TypesOf(b, x)]
  OBVIOUS
<1>6. WalksUp(up, V)
  <2>1. PICK g : WalksUp(g, V)
    BY ScopeWalk
  <2>2. Up(g)
    BY <1>4, <2>1 DEF WalksUp, Search
  <2>3. Up(up)
    BY <1>1, <2>2
  <2> QED BY <1>4, <2>3 DEF WalksUp, Search
<1>7. WalksOut(out, D)
  <2>1. PICK g : WalksOut(g, D)
    BY BinderWalk, TablesTyping DEF LookupInv, CompleteInv, LexicalInv
  <2>2. Out(g)
    BY <1>5, <2>1 DEF WalksOut
  <2>3. Out(out)
    BY <1>1, <2>2
  <2> QED BY <1>5, <2>3 DEF WalksOut
<1> HIDE DEF Up, Out
<1>8. \A b \in Binders \cup {0} :
        D[b] \in SUBSET Nodes /\ V[ScopeOpenedBy(b)] = LastOf(D[b])
  BY <1>4, <1>5, BuiltMaps, BuiltRanges DEF TypesOf
<1>9. LET s == up[ScopeOpenedBy(Binder(e))]
      IN  /\ s \in 0 .. Len(scopes)
          /\ out[Binder(e)] = IF s = NoScope THEN Null ELSE V[s]
  BY <1>6, <1>7, <1>8, ExprScope, WalksAgree
<1> QED BY <1>2, <1>3, <1>4, <1>9, ExprScope

LEMMA StorageLookups ==
  ASSUME LookupInv, Built, NEW e \in Exprs \ {1}, NEW x \in Identifiers
  PROVE  lookupStorageLocation(e, x) = Innermost(e, LAMBDA b : StorageOf(b, x))
<1> DEFINE Up(g) == Search(g, "storage", x)
           Out(g) == g = [b \in 0 .. Len(prog) |->
                            IF StorageOf(b, x) # {} THEN LastOf(StorageOf(b, x))
                            ELSE IF b = 0 THEN Null ELSE g[Binder(b)]]
<1>1. PICK up, out : up = (CHOOSE g : Up(g)) /\ out = (CHOOSE g : Out(g))
  OBVIOUS
<1>2. lookupStorageLocation(e, x) = LET s == up[scope_by_expr[e]]
                             IN  IF s = NoScope THEN Null ELSE scopes[s].storage[x]
  BY <1>1, FirstFound DEF lookupStorageLocation
<1>3. Innermost(e, LAMBDA b : StorageOf(b, x)) = out[Binder(e)]
  BY <1>1 DEF Innermost
<1>4. PICK V : V = [s \in 0 .. Len(scopes) |-> scopes[s].storage[x]]
  OBVIOUS
<1>5. PICK D : D = [b \in 0 .. Len(prog) |-> StorageOf(b, x)]
  OBVIOUS
<1>6. WalksUp(up, V)
  <2>1. PICK g : WalksUp(g, V)
    BY ScopeWalk
  <2>2. Up(g)
    BY <1>4, <2>1 DEF WalksUp, Search
  <2>3. Up(up)
    BY <1>1, <2>2
  <2> QED BY <1>4, <2>3 DEF WalksUp, Search
<1>7. WalksOut(out, D)
  <2>1. PICK g : WalksOut(g, D)
    BY BinderWalk, TablesTyping DEF LookupInv, CompleteInv, LexicalInv
  <2>2. Out(g)
    BY <1>5, <2>1 DEF WalksOut
  <2>3. Out(out)
    BY <1>1, <2>2
  <2> QED BY <1>5, <2>3 DEF WalksOut
<1> HIDE DEF Up, Out
<1>8. \A b \in Binders \cup {0} :
        D[b] \in SUBSET Nodes /\ V[ScopeOpenedBy(b)] = LastOf(D[b])
  BY <1>4, <1>5, BuiltMaps, BuiltRanges DEF StorageOf
<1>9. LET s == up[ScopeOpenedBy(Binder(e))]
      IN  /\ s \in 0 .. Len(scopes)
          /\ out[Binder(e)] = IF s = NoScope THEN Null ELSE V[s]
  BY <1>6, <1>7, <1>8, ExprScope, WalksAgree
<1> QED BY <1>2, <1>3, <1>4, <1>9, ExprScope

-----------------------------------------------------------------------------
(* What lookups give their callers.                                        *)

\* A walk up from a scope comes to a scope, or to the end.
LEMMA WalkEndsInScope ==
  ASSUME LookupInv, NEW V, NEW g, WalksUp(g, V)
  PROVE  \A s \in 0 .. Len(scopes) : g[s] \in 0 .. Len(scopes)
<1>1. /\ Len(scopes) \in Nat /\ DOMAIN scopes = 1 .. Len(scopes)
      /\ scopes \in Seq(ScopeRecord)
  BY TablesTyping DEF LookupInv, CompleteInv, LexicalInv
<1>2. \A s \in 1 .. Len(scopes) : scopes[s].parent \in Nat /\ scopes[s].parent < s
  <2>1. \A s \in 1 .. Len(scopes) : scopes[s] \in ScopeRecord
    BY <1>1
  <2> QED BY <1>1, <2>1 DEF ScopeRecord, LookupInv, ParentsAreOlder
<1>3. \A s \in 0 .. Len(scopes) :
        g[s] = IF s = NoScope \/ V[s] # Null THEN s ELSE g[scopes[s].parent]
  BY DEF WalksUp
<1> DEFINE Bad == {s \in 0 .. Len(scopes) : g[s] \notin 0 .. Len(scopes)}
<1>4. SUFFICES ASSUME Bad # {} PROVE FALSE
  OBVIOUS
<1>5. Bad \in SUBSET Nat
  BY <1>1
<1> HIDE DEF Bad
<1>6. PICK s \in Bad : \A r \in Bad : s <= r
  BY <1>4, <1>5, LeastNatural
<1>7. s \in 0 .. Len(scopes) /\ g[s] \notin 0 .. Len(scopes)
  BY <1>6 DEF Bad
<1>8. s \in 1 .. Len(scopes) /\ g[s] = g[scopes[s].parent]
  BY <1>1, <1>3, <1>7 DEF NoScope
<1>9. scopes[s].parent \in 0 .. Len(scopes) /\ scopes[s].parent < s
  BY <1>1, <1>2, <1>8
<1>10. scopes[s].parent \in Bad
  BY <1>7, <1>8, <1>9 DEF Bad
<1> QED BY <1>1, <1>6, <1>8, <1>9, <1>10

\* Every scope is some binder's, or the first.
LEMMA ScopesAreBinders ==
  ASSUME LookupInv, Built, NEW s \in 1 .. Len(scopes)
  PROVE  \E b \in Binders \cup {0} : s = ScopeOpenedBy(b)
<1>1. Len(scopes) \in Nat
  BY TablesTyping DEF LookupInv, CompleteInv, LexicalInv
<1>2. CASE s = 1
  BY <1>2 DEF ScopeOpenedBy
<1>3. CASE s # 1
  <2>1. s \in 2 .. Len(scopes)
    BY <1>1, <1>3
  <2> QED BY <2>1 DEF LookupInv, CompleteInv, OneScopeEach
<1> QED BY <1>2, <1>3

\* The declarations under binders that a walk to a scope can come to.
LEMMA WalkFindsDeclaration ==
  ASSUME LookupInv, Built, NEW V, NEW D, NEW g, WalksUp(g, V),
         \A b \in Binders \cup {0} :
           D[b] \in SUBSET Nodes /\ V[ScopeOpenedBy(b)] = LastOf(D[b]),
         NEW s \in 0 .. Len(scopes), g[s] # NoScope
  PROVE  V[g[s]] # Null => \E b \in Binders \cup {0} : V[g[s]] \in D[b]
<1>1. g[s] \in 0 .. Len(scopes) /\ Len(scopes) \in Nat
  BY WalkEndsInScope, TablesTyping DEF LookupInv, CompleteInv, LexicalInv
<1>2. PICK r : r = g[s]
  OBVIOUS
<1>3. r \in 1 .. Len(scopes)
  BY <1>1, <1>2 DEF NoScope
<1>4. PICK b \in Binders \cup {0} : r = ScopeOpenedBy(b)
  BY <1>3, ScopesAreBinders
<1>5. D[b] \in SUBSET Nodes /\ V[r] = LastOf(D[b])
  BY <1>4
<1>6. prog \in Programs
  BY TablesTyping DEF LookupInv, CompleteInv, LexicalInv
<1>7. PICK S \in SUBSET Nodes : S = D[b]
  BY <1>5
<1>8. LastOf(S) = Null \/ LastOf(S) \in S
  BY <1>6, LastOfFacts
<1> QED BY <1>2, <1>5, <1>7, <1>8

\* A function's lookup finds function declarations, a type's those of types,
\* a variable's those of variables, loops and parameters.
LEMMA LookupsFindDeclarations ==
  ASSUME LookupInv, Built, NEW e \in Exprs, NEW x \in Identifiers
  PROVE  /\ lookupFunction(e, x) # Null =>
              /\ lookupFunction(e, x) \in Nodes
              /\ Kind(lookupFunction(e, x)) = "FunctionDeclaration"
         /\ lookupType(e, x) # Null =>
              /\ lookupType(e, x) \in Nodes
              /\ Kind(lookupType(e, x)) = "TypeDeclaration"
         /\ lookupStorageLocation(e, x) # Null =>
              /\ lookupStorageLocation(e, x) \in Nodes
              /\ Kind(lookupStorageLocation(e, x))
                   \in {"VariableDeclaration", "For", "TypeField"}
<1>1. /\ Len(prog) \in Nat /\ prog \in Programs
      /\ scope_by_expr \in [Nodes -> 0 .. Len(scopes)]
  BY TablesTyping, RootIsNode, NodeTyping DEF LookupInv, CompleteInv, LexicalInv
<1>2. scope_by_expr[e] \in 0 .. Len(scopes)
  BY <1>1 DEF Exprs
<1>3. lookupFunction(e, x) # Null =>
        \E b \in Binders \cup {0} : lookupFunction(e, x) \in FunctionsOf(b, x)
  <2> DEFINE Up(g) == Search(g, "function", x)
  <2>1. PICK up : up = (CHOOSE g : Up(g))
    OBVIOUS
  <2>2. lookupFunction(e, x) = LET s == up[scope_by_expr[e]]
                               IN  IF s = NoScope THEN Null ELSE scopes[s].function[x]
    BY <2>1, FirstFound DEF lookupFunction
  <2>3. PICK V : V = [s \in 0 .. Len(scopes) |-> scopes[s].function[x]]
    OBVIOUS
  <2>4. PICK D : D = [b \in 0 .. Len(prog) |-> FunctionsOf(b, x)]
    OBVIOUS
  <2>5. WalksUp(up, V)
    <3>1. PICK g : WalksUp(g, V)
      BY ScopeWalk
    <3>2. Up(g)
      BY <2>3, <3>1 DEF WalksUp, Search
    <3>3. Up(up)
      BY <2>1, <3>2
    <3> QED BY <2>3, <3>3 DEF WalksUp, Search
  <2> HIDE DEF Up
  <2>6. \A b \in Binders \cup {0} :
          D[b] \in SUBSET Nodes /\ V[ScopeOpenedBy(b)] = LastOf(D[b])
    BY <2>3, <2>4, BuiltMaps, BuiltRanges DEF FunctionsOf
  <2>7. PICK s : s = scope_by_expr[e] /\ s \in 0 .. Len(scopes)
    BY <1>2
  <2>8. up[s] # NoScope /\ V[up[s]] # Null =>
          \E b \in Binders \cup {0} : V[up[s]] \in D[b]
    BY <2>5, <2>6, <2>7, WalkFindsDeclaration
  <2>9. up[s] \in 0 .. Len(scopes)
    BY <2>5, <2>7, WalkEndsInScope
  <2>10. V[up[s]] = scopes[up[s]].function[x]
    BY <2>3, <2>9
  <2>11. \A b \in Binders \cup {0} : D[b] = FunctionsOf(b, x)
    BY <2>4, BuiltRanges
  <2> QED BY <2>2, <2>7, <2>8, <2>10, <2>11
<1>4. lookupType(e, x) # Null =>
        \E b \in Binders \cup {0} : lookupType(e, x) \in TypesOf(b, x)
  <2> DEFINE Up(g) == Search(g, "type", x)
  <2>1. PICK up : up = (CHOOSE g : Up(g))
    OBVIOUS
  <2>2. lookupType(e, x) = LET s == up[scope_by_expr[e]]
                               IN  IF s = NoScope THEN Null ELSE scopes[s].type[x]
    BY <2>1, FirstFound DEF lookupType
  <2>3. PICK V : V = [s \in 0 .. Len(scopes) |-> scopes[s].type[x]]
    OBVIOUS
  <2>4. PICK D : D = [b \in 0 .. Len(prog) |-> TypesOf(b, x)]
    OBVIOUS
  <2>5. WalksUp(up, V)
    <3>1. PICK g : WalksUp(g, V)
      BY ScopeWalk
    <3>2. Up(g)
      BY <2>3, <3>1 DEF WalksUp, Search
    <3>3. Up(up)
      BY <2>1, <3>2
    <3> QED BY <2>3, <3>3 DEF WalksUp, Search
  <2> HIDE DEF Up
  <2>6. \A b \in Binders \cup {0} :
          D[b] \in SUBSET Nodes /\ V[ScopeOpenedBy(b)] = LastOf(D[b])
    BY <2>3, <2>4, BuiltMaps, BuiltRanges DEF TypesOf
  <2>7. PICK s : s = scope_by_expr[e] /\ s \in 0 .. Len(scopes)
    BY <1>2
  <2>8. up[s] # NoScope /\ V[up[s]] # Null =>
          \E b \in Binders \cup {0} : V[up[s]] \in D[b]
    BY <2>5, <2>6, <2>7, WalkFindsDeclaration
  <2>9. up[s] \in 0 .. Len(scopes)
    BY <2>5, <2>7, WalkEndsInScope
  <2>10. V[up[s]] = scopes[up[s]].type[x]
    BY <2>3, <2>9
  <2>11. \A b \in Binders \cup {0} : D[b] = TypesOf(b, x)
    BY <2>4, BuiltRanges
  <2> QED BY <2>2, <2>7, <2>8, <2>10, <2>11
<1>5. lookupStorageLocation(e, x) # Null =>
        \E b \in Binders \cup {0} : lookupStorageLocation(e, x) \in StorageOf(b, x)
  <2> DEFINE Up(g) == Search(g, "storage", x)
  <2>1. PICK up : up = (CHOOSE g : Up(g))
    OBVIOUS
  <2>2. lookupStorageLocation(e, x) = LET s == up[scope_by_expr[e]]
                               IN  IF s = NoScope THEN Null ELSE scopes[s].storage[x]
    BY <2>1, FirstFound DEF lookupStorageLocation
  <2>3. PICK V : V = [s \in 0 .. Len(scopes) |-> scopes[s].storage[x]]
    OBVIOUS
  <2>4. PICK D : D = [b \in 0 .. Len(prog) |-> StorageOf(b, x)]
    OBVIOUS
  <2>5. WalksUp(up, V)
    <3>1. PICK g : WalksUp(g, V)
      BY ScopeWalk
    <3>2. Up(g)
      BY <2>3, <3>1 DEF WalksUp, Search
    <3>3. Up(up)
      BY <2>1, <3>2
    <3> QED BY <2>3, <3>3 DEF WalksUp, Search
  <2> HIDE DEF Up
  <2>6. \A b \in Binders \cup {0} :
          D[b] \in SUBSET Nodes /\ V[ScopeOpenedBy(b)] = LastOf(D[b])
    BY <2>3, <2>4, BuiltMaps, BuiltRanges DEF StorageOf
  <2>7. PICK s : s = scope_by_expr[e] /\ s \in 0 .. Len(scopes)
    BY <1>2
  <2>8. up[s] # NoScope /\ V[up[s]] # Null =>
          \E b \in Binders \cup {0} : V[up[s]] \in D[b]
    BY <2>5, <2>6, <2>7, WalkFindsDeclaration
  <2>9. up[s] \in 0 .. Len(scopes)
    BY <2>5, <2>7, WalkEndsInScope
  <2>10. V[up[s]] = scopes[up[s]].storage[x]
    BY <2>3, <2>9
  <2>11. \A b \in Binders \cup {0} : D[b] = StorageOf(b, x)
    BY <2>4, BuiltRanges
  <2> QED BY <2>2, <2>7, <2>8, <2>10, <2>11
<1>6. \A b : \A d \in FunctionsOf(b, x) : d \in Nodes /\ Kind(d) = "FunctionDeclaration"
  BY DEF FunctionsOf
<1>7. \A b : \A d \in TypesOf(b, x) : d \in Nodes /\ Kind(d) = "TypeDeclaration"
  BY DEF TypesOf
<1>8. \A b \in Binders \cup {0} : \A d \in StorageOf(b, x) :
        d \in Nodes /\ Kind(d) \in {"VariableDeclaration", "For", "TypeField"}
  <2> SUFFICES ASSUME NEW b \in Binders \cup {0}, NEW d \in StorageOf(b, x)
               PROVE  Kind(d) \in {"VariableDeclaration", "For", "TypeField"}
    BY DEF StorageOf
  <2>1. CASE Kind(d) \in {"VariableDeclaration", "For"}
    BY <2>1
  <2>2. CASE b # 0 /\ Kind(b) = "FunctionDeclaration" /\ d \in RangeOf(prog[b].params)
    <3>1. b \in Nodes /\ d \in ParamsOf(prog, b)
      BY <2>2 DEF Binders, RangeOf, ParamsOf
    <3> QED BY <1>1, <2>2, <3>1, ProgramsAssumption
            DEF IsProgram, IsShaped, Kind, Nodes
  <2> QED BY <2>1, <2>2 DEF StorageOf
<1> QED BY <1>3, <1>4, <1>5, <1>6, <1>7, <1>8

\* A name with one declaration in the Let or function a use is written in
\* means that one.
LEMMA OnlyDeclarationFound ==
  ASSUME LookupInv, Built, NEW e \in Exprs \ {1}, NEW x \in Identifiers,
         NEW d \in Nodes, StorageOf(Binder(e), x) = {d}
  PROVE  lookupStorageLocation(e, x) = d
<1> DEFINE Up(g) == Search(g, "storage", x)
<1>1. PICK up : up = (CHOOSE g : Up(g))
  OBVIOUS
<1>2. lookupStorageLocation(e, x) = LET s == up[scope_by_expr[e]]
                             IN  IF s = NoScope THEN Null ELSE scopes[s].storage[x]
  BY <1>1, FirstFound DEF lookupStorageLocation
<1>3. PICK V : V = [s \in 0 .. Len(scopes) |-> scopes[s].storage[x]]
  OBVIOUS
<1>4. WalksUp(up, V)
  <2>1. PICK g : WalksUp(g, V)
    BY ScopeWalk
  <2>2. Up(g)
    BY <1>3, <2>1 DEF WalksUp, Search
  <2>3. Up(up)
    BY <1>1, <2>2
  <2> QED BY <1>3, <2>3 DEF WalksUp, Search
<1> HIDE DEF Up
<1>5. PICK s \in 0 .. Len(scopes) :
        s = scope_by_expr[e] /\ s = ScopeOpenedBy(Binder(e)) /\ s # NoScope
  <2>1. scope_by_expr[e] # NoScope
    BY CompleteTable DEF LookupInv, TableIsComplete
  <2> QED BY <2>1, ExprScope, BuiltRanges
<1>6. scopes[s].storage[x] = LastOf({d})
  <2>1. PICK b \in Binders \cup {0} : b = Binder(e)
    BY ExprScope
  <2>2. scopes[ScopeOpenedBy(b)].storage[x] = LastOf(StorageOf(b, x))
    BY BuiltMaps
  <2> QED BY <1>5, <2>1, <2>2
<1>7. prog \in Programs /\ d # Null
  <2>1. prog \in Programs
    BY TablesTyping DEF LookupInv, CompleteInv, LexicalInv
  <2> QED BY <2>1, NodeTyping DEF Nodes, NodesOf, Null
<1>8. LastOf({d}) = d
  BY <1>7, LastOfFacts
<1>9. up[s] = s
  BY <1>3, <1>4, <1>5, <1>6, <1>7, <1>8 DEF WalksUp
<1> QED BY <1>2, <1>5, <1>6, <1>8, <1>9

-----------------------------------------------------------------------------
(* What is found is declared around the use.                               *)

\* A subtree is inside every other one its root is in.
LEMMA Nested ==
  ASSUME prog \in Programs, NEW n \in Nodes, ~ IsParam(n), NEW b \in Nodes,
         Below(prog, n, b)
  PROVE  prog[n].last <= prog[b].last
<1> DEFINE Out == {c \in Nodes : Below(prog, n, c) /\ ~ (prog[n].last <= prog[c].last)}
           Bad == {n - c : c \in Out}
<1>1. /\ Nodes = 1 .. Len(prog) /\ Len(prog) \in Nat
      /\ \A c \in Nodes : prog[c].last \in Nodes
  BY NodeTyping DEF Nodes, NodesOf
<1>2. SUFFICES ASSUME Bad # {} PROVE FALSE
  OBVIOUS
<1>3. Bad \in SUBSET Nat
  BY <1>1 DEF Below
<1>4. PICK g \in Bad : \A d \in Bad : g <= d
  <2> HIDE DEF Bad
  <2> QED BY <1>2, <1>3, LeastNatural
<1>5. PICK a \in Nodes : Below(prog, n, a) /\ ~ (prog[n].last <= prog[a].last) /\ g = n - a
  BY <1>4
<1>6. n # a
  BY <1>1, <1>5
<1>7. n \notin ParamsOf(prog, a)
  BY <1>5, ParamFacts
<1>8. PICK j \in DOMAIN Kids(a) : Below(prog, n, Kids(a)[j])
  BY <1>5, <1>6, <1>7, SubtreeFacts
<1>9. PICK k \in Nodes : k = Kids(a)[j] /\ a < k /\ prog[k].last <= prog[a].last
  BY <1>5, <1>8, KidFacts
<1>10. ~ (prog[n].last <= prog[k].last)
  BY <1>1, <1>5, <1>9
<1>11. k \in Out
  BY <1>8, <1>9, <1>10
<1>12. n - k \in Bad
  BY <1>11
<1>13. g <= n - k
  BY <1>4, <1>12
<1> QED BY <1>1, <1>5, <1>9, <1>13

\* What the children of a node have for a binder.
BinderUnder(a) == IF Opens(prog, a) THEN a ELSE Binder(a)

LEMMA InnerBinder ==
  ASSUME prog \in Programs, NEW n \in Nodes, ~ IsParam(n), NEW b \in Nodes,
         Below(prog, n, b), n # b
  PROVE  BinderUnder(b) <= Binder(n)
<1> DEFINE Out == {c \in Nodes : Below(prog, n, c) /\ n # c /\ ~ (BinderUnder(c) <= Binder(n))}
           Bad == {n - c : c \in Out}
<1>1. /\ Nodes = 1 .. Len(prog) /\ Len(prog) \in Nat
      /\ \A c \in Nodes : Binder(c) \in 0 .. Len(prog) /\ Binder(c) < c
  BY NodeTyping, BinderIsOlder DEF Nodes, NodesOf, Binder
<1>2. SUFFICES ASSUME Bad # {} PROVE FALSE
  OBVIOUS
<1>3. Bad \in SUBSET Nat
  BY <1>1 DEF Below
<1>4. PICK g \in Bad : \A d \in Bad : g <= d
  <2> HIDE DEF Bad
  <2> QED BY <1>2, <1>3, LeastNatural
<1>5. PICK a \in Nodes : /\ Below(prog, n, a) /\ n # a /\ ~ (BinderUnder(a) <= Binder(n))
                         /\ g = n - a
  BY <1>4
<1>6. n \notin ParamsOf(prog, a)
  BY <1>5, ParamFacts
<1>7. PICK j \in DOMAIN Kids(a) : Below(prog, n, Kids(a)[j])
  BY <1>5, <1>6, SubtreeFacts
<1>8. PICK k \in Nodes : k = Kids(a)[j] /\ a < k /\ Binder(k) = BinderUnder(a)
  BY <1>5, <1>7, KidFacts DEF BinderUnder
<1>9. n # k
  BY <1>1, <1>5, <1>8
<1>10. BinderUnder(a) <= BinderUnder(k)
  BY <1>1, <1>8 DEF BinderUnder
<1>11. ~ (BinderUnder(k) <= Binder(n))
  BY <1>1, <1>5, <1>8, <1>10 DEF BinderUnder
<1>12. k \in Out
  BY <1>7, <1>8, <1>9, <1>11
<1>13. n - k \in Bad
  BY <1>12
<1>14. g <= n - k
  BY <1>4, <1>13
<1> QED BY <1>1, <1>5, <1>8, <1>14

LEMMA BinderBelow ==
  ASSUME prog \in Programs, NEW n \in Nodes, ~ IsParam(n), NEW b \in Binders,
         Below(prog, n, b), n # b
  PROVE  Binder(n) \in Binders /\ Below(prog, Binder(n), b) /\ Binder(n) < n
<1>1. /\ Nodes = 1 .. Len(prog) /\ Len(prog) \in Nat /\ b \in Nodes /\ Opens(prog, b)
      /\ prog[b].last \in Nodes /\ Binder(n) \in 0 .. Len(prog)
  BY NodeTyping DEF Nodes, NodesOf, Binders, Binder
<1>2. b <= Binder(n)
  BY <1>1, InnerBinder DEF BinderUnder
<1>3. Binder(n) \in Binders /\ Binder(n) < n
  BY <1>1, <1>2, BinderFacts
<1> QED BY <1>1, <1>2, <1>3 DEF Below

\* A declaration is a Let's.
LEMMA DeclaredInLet ==
  ASSUME prog \in Programs, NEW d \in Nodes, Kind(d) \in DeclarationKinds
  PROVE  /\ Binder(d) \in Binders /\ Kind(Binder(d)) = "Let"
         /\ Below(prog, d, Binder(d)) /\ d # Binder(d)
<1>1. IsShaped(prog) /\ prog[1].kind \in ExprKinds /\ Nodes = NodesOf(prog)
  BY ProgramsAssumption DEF IsProgram, Nodes
<1>2. d # 1 /\ ~ IsParam(d) /\ Kind(d) \notin ExprKinds /\ Kind(d) \notin LValueKinds
  BY <1>1 DEF Kind, DeclarationKinds, ExprKinds, LValueKinds, IsParam
<1>3. PICK a \in Nodes : \/ d \in ParamsOf(prog, a)
                         \/ \E j \in DOMAIN Kids(a) : d = Kids(a)[j]
  BY <1>2, OwnerExists
<1>4. PICK j \in DOMAIN Kids(a) : d = Kids(a)[j]
  BY <1>2, <1>3, ParamFacts
<1>5. Kind(a) = "Let"
  <2>1. CASE Kind(a) \in Vectors
    BY <1>1, <1>2, <1>4, <2>1 DEF IsShaped, Kind, Kids
  <2>2. CASE Kind(a) \notin Vectors
    <3>1. j \in DOMAIN Children(Kind(a)) /\ Kind(d) \in Children(Kind(a))[j]
      BY <1>1, <1>4, <2>2 DEF IsShaped, Kind, Kids
    <3>2. Kind(a) \in NodeKinds
      <4>1. prog[a] \in Node(prog)
        BY ProgramsAssumption DEF IsProgram, Nodes, NodesOf
      <4> QED BY <4>1 DEF Node, Kind
    <3>3. \A i \in DOMAIN Children(Kind(a)) :
            Children(Kind(a))[i] \in {LValueKinds, ExprKinds}
      <4>1. CASE Kind(a) \in {"LValue", "RecordField"}
        <5>1. Children(Kind(a)) = <<LValueKinds>>
          BY <4>1 DEF Children, Childless
        <5> QED BY <5>1
      <4>2. CASE Kind(a) \in {"ArrayElement", "Assignment"}
        <5>1. Children(Kind(a)) = <<LValueKinds, ExprKinds>>
          BY <4>2 DEF Children, Childless
        <5> QED BY <5>1
      <4>3. CASE Kind(a) \in {"Negated", "VariableDeclaration", "FunctionDeclaration"}
        <5>1. Children(Kind(a)) = <<ExprKinds>>
          BY <4>3 DEF Children, Childless
        <5> QED BY <5>1
      <4>4. CASE Kind(a) \in {"Binary", "ArrayLiteral", "IfThen", "While"}
        <5>1. Children(Kind(a)) = <<ExprKinds, ExprKinds>>
          BY <4>4 DEF Children, Childless
        <5> QED BY <5>1
      <4>5. CASE Kind(a) \in {"IfThenElse", "For"}
        <5>1. Children(Kind(a)) = <<ExprKinds, ExprKinds, ExprKinds>>
          BY <4>5 DEF Children, Childless
        <5> QED BY <5>1
      <4>6. CASE Kind(a) \in Childless
        <5>1. Children(Kind(a)) = <<>>
          BY <4>6, Zenon DEF Children, Childless
        <5> QED BY <5>1
      <4> QED BY <2>2, <3>2, <4>1, <4>2, <4>3, <4>4, <4>5, <4>6
              DEF NodeKinds, ExprKinds, LValueKinds, DeclarationKinds, Childless, Vectors
    <3> QED BY <1>2, <3>1, <3>3
  <2> QED BY <2>1, <2>2
<1>6. Opens(prog, a)
  BY <1>5 DEF Opens, Kind
<1>7. /\ a < d /\ d <= prog[d].last /\ prog[d].last <= prog[a].last
      /\ Binder(d) = a
  BY <1>4, <1>6, KidFacts
<1>8. /\ a \in Int /\ d \in Int
      /\ prog[d].last \in Int /\ prog[a].last \in Int
  <2>1. Nodes = 1 .. Len(prog) /\ Len(prog) \in Nat
    BY RootIsNode, NodeTyping DEF Nodes, NodesOf
  <2>2. prog[d].last \in Nodes /\ prog[a].last \in Nodes
    BY NodeTyping
  <2> QED BY <2>1, <2>2
<1>9. a \in Binders
  BY <1>6 DEF Binders
<1>10. Below(prog, d, a) /\ d # a
  BY ONLY <1>7, <1>8 DEF Below
<1> QED BY <1>5, <1>7, <1>9, <1>10

LEMMA OutStep ==
  ASSUME NEW D, NEW h, WalksOut(h, D), NEW a \in 0 .. Len(prog)
  PROVE  h[a] = IF D[a] # {} THEN LastOf(D[a]) ELSE IF a = 0 THEN Null ELSE h[Binder(a)]
BY DEF WalksOut

\* A walk out from a binder comes to declarations of binders around it.
LEMMA WalkFindsAround ==
  ASSUME prog \in Programs, NEW D, NEW h, WalksOut(h, D),
         \A b \in Binders \cup {0} : D[b] \in SUBSET Nodes,
         NEW c \in Binders \cup {0}, h[c] # Null
  PROVE  \E b \in Binders \cup {0} : h[c] \in D[b] /\ (b # 0 => Below(prog, c, b))
<1> DEFINE Good(a) == \E b \in Binders \cup {0} : h[a] \in D[b] /\ (b # 0 => Below(prog, a, b))
           Bad == {a \in Binders \cup {0} : h[a] # Null /\ ~ Good(a)}
<1>1. /\ Nodes = 1 .. Len(prog) /\ Len(prog) \in Nat
      /\ \A n \in Nodes : prog[n].last \in Nodes /\ n <= prog[n].last
  <2>1. IsTree(prog)
    BY ProgramsAssumption DEF IsProgram
  <2> QED BY <2>1, RootIsNode, NodeTyping DEF Nodes, NodesOf, IsTree
<1>2. \A b \in Binders : b \in Nodes /\ ~ IsParam(b)
  BY DEF Binders, Opens, IsParam, Kind
<1>3. SUFFICES ASSUME Bad # {} PROVE FALSE
  OBVIOUS
<1>4. Bad \in SUBSET Nat
  BY <1>1, <1>2
<1>5. PICK a \in Bad : \A d \in Bad : a <= d
  <2> HIDE DEF Bad
  <2> QED BY <1>3, <1>4, LeastNatural
<1>6. a \in Binders \cup {0} /\ h[a] # Null /\ ~ Good(a)
  OBVIOUS
<1>7. \A d \in Binders \cup {0} : d < a /\ h[d] # Null => Good(d)
  <2>1. ASSUME NEW d \in Binders \cup {0}, d < a, h[d] # Null, ~ Good(d) PROVE FALSE
    <3>1. d \in Bad
      BY <2>1
    <3>2. a <= d
      BY <1>5, <3>1
    <3> QED BY <1>1, <1>2, <1>6, <2>1, <3>2
  <2> QED BY <2>1
<1> HIDE DEF Bad, Good
<1>8. h[a] = IF D[a] # {} THEN LastOf(D[a]) ELSE IF a = 0 THEN Null ELSE h[Binder(a)]
  <2>1. a \in 0 .. Len(prog)
    BY <1>1, <1>2, <1>6
  <2> QED BY <2>1, OutStep
<1>9. CASE D[a] # {}
  <2>1. PICK S \in SUBSET Nodes : S = D[a] /\ S # {}
    BY <1>6, <1>9
  <2>2. h[a] \in D[a]
    BY <1>8, <1>9, <2>1, LastOfFacts
  <2>3. a # 0 => Below(prog, a, a)
    BY <1>1, <1>2, <1>6 DEF Below
  <2> QED BY <1>6, <2>2, <2>3 DEF Good
<1>10. CASE D[a] = {}
  <2>1. a \in Binders /\ a \in Nodes /\ ~ IsParam(a) /\ h[a] = h[Binder(a)]
    BY <1>2, <1>6, <1>8, <1>10
  <2>2. Binder(a) \in Binders \cup {0} /\ Binder(a) < a
    BY <2>1, BinderFacts, BinderIsOlder
  <2>3. Good(Binder(a))
    BY <1>6, <1>7, <2>1, <2>2
  <2>4. PICK b \in Binders \cup {0} : h[a] \in D[b] /\ (b # 0 => Below(prog, Binder(a), b))
    BY <2>1, <2>3 DEF Good
  <2>5. ASSUME b # 0 PROVE Below(prog, a, b)
    <3>1. b \in Nodes /\ Below(prog, Binder(a), b)
      BY <1>2, <2>4, <2>5
    <3>2. Binder(a) # 0
      BY <1>1, <3>1 DEF Below
    <3>3. PICK c0 \in Binders : c0 = Binder(a)
      BY <2>2, <3>2
    <3>4. prog[a].last <= prog[c0].last
      BY <2>1, <3>2, <3>3, BinderFacts
    <3>5. prog[c0].last <= prog[b].last
      BY <1>2, <3>1, <3>3, Nested
    <3>6. /\ a \in Nat /\ b \in Nat /\ c0 \in Nat /\ c0 < a /\ b <= c0 /\ a <= prog[a].last
          /\ prog[a].last \in Nat /\ prog[b].last \in Nat /\ prog[c0].last \in Nat
      BY <1>1, <1>2, <2>1, <2>2, <3>1, <3>3 DEF Below
    <3> QED BY <3>4, <3>5, <3>6 DEF Below
  <2> QED BY <1>6, <2>4, <2>5 DEF Good
<1> QED BY <1>9, <1>10

\* A walk finds something where a binder around declares something.
LEMMA WalkFindsSome ==
  ASSUME prog \in Programs, NEW D, NEW h, WalksOut(h, D),
         \A b \in Binders \cup {0} : D[b] \in SUBSET Nodes,
         NEW b \in Binders, D[b] # {}, NEW c \in Binders, Below(prog, c, b)
  PROVE  h[c] # Null
<1> DEFINE Bad == {a \in Binders : Below(prog, a, b) /\ h[a] = Null}
<1>1. Nodes = 1 .. Len(prog) /\ Len(prog) \in Nat
  BY RootIsNode, NodeTyping DEF Nodes, NodesOf
<1>2. \A d \in Binders : d \in Nodes /\ ~ IsParam(d)
  BY DEF Binders, Opens, IsParam, Kind
<1>3. SUFFICES ASSUME Bad # {} PROVE FALSE
  OBVIOUS
<1>4. Bad \in SUBSET Nat
  BY <1>1, <1>2
<1>5. PICK a \in Bad : \A d \in Bad : a <= d
  <2> HIDE DEF Bad
  <2> QED BY <1>3, <1>4, LeastNatural
<1>6. a \in Binders /\ a \in Nodes /\ ~ IsParam(a) /\ Below(prog, a, b) /\ h[a] = Null
  BY <1>2
<1>7. h[a] = IF D[a] # {} THEN LastOf(D[a]) ELSE IF a = 0 THEN Null ELSE h[Binder(a)]
  <2>1. a \in 0 .. Len(prog)
    BY <1>1, <1>6
  <2> QED BY <2>1, OutStep
<1>8. D[a] = {}
  <2> SUFFICES ASSUME D[a] # {} PROVE FALSE
    OBVIOUS
  <2>1. PICK S \in SUBSET Nodes : S = D[a] /\ S # {}
    BY <1>6
  <2>2. LastOf(S) \in Nodes
    BY <2>1, LastOfFacts
  <2> QED BY <1>1, <1>6, <1>7, <2>1, <2>2 DEF Null
<1>9. a # b
  BY <1>8
<1>10. Binder(a) \in Binders /\ Below(prog, Binder(a), b) /\ Binder(a) < a
  BY <1>6, <1>9, BinderBelow
<1>11. h[Binder(a)] = Null
  BY <1>1, <1>6, <1>7, <1>8
<1>12. Binder(a) \in Bad
  BY <1>10, <1>11
<1>13. a <= Binder(a)
  BY <1>5, <1>12
<1>14. PICK g \in Nodes : g = Binder(a)
  BY <1>2, <1>10
<1>15. a \in Nat /\ g \in Nat
  BY <1>1, <1>6, <1>14
<1> HIDE DEF Bad
<1> QED BY <1>10, <1>13, <1>14, <1>15

LEMMA AroundBinder ==
  ASSUME prog \in Programs, NEW n \in Nodes, ~ IsParam(n), Binder(n) \in Binders,
         NEW b \in Binders, Below(prog, Binder(n), b)
  PROVE  Below(prog, n, b) /\ n # b
<1>1. PICK c \in Binders : c = Binder(n)
  OBVIOUS
<1>2. /\ Nodes = 1 .. Len(prog) /\ Len(prog) \in Nat /\ b \in Nodes /\ c \in Nodes
      /\ prog[b].last \in Nodes /\ prog[c].last \in Nodes /\ prog[n].last \in Nodes
      /\ ~ IsParam(c) /\ n <= prog[n].last
  <2>1. IsTree(prog)
    BY ProgramsAssumption DEF IsProgram
  <2>2. b \in Nodes /\ c \in Nodes /\ ~ IsParam(c)
    BY DEF Binders, Opens, IsParam, Kind
  <2> QED BY <2>1, <2>2, NodeTyping DEF Nodes, NodesOf, IsTree
<1>3. c < n /\ prog[n].last <= prog[c].last
  BY <1>1, <1>2, BinderFacts
<1>4. prog[c].last <= prog[b].last /\ b <= c
  BY <1>1, <1>2, Nested DEF Below
<1> QED BY <1>2, <1>3, <1>4 DEF Below

\* d is a declaration of name x around e.
FoundAround(e, d, kind, x) ==
  /\ e \in Nodes \ {1} /\ d \in Nodes /\ Kind(d) = kind /\ prog[d].id = x
  /\ Binder(d) \in Binders /\ Kind(Binder(d)) = "Let"
  /\ Below(prog, e, Binder(d)) /\ e # Binder(d)

LEMMA WalkFromExpr ==
  ASSUME LookupInv, Built, NEW e \in Exprs \ {1}, NEW D, NEW h, WalksOut(h, D),
         NEW kind \in DeclarationKinds, NEW x,
         \A b \in Binders \cup {0} :
           D[b] = {n \in Nodes : Kind(n) = kind /\ Binder(n) = b /\ prog[n].id = x},
         h[Binder(e)] # Null
  PROVE  FoundAround(e, h[Binder(e)], kind, x)
<1>1. prog \in Programs /\ Binder(e) \in Binders \cup {0} /\ e \in Nodes /\ ~ IsParam(e)
  BY ExprScope, TablesTyping
     DEF LookupInv, CompleteInv, LexicalInv, Exprs, IsExpr, ExprKinds, IsParam
<1>2. PICK c \in Binders \cup {0} : c = Binder(e)
  BY <1>1
<1>3. \A b \in Binders \cup {0} : D[b] \in SUBSET Nodes
  OBVIOUS
<1>4. PICK b \in Binders \cup {0} : h[c] \in D[b] /\ (b # 0 => Below(prog, c, b))
  BY <1>1, <1>2, <1>3, WalkFindsAround
<1>5. PICK d \in Nodes : d = h[c] /\ Kind(d) = kind /\ Binder(d) = b /\ prog[d].id = x
  BY <1>4
<1>6. b \in Binders /\ Kind(b) = "Let"
  BY <1>1, <1>5, DeclaredInLet
<1>7. b \in Nodes /\ b # 0 /\ Nodes = 1 .. Len(prog) /\ Len(prog) \in Nat
  BY <1>1, <1>6, RootIsNode, NodeTyping DEF Binders, Nodes, NodesOf
<1>8. c \in Binders
  BY <1>4, <1>7 DEF Below
<1>9. Below(prog, e, b) /\ e # b
  BY <1>1, <1>2, <1>4, <1>6, <1>7, <1>8, AroundBinder
<1> QED BY <1>1, <1>2, <1>5, <1>6, <1>9 DEF FoundAround

\* The root, which has no scope, finds no function.
LEMMA RootFindsNothing ==
  ASSUME LookupInv, Built, NEW x
  PROVE  lookupFunction(1, x) = Null
<1> DEFINE Up(g) == Search(g, "function", x)
<1>1. PICK up : up = (CHOOSE g : Up(g))
  OBVIOUS
<1>2. lookupFunction(1, x) = LET s == up[scope_by_expr[1]]
                             IN  IF s = NoScope THEN Null ELSE scopes[s].function[x]
  BY <1>1, FirstFound DEF lookupFunction
<1>3. PICK V : V = [s \in 0 .. Len(scopes) |-> scopes[s].function[x]]
  OBVIOUS
<1>4. WalksUp(up, V)
  <2>1. PICK g : WalksUp(g, V)
    BY ScopeWalk
  <2>2. Up(g)
    BY <1>3, <2>1 DEF WalksUp, Search
  <2>3. Up(up)
    BY <1>1, <2>2
  <2> QED BY <1>3, <2>3 DEF WalksUp, Search
<1> HIDE DEF Up
<1>5. scope_by_expr[1] = NoScope
  BY CompleteTable DEF LookupInv, TableIsComplete
<1>6. Len(scopes) \in Nat
  BY TablesTyping DEF LookupInv, CompleteInv, LexicalInv
<1>7. up[NoScope] = NoScope
  BY <1>4, <1>6 DEF WalksUp, NoScope
<1> QED BY <1>2, <1>5, <1>7

LEMMA FunctionFoundAround ==
  ASSUME LookupInv, Built, NEW e \in Exprs, NEW x \in Identifiers,
         lookupFunction(e, x) # Null
  PROVE  FoundAround(e, lookupFunction(e, x), "FunctionDeclaration", x)
<1> DEFINE Out(g) == g = [b \in 0 .. Len(prog) |->
                            IF FunctionsOf(b, x) # {} THEN LastOf(FunctionsOf(b, x))
                            ELSE IF b = 0 THEN Null ELSE g[Binder(b)]]
<1>1. e \in Exprs \ {1}
  BY RootFindsNothing
<1>2. PICK out : out = (CHOOSE g : Out(g))
  OBVIOUS
<1>3. lookupFunction(e, x) = out[Binder(e)]
  BY <1>1, <1>2, FunctionLookups DEF Innermost
<1>4. PICK D : D = [b \in 0 .. Len(prog) |-> FunctionsOf(b, x)]
  OBVIOUS
<1>5. WalksOut(out, D)
  <2>1. PICK g : WalksOut(g, D)
    BY BinderWalk, TablesTyping DEF LookupInv, CompleteInv, LexicalInv
  <2>2. Out(g)
    BY <1>4, <2>1 DEF WalksOut
  <2>3. Out(out)
    BY <1>2, <2>2
  <2> QED BY <1>4, <2>3 DEF WalksOut
<1> HIDE DEF Out
<1>6. \A b \in Binders \cup {0} :
        D[b] = {n \in Nodes : /\ Kind(n) = "FunctionDeclaration"
                              /\ Binder(n) = b /\ prog[n].id = x}
  BY <1>4, BuiltRanges DEF FunctionsOf
<1>7. "FunctionDeclaration" \in DeclarationKinds
  BY DEF DeclarationKinds
<1> QED BY <1>1, <1>3, <1>5, <1>6, <1>7, WalkFromExpr

\* What a lookup of a type says and what it does not miss.
LEMMA TypeFoundAround ==
  ASSUME LookupInv, Built, NEW e \in Exprs \ {1}, NEW x \in Identifiers
  PROVE  /\ lookupType(e, x) # Null =>
              FoundAround(e, lookupType(e, x), "TypeDeclaration", x)
         /\ \A d \in Nodes :
              /\ Kind(d) = "TypeDeclaration" /\ prog[d].id = x
              /\ Below(prog, e, Binder(d)) /\ e # Binder(d)
              => lookupType(e, x) # Null
<1> DEFINE Out(g) == g = [b \in 0 .. Len(prog) |->
                            IF TypesOf(b, x) # {} THEN LastOf(TypesOf(b, x))
                            ELSE IF b = 0 THEN Null ELSE g[Binder(b)]]
<1>1. PICK out : out = (CHOOSE g : Out(g))
  OBVIOUS
<1>2. lookupType(e, x) = out[Binder(e)]
  BY <1>1, TypeLookups DEF Innermost
<1>3. PICK D : D = [b \in 0 .. Len(prog) |-> TypesOf(b, x)]
  OBVIOUS
<1>4. WalksOut(out, D)
  <2>1. PICK g : WalksOut(g, D)
    BY BinderWalk, TablesTyping DEF LookupInv, CompleteInv, LexicalInv
  <2>2. Out(g)
    BY <1>3, <2>1 DEF WalksOut
  <2>3. Out(out)
    BY <1>1, <2>2
  <2> QED BY <1>3, <2>3 DEF WalksOut
<1> HIDE DEF Out
<1>5. \A b \in Binders \cup {0} :
        D[b] = {n \in Nodes : /\ Kind(n) = "TypeDeclaration"
                              /\ Binder(n) = b /\ prog[n].id = x}
  BY <1>3, BuiltRanges DEF TypesOf
<1>6. "TypeDeclaration" \in DeclarationKinds
  BY DEF DeclarationKinds
<1>7. lookupType(e, x) # Null => FoundAround(e, lookupType(e, x), "TypeDeclaration", x)
  BY <1>2, <1>4, <1>5, <1>6, WalkFromExpr
<1>8. ASSUME NEW d \in Nodes, Kind(d) = "TypeDeclaration", prog[d].id = x,
             Below(prog, e, Binder(d)), e # Binder(d)
      PROVE  lookupType(e, x) # Null
  <2>1. prog \in Programs /\ e \in Nodes /\ ~ IsParam(e)
    BY TablesTyping
       DEF LookupInv, CompleteInv, LexicalInv, Exprs, IsExpr, ExprKinds, IsParam
  <2>2. PICK b \in Binders : b = Binder(d)
    BY <1>6, <1>8, <2>1, DeclaredInLet
  <2>3. d \in D[b]
    BY <1>5, <1>8, <2>2
  <2>4. PICK c \in Binders : c = Binder(e) /\ Below(prog, c, b)
    BY <1>8, <2>1, <2>2, BinderBelow
  <2>5. out[c] # Null
    BY <1>4, <1>5, <2>1, <2>3, <2>4, WalkFindsSome
  <2> QED BY <1>2, <2>4, <2>5
<1> QED BY <1>7, <1>8

\* Every Let that declares a type of name x has n inside, ...
NamedWithin(n, x) ==
  \A d \in Nodes : Kind(d) = "TypeDeclaration" /\ prog[d].id = x =>
    Below(prog, n, Binder(d))

\* ... and what is looked up from e is looked up in its scope.
Sees(e, x) ==
  \A d \in Nodes : Kind(d) = "TypeDeclaration" /\ prog[d].id = x =>
    Below(prog, e, Binder(d)) /\ e # Binder(d)

\* What a declaration found from e may name is in scope at e.
LEMMA SeesAsFound ==
  ASSUME prog \in Programs, NEW e, NEW d, NEW kind \in DeclarationKinds, NEW x,
         FoundAround(e, d, kind, x), NEW y, NamedWithin(d, y)
  PROVE  Sees(e, y)
<1> SUFFICES ASSUME NEW t \in Nodes, Kind(t) = "TypeDeclaration", prog[t].id = y
             PROVE  Below(prog, e, Binder(t)) /\ e # Binder(t)
  BY DEF Sees
<1>1. /\ e \in Nodes /\ d \in Nodes /\ Kind(d) = kind /\ Binder(d) \in Binders
      /\ Below(prog, e, Binder(d)) /\ e # Binder(d)
  BY DEF FoundAround
<1>2. PICK b \in Binders : b = Binder(t) /\ Kind(b) = "Let"
  BY DeclaredInLet DEF DeclarationKinds
<1>3. ~ IsParam(d) /\ d # b
  BY <1>1, <1>2 DEF IsParam, DeclarationKinds
<1>4. Below(prog, d, b)
  BY <1>2 DEF NamedWithin
<1>5. PICK c \in Binders : c = Binder(d) /\ Below(prog, c, b)
  BY <1>1, <1>3, <1>4, BinderBelow
<1>6. b \in Nodes /\ c \in Nodes /\ ~ IsParam(c)
  BY DEF Binders, Opens, IsParam, Kind
<1>7. prog[c].last <= prog[b].last
  BY <1>5, <1>6, Nested
<1>8. /\ Nodes = 1 .. Len(prog) /\ Len(prog) \in Nat
      /\ prog[b].last \in Nodes /\ prog[c].last \in Nodes
  BY <1>1, <1>6, NodeTyping DEF Nodes, NodesOf
<1> QED BY <1>1, <1>2, <1>5, <1>6, <1>7, <1>8 DEF Below

\* What a declaration may name is in scope at its value.
LEMMA SeesAsNamed ==
  ASSUME prog \in Programs, NEW v \in Nodes,
         Kind(v) \in {"VariableDeclaration", "FunctionDeclaration"},
         NEW y, NamedWithin(v, y)
  PROVE  1 \in DOMAIN Kids(v) /\ Sees(Kids(v)[1], y)
<1>1. 1 \in DOMAIN Kids(v)
  <2>1. DOMAIN Kids(v) = DOMAIN Children(Kind(v))
    BY ProgramsAssumption DEF IsProgram, IsShaped, Nodes, Kids, Kind, Vectors
  <2>2. Children(Kind(v)) = <<ExprKinds>>
    BY DEF Children, Childless
  <2> QED BY <2>1, <2>2
<1>2. PICK k \in Nodes : k = Kids(v)[1] /\ v < k /\ prog[k].last <= prog[v].last
                         /\ k <= prog[k].last
  BY <1>1, KidFacts
<1>3. ASSUME NEW t \in Nodes, Kind(t) = "TypeDeclaration", prog[t].id = y
      PROVE  Below(prog, k, Binder(t)) /\ k # Binder(t)
  <2>1. PICK b \in Binders : b = Binder(t)
    BY <1>3, DeclaredInLet DEF DeclarationKinds
  <2>2. Below(prog, v, b) /\ b \in Nodes /\ ~ IsParam(v)
    BY <1>3, <2>1 DEF NamedWithin, Binders, IsParam
  <2>3. prog[v].last <= prog[b].last
    BY <2>2, Nested
  <2>4. /\ Nodes = 1 .. Len(prog) /\ Len(prog) \in Nat
        /\ prog[b].last \in Nodes /\ prog[v].last \in Nodes /\ prog[k].last \in Nodes
    BY <1>2, <2>2, NodeTyping DEF Nodes, NodesOf
  <2> QED BY <1>2, <2>1, <2>2, <2>3, <2>4 DEF Below
<1> QED BY <1>1, <1>2, <1>3 DEF Sees

\* What a parameter may name its function may.
LEMMA FunctionNamesToo ==
  ASSUME prog \in Programs, NEW f \in Nodes, Kind(f) = "FunctionDeclaration",
         NEW p \in ParamsOf(prog, f), NEW y, NamedWithin(p, y)
  PROVE  NamedWithin(f, y)
<1> SUFFICES ASSUME NEW t \in Nodes, Kind(t) = "TypeDeclaration", prog[t].id = y
             PROVE  Below(prog, f, Binder(t))
  BY DEF NamedWithin
<1>1. PICK b \in Binders : b = Binder(t) /\ Kind(b) = "Let"
  BY DeclaredInLet DEF DeclarationKinds
<1>2. Below(prog, p, b) /\ p \in Nodes /\ b \in Nodes /\ b # f
  BY <1>1, ParamFacts DEF NamedWithin, Binders
<1>3. 1 \in DOMAIN Kids(f)
  <2>1. DOMAIN Kids(f) = DOMAIN Children(Kind(f))
    BY ProgramsAssumption DEF IsProgram, IsShaped, Nodes, Kids, Kind, Vectors
  <2>2. Children(Kind(f)) = <<ExprKinds>>
    BY DEF Children, Childless
  <2> QED BY <2>1, <2>2
<1>4. IsTree(prog) /\ Nodes = NodesOf(prog)
  BY ProgramsAssumption DEF IsProgram, Nodes
<1>5. f < p /\ \A j \in DOMAIN Kids(f) : p < Kids(f)[j]
  BY <1>4 DEF IsTree, Kids
<1>6. PICK k \in Nodes : /\ k = Kids(f)[1] /\ p < k /\ k <= prog[k].last
                         /\ prog[k].last <= prog[f].last
  BY <1>3, <1>5, KidFacts
<1>7. /\ Nodes = 1 .. Len(prog) /\ Len(prog) \in Nat
      /\ prog[b].last \in Nodes /\ prog[f].last \in Nodes /\ prog[k].last \in Nodes
  BY <1>2, <1>6, NodeTyping DEF Nodes, NodesOf
<1>8. ASSUME f < b PROVE FALSE
  <2>1. Below(prog, b, f)
    BY <1>2, <1>6, <1>7, <1>8 DEF Below
  <2>2. b \notin ParamsOf(prog, f)
    <3>1. ~ IsParam(b)
      BY <1>1 DEF IsParam
    <3> QED BY <3>1, ParamFacts
  <2>3. PICK j \in DOMAIN Kids(f) : Below(prog, b, Kids(f)[j])
    BY <1>2, <2>1, <2>2, SubtreeFacts
  <2>4. Kids(f)[j] \in Nodes /\ p < Kids(f)[j]
    BY <1>5, <2>3, KidFacts
  <2> QED BY <1>2, <1>7, <2>3, <2>4 DEF Below
<1> QED BY <1>1, <1>2, <1>5, <1>7, <1>8 DEF Below

-----------------------------------------------------------------------------
(* The theorem.                                                            *)

LEMMA LookupsFollow == LookupInv => LookupsAreLexical
BY FunctionLookups, TypeLookups, StorageLookups DEF LookupsAreLexical

\* In whatever tree, a lookup in a built table answers by static scoping: the
\* last declaration of the name in the innermost Let or function around the
\* use that has one, through shadowing, hoisting, repeated names, parameters
\* and loop variables.
THEOREM LookupsFollowScoping == Spec => []LookupsAreLexical
BY LookupInvariant, LookupsFollow, PTL
=============================================================================
