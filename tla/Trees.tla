------------------------------- MODULE Trees -------------------------------
(***************************************************************************)
(* Test inputs: programs written in prefix notation, and their reading as  *)
(* the numbered nodes of module Syntax.  Used by the MC modules only.      *)
(*                                                                         *)
(* A program is a sequence of words.  A node is its keyword, its name and  *)
(* its type where it has them ("-" for none), and the nodes below it; ")"  *)
(* ends the nodes below one that may have any number of them:              *)
(*     <<"let", "var", "a", "int", "1", "lv", "id", "a", ")">>             *)
(***************************************************************************)
EXTENDS Integers, Sequences, TLC

\* Names and types that follow the keyword, nodes below (Many: up to ")").
LOCAL Many == -1
LOCAL Form(kind, form, labels, below) ==
  [kind |-> kind, form |-> form, labels |-> labels, below |-> below]
LOCAL Word(kind, labels, below) == Form(kind, "alias", labels, below)

LOCAL None == {}
LOCAL Name == {"id"}
LOCAL Type == {"type"}
LOCAL Both == Name \cup Type

\* The words of expressions, l-values and declarations.
LOCAL Keywords ==
  ("s" :> Word("StringConstant", None, 0))
  @@ ("1" :> Word("IntegerConstant", None, 0))
  @@ ("nil" :> Word("Nil", None, 0))
  @@ ("break" :> Word("Break", None, 0))
  @@ ("neg" :> Word("Negated", None, 1))
  @@ ("+" :> Form("Binary", "arithmetic", None, 2))
  @@ ("<" :> Form("Binary", "comparison", None, 2))
  @@ ("&" :> Form("Binary", "logical", None, 2))
  @@ ("if" :> Word("IfThen", None, 2))
  @@ ("ifelse" :> Word("IfThenElse", None, 3))
  @@ ("while" :> Word("While", None, 2))
  @@ ("for" :> Word("For", Name, 3))
  @@ ("(" :> Word("Parenthesized", None, Many))
  @@ ("let" :> Word("Let", None, Many))
  @@ ("call" :> Word("FunctionCall", Name, Many))
  @@ ("new" :> Word("RecordLiteral", Type, Many))
  @@ ("newarray" :> Word("ArrayLiteral", Type, 2))
  @@ (":=" :> Word("Assignment", None, 2))
  @@ ("lv" :> Word("LValue", None, 1))
  @@ ("id" :> Word("Identifier", Name, 0))
  @@ ("dot" :> Word("RecordField", Name, 1))
  @@ ("sub" :> Word("ArrayElement", None, 2))
  @@ ("var" :> Word("VariableDeclaration", Both, 1))
  @@ ("function" :> Word("FunctionDeclaration", Both, 1))
  @@ ("type" :> Word("TypeDeclaration", Both, 0))
  @@ ("array" :> Form("TypeDeclaration", "array", Both, 0))
  @@ ("record" :> Form("TypeDeclaration", "record", Name, Many))
  @@ ("field" :> Word("TypeField", Both, 0))
  @@ ("init" :> Word("FieldAssignment", Name, 0))

\* Fields and parameters come first below their node and are not counted.
LOCAL Uncounted == {"TypeField", "FieldAssignment"}

\* Reading: open holds the nodes whose end has not been read, with the number
\* of nodes they wait for.
LOCAL Frame(n, waits) == [node |-> n, waits |-> waits]
LOCAL StillOpen(open) ==
  SubSeq(open, 1, CHOOSE k \in 0 .. Len(open) :
                    /\ \A j \in k + 1 .. Len(open) : open[j].waits = 0
                    /\ k > 0 => open[k].waits # 0)
LOCAL Awaited(open, kind) ==
  IF open = <<>> \/ kind \in Uncounted THEN open
  ELSE [open EXCEPT ![Len(open)].waits = IF @ = Many THEN @ ELSE @ - 1]

LOCAL ReadNode(r) ==
  LET word == Keywords[r.text[r.at]]
      n    == Len(r.nodes) + 1
      binders == {k \in DOMAIN r.open :
                    r.nodes[r.open[k].node].kind \in {"Let", "FunctionDeclaration"}}
      label(l) == IF l \notin word.labels THEN "-"
                  ELSE r.text[r.at + (IF word.labels = Both /\ l = "type" THEN 2 ELSE 1)]
      node == [kind |-> word.kind, form |-> word.form,
               id |-> IF "id" \in word.labels THEN label("id") ELSE "_",
               type |-> label("type"),
               parent |-> IF r.open = <<>> THEN 0 ELSE r.open[Len(r.open)].node,
               binder |-> IF binders = {} THEN 0
                          ELSE r.open[CHOOSE k \in binders :
                                        \A j \in binders : j <= k].node]
  IN  [r EXCEPT !.at = @ + 1 + (IF word.labels = Both THEN 2
                                ELSE IF word.labels = None THEN 0 ELSE 1),
                !.nodes = Append(@, node),
                !.open = StillOpen(Append(Awaited(@, word.kind),
                                          Frame(n, word.below)))]
LOCAL ReadEnd(r) ==
  [r EXCEPT !.at = @ + 1, !.open = StillOpen(SubSeq(@, 1, Len(@) - 1))]
LOCAL Read(r) ==
  IF r.at > Len(r.text) THEN r
  ELSE IF r.text[r.at] = ")" THEN ReadEnd(r) ELSE ReadNode(r)

\* The reader's state is the one element of a set, which TLC computes once.
LOCAL Parsed(text) ==
  LET after[k \in 0 .. Len(text)] ==
        IF k = 0 THEN {[text |-> text, at |-> 1, nodes |-> <<>>, open |-> <<>>]}
        ELSE {Read(r) : r \in after[k-1]}
  IN  after[Len(text)]

LOCAL Numbered(nodes) ==
  LET below(n, isField) ==
        SelectSeq([m \in DOMAIN nodes |-> m],
                  LAMBDA m : /\ nodes[m].parent = n
                             /\ isField = (nodes[m].kind \in Uncounted))
      isLast(n, m) ==
        /\ \A k \in n + 1 .. m : nodes[k].parent >= n
        /\ m < Len(nodes) => nodes[m + 1].parent < n
  IN  [n \in DOMAIN nodes |->
         [kind |-> nodes[n].kind, id |-> nodes[n].id, type |-> nodes[n].type,
          form |-> nodes[n].form, binder |-> nodes[n].binder,
          kids |-> below(n, FALSE), params |-> below(n, TRUE),
          last |-> CHOOSE m \in n .. Len(nodes) : isLast(n, m)]]

\* The program of a text, as module Syntax wants it.
Program(text) == CHOOSE p \in {Numbered(r.nodes) : r \in Parsed(text)} : TRUE
=============================================================================
