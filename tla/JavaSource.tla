----------------------------- MODULE JavaSource -----------------------------
(***************************************************************************)
(* java::Compile of java_source.cc, called on a tree after its symbol      *)
(* table has been built.                                                   *)
(*                                                                         *)
(* A Tiger scope is an object of a Java class of its own, with a link to   *)
(* the object of the scope around it; a function becomes a static method   *)
(* whose first argument is the object of the scope it is declared in.      *)
(* Compiler is a recursive visitor, and makes another Compiler for a Let,  *)
(* a function and the left side of an assignment: frames is the C++ call   *)
(* stack, compilers holds the Compilers in use, outs the streams they      *)
(* write to.                                                               *)
(*                                                                         *)
(* A stream is a sequence of items, one for each piece of text that opens  *)
(* or closes a block, declares a Java variable, mentions one, or fills an  *)
(* array; each names the node it is printed for.  Operators, literals, the *)
(* names of Java types and layout are left out; that the search for a Java *)
(* type may not return is not, and then the process is lost.               *)
(***************************************************************************)
EXTENDS Lookups, FiniteSets

CONSTANT Programs             \* the trees Compile may be called on

ASSUME ProgramsAssumption == \A p \in Programs : IsProgram(p) /\ IsTyped(p)
ASSUME NamesAssumption == {"int", "string", "NOTYPE"} \subseteq Identifiers

VARIABLES scope_by_let, scope_by_function, current, stack, status,
                              \* module SymbolTable
          head,               \* the classes of scopes
          outs,               \* streams being written, the innermost last
          post_body,          \* what follows the method main
          compilers,          \* Compilers in use, the innermost last
          frames,             \* the call stack
          phase               \* "table", "classes", "code" or "compiled"

tables == <<prog, scopes, scope_by_expr, scope_by_let, scope_by_function,
            current, stack, status>>
vars   == <<tables, head, outs, post_body, compilers, frames, phase>>

St == INSTANCE SymbolTable
Inf == INSTANCE Inference     \* the type finder, asked

-----------------------------------------------------------------------------
(* Java types.  The type finder's stack is taken to be big enough but for  *)
(* a call that asks for its own answer.                                    *)

BuiltinTypes == {"", "NOTYPE", "void", "int", "string"}

\* Fault: the type of a record's fields is spelt out, too.
JavaTypeEndsThroughRecords(e, x) ==
  LET ends[k \in 0 .. Len(prog), y \in Identifiers] ==
        /\ k > 0
        /\ \/ y \in BuiltinTypes
           \/ \E d \in Inf!UnaliasedType(e, y) :
                CASE d = Null -> TRUE
                  [] d # Null /\ prog[d].form = "array" -> ends[k-1, prog[d].type]
                  [] OTHER -> \A m \in ParamsOf(prog, d) : ends[k-1, prog[m].type]
  IN  ends[Len(prog), x]

\* GetJavaType returns for type x, looked up from e: it goes on to the type of
\* an array's elements, and when it has met as many types as there are nodes
\* it has met one twice.
JavaTypeEnds(e, x) ==
  LET ends[k \in 0 .. Len(prog), y \in Identifiers] ==
        /\ k > 0
        /\ \/ y \in BuiltinTypes
           \/ \E d \in Inf!UnaliasedType(e, y) :
                d # Null /\ prog[d].form = "array" => ends[k-1, prog[d].type]
  IN  ends[Len(prog), x]

\* ... and for the type of e.
InferredTypeEnds(e) == \E x \in Inf!Answer(e) : JavaTypeEnds(e, x)

\* ... and for the types of parameters or fields.
ParamTypesEnd(e, n) ==
  \A m \in ParamsOf(prog, n) : JavaTypeEnds(e, prog[m].type)

-----------------------------------------------------------------------------
(* ScopesPrinter.                                                          *)

Opener(n) == Kind(n) \in {"Let", "FunctionDeclaration"}
ScopeOf(n) == IF Kind(n) = "Let" THEN scope_by_let[n] ELSE scope_by_function[n]

\* Fault: only a Let's variables are fields.
FieldsOfLet(n) ==
  {prog[m].id : m \in {Kid(n, j) : j \in {i \in DOMAIN prog[n].kids :
                          Kind(Kid(n, i)) = "VariableDeclaration"}}}

\* The variables of a Let and the parameters of a function are fields.
Fields(n) ==
  {prog[m].id : m \in
     IF Kind(n) = "Let"
     THEN {Kid(n, j) : j \in {i \in DOMAIN prog[n].kids :
                                Kind(Kid(n, i)) = "VariableDeclaration"}}
     ELSE {prog[n].params[j] : j \in DOMAIN prog[n].params}}

Class(n) ==
  [scope |-> ScopeOf(n), parent |-> scopes[ScopeOf(n)].parent, fields |-> Fields(n)]

\* The innermost expression around a declaration (expr_stack.back()).
LetAround(n) == CHOOSE l \in Exprs : \E j \in DOMAIN prog[l].kids : Kid(l, j) = n

\* A variable's type is looked up from its initial value, a parameter's from
\* outside the function.
FieldTypesEnd(n) ==
  IF Kind(n) = "Let"
  THEN \A v \in {Kid(n, j) : j \in DOMAIN prog[n].kids} :
         Kind(v) = "VariableDeclaration" =>
           IF prog[v].type # NoType THEN JavaTypeEnds(Kid(v, 1), prog[v].type)
           ELSE InferredTypeEnds(Kid(v, 1))
  ELSE ParamTypesEnd(LetAround(n), n)

Unprinted == {n \in Nodes : Opener(n) /\ \A i \in DOMAIN head : head[i].scope # ScopeOf(n)}

\* The visitor comes to the nodes in the order of their numbers.
NextClass(n) ==
  /\ phase = "classes"
  /\ n \in Unprinted
  /\ \A m \in Unprinted : n <= m

PrintClass(n) ==
  /\ NextClass(n)
  /\ FieldTypesEnd(n)
  /\ head' = Append(head, Class(n))
  /\ UNCHANGED <<tables, outs, post_body, compilers, frames, phase>>

-----------------------------------------------------------------------------
(* Items.                                                                  *)

\* open, close     of a block
\* param, object   declare the variable _scope<scope>
\* link            _scope<scope>.parent = _scope<arg>
\* for             opens a block with the loop's variable
\* field, call     mention _scope<scope>, with arg times .parent
\* local, call     mention a plain name (scope is NoScope)
\* fill            Arrays.fill of what follows
Item(item, n, scope, arg) == [item |-> item, node |-> n, scope |-> scope, arg |-> arg]
Plain(item, n) == Item(item, n, NoScope, 0)

Object(n, scope) == Item("object", n, scope, 0)
Link(n, scope, to) == Item("link", n, scope, to)

\* Compiler: current_lvalue is a text, local_scope, req_scope and
\* current_expr as in the code.
Compiler(local, req, expr) ==
  [local |-> local, req |-> req, lvalue |-> <<>>, expr |-> expr]

C == compilers[Len(compilers)]
Top == frames[Len(frames)]
LocalScope == C.local
ReqScope == C.req

\* The scopes from s up to before the one the method was handed.
Locals(s) ==
  LET upFrom[t \in 0 .. Len(scopes)] ==
        IF t = NoScope \/ t = ReqScope THEN {} ELSE {t} \cup upFrom[scopes[t].parent]
  IN  upFrom[s]

\* Parent links from scope s to target.
Hops(s, target) ==
  LET upFrom[t \in 0 .. Len(scopes)] ==
        IF t = NoScope \/ t = target THEN 0 ELSE 1 + upFrom[scopes[t].parent]
  IN  upFrom[s]

\* Fault: the search for a local object goes on into the scope handed over.
ScopePathPastMethod(item, n, target) ==
  IF ReqScope = NoScope \/ target \in Locals(LocalScope) \cup {scopes[ReqScope].parent}
  THEN Item(item, n, target, 0)
  ELSE Item(item, n, ReqScope, Hops(ReqScope, target))

\* GetScopePath, with the name that follows.
ScopePath(item, n, target) ==
  IF target \in Locals(LocalScope) \/ ReqScope = NoScope
  THEN Item(item, n, target, 0)
  ELSE Item(item, n, ReqScope, Hops(ReqScope, target))

\* operator()(const Identifier&).
Mention(n) ==
  LET location == lookupStorageLocation(C.expr, prog[n].id) IN
  IF location # Null /\ Kind(location) # "For"
  THEN ScopePath("field", n, getDefiningScope(C.expr, prog[n].id))
  ELSE Plain("local", n)

FnScope(f) == scope_by_expr[Kid(f, 1)]

\* operator()(const FunctionCall&): a declared function is handed the object
\* of the scope it is declared in.
Call(n) ==
  LET f == lookupFunction(n, prog[n].id) IN
  IF f # Null THEN ScopePath("call", n, scopes[FnScope(f)].parent)
  ELSE Plain("call", n)

-----------------------------------------------------------------------------
(* Compiler.                                                               *)

\* The scope of the first expression of a Let's body, if there is one.
BodyScope(n) ==
  LET body == {j \in DOMAIN prog[n].kids : IsExpr(Kid(n, j))} IN
  IF body = {} THEN NoScope
  ELSE scope_by_expr[Kid(n, CHOOSE j \in body : \A i \in body : j <= i)]
HasBody(n) == BodyScope(n) # NoScope

\* The parts of node n that are compiled: no field of a record literal, an
\* array's value to fill it with when there is an l-value to fill, nothing
\* of a Let without a body.
Parts(n) ==
  IF Kind(n) = "RecordLiteral" \/ (Kind(n) = "Let" /\ ~ HasBody(n)) THEN <<>>
  ELSE IF Kind(n) = "ArrayLiteral" /\ C.lvalue = <<>> THEN <<Kid(n, 1)>>
  ELSE prog[n].kids

\* The call stack: a frame per node, and java::Compile's own, Main, below.
Main == Null
Frame(n, kind, inline, expr) ==
  [node |-> n, kind |-> kind, next |-> 1, inline |-> inline, saved |-> expr]
PartsOfTop == IF Top.kind = "main" THEN <<1>> ELSE Parts(Top.node)
HasNext == Top.next \in DOMAIN PartsOfTop
Reached(n) ==
  /\ phase = "code"
  /\ HasNext
  /\ n = PartsOfTop[Top.next]

\* Text before the next part of the node at the top.
Statement == Top.kind = "IfThenElse" /\ ~ Top.inline
Separator ==
  LET open == Plain("open", Top.node) IN
  CASE Top.next = 2 /\ (Top.kind \in {"IfThen", "While"} \/ Statement) -> <<open>>
    [] Top.next = 3 /\ Statement -> <<Plain("close", Top.node), open>>
    [] Top.next = 2 /\ Top.kind = "ArrayLiteral" -> <<Plain("fill", Top.node)>> \o C.lvalue
    [] OTHER -> <<>>

\* ... and after its last.
Ending ==
  IF \/ Top.kind \in {"IfThen", "While", "For"} \/ Statement
     \/ Top.kind = "Let" /\ HasBody(Top.node)
  THEN <<Plain("close", Top.node)>> ELSE <<>>

Write(text) == outs' = [outs EXCEPT ![Len(outs)] = @ \o text]

\* Compile(const Expr&) saves current_expr; other nodes leave it as it is.
\* inline: an if-then-else that becomes a conditional expression.
Push(n, inline) ==
  /\ frames' = Append([frames EXCEPT ![Len(frames)].next = @ + 1],
                      Frame(n, Kind(n), inline, C.expr))
  /\ UNCHANGED <<tables, head, post_body, phase>>
Entered(n) ==
  [compilers EXCEPT ![Len(compilers)].expr = IF IsExpr(n) THEN n ELSE @]

Pop ==
  /\ frames' = SubSeq(frames, 1, Len(frames) - 1)
  /\ UNCHANGED <<tables, head, phase>>
Restored(cs) == [cs EXCEPT ![Len(cs)].expr = Top.saved]
Outer(s) == SubSeq(s, 1, Len(s) - 1)

\* The items a node starts with.
Beginning(n) ==
  CASE Kind(n) = "Identifier" -> <<Mention(n)>>
    [] Kind(n) = "FunctionCall" -> <<Call(n)>>
    [] Kind(n) = "For" -> <<Plain("for", n)>>
    [] OTHER -> <<>>

\* What the handlers ask about types, before anything else, returns.
TypesEnd(n) ==
  CASE Kind(n) = "IfThenElse" -> Inf!Answer(Kid(n, 2)) # {}
    [] Kind(n) = "ArrayLiteral" -> InferredTypeEnds(Kid(n, 2))
    [] Kind(n) = "FunctionDeclaration" ->
         /\ prog[n].type # NoType => JavaTypeEnds(C.expr, prog[n].type)
         /\ ParamTypesEnd(C.expr, n)
    [] Kind(n) = "TypeDeclaration" -> ParamTypesEnd(C.expr, n)
    [] OTHER -> TRUE

\* The type finder has a type for the first branch of an if-then-else.
IsConditional(n) ==
  /\ Kind(n) = "IfThenElse"
  /\ \E x \in Inf!Answer(Kid(n, 2)) : x \notin {"", "void", "Object", "NOTYPE"}

\* Nodes whose handlers make no Compiler.
EnterOther(n) ==
  /\ Reached(n)
  /\ Kind(n) \notin {"Let", "Assignment"} \cup DeclarationKinds
  /\ TypesEnd(n)
  /\ Push(n, IsConditional(n))
  /\ compilers' = Entered(n)
  /\ Write(Separator \o Beginning(n))

\* Fault: the new object is linked to the one the method was handed.
EnterLetLinked(n) ==
  /\ Reached(n)
  /\ Kind(n) = "Let"
  /\ Push(n, FALSE)
  /\ IF ~ HasBody(n)
     THEN compilers' = Entered(n) /\ Write(Separator)
     ELSE LET s == BodyScope(n) IN
          /\ compilers' = Append(Entered(n), Compiler(s, ReqScope, n))
          /\ Write(Separator \o
                   <<Plain("open", n), Object(n, s),
                     Link(n, s, IF ReqScope = NoScope THEN LocalScope ELSE ReqScope)>>)

EnterLet(n) ==
  /\ Reached(n)
  /\ Kind(n) = "Let"
  /\ Push(n, FALSE)
  /\ IF ~ HasBody(n)
     THEN compilers' = Entered(n) /\ Write(Separator)
     ELSE LET s == BodyScope(n) IN
          /\ compilers' = Append(Entered(n), Compiler(s, ReqScope, n))
          /\ Write(Separator \o
                   <<Plain("open", n), Object(n, s), Link(n, s, LocalScope)>>)

\* Fault: the new method is handed what the one around it was handed.
EnterFunctionOfCaller(n) ==
  /\ Reached(n)
  /\ Kind(n) = "FunctionDeclaration"
  /\ TypesEnd(n)
  /\ Push(n, FALSE)
  /\ LET s == FnScope(n) req == IF ReqScope = NoScope THEN LocalScope ELSE ReqScope IN
     /\ compilers' = Append(compilers, Compiler(s, req, C.expr))
     /\ outs' = Append(outs, <<Item("param", n, req, 0), Object(n, s), Link(n, s, req)>>)

EnterFunction(n) ==
  /\ Reached(n)
  /\ Kind(n) = "FunctionDeclaration"
  /\ TypesEnd(n)
  /\ Push(n, FALSE)
  /\ LET s == FnScope(n) req == scopes[s].parent IN
     /\ compilers' = Append(compilers, Compiler(s, req, C.expr))
     /\ outs' = Append(outs, <<Item("param", n, req, 0), Object(n, s), Link(n, s, req)>>)

EnterVariable(n) ==
  /\ Reached(n)
  /\ Kind(n) = "VariableDeclaration"
  /\ Push(n, FALSE)
  /\ LET lval == <<Item("field", n, LocalScope, 0)>> IN
     /\ Write(lval)
     /\ compilers' = [compilers EXCEPT ![Len(compilers)].lvalue = lval]

\* A record becomes a class.
EnterType(n) ==
  /\ Reached(n)
  /\ Kind(n) = "TypeDeclaration"
  /\ TypesEnd(n)
  /\ frames' = [frames EXCEPT ![Len(frames)].next = @ + 1]
  /\ post_body' = IF prog[n].form = "record"
                  THEN Append(post_body, [node |-> n, text |-> <<>>]) ELSE post_body
  /\ UNCHANGED <<tables, head, outs, compilers, phase>>

\* Fault: local_scope and req_scope change places in Compiler's initializer.
EnterAssignmentSwapped(n) ==
  /\ Reached(n)
  /\ Kind(n) = "Assignment"
  /\ Push(n, FALSE)
  /\ compilers' = Append(Entered(n), Compiler(ReqScope, LocalScope, n))
  /\ outs' = Append([outs EXCEPT ![Len(outs)] = @ \o Separator], <<>>)

\* The left side is compiled first, to a stream of its own.
EnterAssignment(n) ==
  /\ Reached(n)
  /\ Kind(n) = "Assignment"
  /\ Push(n, FALSE)
  /\ compilers' = Append(Entered(n), Compiler(LocalScope, ReqScope, n))
  /\ outs' = Append([outs EXCEPT ![Len(outs)] = @ \o Separator], <<>>)

-----------------------------------------------------------------------------
(* Returns.                                                                *)

Finished(kinds) ==
  phase = "code" /\ ~ HasNext /\ Top.kind \in kinds
IsLeftSide ==
  LET caller == frames[Len(frames) - 1] IN
  caller.kind = "Assignment" /\ caller.next = 2

\* The left side is done: its text is the l-value of what follows.
LeaveLeftSide ==
  /\ Finished(LValueKinds)
  /\ IsLeftSide
  /\ Pop
  /\ LET text == outs[Len(outs)] n == Len(outs) - 1 IN
     /\ outs' = [Outer(outs) EXCEPT ![n] = @ \o text]
     /\ compilers' = [Outer(compilers) EXCEPT ![Len(compilers) - 1].lvalue = text]
  /\ UNCHANGED post_body

\* Fault: current_lvalue is not cleared.
LeaveAssignmentUncleared ==
  /\ Finished({"Assignment"})
  /\ Pop
  /\ compilers' = Restored(compilers)
  /\ UNCHANGED <<outs, post_body>>

LeaveAssignment ==
  /\ Finished({"Assignment"})
  /\ Pop
  /\ compilers' = [Restored(compilers) EXCEPT ![Len(compilers)].lvalue = <<>>]
  /\ UNCHANGED <<outs, post_body>>

LeaveVariable ==
  /\ Finished({"VariableDeclaration"})
  /\ Pop
  /\ compilers' = [compilers EXCEPT ![Len(compilers)].lvalue = <<>>]
  /\ UNCHANGED <<outs, post_body>>

\* Fault: the method is not appended to the text after main.
LeaveFunctionDropping ==
  /\ Finished({"FunctionDeclaration"})
  /\ Pop
  /\ post_body' = IF Len(outs) > 2 THEN post_body
                  ELSE Append(post_body, [node |-> Top.node, text |-> outs[Len(outs)]])
  /\ outs' = Outer(outs)
  /\ compilers' = Outer(compilers)

LeaveFunction ==
  /\ Finished({"FunctionDeclaration"})
  /\ Pop
  /\ post_body' = Append(post_body, [node |-> Top.node, text |-> outs[Len(outs)]])
  /\ outs' = Outer(outs)
  /\ compilers' = Outer(compilers)

\* Fault: the Compiler made for the Let stays in use after it.
LeaveLetKeeping ==
  /\ Finished({"Let"})
  /\ Pop
  /\ Write(Ending)
  /\ compilers' = Restored(compilers)
  /\ UNCHANGED post_body

LeaveLet ==
  /\ Finished({"Let"})
  /\ Pop
  /\ Write(Ending)
  /\ compilers' = Restored(IF HasBody(Top.node) THEN Outer(compilers) ELSE compilers)
  /\ UNCHANGED post_body

LeaveOther ==
  /\ Finished(NodeKinds \ ({"Let", "Assignment"} \cup DeclarationKinds))
  /\ ~ IsLeftSide
  /\ Pop
  /\ Write(Ending)
  /\ compilers' = Restored(compilers)
  /\ UNCHANGED post_body

Enter(n) ==
  \/ EnterOther(n) \/ EnterLet(n) \/ EnterFunction(n) \/ EnterVariable(n)
  \/ EnterType(n) \/ EnterAssignment(n)
Leave ==
  \/ LeaveLeftSide \/ LeaveAssignment \/ LeaveVariable \/ LeaveFunction
  \/ LeaveLet \/ LeaveOther

-----------------------------------------------------------------------------
(* java::Compile.                                                          *)

Build == St!BuildStep /\ UNCHANGED <<head, outs, post_body, compilers, frames, phase>>

PrintClasses ==
  /\ phase = "table"
  /\ St!Built
  /\ phase' = "classes"
  /\ UNCHANGED <<tables, head, outs, post_body, compilers, frames>>

\* main makes the object of the first scope.
StartCode ==
  /\ phase = "classes"
  /\ Unprinted = {}
  /\ phase' = "code"
  /\ outs' = <<<<Object(Main, 1)>>>>
  /\ compilers' = <<Compiler(1, NoScope, Null)>>
  /\ frames' = <<Frame(Main, "main", FALSE, Null)>>
  /\ UNCHANGED <<tables, head, post_body>>

EndMain ==
  /\ Finished({"main"})
  /\ phase' = "compiled"
  /\ UNCHANGED <<tables, head, outs, post_body, compilers, frames>>

CompileStep ==
  \/ PrintClasses \/ StartCode \/ Leave \/ EndMain
  \/ \E n \in Nodes : PrintClass(n) \/ Enter(n)

\* The process hangs in a call that asks for types, or has run out of stack.
Lost ==
  \/ \E n \in Nodes : NextClass(n) /\ ~ FieldTypesEnd(n)
  \/ \E n \in Nodes : Reached(n) /\ ~ TypesEnd(n)
Stop == (phase = "compiled" \/ Lost) /\ UNCHANGED vars

Init ==
  /\ St!Init
  /\ head = <<>> /\ outs = <<>> /\ post_body = <<>>
  /\ compilers = <<>> /\ frames = <<>>
  /\ phase = "table"

Next == Build \/ CompileStep \/ Stop
Spec == Init /\ [][Next]_vars /\ WF_vars(Build \/ CompileStep)

-----------------------------------------------------------------------------
(* Properties.                                                             *)

Binder(n) == prog[n].binder
ScopeOpenedBy(b) ==
  IF b = 0 THEN 1
  ELSE IF Kind(b) = "Let" THEN scope_by_let[b] ELSE scope_by_function[b]
Compiled == phase = "compiled"

\* Streams hold items, frames nodes, Compilers and classes the numbers of
\* scopes.
ScopeNumbers == 0 .. Len(scopes)
ItemKinds == {"open", "close", "param", "object", "link", "for", "field", "call",
              "local", "fill"}
Text == Seq([item : ItemKinds, node : Nodes \cup {Main}, scope : ScopeNumbers,
             arg : ScopeNumbers])
TypeOK ==
  /\ head \in Seq([scope : DOMAIN scopes, parent : DOMAIN scopes,
                   fields : SUBSET Identifiers])
  /\ outs \in Seq(Text)
  /\ post_body \in Seq([node : Nodes, text : Text])
  /\ compilers \in Seq([local : DOMAIN scopes, req : ScopeNumbers, lvalue : Text,
                        expr : Nodes \cup {Null}])
  /\ frames \in Seq([node : Nodes \cup {Main}, kind : NodeKinds \cup {"main"},
                     next : Nat \ {0}, inline : BOOLEAN, saved : Nodes \cup {Null}])
  /\ phase \in {"table", "classes", "code", "compiled"}

\* The finished texts: main's and those of the methods after it.
Texts == {outs[1]} \cup {post_body[k].text : k \in DOMAIN post_body}

Depth(t, i) ==
  Cardinality({k \in 1 .. i : t[k].item \in {"open", "for"}})
    - Cardinality({k \in 1 .. i : t[k].item = "close"})
Visible(t, j, i) == j < i /\ \A k \in j .. i - 1 : Depth(t, k) >= Depth(t, j)

\* Java's rule: the variable _scope<s> is declared before item i, in a block
\* that is still open there.
InSight(t, i, s) ==
  \E j \in DOMAIN t :
    t[j].item \in {"object", "param"} /\ t[j].scope = s /\ Visible(t, j, i)

\* The scope whose object a path leads to.
Reach(item) ==
  LET up[k \in 0 .. item.arg] ==
        IF k = 0 THEN item.scope ELSE scopes[up[k - 1]].parent
  IN  up[item.arg]

\* The declaration a name or a call means by the rule of the language.
Meant(n) ==
  IF Kind(n) = "VariableDeclaration" THEN n
  ELSE IF Kind(n) = "FunctionCall"
  THEN St!Innermost(n, LAMBDA b : St!FunctionsOf(b, prog[n].id))
  ELSE St!Innermost(n, LAMBDA b : St!StorageOf(b, prog[n].id))
Home(n) == ScopeOpenedBy(Binder(Meant(n)))

\* A name printed for a variable, and the place handed to a function, start at
\* an object in sight and follow the links to the scope the name or the
\* function is declared in (GetScopePath).  Only a loop's variable and what is
\* not declared are printed plainly.
PathsReach ==
  Compiled =>
    \A t \in Texts : \A i \in DOMAIN t :
      t[i].item \in {"field", "call", "local"} =>
        IF t[i].scope # NoScope
        THEN InSight(t, i, t[i].scope) /\ Reach(t[i]) = Home(t[i].node)
        ELSE Meant(t[i].node) = Null \/ Kind(Meant(t[i].node)) = "For"

\* Every object but main's is linked, before anything else is printed, to the
\* object of the scope around its own, which is in sight (the .parent lines of
\* the handlers for Let and FunctionDeclaration).
ObjectsLinked ==
  Compiled =>
    \A t \in Texts : \A i \in DOMAIN t :
      (t[i].item = "object" /\ t[i].node # Main) =>
        LET around == ScopeOpenedBy(Binder(t[i].node)) IN
        /\ i < Len(t)
        /\ t[i + 1] = Link(t[i].node, t[i].scope, around)
        /\ InSight(t, i, around)

\* Methods are found by their name and the class of their first parameter: a
\* call of a declared function meets the methods of its own Let, and those
\* alone, whatever functions of that name the program has elsewhere.
CallsFindMethods ==
  LET methods(x, s) ==
        {post_body[k].node : k \in {j \in DOMAIN post_body :
           LET m == post_body[j] IN
           /\ Kind(m.node) = "FunctionDeclaration" /\ prog[m.node].id = x
           /\ m.text[1] = Item("param", m.node, s, 0)}}
  IN  Compiled =>
        \A t \in Texts : \A i \in DOMAIN t :
          (t[i].item = "call" /\ t[i].scope # NoScope) =>
            LET n == t[i].node IN
            methods(prog[n].id, Reach(t[i])) =
              St!FunctionsOf(Binder(Meant(n)), prog[n].id)

\* Nothing is lost and nothing is printed twice, whatever method or stream a
\* piece of the program ends up in.  Left out are the fields of record
\* literals, Lets without a body and the value of an array that is not filled;
\* the left side of an assignment comes again when an array is filled.
Within(n, m) == n \in m .. prog[m].last
Dropped(n) ==
  \E m \in Nodes :
    /\ Within(n, m)
    /\ \/ Kind(m) = "RecordLiteral"
       \/ Kind(m) = "Let" /\ ~ HasBody(m)
       \/ /\ Kind(m) = "ArrayLiteral"
          /\ Within(n, Kid(m, 2))
          /\ \A t \in Texts : \A i \in DOMAIN t : t[i] # Plain("fill", m)
OnLeftSide(n) == \E m \in Nodes : Kind(m) = "Assignment" /\ Within(n, Kid(m, 1))
PrintedOnce ==
  Compiled =>
    \A n \in Nodes :
      Kind(n) \in {"Identifier", "FunctionCall"} =>
        LET places == UNION {{t} \X {i \in DOMAIN t : t[i].node = n} : t \in Texts}
        IN  IF Dropped(n) THEN places = {}
            ELSE /\ places # {}
                 /\ OnLeftSide(n) \/ Cardinality(places) = 1

\* An array is filled through the left side of the innermost assignment or
\* declaration around it in its Let or function, and no other: current_lvalue
\* is never a text of before.
FillsItsVariable ==
  Compiled =>
    \A t \in Texts : \A i \in DOMAIN t :
      t[i].item = "fill" =>
        LET n == t[i].node
            around == {m \in Nodes : /\ Kind(m) \in {"Assignment", "VariableDeclaration"}
                                     /\ Within(n, m) /\ Binder(m) = Binder(n)}
            m == CHOOSE m \in around : \A k \in around : k <= m
        IN  /\ around # {}
            /\ IF Kind(m) = "Assignment" THEN Within(t[i + 1].node, Kid(m, 1))
               ELSE t[i + 1].node = m

\* The classes suit the code: the one of the scope a path leads to, and no
\* other of that scope, has the field that is named, and the field parent of
\* an object has the class of the object it is linked to.
ClassesSuitCode ==
  LET classes(s) == {head[i] : i \in {j \in DOMAIN head : head[j].scope = s}} IN
  Compiled =>
    \A t \in Texts : \A i \in DOMAIN t :
      /\ t[i].item = "field" =>
           /\ Cardinality(classes(Reach(t[i]))) = 1
           /\ \A c \in classes(Reach(t[i])) : prog[t[i].node].id \in c.fields
      /\ t[i].item = "link" =>
           {c.parent : c \in classes(t[i].scope)} = {t[i].arg}

\* Whatever Lets, functions and assignments are open, the Compiler in use has
\* the scope of the innermost Let or function (a Let without a body counts for
\* nothing), and the scope its method was handed is the one around the
\* innermost function.
Opened(kinds) ==
  {0} \cup {n \in {frames[k].node : k \in DOMAIN frames} \ {Main} :
              Kind(n) \in kinds /\ (Kind(n) = "Let" => HasBody(n))}
InnermostOf(S) == CHOOSE n \in S : \A m \in S : m <= n
CompilersFollowScopes ==
  phase = "code" =>
    LET f == InnermostOf(Opened({"FunctionDeclaration"}))
        b == InnermostOf(Opened({"FunctionDeclaration", "Let"}))
    IN  /\ ReqScope = IF f = 0 THEN NoScope ELSE ScopeOpenedBy(Binder(f))
        /\ LocalScope = ScopeOpenedBy(b)

\* What is printed as a plain name is, in Java, the variable of a block around
\* it.  design.md:46 has variables accessed by inner functions hoisted into
\* objects; a loop's variable is not, and no method but its own sees it.
LoopVariablesHoisted ==
  Compiled =>
    \A t \in Texts : \A i \in DOMAIN t :
      (t[i].item = "local" /\ Meant(t[i].node) # Null) =>
        \E j \in DOMAIN t : t[j].node = Meant(t[i].node) /\ Visible(t, j, i)

\* No expression's type comes from itself, and no aliases and arrays are
\* declared by each other alone, wherever their names are looked up from.
InCircle(S) ==
  \E e \in Exprs : \A d \in S : lookupType(e, prog[d].type) \in S
Unwinds ==
  /\ \A e \in Exprs : ~ Inf!Endless(e)
  /\ \A S \in SUBSET {d \in Nodes : Kind(d) = "TypeDeclaration"
                                     /\ prog[d].form # "record"} :
       S # {} => ~ InCircle(S)

\* Compile returns, for every program that unwinds: records that lead back to
\* themselves do no harm to GetJavaType (java_source.cc:30), which no checker
\* has gone before.
Called == IF phase = "classes" /\ head = <<>> THEN Unwinds ELSE FALSE
CompileReturns == Called ~> Compiled
=============================================================================
