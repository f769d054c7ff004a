--------------------------- MODULE Scanner_proofs ---------------------------
(***************************************************************************)
(* Proofs about module Scanner, for every set of files and every number of *)
(* calls of parse.                                                         *)
(***************************************************************************)
EXTENDS Scanner, TLAPS

\* Together the three invariants are inductive: depth is a number because a
\* comment's end is only looked for in a comment, and what an unterminated
\* comment leaves behind is a start condition of the two there are.
Inv == TypeOK /\ DepthTellsCondition /\ LeftoversExplained

-----------------------------------------------------------------------------
(* Operators.                                                              *)

LEMMA LocationTyping ==
  ASSUME NEW l \in Location, NEW n \in Nat
  PROVE  /\ columns(l, n) \in Location
         /\ lines(l, n) \in Location
         /\ step(l) \in Location
         /\ columns(l, n).begin.line \in Nat
BY DEF Location, columns, lines, step, Position

LEMMA MatchTyping ==
  ASSUME TypeOK, NEW n \in 1 .. Len(chars), Match(n)
  PROVE  /\ {file, unread, chars}' \subseteq Seq(Characters)
         /\ eof_pending' \in BOOLEAN /\ clean' \in BOOLEAN /\ parses' \in 0 .. MaxParses
<1>1. chars \in Seq(Characters) /\ chars' = SubSeq(chars, n + 1, Len(chars))
  BY DEF TypeOK, Match
<1>2. chars' \in Seq(Characters)
  BY <1>1
<1> QED BY <1>2 DEF TypeOK, Match, call

\* What the parser is handed, and that parse returns 1 when it returns.
LEMMA DeliverTyping ==
  ASSUME TypeOK, phase = "scanning",
         NEW kind \in Operators \cup Operands, NEW n \in Nat, NEW reported \in SUBSET Messages,
         Deliver(kind, n, reported)
  PROVE  /\ loc' \in Location
         /\ expects' \in {"operand", "operator"}
         /\ tokens' \in Seq(Token)
         /\ errors' \subseteq Messages
         /\ res' \in {0, 1}
         /\ phase' \in {"idle", "scanning"}
         /\ phase' = "idle" => res' = 1
<1>1. loc \in Location /\ tokens \in Seq(Token) /\ errors \subseteq Messages
  BY DEF TypeOK
<1>2. [kind |-> kind, line |-> columns(loc, n).begin.line] \in Token
  BY <1>1, LocationTyping DEF Token
<1>3. tokens' \in Seq(Token)
  <2>1. tokens' = Append(tokens, [kind |-> kind, line |-> columns(loc, n).begin.line])
    BY DEF Deliver
  <2> QED BY <1>1, <1>2, <2>1
<1>4. columns(loc, n) \in Location
  BY <1>1, LocationTyping
<1>5. loc' \in Location
  BY <1>4, LocationTyping DEF Deliver
<1>6. "syntax error" \in Messages
  BY DEF Messages
<1> QED BY <1>1, <1>3, <1>5, <1>6 DEF Deliver, Return, TypeOK

-----------------------------------------------------------------------------
(* The steps.                                                              *)

LEMMA InitInv == Init => Inv
<1> SUFFICES ASSUME Init PROVE Inv
  OBVIOUS
<1>1. Origin \in Location
  BY DEF Origin, Position, Location
<1>2. <<>> \in Seq(Characters) /\ <<>> \in Seq(Token)
  OBVIOUS
<1>3. 0 \in 0 .. MaxParses
  BY BoundAssumption
<1>4. TypeOK
  BY <1>1, <1>2, <1>3 DEF Init, TypeOK
<1>5. DepthTellsCondition /\ LeftoversExplained
  BY DEF Init, DepthTellsCondition, LeftoversExplained, Fresh
<1> QED BY <1>4, <1>5 DEF Inv

\* flex's own steps: none of them touches the comment's state.
LEMMA BufferStep ==
  ASSUME Inv, Refill \/ EndOfFile PROVE Inv'
<1>1. TypeOK /\ DepthTellsCondition
  BY DEF Inv
<1>2. CASE Refill
  <2>1. {file, unread, chars}' \subseteq Seq(Characters)
    <3>1. chars \in Seq(Characters) /\ unread \in Seq(Characters) /\ file \in Seq(Characters)
      BY <1>1 DEF TypeOK
    <3>2. chars \o unread \in Seq(Characters) /\ <<>> \in Seq(Characters)
      BY <3>1
    <3> QED BY <1>2, <3>1, <3>2 DEF Refill, call
  <2>2. TypeOK'
    BY <1>1, <1>2, <2>1 DEF Refill, TypeOK, parser, call
  <2> QED BY <1>1, <1>2, <2>2
          DEF Inv, Refill, DepthTellsCondition, LeftoversExplained, parser
<1>3. CASE EndOfFile
  <2>1. {file, unread, chars}' \subseteq Seq(Characters)
    <3>1. <<>> \in Seq(Characters)
      OBVIOUS
    <3> QED BY <1>1, <1>3, <3>1 DEF EndOfFile, TypeOK, call
  <2>2. errors' \subseteq Messages
    BY <1>1, <1>3 DEF EndOfFile, TypeOK, Messages
  <2>3. TypeOK'
    BY <1>1, <1>3, <2>1, <2>2 DEF EndOfFile, Return, TypeOK, call
  <2>4. DepthTellsCondition'
    BY <1>1, <1>3 DEF EndOfFile, DepthTellsCondition
  <2>5. start = "INITIAL" => Fresh'
    BY <1>3 DEF EndOfFile, AtEof, Fresh
  <2>6. start = "C_COMMENT" => "unterminated comment" \in errors'
    BY <1>3 DEF EndOfFile
  <2> QED BY <1>1, <2>3, <2>4, <2>5, <2>6 DEF Inv, LeftoversExplained, TypeOK
<1> QED BY <1>2, <1>3

\* The patterns outside comments.
LEMMA InitialStep ==
  ASSUME Inv, Blank \/ Newline \/ Invalid \/ Number \/ String \/ Operator \/ BeginComment
  PROVE  Inv'
<1>1. TypeOK /\ DepthTellsCondition
  BY DEF Inv
<1>2. loc \in Location /\ chars \in Seq(Characters) /\ Len(chars) \in Nat
      /\ (chars # <<>> => 1 \in 1 .. Len(chars))
  BY <1>1 DEF TypeOK
<1>3. CASE Blank \/ Newline \/ Invalid
  <2>1. phase = "scanning" /\ Match(1) /\ 1 \in 1 .. Len(chars)
    BY <1>2, <1>3 DEF Blank, Newline, Invalid, Starts, Scanning
  <2>2. columns(loc, 1) \in Location
    BY <1>2, LocationTyping
  <2>3. step(columns(loc, 1)) \in Location /\ lines(columns(loc, 1), 1) \in Location
    BY <2>2, LocationTyping
  <2>4. loc' \in Location
    BY <1>3, <2>2, <2>3, LocationTyping DEF Blank, Newline, Invalid
  <2>5. errors' \subseteq Messages
    BY <1>1, <1>3 DEF Blank, Newline, Invalid, parser, TypeOK, Messages
  <2>6. TypeOK'
    BY <1>1, <1>3, <2>1, <2>4, <2>5, MatchTyping
       DEF Blank, Newline, Invalid, parser, TypeOK
  <2> QED BY <1>1, <1>3, <2>1, <2>6
          DEF Blank, Newline, Invalid, parser, Inv, DepthTellsCondition, LeftoversExplained
<1>4. CASE Number \/ String
  <2>1. PICK n \in 1 .. Len(chars), kind \in Operators \cup Operands,
             reported \in SUBSET Messages : Match(n) /\ Deliver(kind, n, reported)
    <3>1. {"integer is out of range"} \in SUBSET Messages /\ {} \in SUBSET Messages
      BY DEF Messages
    <3>2. CASE Number
      <4>1. PICK n \in 1 .. Len(chars) :
              /\ Match(n)
              /\ Deliver("number", n, IF \E i \in 1 .. n : chars[i] = "9"
                                      THEN {"integer is out of range"} ELSE {})
        BY <3>2 DEF Number
      <4> QED BY <3>1, <4>1 DEF Operands
    <3>3. CASE String
      <4>1. PICK n \in 2 .. Len(chars) : Match(n) /\ Deliver("string", n, {})
        BY <3>3 DEF String
      <4>2. n \in 1 .. Len(chars)
        BY <4>1
      <4> QED BY <3>1, <4>1, <4>2 DEF Operands
    <3> QED BY <1>4, <3>2, <3>3
  <2>2. /\ phase = "scanning" /\ UNCHANGED <<start, comment_depth>>
    BY <1>4 DEF Number, String, Starts, Scanning
  <2>4. /\ loc' \in Location /\ expects' \in {"operand", "operator"}
        /\ tokens' \in Seq(Token) /\ errors' \subseteq Messages /\ res' \in {0, 1}
        /\ phase' \in {"idle", "scanning"} /\ (phase' = "idle" => res' = 1)
    BY <1>1, <2>1, <2>2, n \in Nat, DeliverTyping
  <2>5. TypeOK'
    BY <1>1, <2>1, <2>2, <2>4, MatchTyping DEF TypeOK
  <2> QED BY <1>1, <2>2, <2>4, <2>5 DEF Inv, DepthTellsCondition, LeftoversExplained
<1>5. CASE Operator
  <2>1. /\ phase = "scanning" /\ UNCHANGED <<start, comment_depth>>
        /\ chars[1] \in Operators /\ 1 \in 1 .. Len(chars)
        /\ Match(1) /\ Deliver(chars[1], 1, {})
    BY <1>2, <1>5 DEF Operator, Starts, Scanning
  <2>2. /\ loc' \in Location /\ expects' \in {"operand", "operator"}
        /\ tokens' \in Seq(Token) /\ errors' \subseteq Messages /\ res' \in {0, 1}
        /\ phase' \in {"idle", "scanning"} /\ (phase' = "idle" => res' = 1)
    <3>1. PICK kind \in Operators \cup Operands, n \in Nat, reported \in SUBSET Messages :
            Deliver(kind, n, reported)
      <4>1. chars[1] \in Operators \cup Operands /\ 1 \in Nat /\ {} \in SUBSET Messages
        BY <2>1
      <4> QED BY <2>1, <4>1
    <3> QED BY <1>1, <2>1, <3>1, DeliverTyping
  <2>3. TypeOK'
    BY <1>1, <2>1, <2>2, MatchTyping DEF TypeOK
  <2> QED BY <1>1, <2>1, <2>2, <2>3 DEF Inv, DepthTellsCondition, LeftoversExplained
<1>6. CASE BeginComment
  <2>1. phase = "scanning" /\ Match(2) /\ 2 \in 1 .. Len(chars)
    BY <1>2, <1>6 DEF BeginComment, OpensComment, Starts, Scanning
  <2>2. loc' \in Location
    BY <1>2, <1>6, LocationTyping DEF BeginComment
  <2>3. TypeOK'
    BY <1>1, <1>6, <2>1, <2>2, MatchTyping DEF BeginComment, parser, TypeOK
  <2> QED BY <1>6, <2>1, <2>3
          DEF BeginComment, parser, Inv, DepthTellsCondition, LeftoversExplained
<1> QED BY <1>3, <1>4, <1>5, <1>6

\* The patterns of a comment.  Its end is where the depth is known to be
\* positive, so that it stays a natural number, and is left when it is 0.
LEMMA CommentStep ==
  ASSUME Inv, NestedComment \/ EndComment \/ InComment PROVE Inv'
<1>1. TypeOK /\ DepthTellsCondition
  BY DEF Inv
<1>2. loc \in Location /\ chars \in Seq(Characters) /\ Len(chars) \in Nat
      /\ comment_depth \in Nat /\ comment_depth > 0
      /\ phase = "scanning" /\ start = "C_COMMENT" /\ UNCHANGED parser
  BY <1>1 DEF TypeOK, DepthTellsCondition, NestedComment, EndComment, InComment,
              Starts, Scanning
<1>3. \E n \in 1 .. Len(chars) : Match(n)
  BY <1>2 DEF NestedComment, EndComment, InComment, OpensComment, EndsComment, Starts
<1>4. loc' \in Location
  <2>1. columns(loc, 1) \in Location /\ columns(loc, 2) \in Location
    BY <1>2, LocationTyping
  <2>2. /\ columns(columns(loc, 1), 1) \in Location /\ columns(columns(loc, 2), 2) \in Location
        /\ lines(columns(loc, 1), 1) \in Location
    BY <2>1, LocationTyping
  <2>3. step(lines(columns(loc, 1), 1)) \in Location
    BY <2>2, LocationTyping
  <2> QED BY <2>2, <2>3 DEF NestedComment, EndComment, InComment
<1>5. /\ comment_depth' \in Nat
      /\ start' \in {"INITIAL", "C_COMMENT"}
      /\ DepthTellsCondition'
  BY <1>2 DEF NestedComment, EndComment, InComment, DepthTellsCondition
<1>6. TypeOK'
  BY <1>1, <1>2, <1>3, <1>4, <1>5, MatchTyping DEF TypeOK, parser
<1> QED BY <1>2, <1>5, <1>6 DEF Inv, LeftoversExplained, parser

LEMMA ParseStep ==
  ASSUME Inv, CannotOpen \/ \E f \in Files : Parse(f) PROVE Inv'
<1>1. TypeOK /\ DepthTellsCondition /\ LeftoversExplained
  BY DEF Inv
<1>2. CASE CannotOpen
  <2>1. TypeOK'
    BY <1>1, <1>2 DEF CannotOpen, flex, call, TypeOK, Messages
  <2> QED BY <1>1, <1>2, <2>1
          DEF CannotOpen, flex, call, Inv, DepthTellsCondition, LeftoversExplained
<1>3. CASE \E f \in Files : Parse(f)
  <2>1. PICK f \in Files : Parse(f)
    BY <1>3
  <2>2. f \in Seq(Characters)
    BY FilesAssumption
  <2>3. Origin \in Location /\ Fresh \in BOOLEAN /\ <<>> \in Seq(Token)
    BY DEF Origin, Position, Location, Fresh
  <2>4. parses' \in 0 .. MaxParses
    BY <1>1, <2>1, BoundAssumption DEF Parse, TypeOK
  <2>5. {file, unread, chars}' \subseteq Seq(Characters)
    BY <1>1, <2>1, <2>2 DEF Parse, TypeOK
  <2>6. TypeOK'
    BY <1>1, <2>1, <2>3, <2>4, <2>5 DEF Parse, TypeOK
  <2> QED BY <1>1, <2>1, <2>6 DEF Parse, Inv, DepthTellsCondition, LeftoversExplained
<1> QED BY <1>2, <1>3

LEMMA StepInv == Inv /\ [Next]_vars => Inv'
<1> SUFFICES ASSUME Inv, [Next]_vars PROVE Inv'
  OBVIOUS
<1>1. CASE yylex
  BY <1>1, BufferStep, InitialStep, CommentStep DEF yylex
<1>2. CASE CannotOpen \/ \E f \in Files : Parse(f)
  BY <1>2, ParseStep
<1>3. CASE UNCHANGED vars
  BY <1>3 DEF Inv, TypeOK, DepthTellsCondition, LeftoversExplained, Fresh,
              vars, flex, parser, call
<1> QED BY <1>1, <1>2, <1>3 DEF Next, Stop

LEMMA Invariant == Spec => []Inv
BY InitInv, StepInv, PTL DEF Spec

-----------------------------------------------------------------------------
(* The theorems.                                                           *)

\* Whatever the files and however many there are, the variables of flex, the
\* scanner and the parser keep their types.
THEOREM ScannerTypes == Spec => []TypeOK
<1>1. Inv => TypeOK
  BY DEF Inv
<1> QED BY <1>1, Invariant, PTL

\* Through nested, overlapping and unterminated comments, and from one call of
\* parse to the next, comment_depth is positive just when flex is in C_COMMENT
\* (the BEGINs of scanner.ll).
THEOREM CommentStateAgrees == Spec => []DepthTellsCondition
<1>1. Inv => DepthTellsCondition
  BY DEF Inv
<1> QED BY <1>1, Invariant, PTL

\* A call of parse that returned 0 and met no unterminated comment has left
\* flex as a new process has it.
THEOREM LeftoversAreExplained == Spec => []LeftoversExplained
<1>1. Inv => LeftoversExplained
  BY DEF Inv
<1> QED BY <1>1, Invariant, PTL
=============================================================================
