------------------------------- MODULE Scanner -------------------------------
(***************************************************************************)
(* scanner.ll under Driver::parse of driver.cc, called again and again in  *)
(* one process, as the tests of the other passes do.                       *)
(*                                                                         *)
(* What survives a call is what flex and the scanner keep in static        *)
(* variables: flex's buffer and start condition, and comment_depth.  Each  *)
(* match of a pattern is a step.  A file is a sequence of characters; "1"  *)
(* and "9" stand for digits, a number with a "9" in it is larger than an   *)
(* int, and "#" stands for every character without a pattern.  On these    *)
(* characters the grammar of parser.yy is numbers and strings with         *)
(* operators between them.                                                 *)
(***************************************************************************)
EXTENDS Integers, SequencesExt

CONSTANTS Files,          \* contents of the files that are parsed
          MaxParses       \* bound: calls of parse in the process

Digits    == {"1", "9"}
Operators == {"+", "*", "/"}
Operands  == {"number", "string"}
Characters == Digits \cup Operators \cup {" ", "newline", "quote", "#"}

ASSUME FilesAssumption == Files \subseteq Seq(Characters)
ASSUME BoundAssumption == MaxParses \in Nat

VARIABLES
  file,                   \* the file parse was called with
  unread,                 \* what YY_INPUT would read from yyin
  chars,                  \* flex's buffer, from the next character to match
  eof_pending,            \* flex has seen the end of yyin behind chars
  start,                  \* flex's start condition
  comment_depth,
  loc,
  expects,                \* what the parser can shift: "operand", "operator"
  tokens,                 \* what this parse has been handed
  errors,                 \* messages of this parse
  res,                    \* what the last parse returned
  parses,                 \* calls of parse so far
  phase,                  \* "idle", "scanning" or "exited"
  clean                   \* auxiliary: flex had nothing left when parse was
                          \* called

flex   == <<unread, chars, eof_pending, start, comment_depth>>
parser == <<expects, tokens, errors, res, phase>>
call   == <<file, parses, clean>>
vars   == <<flex, parser, call, loc>>

-----------------------------------------------------------------------------
(* Locations, as bison's class location counts them.                       *)

Position(line, column) == [line |-> line, column |-> column]
Origin == [begin |-> Position(1, 1), end |-> Position(1, 1)]

columns(l, n) == [l EXCEPT !.end.column = @ + n]
lines(l, n)   == [l EXCEPT !.end = Position(@.line + n, 1)]
step(l)       == [l EXCEPT !.begin = l.end]

-----------------------------------------------------------------------------
(* The parser's side.                                                      *)

Return(r) ==
  /\ res' = r
  /\ phase' = "idle"

\* yylex returns a token of n characters.  The parser takes it, and calls
\* yylex again; or it is a syntax error and parse returns, with the rest of
\* the input unmatched.
Deliver(kind, n, reported) ==
  LET at == columns(loc, n) IN
  /\ tokens' = Append(tokens, [kind |-> kind, line |-> at.begin.line])
  /\ loc' = step(at)
  /\ IF (kind \in Operands) = (expects = "operand")
     THEN /\ errors' = errors \cup reported
          /\ expects' = IF kind \in Operands THEN "operator" ELSE "operand"
          /\ UNCHANGED <<res, phase>>
     ELSE /\ errors' = errors \cup reported \cup {"syntax error"}
          /\ Return(1)
          /\ UNCHANGED expects

-----------------------------------------------------------------------------
(* flex: the buffer.                                                       *)

Scanning(condition) == phase = "scanning" /\ start = condition
Starts(condition, S) == Scanning(condition) /\ chars # <<>> /\ chars[1] \in S
Match(n) ==
  /\ chars' = SubSeq(chars, n + 1, Len(chars))
  /\ UNCHANGED <<unread, eof_pending, call>>

\* The buffer starts with a number of n digits, and of no more.
IsDigits(n)  == \A i \in 1 .. n : chars[i] \in Digits
IsLongest(n) == IsDigits(n) /\ (n < Len(chars) => chars[n + 1] \notin Digits)

\* The buffer starts with a string of n characters, its quotes included, or
\* with a quote that no other follows.
IsString(n) == chars[n] = "quote" /\ \A i \in 2 .. n - 1 : chars[i] # "quote"
IsUnended   ==
  chars # <<>> /\ chars[1] = "quote" /\ \A i \in 2 .. Len(chars) : chars[i] # "quote"

\* The longest match depends on a character that is not in the buffer.
LooksPastEnd ==
  \/ chars = <<>>
  \/ start = "INITIAL" /\ IsUnended
  \/ start = "INITIAL" /\ IsDigits(Len(chars))
  \/ Len(chars) = 1 /\ chars[1] = "/"
  \/ Len(chars) = 1 /\ chars[1] = "*" /\ start = "C_COMMENT"
Decided == ~ LooksPastEnd \/ (eof_pending /\ chars # <<>>)

\* YY_INPUT reads a file at once; at its end, flex remembers to come to the
\* end of file when it has matched what it has.
Refill ==
  /\ phase = "scanning"
  /\ LooksPastEnd
  /\ ~ eof_pending
  /\ \/ /\ unread # <<>>
        /\ chars' = chars \o unread
        /\ unread' = <<>>
        /\ UNCHANGED eof_pending
     \/ /\ unread = <<>>
        /\ chars # <<>>
        /\ eof_pending' = TRUE
        /\ UNCHANGED <<chars, unread>>
  /\ UNCHANGED <<start, comment_depth, parser, call, loc>>

AtEof == phase = "scanning" /\ chars = <<>> /\ (eof_pending \/ unread = <<>>)
\* Fault: flex still remembers the end of the file.
EndOfFileKept ==
  /\ AtEof
  /\ unread' = <<>>
  /\ errors' = errors
       \cup (IF start = "C_COMMENT" THEN {"unterminated comment"} ELSE {})
       \cup (IF expects = "operand" THEN {"syntax error"} ELSE {})
  /\ Return(IF expects = "operand" THEN 1 ELSE 0)
  /\ UNCHANGED <<chars, eof_pending, start, comment_depth, expects, tokens, call, loc>>

\* <<EOF>>, and the buffer is started anew.
EndOfFile ==
  /\ AtEof
  /\ eof_pending' = FALSE
  /\ unread' = <<>>
  /\ errors' = errors
       \cup (IF start = "C_COMMENT" THEN {"unterminated comment"} ELSE {})
       \cup (IF expects = "operand" THEN {"syntax error"} ELSE {})
  /\ Return(IF expects = "operand" THEN 1 ELSE 0)
  /\ UNCHANGED <<chars, start, comment_depth, expects, tokens, call, loc>>

-----------------------------------------------------------------------------
(* The patterns outside comments.                                          *)

Blank ==
  /\ Starts("INITIAL", {" "})
  /\ Match(1)
  /\ loc' = step(columns(loc, 1))
  /\ UNCHANGED <<start, comment_depth, parser>>

Newline ==
  /\ Starts("INITIAL", {"newline"})
  /\ Match(1)
  /\ loc' = step(lines(columns(loc, 1), 1))
  /\ UNCHANGED <<start, comment_depth, parser>>

\* Fault: the character is reported and not matched.
InvalidUnmatched ==
  /\ Starts("INITIAL", {"#"})
  /\ errors' = errors \cup {"invalid character"}
  /\ UNCHANGED <<flex, expects, tokens, res, phase, call, loc>>

\* A quote that no other follows has no pattern.
Invalid ==
  /\ Starts("INITIAL", {"#", "quote"})
  /\ chars[1] = "quote" => IsUnended
  /\ Decided
  /\ Match(1)
  /\ loc' = columns(loc, 1)
  /\ errors' = errors \cup {"invalid character"}
  /\ UNCHANGED <<start, comment_depth, expects, tokens, res, phase>>

\* A number out of range is reported, and handed on all the same.
Number ==
  /\ Starts("INITIAL", Digits)
  /\ Decided
  /\ \E n \in 1 .. Len(chars) :
       /\ IsLongest(n)
       /\ Match(n)
       /\ Deliver("number", n,
                  IF \E i \in 1 .. n : chars[i] = "9"
                  THEN {"integer is out of range"} ELSE {})
  /\ UNCHANGED <<start, comment_depth>>

\* The line breaks and comments in a string are part of it.
String ==
  /\ Starts("INITIAL", {"quote"})
  /\ \E n \in 2 .. Len(chars) :
       /\ IsString(n)
       /\ Match(n)
       /\ Deliver("string", n, {})
  /\ UNCHANGED <<start, comment_depth>>

OpensComment == Len(chars) > 1 /\ chars[1] = "/" /\ chars[2] = "*"
EndsComment  == Len(chars) > 1 /\ chars[1] = "*" /\ chars[2] = "/"

Operator ==
  /\ Starts("INITIAL", Operators)
  /\ Decided
  /\ ~ OpensComment
  /\ Match(1)
  /\ Deliver(chars[1], 1, {})
  /\ UNCHANGED <<start, comment_depth>>

BeginComment ==
  /\ Starts("INITIAL", {"/"})
  /\ OpensComment
  /\ Match(2)
  /\ loc' = columns(loc, 2)
  /\ comment_depth' = 1
  /\ start' = "C_COMMENT"
  /\ UNCHANGED parser

-----------------------------------------------------------------------------
(* The patterns inside comments.  Columns are counted by YY_USER_ACTION    *)
(* and again by the rules.                                                 *)

\* Fault: comments do not nest.
NestedCommentIgnored ==
  /\ Starts("C_COMMENT", {"/"})
  /\ OpensComment
  /\ Match(2)
  /\ loc' = columns(columns(loc, 2), 2)
  /\ UNCHANGED <<start, comment_depth, parser>>

NestedComment ==
  /\ Starts("C_COMMENT", {"/"})
  /\ OpensComment
  /\ Match(2)
  /\ loc' = columns(columns(loc, 2), 2)
  /\ comment_depth' = comment_depth + 1
  /\ UNCHANGED <<start, parser>>

\* Fault: the depth is tested before it is decremented.
EndCommentLate ==
  /\ Starts("C_COMMENT", {"*"})
  /\ EndsComment
  /\ Match(2)
  /\ loc' = columns(columns(loc, 2), 2)
  /\ comment_depth' = comment_depth - 1
  /\ start' = IF comment_depth = 0 THEN "INITIAL" ELSE start
  /\ UNCHANGED parser

\* Fault: the first end leaves all comments.
EndAllComments ==
  /\ Starts("C_COMMENT", {"*"})
  /\ EndsComment
  /\ Match(2)
  /\ loc' = columns(columns(loc, 2), 2)
  /\ comment_depth' = comment_depth - 1
  /\ start' = "INITIAL"
  /\ UNCHANGED parser

EndComment ==
  /\ Starts("C_COMMENT", {"*"})
  /\ EndsComment
  /\ Match(2)
  /\ loc' = columns(columns(loc, 2), 2)
  /\ comment_depth' = comment_depth - 1
  /\ start' = IF comment_depth' = 0 THEN "INITIAL" ELSE start
  /\ UNCHANGED parser

InComment ==
  /\ Starts("C_COMMENT", Characters)
  /\ Decided
  /\ ~ OpensComment
  /\ ~ EndsComment
  /\ Match(1)
  /\ loc' = IF chars[1] = "newline" THEN step(lines(columns(loc, 1), 1))
            ELSE columns(columns(loc, 1), 1)
  /\ UNCHANGED <<start, comment_depth, parser>>

-----------------------------------------------------------------------------
(* Driver::parse.                                                          *)

Fresh == chars = <<>> /\ ~ eof_pending /\ start = "INITIAL"

\* scan_begin opens the file and resets loc, nothing else.
Parse(f) ==
  /\ phase = "idle"
  /\ parses < MaxParses
  /\ file' = f
  /\ unread' = f
  /\ loc' = Origin
  /\ expects' = "operand"
  /\ tokens' = <<>>
  /\ errors' = {}
  /\ phase' = "scanning"
  /\ parses' = parses + 1
  /\ clean' = Fresh
  /\ UNCHANGED <<chars, eof_pending, start, comment_depth, res>>

\* scan_begin ends the process when the file cannot be opened.
CannotOpen ==
  /\ phase = "idle"
  /\ parses < MaxParses
  /\ phase' = "exited"
  /\ errors' = {"cannot open"}
  /\ UNCHANGED <<flex, expects, tokens, res, call, loc>>

Init ==
  /\ file = <<>> /\ unread = <<>> /\ chars = <<>> /\ tokens = <<>>
  /\ eof_pending = FALSE
  /\ start = "INITIAL"
  /\ comment_depth = 0
  /\ loc = Origin
  /\ expects = "operand"
  /\ errors = {}
  /\ res = 0
  /\ parses = 0
  /\ phase = "idle"
  /\ clean = TRUE

yylex ==
  \/ Refill \/ EndOfFile
  \/ Blank \/ Newline \/ Invalid \/ Number \/ String \/ Operator \/ BeginComment
  \/ NestedComment \/ EndComment \/ InComment

\* The client asks no more, or the process is gone.
Stop == (phase = "exited" \/ (phase = "idle" /\ parses = MaxParses)) /\ UNCHANGED vars

Next == yylex \/ CannotOpen \/ Stop \/ \E f \in Files : Parse(f)
Spec == Init /\ [][Next]_vars /\ WF_vars(yylex)

-----------------------------------------------------------------------------
(* The words of a file, from its text alone.                               *)

\* Reading character by character.  last is the character before c, a blank
\* when it is part of a comment's delimiter, quote is where the string c is in
\* begins.
Word(kind, r) == [kind |-> kind, line |-> r.line]
ReadCharacter(r, c) ==
  LET next == [r EXCEPT !.at = @ + 1, !.last = c]
      outside == r.depth = 0
  IN
  CASE r.quote > 0 ->
         IF c = "quote" THEN [next EXCEPT !.quote = 0, !.words = Append(@, Word("string", r))]
         ELSE next
    [] r.quote = 0 /\ outside /\ c = "quote" -> [next EXCEPT !.quote = r.at]
    [] r.quote = 0 /\ r.last = "/" /\ c = "*" ->
         [next EXCEPT !.depth = @ + 1, !.last = " ",
                      !.words = IF outside THEN Front(@) ELSE @]
    [] r.quote = 0 /\ r.last = "*" /\ c = "/" /\ ~ outside ->
         [next EXCEPT !.depth = @ - 1, !.last = " "]
    [] OTHER ->
         [next EXCEPT !.line = IF c = "newline" THEN @ + 1 ELSE @,
                      !.words = IF ~ outside THEN @
                                ELSE IF c \in Operators THEN Append(@, Word(c, r))
                                ELSE IF c \in Digits /\ r.last \notin Digits
                                THEN Append(@, Word("number", r)) ELSE @]
Read(f) ==
  FoldLeft(ReadCharacter,
           [depth |-> 0, line |-> 1, last |-> " ", at |-> 1, quote |-> 0, words |-> <<>>], f)

\* The words outside comments, each with its line, the line breaks in strings
\* not counted.  A quote without another is no word.
Words(f) ==
  LET r == Read(f) IN
  IF r.quote = 0 THEN r.words ELSE Read([f EXCEPT ![r.quote] = "#"]).words

-----------------------------------------------------------------------------
(* Properties.                                                             *)

Location == [begin : [line : Nat, column : Nat], end : [line : Nat, column : Nat]]
Token    == [kind : Operators \cup Operands, line : Nat]
Messages == {"unterminated comment", "invalid character", "integer is out of range",
             "syntax error", "cannot open"}

\* Every variable keeps its shape.
TypeOK ==
  /\ {file, unread, chars} \subseteq Seq(Characters)
  /\ eof_pending \in BOOLEAN /\ clean \in BOOLEAN
  /\ start \in {"INITIAL", "C_COMMENT"}
  /\ comment_depth \in Nat
  /\ loc \in Location
  /\ expects \in {"operand", "operator"}
  /\ tokens \in Seq(Token)
  /\ errors \subseteq Messages
  /\ res \in {0, 1}
  /\ parses \in 0 .. MaxParses
  /\ phase \in {"idle", "scanning", "exited"}

\* The two places that know of a comment agree, in every call of parse and
\* between them: comment_depth is positive just when flex matches the
\* patterns of C_COMMENT.
DepthTellsCondition == comment_depth > 0 <=> start = "C_COMMENT"

\* A parse that finds flex with nothing left hands the parser the words of
\* its file that are outside its nested comments, in order and each with the
\* line it is on but for line breaks in strings, and all of them unless it
\* finds an error; however the buffer was refilled in between.
CleanParsesReadTheFile ==
  clean => /\ IsPrefix(tokens, Words(file))
           /\ (phase = "idle" /\ res = 0) => tokens = Words(file)

\* Only an unterminated comment or a syntax error leaves something in flex
\* for the next call of parse.
LeftoversExplained ==
  (phase = "idle" /\ ~ Fresh) => (res = 1 \/ "unterminated comment" \in errors)

\* Every parse returns.
ParseReturns == phase = "scanning" ~> phase = "idle"

-----------------------------------------------------------------------------
(* What the header says and the code does not do.                          *)

\* driver.h:29-30: parse "returns 0 on success": a parse that has found an
\* error in its file does not return 0.
ZeroOnSuccess == (phase = "idle" /\ res = 0) => errors = {}
=============================================================================
