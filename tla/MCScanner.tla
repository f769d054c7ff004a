----------------------------- MODULE MCScanner -----------------------------
(***************************************************************************)
(* Every file of up to three characters of a few, and longer ones with     *)
(* comments that nest, overlap or do not end, over several lines, strings  *)
(* with comments, comments with strings and a quote of its own, and with   *)
(* every error the scanner and the parser report.                          *)
(***************************************************************************)
EXTENDS Scanner

Open == <<"/", "*">>
Close == <<"*", "/">>
One == <<"1", "1">>
Huge == <<"1", "9">>
Line == <<" ", "newline">>

Nested == Open \o Line \o Open \o <<"*", "#">> \o Close \o One \o <<"newline">> \o Close
Quoted == <<"quote">> \o Open \o <<"newline", "1", "quote">>
AllFiles ==
  UNION {[1 .. n -> {"1", "/", "*", "newline"}] : n \in 0 .. 3}
  \cup {One \o Nested \o <<"+">> \o Line \o One,
        Nested \o Huge \o <<"/">> \o One \o <<"#">>,
        One \o Open \o <<"/">> \o Line \o Open \o Close \o <<"+">> \o Huge,
        Open \o <<"/", "*", "*">> \o Close \o <<"1", "*", "/">>,
        One \o <<" ">> \o One \o <<"/">>,
        One \o <<"+">> \o Line \o <<"*">> \o Nested \o One,
        Quoted \o <<"+">> \o One \o <<"/">> \o Quoted,
        Open \o <<"quote">> \o Close \o Huge \o <<"quote">> \o One \o Line}
=============================================================================
