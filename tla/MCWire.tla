------------------------------- MODULE MCWire -------------------------------
(***************************************************************************)
(* Constants of the Wire run: an empty text, one of wide characters that   *)
(* fills a buffer, and one that needs every escape; and a newer bridge's   *)
(* field of each kind.                                                     *)
(***************************************************************************)
EXTENDS Wire

MCTexts     == {<<>>, <<"wide", "wide">>, <<"quote", "newline", "control">>}
MCNewFields == {Mask(0..63), Bool(TRUE), Str(<<"plain">>), List(<<Mask({1})>>), Nested(2)}
=============================================================================
