----------------------------- MODULE MCJSONText -----------------------------
(* The characters that mean something to the parser, and numbers as the     *)
(* streams of C++ write them.                                               *)
EXTENDS JSONText

SyntaxChars == {"\"", "\\", "\n", "n", " ", "{", "}", "[", ",", ":"}

PlainNumbers == {<<"1">>, <<"-", "1", ".", "1">>, <<"true">>}
=============================================================================
