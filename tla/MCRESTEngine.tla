---------------------------- MODULE MCRESTEngine ----------------------------
(* Two regular expressions that have a path in common, and a path that is    *)
(* nobody's, each asked for with and without parameters.  For the            *)
(* reading of parameters: names of which one begins as another, values that  *)
(* are empty, have a question mark or are a name, and what may follow the    *)
(* query: nothing, a separator, the end of the request's first line.         *)
EXTENDS RESTEngine, TLC

ThePaths == {<<"/", "a">>, <<"/", "b">>, <<"/", "c">>}
TheUris == {{<<"/", "a">>}, {<<"/", "a">>, <<"/", "b">>}}

TheNames == {<<"a">>, <<"a", "b">>, <<"b">>}
TheRegistered == {<<"a">>, <<"a", "b">>}
TheValues == {<<>>, <<"b">>, <<"a", "?">>}
TheEnds == {<<>>, <<"&">>, <<"\n">>, <<"&", " ", "b", "=", "1">>}

Symmetry == Permutations(Callbacks \ Required) \cup Permutations(Threads)
=============================================================================
