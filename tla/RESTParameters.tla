--------------------------- MODULE RESTParameters ---------------------------
(***************************************************************************)
(* rest/RESTParameters.cpp: the parameters of a call, read from what       *)
(* RESTEngine::invoke takes to be the query of a request.                  *)
(*                                                                         *)
(* A request is a sequence of pairs, as a client writes them; a name, a     *)
(* value and a path are short sequences of characters.  "\n" stands for     *)
(* either of the two characters that end a line.  RESTEngine uses what is  *)
(* defined here for its calls.                                             *)
(***************************************************************************)
EXTENDS Naturals, Sequences, SequencesExt, Functions

CONSTANTS Names,       \* names the client writes
          Registered,  \* those some callback has, with addParam()
          Values,      \* values it gives them
          Ends,        \* what follows the last value
          MaxPairs     \* bound: pairs of all requests under way

\* The characters that have a meaning.
And == "&"
Equals == "="
Question == "?"
Blank == " "
LineEnd == "\n"

ASSUME BoundAssumption == MaxPairs \in Nat

\* A client escapes these characters in what it writes, and a parameter has a name.
ASSUME TextsAssumption ==
    /\ \A text \in Names \cup Values : text \in Seq(STRING \ {And, Equals, Blank, LineEnd})
    /\ <<>> \notin Registered

\* Behind the query nothing is left of it but a separator.
ASSUME EndsAssumption ==
    \A end \in Ends \ {<<>>} :
        /\ end \in Seq(STRING)
        /\ end[1] \in {And, Blank, LineEnd}
        /\ Len(end) = 1 \/ end[1] = Blank \/ end[2] \in {Blank, LineEnd}

-----------------------------------------------------------------------------
(* invoke()                                                                *)

\* The url up to the first character of S, or all of it.
Before(t, S) == SubSeq(t, 1, Min({k \in DOMAIN t : t[k] \in S} \cup {Len(t) + 1}) - 1)

Has(t, c) == c \in ToSet(t)

\* urlPart1 and urlPart2: the path that is looked up, and the query.
PathOf(url) == IF Has(url, Question) THEN Before(url, {Question}) ELSE Before(url, {Blank})
QueryOf(url) ==
    IF Has(url, Question) THEN SubSeq(url, Len(PathOf(url)) + 2, Len(url)) ELSE <<>>

-----------------------------------------------------------------------------
(* RESTParameters::RESTParameters                                          *)

Start == [key |-> <<>>, value |-> <<>>, keyFlag |-> TRUE, values |-> <<>>]

\* What was read is kept if the callback has a parameter of that name.
Flushed(r, registered) ==
    [Start EXCEPT !.values =
        IF r.key \in registered
        THEN [k \in DOMAIN r.values \cup {r.key} |-> IF k = r.key THEN r.value ELSE r.values[k]]
        ELSE r.values]

\* One character; an equal sign is never a part of a value.
Read(r, c, registered) ==
    IF c = Equals THEN [r EXCEPT !.keyFlag = FALSE]
    ELSE IF c \in {And, LineEnd} THEN Flushed(r, registered)
    ELSE IF r.keyFlag THEN [r EXCEPT !.key = Append(@, c)]
    ELSE [r EXCEPT !.value = Append(@, c)]

ReadAll(t, registered) ==
    LET read[k \in 0 .. Len(t)] == IF k = 0 THEN Start ELSE Read(read[k - 1], t[k], registered)
    IN  read[Len(t)]

\* Mutant of ReadParameters: what the end of the text ends is not kept.
ReadSeparated(t, registered) == ReadAll(Before(t, {Blank, LineEnd}), registered).values

\* The loop stops at the end, at a space, and at the end of a line, which is looked
\* for from the second character on.
ReadParameters(t, registered) ==
    IF t = <<>> \/ Head(t) = Blank THEN <<>>
    ELSE LET n == Len(Before(Tail(t), {Blank, LineEnd})) + 1
         IN  Flushed(ReadAll(SubSeq(t, 1, n), registered), registered).values

\* getParam(): the empty string for what was not given.
GetParam(values, name) == IF name \in DOMAIN values THEN values[name] ELSE <<>>

-----------------------------------------------------------------------------
(* What a client writes                                                    *)

\* The text of the pairs, with or without an equal sign where the value is empty.
PairText(p, bare) == p[1] \o (IF bare /\ p[2] = <<>> THEN <<>> ELSE <<Equals>>) \o p[2]

QueryText(pairs, bare) ==
    LET text[k \in 0 .. Len(pairs)] ==
            IF k = 0 THEN <<>>
            ELSE text[k - 1] \o (IF k = 1 THEN <<>> ELSE <<And>>) \o PairText(pairs[k], bare)
    IN  text[Len(pairs)]

\* What follows the path in a request, if anything does.
Texts(pairs) ==
    {<<Question>> \o QueryText(pairs, bare) \o end : bare \in BOOLEAN, end \in Ends}
    \cup (IF pairs = <<>> THEN {<<>>} ELSE {})

=============================================================================
