------------------------------ MODULE WSUpgrade ------------------------------
(***************************************************************************)
(* websocket/HTTPProtocolParser.cpp: how the request that asks for a       *)
(* WebSocket is read from the bytes received so far.  A text is a sequence *)
(* of tokens: words, and the single characters " ", ":" and ",".  NewLine  *)
(* is the two characters that end a line.                                  *)
(***************************************************************************)
EXTENDS Naturals, Sequences, FiniteSets, FiniteSetsExt

CONSTANT LowerCase  \* the lower case of each word that has another

Space == " "
Colon == ":"
Comma == ","
NewLine == "\r\n"

\* Where a token stands.
TokenPlaces(text, token) == {j \in DOMAIN text : text[j] = token}

\* Where a blank line ends.
HeaderEnds(text) ==
    {j \in DOMAIN text : j > 1 /\ text[j] = NewLine /\ text[j - 1] = NewLine}

\* Where the line ends that holds position j.
LineEnd(text, j) == Min({k \in TokenPlaces(text, NewLine) : k >= j})

\* What stands behind position j in its line, without the spaces before it.
ValueAt(text, j) ==
    LET words == {k \in j + 1 .. LineEnd(text, j) : text[k] # Space}
    IN  SubSeq(text, Min(words), LineEnd(text, j) - 1)

\* The colons that end a name and have a value behind them, up to the blank line.
Colons(text) ==
    {j \in TokenPlaces(text, Colon) :
        /\ LineEnd(text, 1) < j /\ j < Min(HeaderEnds(text))
        /\ \A k \in TokenPlaces(text, Colon) : k < j => LineEnd(text, k) < j
        /\ ValueAt(text, j) # <<>>}

\* What a loop over a text keeps when it leaves some tokens out.
Without(text, tokens) ==
    LET kept[n \in 0 .. Len(text)] ==
            IF n = 0 THEN <<>>
            ELSE IF text[n] \in tokens THEN kept[n - 1] ELSE Append(kept[n - 1], text[n])
    IN  kept[Len(text)]

Lower(word) == IF word \in DOMAIN LowerCase THEN LowerCase[word] ELSE word

\* The name in front of a colon, in lower case.  A name that has no value is kept by
\* the loop, and stands before the next one.  A name holds no space.
NameAt(text, j) ==
    LET from == LineEnd(text, Max({k \in Colons(text) : k < j} \cup {1}))
        name == Without(SubSeq(text, from, j - 1), {Colon, Space, NewLine})
    IN  [k \in DOMAIN name |-> Lower(name[k])]

\* The headers of that name; the last one counts.
Named(text, name) == {j \in Colons(text) : NameAt(text, j) = <<name>>}

\* tokenize(): the parts between commas, without spaces.
Tokenize(value) ==
    LET cuts == TokenPlaces(value, Comma) \cup {0, Len(value) + 1}
        Part(i, j) == Without(SubSeq(value, i + 1, j - 1), {Space})
    IN  {Part(i, Min({j \in cuts : j > i})) : i \in cuts \ {Len(value) + 1}}

\* parseIncoming() of a text that holds a blank line, or not yet.
ParseIncoming(text) ==
    LET ends == HeaderEnds(text)
        spaces == TokenPlaces(text, Space)
        first == Min(spaces)
        second == Min(spaces \ {first})
        protocols == Named(text, "sec-websocket-protocol")
    IN  IF ends = {} THEN [status |-> "incomplete"]
        ELSE IF Cardinality(spaces) < 2 THEN [status |-> "error"]
        ELSE [status |-> "ready",
              type |-> SubSeq(text, 1, first - 1),
              resource |-> SubSeq(text, first + 1, second - 1),
              hasKey |-> Named(text, "sec-websocket-key") # {},
              protocols |-> IF protocols = {} THEN {}
                            ELSE Tokenize(ValueAt(text, Max(protocols)))]

=============================================================================
