----------------------------- MODULE HTTPRequest -----------------------------
(***************************************************************************)
(* webserver/HTTPRequest.cpp: what is looked up in the header of a request *)
(* by regular expressions.  A header is a sequence of lines, the request   *)
(* line first, and a line a sequence of tokens: words, in lower case since *)
(* case does not count, and the single characters " ", ":", "=", ";", ","  *)
(* and the quote.  ".*" ends with its line.                                *)
(***************************************************************************)
EXTENDS Naturals, Sequences, FiniteSets, FiniteSetsExt, SequencesExt

Colon == ":"
Equals == "="
Semicolon == ";"
Comma == ","
Space == " "
Quote == "\""
Marks == {Colon, Equals, Semicolon, Comma, Quote}

\* Where a text stands in a line; an expression finds the first place.
Places(line, text) ==
    {j \in 1 .. Len(line) - Len(text) + 1 :
        \A k \in DOMAIN text : line[j + k - 1] = text[k]}

\* Where the words and spaces that begin at position j of the line end.
RunEnd(line, j) == Min({k \in j .. Len(line) : line[k] \in Marks} \cup {Len(line) + 1}) - 1

\* Mutant of GetHeader: the last line that has it.
GetLastHeader(header, name) ==
    LET text == <<name, Colon, Space>>
        lines == {k \in DOMAIN header : Places(header[k], text) # {}}
    IN  IF lines = {} THEN <<>>
        ELSE LET line == header[Max(lines)]
             IN  SubSeq(line, Min(Places(line, text)) + Len(text), Len(line))

\* getHeader(): the name may be the end of another name.
GetHeader(header, name) ==
    LET text == <<name, Colon, Space>>
        lines == {k \in DOMAIN header : Places(header[k], text) # {}}
    IN  IF lines = {} THEN <<>>
        ELSE LET line == header[Min(lines)]
             IN  SubSeq(line, Min(Places(line, text)) + Len(text), Len(line))

\* getCookie(): the words and spaces behind the first "name=".
GetCookie(header, name) ==
    LET line == GetHeader(header, "cookie")
        places == Places(line, <<name, Equals>>)
    IN  IF places = {} THEN <<>>
        ELSE SubSeq(line, Min(places) + 2, RunEnd(line, Min(places) + 2))

\* Whether position j of the line is outside quotes.
Unquoted(line, j) == Cardinality({k \in 1 .. j - 1 : line[k] = Quote}) % 2 = 0

\* The words and spaces that end before position j, less one leading space.
KeyBefore(line, j) ==
    LET start == Max({k \in 1 .. j - 1 : line[k] \in Marks} \cup {0}) + 1
    IN  SubSeq(line, IF start < j /\ line[start] = Space THEN start + 1 ELSE start, j - 1)

\* getAuthFields(): the value of a key, which stands in quotes behind it; the last
\* one counts.
AuthField(line, key) ==
    LET places == {j \in Places(line, <<Equals, Quote>>) :
                      Unquoted(line, j) /\ KeyBefore(line, j) = key
                        /\ \E k \in j + 2 .. Len(line) : line[k] = Quote}
    IN  IF places = {} THEN <<>>
        ELSE LET from == Max(places) + 2
             IN  SubSeq(line, from, Min({k \in from .. Len(line) : line[k] = Quote}) - 1)

\* getAuthorization(): the user comes first, right behind "Digest".
GetAuthorization(header) ==
    LET line == GetHeader(header, "authorization")
    IN  [username |-> AuthField(line, <<"digest", Space, "username">>),
         nonce |-> AuthField(line, <<"nonce">>),
         response |-> AuthField(line, <<"response">>)]

\* getMethod() and getURL(): three parts that the last two spaces separate.
SpacesOf(line) == {j \in DOMAIN line : line[j] = Space}
SecondSpace(line) == Max(SpacesOf(line))
FirstSpace(line) == Max(SpacesOf(line) \ {SecondSpace(line)})

GetMethod(header) == SubSeq(Head(header), 1, FirstSpace(Head(header)) - 1)
GetURL(header) == SubSeq(Head(header), FirstSpace(Head(header)) + 1, SecondSpace(Head(header)) - 1)

=============================================================================
