------------------------------- MODULE JSONText -------------------------------
(***************************************************************************)
(* json/Parser.cpp, and what Value, Object and List write: the text of a   *)
(* document and the document that is read from a text.                     *)
(*                                                                         *)
(* A text is a sequence of characters; "n" stands for the letters n, r and *)
(* t, and the new line for the characters they name, "1" for a digit and   *)
(* "true" for the four letters of either boolean.  A document is what      *)
(* stringify() looks at, an Object's members being in the order the hash   *)
(* table happens to have.  The application makes a string, one character   *)
(* after the other, and puts it in documents as a value and as a key.      *)
(***************************************************************************)
EXTENDS Naturals, Sequences, FiniteSets, SequencesExt, FiniteSetsExt, Functions

CONSTANTS Chars,      \* characters of the string
          MaxLength,  \* bound: of the string
          Numbers     \* texts of numbers

ASSUME MaxLengthAssumption == MaxLength \in Nat

VARIABLE string

Quote == "\""
Backslash == "\\"
NewLine == "\n"

\* Of a naked value, and those that have a number's.
NakedChars == {"n", "e", "1", ".", "-", "true"}

None == 0

Rest(t, k) == SubSeq(t, k + 1, Len(t))

At(t, k) == IF k \in DOMAIN t THEN t[k] ELSE "end"

-----------------------------------------------------------------------------
(* Parser                                                                  *)

\* Mutant of QuoteEnd: the first quote ends the string.
FirstQuote(t) == Min({k \in 2 .. Len(t) : t[k] = Quote} \cup {Len(t) + 1})

\* findClosingQuote(): how long the string at the beginning of t is, with its
\* quotes, one more than there is if it is not closed.
QuoteEnd(t) ==
    LET escaped[k \in 2 .. Len(t)] == k > 2 /\ t[k - 1] = Backslash /\ ~escaped[k - 1]
    IN  Min({k \in 2 .. Len(t) : t[k] = Quote /\ ~escaped[k]} \cup {Len(t) + 1})

\* findClosingCurly() and findClosingBracket(): how long the object or list at the
\* beginning of t is, or None.  Strings are stepped over.
ClosingEnd(t, open, close) ==
    LET RECURSIVE Scan(_, _)
        Scan(k, level) ==
            IF k >= Len(t) THEN None
            ELSE LET c == t[k + 1]
                     next == IF c = open THEN level + 1
                             ELSE IF c = close THEN level - 1 ELSE level
                 IN  IF c = Quote THEN Scan(k + QuoteEnd(Rest(t, k)), level)
                     ELSE IF next = 0 THEN k + 1 ELSE Scan(k + 1, next)
    IN  Scan(1, 1)

\* removeSpaces()
RECURSIVE RemoveSpaces(_)
RemoveSpaces(t) ==
    IF t = <<>> THEN <<>>
    ELSE IF Head(t) = Quote
         THEN SubSeq(t, 1, QuoteEnd(t)) \o RemoveSpaces(Rest(t, QuoteEnd(t)))
         ELSE (IF Head(t) \in {" ", NewLine, "tab"} THEN <<>> ELSE <<Head(t)>>)
              \o RemoveSpaces(Tail(t))

\* parseString(): what is between the quotes.
StringAt(t) == IF At(t, 1) = Quote THEN SubSeq(t, 2, QuoteEnd(t) - 1) ELSE <<>>

\* parseNakedValue()
NakedAt(t) ==
    SubSeq(t, 1, Max({k \in 0 .. Len(t) : \A j \in 1 .. k : t[j] \in NakedChars}))

\* validateNakedValue()
NakedType(t) ==
    IF t = <<"true">> THEN "bool"
    ELSE IF \/ \E k \in DOMAIN t : t[k] \notin {"1", ".", "-"}
            \/ \E k \in DOMAIN t : t[k] = "-" /\ k > 1
            \/ Cardinality({k \in DOMAIN t : t[k] = "."}) > 1
    THEN "illegal"
    ELSE "number"

\* unEscapeString(): a backslash before another character stays.
RECURSIVE UnEscape(_)
UnEscape(t) ==
    IF t = <<>> THEN <<>>
    ELSE IF Head(t) = Backslash /\ At(t, 2) \in {Quote, "n", Backslash}
         THEN <<IF t[2] = "n" THEN NewLine ELSE t[2]>> \o UnEscape(Rest(t, 2))
         ELSE <<Head(t)>> \o UnEscape(Tail(t))

\* A Value: its text and its type.
Value(text, type) ==
    [value |-> IF type = "bool" THEN text ELSE UnEscape(text), type |-> type]

Invalid == [type |-> "invalid", size |-> 0]

\* getValue(), and the Object, List or Value that is made of what it returns, which
\* parseObject() and parseList() read again.
RECURSIVE GetValue(_), ParseObject(_), ParseList(_)
GetValue(t) ==
    LET c == At(t, 1)
        curly == ClosingEnd(t, "{", "}")
        bracket == ClosingEnd(t, "[", "]")
        naked == NakedAt(t)
        text == StringAt(t)
    IN  CASE c = "{" /\ curly # None ->
               [type |-> "object", size |-> curly, made |-> ParseObject(SubSeq(t, 1, curly))]
          [] c = "[" /\ bracket # None ->
               [type |-> "list", size |-> bracket, made |-> ParseList(SubSeq(t, 1, bracket))]
          [] c = Quote ->
               [type |-> "string", size |-> Len(text) + 2, made |-> Value(text, "string")]
          [] c \in NakedChars ->
               [type |-> "naked", size |-> Len(naked),
                made |-> Value(IF NakedType(naked) = "illegal" THEN <<"illegal">> ELSE naked,
                               NakedType(naked))]
          [] OTHER -> Invalid

\* Mutant of ParseObject: what follows a comma is not read.
OnePair(t) ==
    LET text == Rest(t, 1)
        key == StringAt(text)
        val == GetValue(Rest(text, Len(key) + 3))
    IN  IF key = <<>> \/ At(text, Len(key) + 3) # ":" \/ val.type = "invalid" THEN <<>>
        ELSE [k \in {key} |-> val.made]

\* parseObject() with getPair(): the members read until something is wrong.
ParseObject(t) ==
    LET RECURSIVE Pairs(_, _)
        Pairs(text, members) ==
            LET key == StringAt(text)
                colon == Len(key) + 3
                val == GetValue(Rest(text, colon))
                after == colon + val.size + 1
                more == [k \in DOMAIN members \cup {key} |->
                            IF k = key THEN val.made ELSE members[k]]
            IN  IF key = <<>> \/ At(text, colon) # ":" \/ val.type = "invalid" THEN members
                ELSE IF At(text, after) = "," THEN Pairs(Rest(text, after), more) ELSE more
    IN  IF At(t, 1) = "{" THEN Pairs(Rest(t, 1), <<>>) ELSE <<>>

\* parseList(): the members are numbered, which an Object's are not.
ParseList(t) ==
    LET RECURSIVE Items(_, _)
        Items(text, members) ==
            LET val == GetValue(text)
                more == Append(members, val.made)
            IN  IF val.type = "invalid" THEN members
                ELSE IF At(text, val.size + 1) = "," THEN Items(Rest(text, val.size + 1), more)
                ELSE more
    IN  [list |-> IF At(t, 1) = "[" THEN Items(Rest(t, 1), <<>>) ELSE <<>>]

-----------------------------------------------------------------------------
(* stringify()                                                             *)

\* escapeString()
Escape(t) ==
    FlattenSeq([k \in DOMAIN t |->
        CASE t[k] \in {Quote, Backslash} -> <<Backslash, t[k]>>
          [] t[k] = NewLine -> <<Backslash, "n">>
          [] OTHER -> <<t[k]>>])

\* What stringify(true) adds, and stringify(false) does not.
Break(level) == IF level = None THEN <<>> ELSE <<NewLine>>
Tabs(level) == [k \in 1 .. level |-> "tab"]

\* A document: an Object is a sequence of pairs, a List one of documents.
RECURSIVE Stringify(_, _), StringifyObject(_, _), StringifyList(_, _)

\* Levels below the one that is written, and the end of member k of s.
Inner(level) == IF level = None THEN None ELSE level + 1
Outdent(level) == IF level = None THEN <<>> ELSE Tabs(level - 1)
Comma(k, s, level) == (IF k < Len(s) THEN <<",">> ELSE <<>>) \o Break(level)

StringifyObject(pairs, level) ==
    <<"{">> \o Break(level)
    \o FlattenSeq([k \in DOMAIN pairs |->
          Tabs(level) \o <<Quote>> \o pairs[k][1] \o <<Quote, " ", ":", " ">>
          \o Stringify(pairs[k][2], Inner(level)) \o Comma(k, pairs, level)])
    \o Outdent(level) \o <<"}">>

StringifyList(items, level) ==
    <<"[">> \o Break(level)
    \o FlattenSeq([k \in DOMAIN items |->
          Tabs(level) \o Stringify(items[k], Inner(level)) \o Comma(k, items, level)])
    \o Outdent(level) \o <<"]">>

StringifyValue(doc) ==
    IF doc.is = "string" THEN <<Quote>> \o Escape(doc.value) \o <<Quote>> ELSE doc.value

Stringify(doc, level) ==
    CASE doc.is = "object" -> StringifyObject(doc.pairs, level)
      [] doc.is = "list" -> StringifyList(doc.items, level)
      [] OTHER -> StringifyValue(doc)

\* parse()
Parse(t) == ParseObject(RemoveSpaces(t))

-----------------------------------------------------------------------------
(* The documents the application makes                                     *)

\* addValue() and operator=, on a string of one more character.
Type(c) == Len(string) < MaxLength /\ string' = Append(string, c)

Init == string = <<>>
Next == \E c \in Chars : Type(c)
Spec == Init /\ [][Next]_string

Text(t) == [is |-> "string", value |-> t]
Naked(t) == [is |-> "naked", value |-> t]
List(s) == [is |-> "list", items |-> s]
Object(s) == [is |-> "object", pairs |-> s]

\* A key is written as it is: it must not have a quote or a backslash in it.
Key == IF ToSet(string) \cap {Quote, Backslash} = {} THEN Append(string, "n") ELSE <<"n">>

Documents ==
    LET s == Text(string)
        deep == List(<<Object(<<<<Key, s>>>>), List(<<>>), List(<<s, s>>)>>)
    IN  {Object(<<>>), Object(<<<<Key, s>>>>), Object(<<<<Key, deep>>>>)}
        \cup {Object(<<<<Key, s>>, <<<<"1">>, Naked(n)>>>>) : n \in Numbers}
        \cup {Object(<<<<<<"1">>, Object(<<<<Key, Naked(n)>>>>)>>, <<Key, s>>>>) : n \in Numbers}
        \cup {Object(<<<<<<"1">>, List(<<Naked(n), s, Naked(n)>>)>>>>) : n \in Numbers}

\* What a document says, whatever the order of its members.
RECURSIVE Meaning(_)
Meaning(doc) ==
    CASE doc.is = "object" ->
           [k \in {doc.pairs[j][1] : j \in DOMAIN doc.pairs} |->
               Meaning(doc.pairs[CHOOSE j \in DOMAIN doc.pairs : doc.pairs[j][1] = k][2])]
      [] doc.is = "list" -> [list |-> [k \in DOMAIN doc.items |-> Meaning(doc.items[k])]]
      [] doc.is = "string" -> [value |-> doc.value, type |-> "string"]
      [] doc.is = "naked" -> [value |-> doc.value, type |-> NakedType(doc.value)]

-----------------------------------------------------------------------------
(* Properties                                                              *)

\* What is written of a document is read as that document, formatted or not, what-
\* ever characters of the syntax its strings hold and however they end.
RoundTrip ==
    \A doc \in Documents, level \in {None, 1} : Parse(Stringify(doc, level)) = Meaning(doc)

\* Text that follows a string cannot be taken into it, nor the string end early:
\* the parser finds the quote that stringify() wrote as the last one.
StringsAreWhole ==
    \A c \in Chars :
        QuoteEnd(<<Quote>> \o Escape(string) \o <<Quote, c, Quote>>) = Len(Escape(string)) + 2

=============================================================================
