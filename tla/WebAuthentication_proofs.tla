---------------------- MODULE WebAuthentication_proofs ----------------------
(***************************************************************************)
(* Proofs about WebAuthentication: every request is read as it is meant,   *)
(* a session lasts for its time, and no longer.  What the lookups of       *)
(* HTTPRequest find is proved token by token.                              *)
(***************************************************************************)
EXTENDS WebAuthentication, FiniteSetTheorems, SequenceTheorems, WellFoundedInduction, TLAPS

-----------------------------------------------------------------------------
(* The operators of HTTPRequest                                            *)

\* The least number of a set.
LEMMA MinIs ==
    ASSUME NEW T, T \subseteq Int, NEW m \in T, \A n \in T : m <= n
    PROVE  Min(T) = m
<1>1. Min(T) \in T /\ \A n \in T : Min(T) <= n
  BY Zenon DEF Min
<1>2. Min(T) \in Int /\ m \in Int /\ Min(T) <= m /\ m <= Min(T)
  BY <1>1
<1> QED
  BY <1>2

\* The greatest number of a set.
LEMMA MaxIs ==
    ASSUME NEW T, T \subseteq Int, NEW m \in T, \A n \in T : n <= m
    PROVE  Max(T) = m
<1>0. \A n \in T : m >= n
  OBVIOUS
<1>1. Max(T) \in T /\ \A n \in T : Max(T) >= n
  BY <1>0, Zenon DEF Max
<1>2. Max(T) \in Int /\ m \in Int /\ Max(T) >= m /\ m >= Max(T)
  BY <1>1
<1> QED
  BY <1>2

\* A sequence of the tokens of a line.
LEMMA LineType ==
    ASSUME NEW n \in Nat, NEW line, line = [k \in 1 .. n |-> line[k]]
    PROVE  /\ line \in Seq({line[k] : k \in 1 .. n})
           /\ Len(line) = n /\ DOMAIN line = 1 .. n
<1> DEFINE S == {line[k] : k \in 1 .. n}
<1>1. line \in [1 .. n -> S]
  OBVIOUS
<1>2. DOMAIN line = 1 .. n
  OBVIOUS
<1> HIDE DEF S
<1>3. line \in Seq(S)
  BY <1>1, SeqDef
<1>4. Len(line) = n
  BY <1>2, <1>3, LenProperties
<1> QED
  BY <1>2, <1>3, <1>4 DEF S

\* A part of a line, token by token.
LEMMA PartIs ==
    ASSUME NEW n \in Nat, NEW line, line = [k \in 1 .. n |-> line[k]],
           NEW a \in 1 .. n + 1, NEW b \in 0 .. n, a <= b + 1
    PROVE  /\ SubSeq(line, a, b) = [k \in 1 .. b - a + 1 |-> line[a + k - 1]]
           /\ Len(SubSeq(line, a, b)) = b - a + 1
<1> DEFINE S == {line[k] : k \in 1 .. n}
<1>1. line \in Seq(S) /\ Len(line) = n
  BY LineType
<1>2. \A k \in a .. b : line[k] \in S
  OBVIOUS
<1> HIDE DEF S
<1>3. /\ SubSeq(line, a, b) \in Seq(S)
      /\ Len(SubSeq(line, a, b)) = IF a <= b THEN b - a + 1 ELSE 0
      /\ \A k \in 1 .. b - a + 1 : SubSeq(line, a, b)[k] = line[a + k - 1]
  <2>1. a \in Int /\ b \in Int
    OBVIOUS
  <2>2. \A i \in 1 .. b - a + 1 : SubSeq(line, a, b)[i] = line[a + i - 1]
    BY <1>2, <2>1, SubSeqProperties
  <2>3. /\ SubSeq(line, a, b) \in Seq(S)
        /\ Len(SubSeq(line, a, b)) = IF a <= b THEN b - a + 1 ELSE 0
    BY <1>2, <2>1, SubSeqProperties
  <2> QED
    BY <2>2, <2>3
<1>4. Len(SubSeq(line, a, b)) = b - a + 1
  BY <1>3
<1>5. DOMAIN SubSeq(line, a, b) = 1 .. b - a + 1
  BY <1>3, <1>4, LenProperties
<1>6. SubSeq(line, a, b) = [k \in 1 .. b - a + 1 |-> SubSeq(line, a, b)[k]]
  <2> DEFINE s == SubSeq(line, a, b)
  <2>1. s \in [1 .. Len(s) -> S]
    BY <1>3, LenProperties
  <2> HIDE DEF s
  <2> QED
    BY <1>4, <2>1 DEF s
<1> QED
  BY <1>3, <1>4, <1>6

\* Where two tokens stand one after the other, and three.
LEMMA PlacesOfTwo ==
    ASSUME NEW line, NEW a, NEW b, Len(line) \in Nat
    PROVE  \A j : j \in Places(line, <<a, b>>) <=>
                     j \in 1 .. Len(line) - 1 /\ line[j] = a /\ line[j + 1] = b
<1> DEFINE text == <<a, b>>
<1>1. Len(text) = 2 /\ DOMAIN text = 1 .. 2 /\ text[1] = a /\ text[2] = b
  OBVIOUS
<1> HIDE DEF text
<1>2. \A j \in Int : j + 1 - 1 = j /\ j + 2 - 1 = j + 1
  OBVIOUS
<1>3. \A j \in Int : (\A k \in DOMAIN text : line[j + k - 1] = text[k])
                     <=> line[j] = a /\ line[j + 1] = b
  BY <1>1, <1>2
<1>4. \A j : j \in Places(line, text) <=>
                j \in 1 .. Len(line) - 1 /\ line[j] = a /\ line[j + 1] = b
  BY <1>1, <1>3 DEF Places
<1> QED
  BY <1>4 DEF text

\* The same of three.
LEMMA PlacesOfThree ==
    ASSUME NEW line, NEW a, NEW b, NEW c, Len(line) \in Nat
    PROVE  \A j : j \in Places(line, <<a, b, c>>) <=>
                     /\ j \in 1 .. Len(line) - 2
                     /\ line[j] = a /\ line[j + 1] = b /\ line[j + 2] = c
<1> DEFINE text == <<a, b, c>>
<1>1. Len(text) = 3 /\ DOMAIN text = 1 .. 3 /\ text[1] = a /\ text[2] = b /\ text[3] = c
  OBVIOUS
<1> HIDE DEF text
<1>2. \A j \in Int : j + 1 - 1 = j /\ j + 2 - 1 = j + 1 /\ j + 3 - 1 = j + 2
  OBVIOUS
<1>3. \A j \in Int : (\A k \in DOMAIN text : line[j + k - 1] = text[k])
                     <=> line[j] = a /\ line[j + 1] = b /\ line[j + 2] = c
  BY <1>1, <1>2
<1>4. \A j : j \in Places(line, text) <=>
                /\ j \in 1 .. Len(line) - 2
                /\ line[j] = a /\ line[j + 1] = b /\ line[j + 2] = c
  BY <1>1, <1>3 DEF Places
<1> QED
  BY <1>4 DEF text

\* How many quotes stand before position j.
Quotes(line, j) == Cardinality({k \in 1 .. j - 1 : line[k] = Quote})

\* A token adds one to the quotes before the next, if it is one.
LEMMA QuotesStep ==
    ASSUME NEW line
    PROVE  /\ Quotes(line, 1) = 0
           /\ \A j \in Nat \ {0} :
                 /\ Quotes(line, j) \in Nat
                 /\ Quotes(line, j + 1) = Quotes(line, j) + (IF line[j] = Quote THEN 1 ELSE 0)
<1> DEFINE Q(j) == {k \in 1 .. j - 1 : line[k] = Quote}
<1>1. Q(1) = {}
  OBVIOUS
<1>2. ASSUME NEW j \in Nat \ {0} PROVE IsFiniteSet(Q(j))
  <2>1. IsFiniteSet(1 .. j - 1) /\ Q(j) \in SUBSET (1 .. j - 1)
    BY FS_Interval
  <2> HIDE DEF Q
  <2> QED
    BY <2>1, FS_Subset
<1>3. ASSUME NEW j \in Nat \ {0}
      PROVE  Q(j + 1) = IF line[j] = Quote THEN Q(j) \cup {j} ELSE Q(j)
  <2>1. (j + 1) - 1 = j /\ \A k \in Int : k \in 1 .. j <=> k \in 1 .. j - 1 \/ k = j
    OBVIOUS
  <2> QED
    BY <2>1
<1>4. \A j \in Nat \ {0} : j \notin Q(j)
  OBVIOUS
<1>5. \A j : Quotes(line, j) = Cardinality(Q(j))
  BY DEF Quotes
<1> HIDE DEF Q
<1>6. ASSUME NEW j \in Nat \ {0}
      PROVE  Cardinality(Q(j + 1)) = Cardinality(Q(j)) + (IF line[j] = Quote THEN 1 ELSE 0)
  <2>1. Cardinality(Q(j)) \in Nat
    BY <1>2, FS_CardinalityType
  <2>2. Cardinality(Q(j) \cup {j}) = Cardinality(Q(j)) + 1
    BY <1>2, <1>4, FS_AddElement
  <2>3. CASE line[j] = Quote
    BY <1>3, <2>2, <2>3
  <2>4. CASE line[j] # Quote
    <3>1. Q(j + 1) = Q(j)
      BY <1>3, <2>4
    <3> QED
      BY <2>1, <2>4, <3>1
  <2> QED
    BY <2>3, <2>4
<1>7. \A j \in Nat \ {0} : Cardinality(Q(j)) \in Nat
  BY <1>2, FS_CardinalityType
<1> QED
  BY <1>1, <1>5, <1>6, <1>7, FS_EmptySet

-----------------------------------------------------------------------------
(* The lines of a header                                                   *)

\* The marks and the space are different.
LEMMA MarksAreDifferent ==
    /\ Quote \notin {Colon, Equals, Semicolon, Comma, Space}
    /\ Comma \notin {Colon, Equals, Semicolon, Space}
    /\ Semicolon \notin {Colon, Equals, Space}
    /\ Equals \notin {Colon, Space}
    /\ Colon # Space
BY Zenon DEF Quote, Comma, Semicolon, Equals, Colon, Space

\* No word is a mark.
LEMMA WordsAreNoMarks ==
    \A word \in {"get", "/rest", "http/1.1", "x-", "cookie", "session", "forwarded", "theme",
                 "dark", "blue", "authorization", "digest", "username", "user", "realm", "dumais",
                 "nonce", "uri", "response", "wrong", Space} :
        word \notin Marks
BY Zenon DEF Marks, Quote, Comma, Semicolon, Equals, Colon, Space

\* A line that answers a 401 has 38 tokens.
LEMMA AuthLineIs ==
    ASSUME NEW n, NEW r
    PROVE  AuthLine(n, r) = [k \in 1 .. 38 |-> AuthLine(n, r)[k]]
BY DEF AuthLine

\* What stands behind "Authorization: ".
Digest(n, r) == SubSeq(AuthLine(n, r), 4, 38)

\* The fields, token by token.
IsDigest(line, n, r) ==
    /\ line = [k \in 1 .. 35 |-> line[k]] /\ Len(line) = 35
    /\ line[1] = "digest" /\ line[2] = Space /\ line[3] = "username" /\ line[4] = Equals /\ line[5] = Quote
    /\ line[6] = "user" /\ line[7] = Quote /\ line[8] = Comma /\ line[9] = Space /\ line[10] = "realm"
    /\ line[11] = Equals /\ line[12] = Quote /\ line[13] = "dumais" /\ line[14] = Quote /\ line[15] = Comma
    /\ line[16] = Space /\ line[17] = "nonce" /\ line[18] = Equals /\ line[19] = Quote /\ line[20] = n
    /\ line[21] = Quote /\ line[22] = Comma /\ line[23] = Space /\ line[24] = "uri" /\ line[25] = Equals
    /\ line[26] = Quote /\ line[27] = "/rest" /\ line[28] = Equals /\ line[29] = Quote /\ line[30] = Comma
    /\ line[31] = "response" /\ line[32] = Equals /\ line[33] = Quote /\ line[34] = r /\ line[35] = Quote

\* What stands behind "Authorization: " is these fields.
LEMMA DigestIs ==
    ASSUME NEW n, NEW r
    PROVE  IsDigest(Digest(n, r), n, r)
<1> DEFINE all == AuthLine(n, r)
           line == Digest(n, r)
<1>1. all = [k \in 1 .. 38 |-> all[k]]
  BY AuthLineIs
<1> HIDE DEF all
<1>2. SubSeq(all, 4, 38) = [k \in 1 .. 38 - 4 + 1 |-> all[4 + k - 1]]
      /\ Len(SubSeq(all, 4, 38)) = 38 - 4 + 1
  BY <1>1, PartIs
<1>3. line = [k \in 1 .. 35 |-> all[k + 3]] /\ Len(line) = 35
  <2>1. \A k \in 1 .. 35 : 4 + k - 1 = k + 3
    OBVIOUS
  <2> QED
    BY <1>2, <2>1 DEF Digest, all
<1> HIDE DEF line
<1>4. \A k \in 1 .. 35 : line[k] = all[k + 3]
  BY <1>3
<1>5. line = [k \in 1 .. 35 |-> line[k]]
  BY <1>3
<1>6. line[1] = "digest" /\ line[2] = Space /\ line[3] = "username" /\ line[4] = Equals /\ line[5] = Quote
  <2>1. all[4] = "digest" /\ all[5] = Space /\ all[6] = "username" /\ all[7] = Equals /\ all[8] = Quote
    BY DEF all, AuthLine
  <2> QED
    BY <1>4, <2>1
<1>7. line[6] = "user" /\ line[7] = Quote /\ line[8] = Comma /\ line[9] = Space /\ line[10] = "realm"
  <2>1. all[9] = "user" /\ all[10] = Quote /\ all[11] = Comma /\ all[12] = Space /\ all[13] = "realm"
    BY DEF all, AuthLine
  <2> QED
    BY <1>4, <2>1
<1>8. line[11] = Equals /\ line[12] = Quote /\ line[13] = "dumais" /\ line[14] = Quote /\ line[15] = Comma
  <2>1. all[14] = Equals /\ all[15] = Quote /\ all[16] = "dumais" /\ all[17] = Quote /\ all[18] = Comma
    BY DEF all, AuthLine
  <2> QED
    BY <1>4, <2>1
<1>9. line[16] = Space /\ line[17] = "nonce" /\ line[18] = Equals /\ line[19] = Quote /\ line[20] = n
  <2>1. all[19] = Space /\ all[20] = "nonce" /\ all[21] = Equals /\ all[22] = Quote /\ all[23] = n
    BY DEF all, AuthLine
  <2> QED
    BY <1>4, <2>1
<1>10. line[21] = Quote /\ line[22] = Comma /\ line[23] = Space /\ line[24] = "uri" /\ line[25] = Equals
  <2>1. all[24] = Quote /\ all[25] = Comma /\ all[26] = Space /\ all[27] = "uri" /\ all[28] = Equals
    BY DEF all, AuthLine
  <2> QED
    BY <1>4, <2>1
<1>11. line[26] = Quote /\ line[27] = "/rest" /\ line[28] = Equals /\ line[29] = Quote /\ line[30] = Comma
  <2>1. all[29] = Quote /\ all[30] = "/rest" /\ all[31] = Equals /\ all[32] = Quote /\ all[33] = Comma
    BY DEF all, AuthLine
  <2> QED
    BY <1>4, <2>1
<1>12. line[31] = "response" /\ line[32] = Equals /\ line[33] = Quote /\ line[34] = r /\ line[35] = Quote
  <2>1. all[34] = "response" /\ all[35] = Equals /\ all[36] = Quote /\ all[37] = r /\ all[38] = Quote
    BY DEF all, AuthLine
  <2> QED
    BY <1>4, <2>1
<1>13. IsDigest(line, n, r)
  BY <1>3, <1>5, <1>6, <1>7, <1>8, <1>9, <1>10, <1>11, <1>12 DEF IsDigest
<1> QED
  BY <1>13 DEF line

\* Where the quotes, the "=" and the other marks of the fields stand.
LEMMA MarksOfDigest ==
    ASSUME NEW line, NEW n, NEW r, IsDigest(line, n, r), n \notin Marks, r \notin Marks,
           NEW k \in 1 .. 35
    PROVE  /\ line[k] = Quote <=> k \in {5, 7, 12, 14, 19, 21, 26, 29, 33, 35}
           /\ line[k] = Equals <=> k \in {4, 11, 18, 25, 28, 32}
           /\ line[k] \in Marks <=> k \in {4, 5, 7, 8, 11, 12, 14, 15, 18, 19, 21, 22, 25, 26, 28,
                                         29, 30, 32, 33, 35}
<1> DEFINE quotes == {5, 7, 12, 14, 19, 21, 26, 29, 33, 35}
           equals == {4, 11, 18, 25, 28, 32}
           others == {8, 15, 22, 30}
           words == {1, 2, 3, 6, 9, 10, 13, 16, 17, 20, 23, 24, 27, 31, 34}
<1>1. Quote \in Marks /\ Equals \in Marks /\ Comma \in Marks
  BY Zenon DEF Marks
<1>2. Quote # Equals /\ Quote # Comma /\ Equals # Comma
  BY MarksAreDifferent, Zenon
<1>3. {"digest", "username", "user", "realm", "dumais", "nonce", "uri", "/rest", "response", Space}
         \cap Marks = {}
  BY WordsAreNoMarks, Zenon
<1>4. k \in quotes => line[k] = Quote
  BY DEF IsDigest
<1>5. k \in equals => line[k] = Equals
  BY DEF IsDigest
<1>6. k \in others => line[k] = Comma
  BY DEF IsDigest
<1>7. k \in words => line[k] \notin Marks
  BY <1>3 DEF IsDigest
<1>8. k \in quotes \/ k \in equals \/ k \in others \/ k \in words
  OBVIOUS
<1>9. CASE k \in quotes
  BY <1>1, <1>2, <1>4, <1>9
<1>10. CASE k \in equals
  BY <1>1, <1>2, <1>5, <1>10
<1>11. CASE k \in others
  BY <1>1, <1>2, <1>6, <1>11
<1>12. CASE k \in words
  BY <1>1, <1>7, <1>12
<1> QED
  BY <1>8, <1>9, <1>10, <1>11, <1>12

\* Where a value in quotes begins.
LEMMA QuotedPlaces ==
    ASSUME NEW line, Len(line) \in Nat
    PROVE  \A j : j \in Places(line, <<Equals, Quote>>) <=>
                     j \in 1 .. Len(line) - 1 /\ line[j] = Equals /\ line[j + 1] = Quote
<1> DEFINE a == Equals
           b == Quote
<1>1. \A j : j \in Places(line, <<a, b>>) <=>
                j \in 1 .. Len(line) - 1 /\ line[j] = a /\ line[j + 1] = b
  <2> HIDE DEF a, b
  <2> QED
    BY PlacesOfTwo
<1> QED
  BY <1>1

\* The places of a value in quotes that is outside quotes itself, and the key before it.
LEMMA FieldsOfDigest ==
    ASSUME NEW line, NEW n, NEW r, IsDigest(line, n, r), n \notin Marks, r \notin Marks
    PROVE  /\ Places(line, <<Equals, Quote>>) = {4, 11, 18, 25, 28, 32}
           /\ \A j \in {4, 11, 18, 25, 32} : Unquoted(line, j)
           /\ ~Unquoted(line, 28)
<1>1. Places(line, <<Equals, Quote>>) = {4, 11, 18, 25, 28, 32}
  <2>1. Len(line) = 35 /\ Len(line) \in Nat
    BY DEF IsDigest
  <2>2. \A j : j \in Places(line, <<Equals, Quote>>) <=>
                  j \in 1 .. Len(line) - 1 /\ line[j] = Equals /\ line[j + 1] = Quote
    BY <2>1, QuotedPlaces
  <2>3. \A j \in 1 .. 34 : line[j] = Equals /\ line[j + 1] = Quote <=> j \in {4, 11, 18, 25, 28, 32}
    <3> SUFFICES ASSUME NEW j \in 1 .. 34
                 PROVE  line[j] = Equals /\ line[j + 1] = Quote <=> j \in {4, 11, 18, 25, 28, 32}
      OBVIOUS
    <3>1. line[j] = Equals <=> j \in {4, 11, 18, 25, 28, 32}
      BY MarksOfDigest
    <3>2. j + 1 \in 1 .. 35
      OBVIOUS
    <3>3. line[j + 1] = Quote <=> j + 1 \in {5, 7, 12, 14, 19, 21, 26, 29, 33, 35}
      BY <3>2, MarksOfDigest
    <3> QED
      BY <3>1, <3>3
  <2>4. Len(line) - 1 = 34 /\ {4, 11, 18, 25, 28, 32} \subseteq 1 .. 34
    BY <2>1
  <2>5. \A j : j \in Places(line, <<Equals, Quote>>) <=> j \in {4, 11, 18, 25, 28, 32}
    BY <2>2, <2>3, <2>4, ZenonT(30)
  <2> QED
    BY <2>5, Zenon
<1> DEFINE Q(j) == Quotes(line, j)
<1>2. \A j \in 1 .. 35 :
         Q(j) \in Nat /\ Q(j + 1) = Q(j) + (IF j \in {5, 7, 12, 14, 19, 21, 26, 29, 33, 35} THEN 1 ELSE 0)
  <2> SUFFICES ASSUME NEW j \in 1 .. 35
               PROVE  Q(j) \in Nat /\ Q(j + 1) = Q(j) + (IF j \in {5, 7, 12, 14, 19, 21, 26, 29, 33, 35} THEN 1 ELSE 0)
    OBVIOUS
  <2>1. line[j] = Quote <=> j \in {5, 7, 12, 14, 19, 21, 26, 29, 33, 35}
    BY MarksOfDigest
  <2> QED
    BY <2>1, QuotesStep
<1>3. Q(1) = 0
  BY QuotesStep
<1> HIDE DEF Q
<1>4. Q(4) = 0
  <2>1. Q(1 + 1) = Q(1) /\ Q(2 + 1) = Q(2) /\ Q(3 + 1) = Q(3)
    BY <1>2
  <2> QED
    BY <1>3, <2>1
<1>5. Q(8) = 2
  <2>1. Q(4 + 1) = Q(4) /\ Q(5 + 1) = Q(5) + 1 /\ Q(6 + 1) = Q(6) /\ Q(7 + 1) = Q(7) + 1
    BY <1>2
  <2> QED
    BY <1>4, <2>1
<1>6. Q(11) = 2
  <2>1. Q(8 + 1) = Q(8) /\ Q(9 + 1) = Q(9) /\ Q(10 + 1) = Q(10)
    BY <1>2
  <2> QED
    BY <1>5, <2>1
<1>7. Q(15) = 4
  <2>1. Q(11 + 1) = Q(11) /\ Q(12 + 1) = Q(12) + 1 /\ Q(13 + 1) = Q(13) /\ Q(14 + 1) = Q(14) + 1
    BY <1>2
  <2> QED
    BY <1>6, <2>1
<1>8. Q(18) = 4
  <2>1. Q(15 + 1) = Q(15) /\ Q(16 + 1) = Q(16) /\ Q(17 + 1) = Q(17)
    BY <1>2
  <2> QED
    BY <1>7, <2>1
<1>9. Q(22) = 6
  <2>1. Q(18 + 1) = Q(18) /\ Q(19 + 1) = Q(19) + 1 /\ Q(20 + 1) = Q(20) /\ Q(21 + 1) = Q(21) + 1
    BY <1>2
  <2> QED
    BY <1>8, <2>1
<1>10. Q(25) = 6
  <2>1. Q(22 + 1) = Q(22) /\ Q(23 + 1) = Q(23) /\ Q(24 + 1) = Q(24)
    BY <1>2
  <2> QED
    BY <1>9, <2>1
<1>11. Q(28) = 7
  <2>1. Q(25 + 1) = Q(25) /\ Q(26 + 1) = Q(26) + 1 /\ Q(27 + 1) = Q(27)
    BY <1>2
  <2> QED
    BY <1>10, <2>1
<1>12. Q(32) = 8
  <2>1. Q(28 + 1) = Q(28) /\ Q(29 + 1) = Q(29) + 1 /\ Q(30 + 1) = Q(30) /\ Q(31 + 1) = Q(31)
    BY <1>2
  <2> QED
    BY <1>11, <2>1
<1>13. \A j : Unquoted(line, j) <=> Q(j) % 2 = 0
  BY DEF Unquoted, Q, Quotes
<1>14. 0 % 2 = 0 /\ 2 % 2 = 0 /\ 4 % 2 = 0 /\ 6 % 2 = 0 /\ 8 % 2 = 0 /\ 7 % 2 # 0
  OBVIOUS
<1>15. ASSUME NEW j \in {4, 11, 18, 25, 32} PROVE Unquoted(line, j)
  BY <1>4, <1>6, <1>8, <1>10, <1>12, <1>13, <1>14
<1> QED
  BY <1>1, <1>11, <1>13, <1>14, <1>15

\* The key before position j begins behind the last mark before j, and its space.
LEMMA KeyIs ==
    ASSUME NEW line, NEW j \in Nat, NEW m \in 0 .. j - 1, m = 0 \/ line[m] \in Marks,
           \A k \in m + 1 .. j - 1 : line[k] \notin Marks
    PROVE  KeyBefore(line, j) =
              SubSeq(line, IF m + 1 < j /\ line[m + 1] = Space THEN m + 2 ELSE m + 1, j - 1)
<1> DEFINE marks == {k \in 1 .. j - 1 : line[k] \in Marks} \cup {0}
<1>1. marks \subseteq Int /\ m \in marks /\ \A k \in marks : k <= m
  OBVIOUS
<1>2. KeyBefore(line, j) =
         LET start == Max(marks) + 1
         IN  SubSeq(line, IF start < j /\ line[start] = Space THEN start + 1 ELSE start, j - 1)
  BY DEF KeyBefore
<1> HIDE DEF marks
<1>3. Max(marks) = m
  BY <1>1, MaxIs
<1>4. (m + 1) + 1 = m + 2
  OBVIOUS
<1> QED
  BY <1>2, <1>3, <1>4

\* A part of one token.
LEMMA OneToken ==
    ASSUME NEW n \in Nat, NEW line, line = [k \in 1 .. n |-> line[k]], NEW a \in 1 .. n
    PROVE  SubSeq(line, a, a) = <<line[a]>>
<1> DEFINE s == SubSeq(line, a, a)
<1>1. /\ s = [k \in 1 .. a - a + 1 |-> line[a + k - 1]]
      /\ a \in Int /\ a - a + 1 = 1
  <2>1. a \in 1 .. n + 1 /\ a \in 0 .. n /\ a <= a + 1
    OBVIOUS
  <2> QED
    BY <2>1, PartIs
<1> HIDE DEF s
<1>2. \A k \in 1 .. 1 : a + k - 1 = a
  BY <1>1
<1>3. s = [k \in 1 .. 1 |-> s[k]] /\ s[1] = line[a]
  BY <1>1, <1>2
<1>4. s \in Seq({line[a]}) /\ Len(s) = 1
  <2>1. s \in [1 .. 1 -> {line[a]}] /\ DOMAIN s = 1 .. 1
    BY <1>3
  <2>2. s \in Seq({line[a]})
    BY <2>1, SeqDef
  <2> QED
    BY <2>1, <2>2, LenProperties
<1>5. s = <<line[a]>>
  <2>1. <<line[a]>> \in Seq({line[a]}) /\ Len(<<line[a]>>) = 1 /\ <<line[a]>>[1] = line[a]
    OBVIOUS
  <2>2. \A i \in 1 .. Len(s) : s[i] = <<line[a]>>[i]
    BY <1>3, <1>4, <2>1
  <2> QED
    BY <1>4, <2>1, <2>2, SeqEqual
<1> QED
  BY <1>5 DEF s

\* The same of the fields.
LEMMA TokenOfDigest ==
    ASSUME NEW line, NEW n, NEW r, IsDigest(line, n, r), NEW a \in 1 .. 35
    PROVE  SubSeq(line, a, a) = <<line[a]>>
<1>1. line = [k \in 1 .. 35 |-> line[k]] /\ 35 \in Nat
  BY DEF IsDigest
<1> QED
  BY <1>1, OneToken, Zenon

\* The key of each field.
LEMMA KeysOfDigest ==
    ASSUME NEW line, NEW n, NEW r, IsDigest(line, n, r), n \notin Marks, r \notin Marks
    PROVE  /\ KeyBefore(line, 4) = <<"digest", Space, "username">>
           /\ KeyBefore(line, 11) = <<"realm">>
           /\ KeyBefore(line, 18) = <<"nonce">>
           /\ KeyBefore(line, 25) = <<"uri">>
           /\ KeyBefore(line, 32) = <<"response">>
<1>0. line = [k \in 1 .. 35 |-> line[k]]
  BY DEF IsDigest
<1>1. KeyBefore(line, 4) = <<"digest", Space, "username">>
  <2>1. \A k \in 0 + 1 .. 4 - 1 : line[k] \notin Marks
    BY MarksOfDigest
  <2>2. line[1] = "digest" /\ line[2] = Space /\ line[3] = "username"
    BY DEF IsDigest
  <2>3. line[1] # Space
    <3>1. "digest" # Space
      BY Zenon DEF Space
    <3> QED
      BY <2>2, <3>1, Zenon
  <2>4. KeyBefore(line, 4) = SubSeq(line, 1, 3)
    <3>1. KeyBefore(line, 4) =
             SubSeq(line, IF 0 + 1 < 4 /\ line[0 + 1] = Space THEN 0 + 2 ELSE 0 + 1, 4 - 1)
      BY <2>1, KeyIs
    <3> QED
      BY <2>3, <3>1
  <2>5. SubSeq(line, 1, 3) = [k \in 1 .. 3 - 1 + 1 |-> line[1 + k - 1]]
    BY <1>0, PartIs
  <2>6. SubSeq(line, 1, 3) = [k \in 1 .. 3 |-> line[k]]
    BY <2>5
  <2> QED
    BY <2>2, <2>4, <2>6
<1>2. KeyBefore(line, 11) = <<"realm">>
  <2>1. line[8] \in Marks /\ \A k \in 8 + 1 .. 11 - 1 : line[k] \notin Marks
    BY MarksOfDigest
  <2>2. line[9] = Space /\ line[10] = "realm"
    BY DEF IsDigest
  <2>3. KeyBefore(line, 11) = SubSeq(line, 10, 10)
    <3>1. KeyBefore(line, 11) =
             SubSeq(line, IF 8 + 1 < 11 /\ line[8 + 1] = Space THEN 8 + 2 ELSE 8 + 1, 11 - 1)
      BY <2>1, KeyIs
    <3> QED
      BY <2>2, <3>1
  <2> QED
    BY <2>2, <2>3, TokenOfDigest
<1>3. KeyBefore(line, 18) = <<"nonce">>
  <2>1. line[15] \in Marks /\ \A k \in 15 + 1 .. 18 - 1 : line[k] \notin Marks
    BY MarksOfDigest
  <2>2. line[16] = Space /\ line[17] = "nonce"
    BY DEF IsDigest
  <2>3. KeyBefore(line, 18) = SubSeq(line, 17, 17)
    <3>1. KeyBefore(line, 18) =
             SubSeq(line, IF 15 + 1 < 18 /\ line[15 + 1] = Space THEN 15 + 2 ELSE 15 + 1, 18 - 1)
      BY <2>1, KeyIs
    <3> QED
      BY <2>2, <3>1
  <2> QED
    BY <2>2, <2>3, TokenOfDigest
<1>4. KeyBefore(line, 25) = <<"uri">>
  <2>1. line[22] \in Marks /\ \A k \in 22 + 1 .. 25 - 1 : line[k] \notin Marks
    BY MarksOfDigest
  <2>2. line[23] = Space /\ line[24] = "uri"
    BY DEF IsDigest
  <2>3. KeyBefore(line, 25) = SubSeq(line, 24, 24)
    <3>1. KeyBefore(line, 25) =
             SubSeq(line, IF 22 + 1 < 25 /\ line[22 + 1] = Space THEN 22 + 2 ELSE 22 + 1, 25 - 1)
      BY <2>1, KeyIs
    <3> QED
      BY <2>2, <3>1
  <2> QED
    BY <2>2, <2>3, TokenOfDigest
<1>5. KeyBefore(line, 32) = <<"response">>
  <2>1. line[30] \in Marks /\ \A k \in 30 + 1 .. 32 - 1 : line[k] \notin Marks
    BY MarksOfDigest
  <2>2. line[31] = "response"
    BY DEF IsDigest
  <2>3. line[31] # Space
    <3>1. "response" # Space
      BY Zenon DEF Space
    <3> QED
      BY <2>2, <3>1, Zenon
  <2>4. KeyBefore(line, 32) = SubSeq(line, 31, 31)
    <3>1. KeyBefore(line, 32) =
             SubSeq(line, IF 30 + 1 < 32 /\ line[30 + 1] = Space THEN 30 + 2 ELSE 30 + 1, 32 - 1)
      BY <2>1, KeyIs
    <3> QED
      BY <2>3, <3>1
  <2> QED
    BY <2>2, <2>4, TokenOfDigest
<1> QED
  BY <1>1, <1>2, <1>3, <1>4, <1>5

\* A key that one field has stands for what is between the quotes behind it.
LEMMA FieldIs ==
    ASSUME NEW line, NEW n, NEW r, IsDigest(line, n, r), n \notin Marks, r \notin Marks,
           NEW key, NEW j \in {4, 18, 32}, KeyBefore(line, j) = key,
           \A i \in {4, 11, 18, 25, 32} : KeyBefore(line, i) = key => i = j
    PROVE  AuthField(line, key) = <<line[j + 2]>>
<1> DEFINE places == {i \in Places(line, <<Equals, Quote>>) :
                         Unquoted(line, i) /\ KeyBefore(line, i) = key
                           /\ \E k \in i + 2 .. Len(line) : line[k] = Quote}
           quotes == {k \in j + 2 .. Len(line) : line[k] = Quote}
<1>0. line = [k \in 1 .. 35 |-> line[k]] /\ Len(line) = 35
  BY DEF IsDigest
<1>1. quotes \subseteq Int /\ j + 3 \in quotes /\ \A k \in quotes : j + 3 <= k
  <2>1. \A k \in j + 2 .. 35 : line[k] = Quote <=> k \in {5, 7, 12, 14, 19, 21, 26, 29, 33, 35}
    BY MarksOfDigest
  <2> QED
    BY <1>0, <2>1
<1>2. places = {j}
  <2>1. \A i \in places : i = j
    <3>1. \A i \in places : i \in {4, 11, 18, 25, 32} /\ KeyBefore(line, i) = key
      BY FieldsOfDigest
    <3> QED
      BY <3>1
  <2>2. j \in places
    <3>1. j \in Places(line, <<Equals, Quote>>) /\ Unquoted(line, j)
      BY FieldsOfDigest
    <3>2. \E k \in j + 2 .. Len(line) : line[k] = Quote
      BY <1>1
    <3> QED
      BY <3>1, <3>2
  <2> QED
    BY <2>1, <2>2
<1>3. AuthField(line, key) =
         IF places = {} THEN <<>>
         ELSE LET from == Max(places) + 2
              IN  SubSeq(line, from, Min({k \in from .. Len(line) : line[k] = Quote}) - 1)
  BY DEF AuthField
<1> HIDE DEF places
<1>4. Max(places) = j
  BY <1>2, MaxIs
<1>5. AuthField(line, key) = SubSeq(line, j + 2, Min(quotes) - 1)
  BY <1>2, <1>3, <1>4
<1> HIDE DEF quotes
<1>6. Min(quotes) = j + 3
  BY <1>1, MinIs
<1>7. (j + 3) - 1 = j + 2 /\ j + 2 \in 1 .. 35
  OBVIOUS
<1> QED
  BY <1>5, <1>6, <1>7, TokenOfDigest

\* The three fields are read as they were written.
LEMMA DigestFields ==
    ASSUME NEW n, NEW r, n \notin Marks, r \notin Marks
    PROVE  LET line == Digest(n, r)
           IN  /\ AuthField(line, <<"digest", Space, "username">>) = <<"user">>
               /\ AuthField(line, <<"nonce">>) = <<n>>
               /\ AuthField(line, <<"response">>) = <<r>>
<1> DEFINE line == Digest(n, r)
<1>1. IsDigest(line, n, r)
  BY DigestIs
<1> HIDE DEF line
<1>2. line[6] = "user" /\ line[20] = n /\ line[34] = r
  BY <1>1 DEF IsDigest
<1>3. /\ <<"realm">> # <<"nonce">> /\ <<"uri">> # <<"nonce">> /\ <<"response">> # <<"nonce">>
      /\ <<"realm">> # <<"response">> /\ <<"uri">> # <<"response">>
  OBVIOUS
<1>4. \A word : <<"digest", Space, "username">> # <<word>>
  <2>1. \A word : Len(<<"digest", Space, "username">>) = 3 /\ Len(<<word>>) = 1
    OBVIOUS
  <2> QED
    BY <2>1
<1>5. AuthField(line, <<"digest", Space, "username">>) = <<line[4 + 2]>>
  BY <1>1, <1>4, KeysOfDigest, FieldIs
<1>6. AuthField(line, <<"nonce">>) = <<line[18 + 2]>>
  BY <1>1, <1>3, <1>4, KeysOfDigest, FieldIs
<1>7. AuthField(line, <<"response">>) = <<line[32 + 2]>>
  BY <1>1, <1>3, <1>4, KeysOfDigest, FieldIs
<1>8. 4 + 2 = 6 /\ 18 + 2 = 20 /\ 32 + 2 = 34
  OBVIOUS
<1> QED
  BY <1>2, <1>5, <1>6, <1>7, <1>8 DEF line

-----------------------------------------------------------------------------
(* Where the header of a request has what is looked up                      *)

\* The words that are not a space.
LEMMA WordsAreNoSpace ==
    \A word \in {"get", "/rest", "http/1.1", "x-", "cookie", "session", "forwarded", "theme",
                 "dark", "blue"} : word # Space
BY Zenon DEF Space

\* A line with one colon has the name before it, and no other.
LEMMA NameOf ==
    ASSUME NEW line, NEW N \in Nat, Len(line) = N, NEW i \in 2 .. N - 1, line[i + 1] = Space,
           \A k \in 1 .. N : line[k] = Colon <=> k = i,
           NEW name
    PROVE  Places(line, <<name, Colon, Space>>) = IF line[i - 1] = name THEN {i - 1} ELSE {}
<1> DEFINE a == Colon
           b == Space
<1>1. \A j : j \in Places(line, <<name, a, b>>) <=>
                /\ j \in 1 .. N - 2
                /\ line[j] = name /\ line[j + 1] = a /\ line[j + 2] = b
  <2> HIDE DEF a, b
  <2>1. Len(line) \in Nat
    OBVIOUS
  <2> QED
    BY <2>1, PlacesOfThree, SMTT(20)
<1>2. \A j \in 1 .. N - 2 : line[j + 1] = Colon <=> j = i - 1
  <2>1. \A j \in 1 .. N - 2 : j + 1 \in 1 .. N
    OBVIOUS
  <2> QED
    BY <2>1
<1>3. i - 1 \in 1 .. N - 2 /\ (i - 1) + 1 = i /\ (i - 1) + 2 = i + 1
  OBVIOUS
<1>4. \A j : j \in Places(line, <<name, Colon, Space>>) <=> j = i - 1 /\ line[i - 1] = name
  <2> SUFFICES ASSUME NEW j
               PROVE  j \in Places(line, <<name, a, b>>) <=> j = i - 1 /\ line[i - 1] = name
    OBVIOUS
  <2>1. j \in Places(line, <<name, a, b>>) => j = i - 1 /\ line[i - 1] = name
    BY <1>1, <1>2
  <2>2. j = i - 1 /\ line[i - 1] = name => j \in Places(line, <<name, a, b>>)
    BY <1>1, <1>2, <1>3
  <2> QED
    BY <2>1, <2>2, Zenon
<1> QED
  BY <1>4, Zenon

\* The request line has no name.
LEMMA NamesOfRequestLine ==
    ASSUME NEW name
    PROVE  Places(RequestLine, <<name, Colon, Space>>) = {}
<1> DEFINE line == RequestLine
           a == Colon
           b == Space
<1>1. Len(line) = 5
  BY DEF RequestLine
<1>2. \A k \in 1 .. 5 : line[k] # Colon
  <2>1. {"get", "/rest", "http/1.1", Space} \cap Marks = {} /\ Colon \in Marks
    BY WordsAreNoMarks, Zenon DEF Marks
  <2>2. /\ line[1] = "get" /\ line[2] = Space /\ line[3] = "/rest" /\ line[4] = Space
        /\ line[5] = "http/1.1"
    BY DEF RequestLine
  <2> HIDE DEF line
  <2> QED
    BY <2>1, <2>2
<1>3. \A j : j \in Places(line, <<name, a, b>>) <=>
                /\ j \in 1 .. Len(line) - 2
                /\ line[j] = name /\ line[j + 1] = a /\ line[j + 2] = b
  <2>1. Len(line) \in Nat
    BY <1>1
  <2> HIDE DEF a, b, line
  <2> QED
    BY <2>1, PlacesOfThree
<1> HIDE DEF line
<1>4. \A j \in 1 .. Len(line) - 2 : j + 1 \in 1 .. 5
  BY <1>1
<1> QED
  BY <1>2, <1>3, <1>4 DEF line

\* The line whose name ends with "cookie".
LEMMA NamesOfLookalike ==
    ASSUME NEW name
    PROVE  Places(Lookalike, <<name, Colon, Space>>) = IF name = "cookie" THEN {2} ELSE {}
<1> DEFINE line == Lookalike
<1>1. Len(line) = 7
  BY DEF Lookalike
<1>2. /\ line[1] = "x-" /\ line[2] = "cookie" /\ line[3] = Colon /\ line[4] = Space
      /\ line[5] = "session" /\ line[6] = Equals /\ line[7] = "forwarded"
  BY DEF Lookalike
<1>3. \A k \in 1 .. 7 : line[k] = Colon <=> k = 3
  <2>1. {"x-", "cookie", "session", "forwarded", Space} \cap Marks = {} /\ Colon \in Marks
    BY WordsAreNoMarks, Zenon DEF Marks
  <2>2. Equals # Colon
    BY MarksAreDifferent, Zenon
  <2> HIDE DEF line
  <2> QED
    BY <1>2, <2>1, <2>2
<1> HIDE DEF line
<1>4. 7 \in Nat /\ 3 \in 2 .. 7 - 1 /\ line[3 + 1] = Space /\ 3 - 1 = 2
  BY <1>2
<1>5. Places(line, <<name, Colon, Space>>) = IF line[3 - 1] = name THEN {3 - 1} ELSE {}
  BY <1>1, <1>3, <1>4, NameOf, Zenon
<1> QED
  BY <1>2, <1>4, <1>5 DEF line

\* The cookie line, however it is written.
LEMMA NamesOfCookieLine ==
    ASSUME NEW cookie, cookie \notin Marks, NEW first \in BOOLEAN, NEW name
    PROVE  Places(CookieLine(cookie, first), <<name, Colon, Space>>) =
              IF name = "cookie" THEN {1} ELSE {}
<1> DEFINE line == CookieLine(cookie, first)
<1>1. Len(line) = 13
  BY DEF CookieLine
<1>2. line[1] = "cookie" /\ line[2] = Colon /\ line[3] = Space
  BY DEF CookieLine
<1>3. \A k \in 1 .. 13 : line[k] = Colon <=> k = 2
  <2>1. {"cookie", "session", "theme", "dark", "blue", Space, cookie} \cap Marks = {}
        /\ Colon \in Marks
    BY WordsAreNoMarks, Zenon DEF Marks
  <2>2. Equals # Colon /\ Semicolon # Colon
    BY MarksAreDifferent, Zenon
  <2>3. \A k \in 4 .. 13 : line[k] \in {"cookie", "session", "theme", "dark", "blue", Space, cookie}
                                      \cup {Equals, Semicolon}
    BY DEF CookieLine
  <2> HIDE DEF line
  <2>4. line[1] # Colon /\ line[3] # Colon
    BY <1>2, <2>1
  <2>5. \A k \in 4 .. 13 : line[k] # Colon
    BY <2>1, <2>2, <2>3
  <2> QED
    BY <1>2, <2>4, <2>5
<1> HIDE DEF line
<1>4. 13 \in Nat /\ 2 \in 2 .. 13 - 1 /\ line[2 + 1] = Space /\ 2 - 1 = 1
  BY <1>2
<1>5. Places(line, <<name, Colon, Space>>) = IF line[2 - 1] = name THEN {2 - 1} ELSE {}
  BY <1>1, <1>3, <1>4, NameOf, Zenon
<1> QED
  BY <1>2, <1>4, <1>5 DEF line

\* The line that answers a 401.
LEMMA NamesOfAuthLine ==
    ASSUME NEW n, NEW r, n \notin Marks, r \notin Marks, NEW name
    PROVE  Places(AuthLine(n, r), <<name, Colon, Space>>) =
              IF name = "authorization" THEN {1} ELSE {}
<1> DEFINE line == AuthLine(n, r)
<1>1. Len(line) = 38
  BY DEF AuthLine
<1>2. line[1] = "authorization" /\ line[2] = Colon /\ line[3] = Space
  BY DEF AuthLine
<1>3. \A k \in 1 .. 38 : line[k] = Colon <=> k = 2
  <2>1. {"authorization", "digest", "username", "user", "realm", "dumais", "nonce", "uri", "/rest",
         "response", Space, n, r} \cap Marks = {} /\ Colon \in Marks
    BY WordsAreNoMarks, Zenon DEF Marks
  <2>2. Equals # Colon /\ Quote # Colon /\ Comma # Colon
    BY MarksAreDifferent, Zenon
  <2>3. \A k \in 4 .. 38 : line[k] \in {"authorization", "digest", "username", "user", "realm",
                                        "dumais", "nonce", "uri", "/rest", "response", Space, n, r}
                                      \cup {Equals, Quote, Comma}
    BY DEF AuthLine
  <2> HIDE DEF line
  <2>4. line[1] # Colon /\ line[3] # Colon
    BY <1>2, <2>1
  <2>5. \A k \in 4 .. 38 : line[k] # Colon
    BY <2>1, <2>2, <2>3
  <2> QED
    BY <1>2, <2>4, <2>5
<1> HIDE DEF line
<1>4. 38 \in Nat /\ 2 \in 2 .. 38 - 1 /\ line[2 + 1] = Space /\ 2 - 1 = 1
  BY <1>2
<1>5. Places(line, <<name, Colon, Space>>) = IF line[2 - 1] = name THEN {2 - 1} ELSE {}
  BY <1>1, <1>3, <1>4, NameOf, Zenon
<1> QED
  BY <1>2, <1>4, <1>5 DEF line

-----------------------------------------------------------------------------
(* The lookup of a line                                                    *)

\* What stands behind a name in a line.
Behind(line, name) ==
    SubSeq(line, Min(Places(line, <<name, Colon, Space>>)) + 3, Len(line))

\* The least member of a set of numbers.
LEMMA LeastOfSet ==
    ASSUME NEW T, T \subseteq Nat, T # {}
    PROVE  Min(T) \in T /\ \A n \in T : Min(T) <= n
<1> DEFINE Smaller == OpToRel(<, Nat)
<1>1. IsWellFoundedOn(Smaller, Nat)
  BY NatLessThanWellFounded
<1>2. \A m, n \in Nat : m < n => <<m, n>> \in Smaller
  BY DEF OpToRel
<1> HIDE DEF Smaller
<1>3. PICK x \in T : \A y \in T : ~(<<y, x>> \in Smaller)
  BY <1>1, WFMin
<1>4. ASSUME NEW y \in T PROVE x <= y
  <2>1. x \in Nat /\ y \in Nat
    OBVIOUS
  <2>2. ~(y < x)
    BY <1>2, <1>3, <2>1
  <2> QED
    BY <2>1, <2>2
<1> QED
  BY <1>4 DEF Min

\* A lookup finds one of the lines that have the name, among the first m if one of
\* them has it; nothing if no line has it.
LEMMA HeaderAmong ==
    ASSUME NEW h, Len(h) \in Nat, DOMAIN h = 1 .. Len(h), NEW m \in 0 .. Len(h), NEW name
    PROVE  LET Has(k) == Places(h[k], <<name, Colon, Space>>) # {}
           IN  /\ (\E k \in 1 .. m : Has(k)) =>
                     \E k \in 1 .. m : Has(k) /\ GetHeader(h, name) = Behind(h[k], name)
               /\ (\A k \in 1 .. Len(h) : ~Has(k)) => GetHeader(h, name) = <<>>
<1> DEFINE text == <<name, Colon, Space>>
           Has(k) == Places(h[k], text) # {}
           lines == {k \in DOMAIN h : Has(k)}
<1>1. Len(text) = 3
  OBVIOUS
<1>2. GetHeader(h, name) =
         IF lines = {} THEN <<>>
         ELSE LET line == h[Min(lines)]
              IN  SubSeq(line, Min(Places(line, text)) + Len(text), Len(line))
  BY DEF GetHeader
<1>3. \A k : Behind(h[k], name) = SubSeq(h[k], Min(Places(h[k], text)) + 3, Len(h[k]))
  BY DEF Behind
<1> HIDE DEF text
<1>4. lines # {} => GetHeader(h, name) = Behind(h[Min(lines)], name)
  BY <1>1, <1>2, <1>3
<1>5. ASSUME \E k \in 1 .. m : Has(k)
      PROVE  \E k \in 1 .. m : Has(k) /\ GetHeader(h, name) = Behind(h[k], name)
  <2>1. PICK i \in 1 .. m : Has(i)
    BY <1>5
  <2>2. i \in lines /\ lines # {} /\ lines \subseteq Nat
    BY <2>1
  <2>3. Min(lines) \in lines /\ Min(lines) <= i
    BY <2>2, LeastOfSet
  <2>4. PICK least : least = Min(lines)
    OBVIOUS
  <2>5. least \in DOMAIN h /\ Has(least) /\ least <= i
    BY <2>3, <2>4
  <2> HIDE DEF Has, lines
  <2>6. least \in 1 .. m
    BY <2>1, <2>5
  <2> QED
    BY <1>4, <2>2, <2>4, <2>5, <2>6
<1>6. ASSUME \A k \in 1 .. Len(h) : ~Has(k)
      PROVE  GetHeader(h, name) = <<>>
  <2>1. lines = {}
    BY <1>6
  <2> QED
    BY <1>2, <2>1
<1> QED
  BY <1>5, <1>6 DEF text

-----------------------------------------------------------------------------
(* What stands behind the names                                            *)

\* The least of one place.
LEMMA OnePlace ==
    ASSUME NEW p \in Nat
    PROVE  Min({p}) = p /\ Max({p}) = p
<1>1. {p} \subseteq Int /\ p \in {p} /\ (\A n \in {p} : p <= n) /\ \A n \in {p} : n <= p
  OBVIOUS
<1> QED
  BY <1>1, MinIs, MaxIs

\* getCookie(), on what stands behind "Cookie: ".
CookieIn(line) ==
    LET places == Places(line, <<"session", Equals>>)
    IN  IF places = {} THEN <<>>
        ELSE SubSeq(line, Min(places) + 2, RunEnd(line, Min(places) + 2))

\* The value of a cookie is the word behind "session=", if it ends there.
LEMMA CookieInIs ==
    ASSUME NEW N \in Nat, NEW line, line = [k \in 1 .. N |-> line[k]],
           NEW p \in 1 .. N - 2, line[p] = "session", line[p + 2] \notin Marks,
           p + 2 = N \/ line[p + 3] \in Marks,
           \A k \in 1 .. N - 1 : line[k] = "session" /\ line[k + 1] = Equals <=> k = p
    PROVE  CookieIn(line) = <<line[p + 2]>>
<1> DEFINE a == "session"
           b == Equals
           places == Places(line, <<a, b>>)
           ends == {k \in p + 2 .. Len(line) : line[k] \in Marks} \cup {Len(line) + 1}
<1>0. Len(line) = N
  BY LineType
<1>1. \A j : j \in Places(line, <<a, b>>) <=>
                j \in 1 .. N - 1 /\ line[j] = a /\ line[j + 1] = b
  <2> HIDE DEF a, b
  <2> QED
    BY <1>0, PlacesOfTwo
<1>2. \A j : j \in places <=> j = p
  <2>1. p \in 1 .. N - 1
    OBVIOUS
  <2> QED
    BY <1>1, <2>1
<1>3. places = {p}
  BY <1>2, Zenon
<1>4. RunEnd(line, p + 2) = Min(ends) - 1
  BY DEF RunEnd
<1>5. CookieIn(line) = IF places = {} THEN <<>>
                       ELSE SubSeq(line, Min(places) + 2, RunEnd(line, Min(places) + 2))
  BY DEF CookieIn
<1> HIDE DEF places
<1>6. Min(places) = p
  BY <1>3, OnePlace
<1>7. CookieIn(line) = SubSeq(line, p + 2, RunEnd(line, p + 2))
  BY <1>3, <1>5, <1>6
<1>8. ends \subseteq Int /\ p + 3 \in ends /\ \A k \in ends : p + 3 <= k
  <2>1. \A k \in p + 2 .. N : k = p + 2 \/ p + 3 <= k
    OBVIOUS
  <2>2. p + 2 = N => p + 3 = N + 1
    OBVIOUS
  <2>3. p + 2 # N => p + 3 \in p + 2 .. N
    OBVIOUS
  <2> QED
    BY <1>0, <2>1, <2>2, <2>3
<1> HIDE DEF ends
<1>9. Min(ends) = p + 3
  BY <1>8, MinIs
<1>10. (p + 3) - 1 = p + 2 /\ p + 2 \in 1 .. N
  OBVIOUS
<1>11. CookieIn(line) = SubSeq(line, p + 2, p + 2)
  BY <1>4, <1>7, <1>9, <1>10
<1> QED
  BY <1>10, <1>11, OneToken

\* The end of a line, from position d + 1 on.
LEMMA EndOfLine ==
    ASSUME NEW n \in Nat, NEW line, line = [k \in 1 .. n |-> line[k]], NEW d \in 0 .. n,
           NEW e, e = SubSeq(line, d + 1, n)
    PROVE  e = [k \in 1 .. n - d |-> line[k + d]]
<1>1. SubSeq(line, d + 1, n) = [k \in 1 .. n - (d + 1) + 1 |-> line[(d + 1) + k - 1]]
  <2>1. d + 1 \in 1 .. n + 1 /\ n \in 0 .. n /\ d + 1 <= n + 1
    OBVIOUS
  <2> QED
    BY <2>1, PartIs
<1>2. n - (d + 1) + 1 = n - d /\ \A k \in Int : (d + 1) + k - 1 = k + d
  OBVIOUS
<1> QED
  BY <1>1, <1>2, SMTT(20)

\* What stands behind "Cookie: " names the cookie, wherever the other one stands.
LEMMA CookieBehind ==
    ASSUME NEW cookie, cookie \notin Marks, NEW first \in BOOLEAN
    PROVE  CookieIn(Behind(CookieLine(cookie, first), "cookie")) = <<cookie>>
<1> DEFINE all == CookieLine(cookie, first)
           line == Behind(all, "cookie")
<1>1. Len(all) = 13 /\ all = [k \in 1 .. 13 |-> all[k]]
  BY DEF CookieLine
<1>2. Min(Places(all, <<"cookie", Colon, Space>>)) = 1
  BY NamesOfCookieLine, OnePlace
<1>3. line = SubSeq(all, 1 + 3, 13)
  BY <1>1, <1>2 DEF Behind
<1>4. first => /\ all[4] = "session" /\ all[5] = Equals /\ all[6] = cookie /\ all[7] = Semicolon
               /\ all[8] = Space /\ all[9] = "theme" /\ all[10] = Equals /\ all[11] = "dark"
               /\ all[12] = Space /\ all[13] = "blue"
  BY DEF CookieLine
<1>5. ~first => /\ all[4] = "theme" /\ all[5] = Equals /\ all[6] = "dark" /\ all[7] = Space
                /\ all[8] = "blue" /\ all[9] = Semicolon /\ all[10] = Space /\ all[11] = "session"
                /\ all[12] = Equals /\ all[13] = cookie
  BY DEF CookieLine
<1> HIDE DEF all, line
<1>6. line = [k \in 1 .. 13 - 3 |-> all[k + 3]]
  <2>1. 13 \in Nat /\ 3 \in 0 .. 13 /\ 1 + 3 = 3 + 1
    OBVIOUS
  <2> QED
    BY <1>1, <1>3, <2>1, EndOfLine
<1>7. line = [k \in 1 .. 10 |-> line[k]] /\ \A k \in 1 .. 10 : line[k] = all[k + 3]
  BY <1>6
<1>8. {"session", "theme", "dark", "blue", Space, cookie} \cap Marks = {}
      /\ Semicolon \in Marks /\ Equals \in Marks /\ Semicolon # Equals
  BY WordsAreNoMarks, MarksAreDifferent, Zenon DEF Marks
<1>9. CASE first
  <2>1. line[1] = "session" /\ line[2] = Equals /\ line[3] = cookie /\ line[4] = Semicolon /\ line[5] = Space
    BY <1>4, <1>7, <1>9
  <2>2. line[6] = "theme" /\ line[7] = Equals /\ line[8] = "dark" /\ line[9] = Space /\ line[10] = "blue"
    BY <1>4, <1>7, <1>9
  <2>3. \A k \in 1 .. 10 : line[k] = Equals <=> k \in {2, 7}
    BY <1>8, <2>1, <2>2
  <2>4. \A k \in 1 .. 9 : line[k] = "session" /\ line[k + 1] = Equals <=> k = 1
    <3>1. \A k \in 1 .. 9 : k + 1 \in 1 .. 10 /\ (k + 1 \in {2, 7} <=> k \in {1, 6})
      OBVIOUS
    <3> QED
      BY <2>1, <2>2, <2>3, <3>1
  <2>5. 10 \in Nat /\ 1 \in 1 .. 10 - 2 /\ 1 + 2 = 3 /\ 1 + 3 = 4 /\ 10 - 1 = 9
    OBVIOUS
  <2>6. /\ line[1 + 2] \notin Marks
        /\ 1 + 2 = 10 \/ line[1 + 3] \in Marks
        /\ \A k \in 1 .. 10 - 1 : line[k] = "session" /\ line[k + 1] = Equals <=> k = 1
    BY <1>8, <2>1, <2>4, <2>5
  <2>7. CookieIn(line) = <<line[1 + 2]>>
    BY <1>7, <2>1, <2>5, <2>6, CookieInIs, Zenon
  <2> QED
    BY <2>1, <2>5, <2>7 DEF line, all
<1>10. CASE ~first
  <2>1. line[1] = "theme" /\ line[2] = Equals /\ line[3] = "dark" /\ line[4] = Space /\ line[5] = "blue"
    BY <1>5, <1>7, <1>10
  <2>2. line[6] = Semicolon /\ line[7] = Space /\ line[8] = "session" /\ line[9] = Equals /\ line[10] = cookie
    BY <1>5, <1>7, <1>10
  <2>3. \A k \in 1 .. 10 : line[k] = Equals <=> k \in {2, 9}
    BY <1>8, <2>1, <2>2
  <2>4. \A k \in 1 .. 9 : line[k] = "session" /\ line[k + 1] = Equals <=> k = 8
    <3>1. \A k \in 1 .. 9 : k + 1 \in 1 .. 10 /\ (k + 1 \in {2, 9} <=> k \in {1, 8})
      OBVIOUS
    <3> QED
      BY <2>1, <2>2, <2>3, <3>1
  <2>5. 10 \in Nat /\ 8 \in 1 .. 10 - 2 /\ 8 + 2 = 10 /\ 10 - 1 = 9
    OBVIOUS
  <2>6. /\ line[8 + 2] \notin Marks
        /\ 8 + 2 = 10 \/ line[8 + 3] \in Marks
        /\ \A k \in 1 .. 10 - 1 : line[k] = "session" /\ line[k + 1] = Equals <=> k = 8
    BY <1>8, <2>2, <2>4, <2>5
  <2>7. CookieIn(line) = <<line[8 + 2]>>
    BY <1>7, <2>2, <2>5, <2>6, CookieInIs, Zenon
  <2> QED
    BY <2>2, <2>5, <2>7 DEF line, all
<1> QED
  BY <1>9, <1>10

\* The other line names what was forwarded.
LEMMA LookalikeBehind == CookieIn(Behind(Lookalike, "cookie")) = <<"forwarded">>
<1> DEFINE all == Lookalike
           line == Behind(all, "cookie")
<1>1. Len(all) = 7 /\ all = [k \in 1 .. 7 |-> all[k]]
  BY DEF Lookalike
<1>2. Min(Places(all, <<"cookie", Colon, Space>>)) = 2
  BY NamesOfLookalike, OnePlace
<1>3. line = SubSeq(all, 2 + 3, 7)
  BY <1>1, <1>2 DEF Behind
<1>4. all[5] = "session" /\ all[6] = Equals /\ all[7] = "forwarded"
  BY DEF Lookalike
<1> HIDE DEF all, line
<1>5. line = [k \in 1 .. 7 - 4 |-> all[k + 4]]
  <2>1. 7 \in Nat /\ 4 \in 0 .. 7 /\ 2 + 3 = 4 + 1
    OBVIOUS
  <2> QED
    BY <1>1, <1>3, <2>1, EndOfLine
<1>6. line = [k \in 1 .. 3 |-> line[k]] /\ \A k \in 1 .. 3 : line[k] = all[k + 4]
  BY <1>5
<1>7. line[1] = "session" /\ line[2] = Equals /\ line[3] = "forwarded"
  BY <1>4, <1>6
<1>8. "forwarded" \notin Marks /\ Equals # "session"
  <2>1. Equals \in Marks
    BY DEF Marks
  <2> QED
    BY <2>1, WordsAreNoMarks, Zenon
<1>9. \A k \in 1 .. 2 : line[k] = "session" /\ line[k + 1] = Equals <=> k = 1
  <2>1. \A k \in 1 .. 2 : k = 1 \/ k = 2
    OBVIOUS
  <2> QED
    BY <1>7, <1>8, <2>1
<1>10. 3 \in Nat /\ 1 \in 1 .. 3 - 2 /\ 1 + 2 = 3 /\ 3 - 1 = 2
  OBVIOUS
<1>11. CookieIn(line) = <<line[1 + 2]>>
  BY <1>6, <1>7, <1>8, <1>9, <1>10, CookieInIs
<1> QED
  BY <1>7, <1>10, <1>11 DEF line, all

\* What stands behind "Authorization: " is the digest.
LEMMA DigestBehind ==
    ASSUME NEW n, NEW r, n \notin Marks, r \notin Marks
    PROVE  Behind(AuthLine(n, r), "authorization") = Digest(n, r)
<1>1. Len(AuthLine(n, r)) = 38
  BY DEF AuthLine
<1>2. Min(Places(AuthLine(n, r), <<"authorization", Colon, Space>>)) = 1
  BY NamesOfAuthLine, OnePlace
<1>3. 1 + 3 = 4
  OBVIOUS
<1> QED
  BY <1>1, <1>2, <1>3 DEF Behind, Digest

-----------------------------------------------------------------------------
(* The lines of a request                                                  *)

Response(intent) == IF intent.right THEN DigestOf[intent.nonce] ELSE "wrong"

CookieLineOf(intent, layout) == CookieLine(intent.cookie, layout.cookieFirst)
AuthLineOf(intent) == AuthLine(intent.nonce, Response(intent))

CookieLines(intent, layout) ==
    IF intent.cookie = Nothing THEN <<>> ELSE <<CookieLineOf(intent, layout)>>
AuthLines(intent) == IF intent.nonce = Nothing THEN <<>> ELSE <<AuthLineOf(intent)>>
Before(layout) == IF layout.lookalike = "before" THEN <<Lookalike>> ELSE <<>>
After(layout) == IF layout.lookalike = "after" THEN <<Lookalike>> ELSE <<>>
Between(intent, layout) ==
    IF layout.cookieFirst THEN CookieLines(intent, layout) \o AuthLines(intent)
    ELSE AuthLines(intent) \o CookieLines(intent, layout)

\* The lines of a header, or of a part of it.
Lines(h) == {h[k] : k \in 1 .. Len(h)}

\* The lines of two parts are those of both.
LEMMA LinesOfBoth ==
    ASSUME NEW S, NEW s \in Seq(S), NEW t \in Seq(S)
    PROVE  /\ s \o t \in Seq(S)
           /\ Lines(s \o t) = Lines(s) \cup Lines(t)
           /\ Len(s) \in 0 .. Len(s \o t)
           /\ Lines(s) = {(s \o t)[k] : k \in 1 .. Len(s)}
<1>1. /\ s \o t \in Seq(S)
      /\ Len(s \o t) = Len(s) + Len(t)
      /\ \A i \in 1 .. Len(s) + Len(t) : (s \o t)[i] = IF i <= Len(s) THEN s[i] ELSE t[i - Len(s)]
  BY ConcatProperties
<1>2. PICK m \in Nat : m = Len(s)
  BY LenProperties
<1>3. PICK n \in Nat : n = Len(t)
  BY LenProperties
<1>4. PICK u : u = s \o t
  OBVIOUS
<1>5. /\ u \in Seq(S) /\ Len(u) = m + n
      /\ \A i \in 1 .. m : u[i] = s[i]
      /\ \A i \in 1 .. n : u[m + i] = t[i]
  <2>1. \A i \in 1 .. m + n : u[i] = IF i <= m THEN s[i] ELSE t[i - m]
    BY <1>1, <1>2, <1>3, <1>4
  <2>2. \A i \in 1 .. n : m + i \in 1 .. m + n /\ ~(m + i <= m) /\ (m + i) - m = i
    OBVIOUS
  <2>3. \A i \in 1 .. m : i \in 1 .. m + n /\ i <= m
    OBVIOUS
  <2> QED
    BY <1>1, <1>2, <1>3, <1>4, <2>1, <2>2, <2>3
<1>6. \A x \in Lines(u) : x \in Lines(s) \cup Lines(t)
  <2> SUFFICES ASSUME NEW i \in 1 .. m + n
               PROVE  u[i] \in Lines(s) \cup Lines(t)
    BY <1>5 DEF Lines
  <2>1. CASE i <= m
    BY <1>2, <1>5, <2>1 DEF Lines
  <2>2. CASE ~(i <= m)
    <3>1. PICK j \in 1 .. n : i = m + j
      BY <2>2
    <3> QED
      BY <1>3, <1>5, <3>1 DEF Lines
  <2> QED
    BY <2>1, <2>2
<1>7. \A x \in Lines(s) \cup Lines(t) : x \in Lines(u)
  <2>1. \A i \in 1 .. m : i \in 1 .. m + n /\ u[i] = s[i]
    BY <1>5
  <2>2. \A i \in 1 .. n : m + i \in 1 .. m + n /\ u[m + i] = t[i]
    BY <1>5
  <2>3. \A i \in 1 .. m : s[i] \in Lines(u)
    BY <1>5, <2>1 DEF Lines
  <2>4. \A i \in 1 .. n : t[i] \in Lines(u)
    BY <1>5, <2>2 DEF Lines
  <2>5. Lines(s) = {s[i] : i \in 1 .. m} /\ Lines(t) = {t[i] : i \in 1 .. n}
    BY <1>2, <1>3 DEF Lines
  <2> QED
    BY <2>3, <2>4, <2>5
<1>8. Lines(s) = {u[k] : k \in 1 .. Len(s)}
  BY <1>2, <1>5 DEF Lines
<1>9. m \in 0 .. m + n
  OBVIOUS
<1>10. Lines(u) = Lines(s) \cup Lines(t)
  BY <1>6, <1>7
<1> QED
  BY <1>1, <1>2, <1>4, <1>5, <1>8, <1>9, <1>10

\* The first line of two parts is that of the first.
LEMMA HeadOfBoth ==
    ASSUME NEW S, NEW s \in Seq(S), NEW t \in Seq(S), s # <<>>
    PROVE  s \o t # <<>> /\ Head(s \o t) = Head(s)
<1>1. Len(s) \in Nat \ {0} /\ Len(t) \in Nat
  BY EmptySeq, LenProperties
<1>2. Len(s \o t) # 0 /\ (s \o t)[1] = s[1] /\ s \o t \in Seq(S)
  BY <1>1, ConcatProperties
<1> QED
  BY <1>1, <1>2, LenProperties

\* A part has one line, or none.
LEMMA LinesOfOne ==
    ASSUME NEW S, NEW x \in S
    PROVE  /\ <<x>> \in Seq(S) /\ Lines(<<x>>) = {x}
           /\ <<>> \in Seq(S) /\ Lines(<<>>) = {}
<1>1. Len(<<x>>) = 1 /\ <<x>>[1] = x /\ Len(<<>>) = 0 /\ 1 .. 1 = {1} /\ 1 .. 0 = {}
  OBVIOUS
<1>2. Lines(<<x>>) = {x}
  BY <1>1 DEF Lines
<1>3. Lines(<<>>) = {}
  BY <1>1 DEF Lines
<1> QED
  BY <1>2, <1>3

\* The lines of a request, and those that come before the last if that one has a
\* name that ends with "cookie".
LEMMA HeaderLines ==
    ASSUME NEW intent, NEW layout \in Layouts
    PROVE  LET h == Header(intent, layout)
           IN  /\ Len(h) \in Nat /\ DOMAIN h = 1 .. Len(h) /\ Head(h) = RequestLine
               /\ \E m \in 0 .. Len(h) :
                     {h[k] : k \in 1 .. m} =
                        {RequestLine} \cup Lines(Before(layout))
                           \cup Lines(CookieLines(intent, layout)) \cup Lines(AuthLines(intent))
               /\ Lines(h) = {RequestLine} \cup Lines(Before(layout)) \cup Lines(After(layout))
                                \cup Lines(CookieLines(intent, layout)) \cup Lines(AuthLines(intent))
<1> DEFINE h == Header(intent, layout)
           c == CookieLines(intent, layout)
           a == AuthLines(intent)
           b == Between(intent, layout)
           pre == <<RequestLine>> \o Before(layout) \o b
           S == {RequestLine, Lookalike, CookieLineOf(intent, layout), AuthLineOf(intent)}
<1>1. h = pre \o After(layout)
  BY DEF Header, After, Before, Between, CookieLines, AuthLines, CookieLineOf, AuthLineOf, Response
<1>2. /\ <<RequestLine>> \in Seq(S) /\ Lines(<<RequestLine>>) = {RequestLine}
      /\ c \in Seq(S) /\ a \in Seq(S) /\ Before(layout) \in Seq(S) /\ After(layout) \in Seq(S)
  <2> DEFINE T == S
  <2>1. RequestLine \in T /\ Lookalike \in T /\ CookieLineOf(intent, layout) \in T /\ AuthLineOf(intent) \in T
    OBVIOUS
  <2> HIDE DEF T
  <2>2. \A x \in T : <<x>> \in Seq(T) /\ <<>> \in Seq(T) /\ Lines(<<x>>) = {x}
    BY LinesOfOne
  <2>3. /\ <<RequestLine>> \in Seq(T) /\ Lines(<<RequestLine>>) = {RequestLine}
        /\ c \in Seq(T) /\ a \in Seq(T) /\ Before(layout) \in Seq(T) /\ After(layout) \in Seq(T)
    BY <2>1, <2>2, Zenon DEF CookieLines, AuthLines, Before, After
  <2> QED
    BY <2>3 DEF T
<1>3. b \in Seq(S) /\ Lines(b) = Lines(c) \cup Lines(a)
  <2> DEFINE T == S
  <2>1. c \in Seq(T) /\ a \in Seq(T)
    BY <1>2
  <2>2. b = IF layout.cookieFirst THEN c \o a ELSE a \o c
    BY DEF Between
  <2> HIDE DEF T, a, b, c
  <2>3. /\ c \o a \in Seq(T) /\ Lines(c \o a) = Lines(c) \cup Lines(a)
        /\ a \o c \in Seq(T) /\ Lines(a \o c) = Lines(a) \cup Lines(c)
    BY <2>1, LinesOfBoth
  <2>4. b \in Seq(T) /\ Lines(b) = Lines(c) \cup Lines(a)
    BY <2>2, <2>3
  <2> QED
    BY <2>4 DEF T
<1> HIDE DEF h, c, a, b, S
<1>4. \A s, t \in Seq(S) : /\ s \o t \in Seq(S)
                           /\ Lines(s \o t) = Lines(s) \cup Lines(t)
                           /\ Len(s) \in 0 .. Len(s \o t)
                           /\ Lines(s) = {(s \o t)[k] : k \in 1 .. Len(s)}
  BY LinesOfBoth
<1>5. /\ <<RequestLine>> \o Before(layout) \in Seq(S)
      /\ Lines(<<RequestLine>> \o Before(layout)) = {RequestLine} \cup Lines(Before(layout))
  <2>1. /\ <<RequestLine>> \o Before(layout) \in Seq(S)
        /\ Lines(<<RequestLine>> \o Before(layout)) = Lines(<<RequestLine>>) \cup Lines(Before(layout))
    BY <1>4, <1>2, Zenon
  <2> QED
    BY <1>2, <2>1, Zenon
<1>6. pre \in Seq(S) /\ Lines(pre) = {RequestLine} \cup Lines(Before(layout)) \cup (Lines(c) \cup Lines(a))
  <2>1. pre \in Seq(S) /\ Lines(pre) = Lines(<<RequestLine>> \o Before(layout)) \cup Lines(b)
    BY <1>4, <1>3, <1>5, Zenon
  <2> QED
    BY <1>3, <1>5, <2>1, Zenon
<1>7. Head(h) = RequestLine
  <2>1. <<RequestLine>> # <<>> /\ Head(<<RequestLine>>) = RequestLine
    OBVIOUS
  <2>2. /\ <<RequestLine>> \o Before(layout) # <<>>
        /\ Head(<<RequestLine>> \o Before(layout)) = RequestLine
    BY <1>2, <2>1, HeadOfBoth, Zenon
  <2>3. pre # <<>> /\ Head(pre) = RequestLine
    BY <1>3, <1>5, <2>2, HeadOfBoth, Zenon
  <2> QED
    BY <1>1, <1>2, <1>6, <2>3, HeadOfBoth, Zenon
<1> HIDE DEF pre
<1>8. /\ h \in Seq(S) /\ Lines(h) = Lines(pre) \cup Lines(After(layout))
      /\ Len(pre) \in 0 .. Len(h)
      /\ Lines(pre) = {h[k] : k \in 1 .. Len(pre)}
  <2>1. /\ pre \o After(layout) \in Seq(S)
        /\ Lines(pre \o After(layout)) = Lines(pre) \cup Lines(After(layout))
        /\ Len(pre) \in 0 .. Len(pre \o After(layout))
        /\ Lines(pre) = {(pre \o After(layout))[k] : k \in 1 .. Len(pre)}
    BY <1>4, <1>2, <1>6, Zenon
  <2> QED
    BY <1>1, <2>1, Zenon
<1>9. Len(h) \in Nat /\ DOMAIN h = 1 .. Len(h)
  BY <1>8, LenProperties
<1>10. \E m \in 0 .. Len(h) :
         {h[k] : k \in 1 .. m} = {RequestLine} \cup Lines(Before(layout)) \cup Lines(c) \cup Lines(a)
  <2>1. Lines(pre) = {RequestLine} \cup Lines(Before(layout)) \cup Lines(c) \cup Lines(a)
    BY <1>6, Zenon
  <2> QED
    BY <1>8, <2>1
<1>11. Lines(h) = {RequestLine} \cup Lines(Before(layout)) \cup Lines(After(layout))
                     \cup Lines(c) \cup Lines(a)
  BY <1>6, <1>8
<1> QED
  BY <1>7, <1>9, <1>10, <1>11 DEF h, c, a

\* The lines of each part.
LEMMA LinesOfParts ==
    ASSUME NEW intent, NEW layout
    PROVE  /\ Lines(CookieLines(intent, layout)) =
                 IF intent.cookie = Nothing THEN {} ELSE {CookieLineOf(intent, layout)}
           /\ Lines(AuthLines(intent)) = IF intent.nonce = Nothing THEN {} ELSE {AuthLineOf(intent)}
           /\ Lines(Before(layout)) = IF layout.lookalike = "before" THEN {Lookalike} ELSE {}
           /\ Lines(After(layout)) = IF layout.lookalike = "after" THEN {Lookalike} ELSE {}
<1>1. Lines(<<>>) = {} /\ \A x : Lines(<<x>>) = {x}
  BY LinesOfOne
<1> QED
  BY <1>1, Zenon DEF CookieLines, AuthLines, Before, After

-----------------------------------------------------------------------------
(* A request is understood                                                 *)

\* An intent is for a nonce and a cookie that are nonces, if any.
IntentOK(intent) ==
    /\ intent.cookie \in Nonces \cup {Nothing}
    /\ intent.nonce \in Nonces \cup {Nothing}
    /\ intent.right \in BOOLEAN
    /\ intent.nonce = Nothing => ~intent.right

\* None of its words is a mark.
LEMMA IntentHasNoMarks ==
    ASSUME NEW intent, IntentOK(intent)
    PROVE  /\ intent.cookie # Nothing => intent.cookie \notin Marks
           /\ intent.nonce # Nothing => intent.nonce \notin Marks /\ Response(intent) \notin Marks
<1>1. \A n \in Nonces : n \notin Marks /\ DigestOf[n] \notin Marks
  BY WordsAssumption
<1>2. "wrong" \notin Marks
  BY WordsAreNoMarks, Zenon
<1> QED
  BY <1>1, <1>2, Zenon DEF IntentOK, Response

\* Which lines have the names that are looked up.
LEMMA NamesOfLines ==
    ASSUME NEW intent, IntentOK(intent), NEW layout \in Layouts, NEW name
    PROVE  /\ Places(RequestLine, <<name, Colon, Space>>) = {}
           /\ Places(Lookalike, <<name, Colon, Space>>) # {} <=> name = "cookie"
           /\ intent.cookie # Nothing =>
                 (Places(CookieLineOf(intent, layout), <<name, Colon, Space>>) # {} <=> name = "cookie")
           /\ intent.nonce # Nothing =>
                 (Places(AuthLineOf(intent), <<name, Colon, Space>>) # {} <=> name = "authorization")
<1>1. layout.cookieFirst \in BOOLEAN
  BY DEF Layouts
<1>2. intent.cookie # Nothing =>
         Places(CookieLineOf(intent, layout), <<name, Colon, Space>>) = IF name = "cookie" THEN {1} ELSE {}
  BY <1>1, IntentHasNoMarks, NamesOfCookieLine, Zenon DEF CookieLineOf
<1>3. intent.nonce # Nothing =>
         Places(AuthLineOf(intent), <<name, Colon, Space>>) = IF name = "authorization" THEN {1} ELSE {}
  BY IntentHasNoMarks, NamesOfAuthLine, Zenon DEF AuthLineOf
<1>4. Places(Lookalike, <<name, Colon, Space>>) = IF name = "cookie" THEN {2} ELSE {}
  BY NamesOfLookalike, Zenon
<1>5. Places(RequestLine, <<name, Colon, Space>>) = {}
  BY NamesOfRequestLine, Zenon
<1>6. {1} # {} /\ {2} # {}
  OBVIOUS
<1> QED
  BY <1>2, <1>3, <1>4, <1>5, <1>6, Zenon

\* Nothing is found in nothing.
LEMMA NoField ==
    ASSUME NEW key
    PROVE  AuthField(<<>>, key) = <<>>
<1>1. Len(<<>>) = 0 /\ Len(<<>>) \in Nat /\ 1 .. 0 - 1 = {}
  OBVIOUS
<1>2. \A j : j \notin Places(<<>>, <<Equals, Quote>>)
  BY <1>1, QuotedPlaces
<1> QED
  BY <1>2, Zenon DEF AuthField

\* The digest is read as it was written, wherever its line stands.
LEMMA AuthorizationIs ==
    ASSUME NEW intent, IntentOK(intent), NEW layout \in Layouts
    PROVE  LET auth == GetAuthorization(Header(intent, layout))
           IN  /\ auth.nonce = Words(intent.nonce)
               /\ intent.nonce # Nothing => /\ auth.username = <<"user">>
                                            /\ auth.response = <<Response(intent)>>
<1> DEFINE h == Header(intent, layout)
           a == AuthLineOf(intent)
           Has(line) == Places(line, <<"authorization", Colon, Space>>) # {}
           line == GetHeader(h, "authorization")
<1>1. /\ Len(h) \in Nat /\ DOMAIN h = 1 .. Len(h)
      /\ Lines(h) = {RequestLine} \cup Lines(Before(layout)) \cup Lines(After(layout))
                       \cup Lines(CookieLines(intent, layout)) \cup Lines(AuthLines(intent))
  BY HeaderLines
<1>2. \A x \in Lines(h) : Has(x) => x = a /\ intent.nonce # Nothing
  <2>1. "authorization" # "cookie"
    OBVIOUS
  <2>2. ~Has(RequestLine) /\ ~Has(Lookalike)
        /\ (intent.cookie # Nothing => ~Has(CookieLineOf(intent, layout)))
    BY <2>1, NamesOfLines, Zenon
  <2> HIDE DEF Has, h
  <2>3. \A x \in Lines(h) : \/ x = RequestLine \/ x = Lookalike
                            \/ x = CookieLineOf(intent, layout) /\ intent.cookie # Nothing
                            \/ x = a /\ intent.nonce # Nothing
    <3>1. /\ Lines(CookieLines(intent, layout)) \subseteq
                IF intent.cookie = Nothing THEN {} ELSE {CookieLineOf(intent, layout)}
          /\ Lines(AuthLines(intent)) = IF intent.nonce = Nothing THEN {} ELSE {a}
          /\ Lines(Before(layout)) \subseteq {Lookalike} /\ Lines(After(layout)) \subseteq {Lookalike}
      BY LinesOfParts
    <3> QED
      BY <1>1, <3>1
  <2> QED
    BY <2>2, <2>3, Zenon
<1>3. intent.nonce # Nothing => Has(a) /\ a \in Lines(h)
  <2>1. intent.nonce # Nothing => Has(a)
    BY NamesOfLines, Zenon
  <2>2. intent.nonce # Nothing => a \in Lines(AuthLines(intent))
    BY LinesOfParts, Zenon
  <2> QED
    BY <1>1, <2>1, <2>2, Zenon
<1>4. /\ (\E k \in 1 .. Len(h) : Has(h[k])) =>
            \E k \in 1 .. Len(h) : Has(h[k]) /\ line = Behind(h[k], "authorization")
      /\ (\A k \in 1 .. Len(h) : ~Has(h[k])) => line = <<>>
  <2>1. Len(h) \in 0 .. Len(h)
    BY <1>1
  <2> HIDE DEF h
  <2> QED
    BY <1>1, <2>1, HeaderAmong, Zenon
<1> HIDE DEF h, Has
<1>5. \A k \in 1 .. Len(h) : h[k] \in Lines(h)
  BY DEF Lines
<1>6. GetAuthorization(h) =
         [username |-> AuthField(line, <<"digest", Space, "username">>),
          nonce |-> AuthField(line, <<"nonce">>),
          response |-> AuthField(line, <<"response">>)]
  BY DEF GetAuthorization
<1>7. CASE intent.nonce = Nothing
  <2>1. line = <<>>
    BY <1>2, <1>4, <1>5, <1>7, Zenon
  <2>2. GetAuthorization(h).nonce = <<>>
    BY <1>6, <2>1, NoField
  <2> QED
    BY <1>7, <2>2 DEF Words, h
<1>8. CASE intent.nonce # Nothing
  <2>1. \E k \in 1 .. Len(h) : Has(h[k])
    BY <1>3, <1>8 DEF Lines
  <2>2. line = Behind(a, "authorization")
    BY <1>2, <1>4, <1>5, <2>1, Zenon
  <2>3. intent.nonce \notin Marks /\ Response(intent) \notin Marks
    BY <1>8, IntentHasNoMarks, Zenon
  <2>4. line = Digest(intent.nonce, Response(intent))
    BY <2>2, <2>3, DigestBehind, Zenon DEF AuthLineOf
  <2> HIDE DEF line
  <2>5. /\ AuthField(line, <<"digest", Space, "username">>) = <<"user">>
        /\ AuthField(line, <<"nonce">>) = <<intent.nonce>>
        /\ AuthField(line, <<"response">>) = <<Response(intent)>>
    BY <2>3, <2>4, DigestFields, Zenon
  <2>6. /\ GetAuthorization(h).username = <<"user">>
        /\ GetAuthorization(h).nonce = <<intent.nonce>>
        /\ GetAuthorization(h).response = <<Response(intent)>>
    BY <1>6, <2>5
  <2> QED
    BY <1>8, <2>6, Zenon DEF Words, h
<1> QED
  BY <1>7, <1>8, Zenon

\* Whether the line of another name is taken for the cookie line.
Misread(intent, layout) ==
    \/ layout.lookalike = "before"
    \/ layout.lookalike = "after" /\ intent.cookie = Nothing

\* A cookie is read as it was written, or as the one of the other name.
LEMMA CookieIs ==
    ASSUME NEW intent, IntentOK(intent), NEW layout \in Layouts
    PROVE  LET cookie == GetCookie(Header(intent, layout), "session")
           IN  /\ cookie \in {Words(intent.cookie), <<"forwarded">>}
               /\ ~Misread(intent, layout) => cookie = Words(intent.cookie)
<1> DEFINE h == Header(intent, layout)
           c == CookieLineOf(intent, layout)
           Has(line) == Places(line, <<"cookie", Colon, Space>>) # {}
           line == GetHeader(h, "cookie")
<1>1. /\ Len(h) \in Nat /\ DOMAIN h = 1 .. Len(h)
      /\ \E m \in 0 .. Len(h) :
            {h[k] : k \in 1 .. m} =
               {RequestLine} \cup Lines(Before(layout))
                  \cup Lines(CookieLines(intent, layout)) \cup Lines(AuthLines(intent))
      /\ Lines(h) = {RequestLine} \cup Lines(Before(layout)) \cup Lines(After(layout))
                       \cup Lines(CookieLines(intent, layout)) \cup Lines(AuthLines(intent))
  BY HeaderLines
<1>2. PICK m \in 0 .. Len(h) :
            {h[k] : k \in 1 .. m} =
               {RequestLine} \cup Lines(Before(layout))
                  \cup Lines(CookieLines(intent, layout)) \cup Lines(AuthLines(intent))
  BY <1>1
<1>3. ~Has(RequestLine) /\ Has(Lookalike) /\ (intent.cookie # Nothing => Has(c))
      /\ (intent.nonce # Nothing => ~Has(AuthLineOf(intent)))
  <2>1. "authorization" # "cookie"
    OBVIOUS
  <2> QED
    BY <2>1, NamesOfLines, Zenon
<1>4. \A i \in 0 .. Len(h) :
         /\ (\E k \in 1 .. i : Has(h[k])) =>
               \E k \in 1 .. i : Has(h[k]) /\ line = Behind(h[k], "cookie")
         /\ (\A k \in 1 .. Len(h) : ~Has(h[k])) => line = <<>>
  <2> HIDE DEF h
  <2> QED
    BY <1>1, HeaderAmong, Zenon
<1>5. GetCookie(h, "session") = CookieIn(line)
  BY DEF GetCookie, CookieIn
<1>6. intent.cookie # Nothing => CookieIn(Behind(c, "cookie")) = <<intent.cookie>>
  <2>1. layout.cookieFirst \in BOOLEAN
    BY DEF Layouts
  <2> QED
    BY <2>1, IntentHasNoMarks, CookieBehind, Zenon DEF CookieLineOf
<1>7. CookieIn(<<>>) = <<>>
  <2>1. Len(<<>>) = 0 /\ Len(<<>>) \in Nat /\ 1 .. 0 - 1 = {}
    OBVIOUS
  <2>2. \A j : j \notin Places(<<>>, <<"session", Equals>>)
    BY <2>1, PlacesOfTwo
  <2> QED
    BY <2>2, Zenon DEF CookieIn
<1>8. Len(h) \in 0 .. Len(h) /\ \A k \in 1 .. Len(h) : h[k] \in Lines(h)
  BY <1>1 DEF Lines
<1> DEFINE First == {h[k] : k \in 1 .. m}
<1>9. \A k \in 1 .. m : k \in 1 .. Len(h) /\ h[k] \in First
  BY <1>1, <1>2
<1>10. /\ First = {RequestLine} \cup Lines(Before(layout))
                     \cup Lines(CookieLines(intent, layout)) \cup Lines(AuthLines(intent))
       /\ \A x \in First : \E k \in 1 .. m : x = h[k]
  BY <1>2
<1> HIDE DEF h, Has, line, c, First
<1>11. \A x \in Lines(h) : Has(x) =>
          \/ x = c /\ intent.cookie # Nothing
          \/ x = Lookalike /\ layout.lookalike \in {"before", "after"}
  <2>1. \A x \in Lines(h) : \/ x = RequestLine
                            \/ x = Lookalike /\ layout.lookalike \in {"before", "after"}
                            \/ x = c /\ intent.cookie # Nothing
                            \/ x = AuthLineOf(intent) /\ intent.nonce # Nothing
    <3>1. /\ Lines(CookieLines(intent, layout)) = IF intent.cookie = Nothing THEN {} ELSE {c}
          /\ Lines(AuthLines(intent)) = IF intent.nonce = Nothing THEN {} ELSE {AuthLineOf(intent)}
          /\ Lines(Before(layout)) = IF layout.lookalike = "before" THEN {Lookalike} ELSE {}
          /\ Lines(After(layout)) = IF layout.lookalike = "after" THEN {Lookalike} ELSE {}
      BY LinesOfParts, Zenon DEF c
    <3> QED
      BY <1>1, <3>1
  <2> QED
    BY <1>3, <2>1, Zenon
<1>12. \A x \in First : Has(x) =>
          \/ x = c /\ intent.cookie # Nothing
          \/ x = Lookalike /\ layout.lookalike = "before"
  <2>1. \A x \in First : \/ x = RequestLine
                         \/ x = Lookalike /\ layout.lookalike = "before"
                         \/ x = c /\ intent.cookie # Nothing
                         \/ x = AuthLineOf(intent) /\ intent.nonce # Nothing
    <3>1. /\ Lines(CookieLines(intent, layout)) = IF intent.cookie = Nothing THEN {} ELSE {c}
          /\ Lines(AuthLines(intent)) = IF intent.nonce = Nothing THEN {} ELSE {AuthLineOf(intent)}
          /\ Lines(Before(layout)) = IF layout.lookalike = "before" THEN {Lookalike} ELSE {}
      BY LinesOfParts, Zenon DEF c
    <3> QED
      BY <1>10, <3>1
  <2> QED
    BY <1>3, <2>1, Zenon
<1>13. CASE intent.cookie = Nothing
  <2>1. \/ line = <<>>
        \/ layout.lookalike \in {"before", "after"} /\ line = Behind(Lookalike, "cookie")
    <3>1. CASE \E k \in 1 .. Len(h) : Has(h[k])
      <4>1. PICK k \in 1 .. Len(h) : Has(h[k]) /\ line = Behind(h[k], "cookie")
        BY <1>4, <1>8, <3>1, Zenon
      <4>2. h[k] = Lookalike /\ layout.lookalike \in {"before", "after"}
        BY <1>8, <1>11, <1>13, <4>1, Zenon
      <4> QED
        BY <4>1, <4>2, Zenon
    <3>2. CASE \A k \in 1 .. Len(h) : ~Has(h[k])
      BY <1>4, <1>8, <3>2
    <3> QED
      BY <3>1, <3>2, Zenon
  <2>2. Words(intent.cookie) = <<>>
    BY <1>13 DEF Words
  <2> QED
    BY <1>5, <1>7, <1>13, <2>1, <2>2, LookalikeBehind, Zenon DEF Misread, h
<1>14. CASE intent.cookie # Nothing
  <2>1. c \in First /\ Has(c)
    <3>1. Lines(CookieLines(intent, layout)) = {c}
      BY <1>14, LinesOfParts, Zenon DEF c
    <3>2. c \in {c}
      OBVIOUS
    <3> QED
      BY <1>3, <1>14, <1>10, <3>1, <3>2, Zenon
  <2>2. \E k \in 1 .. m : Has(h[k])
    BY <1>10, <2>1, Zenon
  <2>3. \E k \in 1 .. m : Has(h[k]) /\ line = Behind(h[k], "cookie")
    BY <1>4, <2>2, Zenon
  <2>4. \/ line = Behind(c, "cookie")
        \/ layout.lookalike = "before" /\ line = Behind(Lookalike, "cookie")
    <3>1. PICK k \in 1 .. m : Has(h[k]) /\ line = Behind(h[k], "cookie")
      BY <2>3, Zenon
    <3>2. h[k] = c \/ (h[k] = Lookalike /\ layout.lookalike = "before")
      BY <1>9, <1>12, <3>1
    <3> QED
      BY <3>1, <3>2
  <2>5. Words(intent.cookie) = <<intent.cookie>>
    BY <1>14 DEF Words
  <2> QED
    BY <1>5, <1>6, <1>14, <2>4, <2>5, LookalikeBehind, Zenon DEF Misread, h
<1> QED
  BY <1>13, <1>14, Zenon

\* The method and the URL are the first parts of the request line.
LEMMA MethodIs ==
    ASSUME NEW intent, NEW layout \in Layouts
    PROVE  /\ GetMethod(Header(intent, layout)) = <<"get">>
           /\ GetURL(Header(intent, layout)) = <<"/rest">>
<1> DEFINE line == RequestLine
<1>1. Head(Header(intent, layout)) = line
  BY HeaderLines
<1>2. /\ line = [k \in 1 .. 5 |-> line[k]] /\ DOMAIN line = 1 .. 5
      /\ line[1] = "get" /\ line[2] = Space /\ line[3] = "/rest" /\ line[4] = Space /\ line[5] = "http/1.1"
  BY DEF RequestLine
<1>3. "get" # Space /\ "/rest" # Space /\ "http/1.1" # Space
  BY WordsAreNoSpace, Zenon
<1> HIDE DEF line
<1>4. SpacesOf(line) = {2, 4}
  <2>1. \A j \in 1 .. 5 : j \in {1, 2, 3, 4, 5}
    OBVIOUS
  <2>2. \A j : j \in SpacesOf(line) <=> j \in {2, 4}
    BY <1>2, <1>3, <2>1 DEF SpacesOf
  <2> QED
    BY <2>2, Zenon
<1>5. SecondSpace(line) = 4
  <2>1. {2, 4} \subseteq Int /\ 4 \in {2, 4} /\ \A n \in {2, 4} : n <= 4
    OBVIOUS
  <2>2. Max({2, 4}) = 4
    BY <2>1, MaxIs
  <2> QED
    BY <1>4, <2>2 DEF SecondSpace
<1>6. FirstSpace(line) = 2
  <2>1. {2, 4} \ {4} = {2} /\ 2 \in Nat
    OBVIOUS
  <2>2. Max({2}) = 2
    BY <2>1, OnePlace
  <2> QED
    BY <1>4, <1>5, <2>1, <2>2 DEF FirstSpace
<1>7. SubSeq(line, 1, 1) = <<line[1]>> /\ SubSeq(line, 3, 3) = <<line[3]>>
  <2>1. 5 \in Nat /\ 1 \in 1 .. 5 /\ 3 \in 1 .. 5
    OBVIOUS
  <2> QED
    BY <1>2, <2>1, OneToken, Zenon
<1>8. 2 - 1 = 1 /\ 2 + 1 = 3 /\ 4 - 1 = 3
  OBVIOUS
<1>9. GetMethod(Header(intent, layout)) = <<"get">>
  BY <1>1, <1>2, <1>6, <1>7, <1>8 DEF GetMethod
<1>10. GetURL(Header(intent, layout)) = <<"/rest">>
  BY <1>1, <1>2, <1>5, <1>6, <1>7, <1>8 DEF GetURL
<1> QED
  BY <1>9, <1>10

-----------------------------------------------------------------------------
(* The invariant                                                           *)

\* The table of sessions and what was sent agree.
SessionsOK ==
    \A n \in Nonces :
        /\ sessions[n] # Never => issued[n] # Never /\ sessions[n] = issued[n] + Expiry
        /\ issued[n] # Never /\ now <= issued[n] + Expiry => sessions[n] # Never

RequestOK == IntentOK(last.intent) /\ last.layout \in Layouts

Inv == /\ TypeOK /\ SessionsOK /\ given \subseteq Live(issued) /\ RequestOK
       /\ SessionLasts /\ ExpiredIsRefused

\* No nonce is one of the words that stand for something else.
LEMMA NoncesAreNoWords ==
    /\ Nothing \notin Nonces /\ "forwarded" \notin Nonces
    /\ \A n \in Nonces : DigestOf[n] # "wrong"
BY WordsAssumption, Zenon

\* One token is not none, and tokens are equal when they are.
LEMMA Token ==
    \A x, y : /\ <<x>> # <<>>
              /\ <<x>> = <<y>> <=> x = y
              /\ Head(<<x>>) = x
OBVIOUS

\* Who is let through: who has the cookie of a session, or knows the password; and
\* nobody else once requireAuth() was called.
LEMMA Admission ==
    ASSUME NEW intent, IntentOK(intent), NEW layout \in Layouts, NEW table
    PROVE  LET admitted == ValidateAuthentication(table, Header(intent, layout))
           IN  /\ intent.cookie \in Live(table) /\ ~Misread(intent, layout) => admitted
               /\ intent.nonce \in Live(table) /\ intent.right => admitted
               /\ admitted /\ needsAuth =>
                     intent.cookie \in Live(table) \/ (intent.right /\ intent.nonce \in Live(table))
<1> DEFINE h == Header(intent, layout)
           auth == GetAuthorization(h)
           cookie == GetCookie(h, "session")
           admitted == ValidateAuthentication(table, h)
<1>1. /\ auth.nonce = Words(intent.nonce)
      /\ intent.nonce # Nothing => auth.username = <<"user">> /\ auth.response = <<Response(intent)>>
  BY AuthorizationIs
<1>2. /\ cookie \in {Words(intent.cookie), <<"forwarded">>}
      /\ ~Misread(intent, layout) => cookie = Words(intent.cookie)
  BY CookieIs
<1>3. admitted <=> \/ ~needsAuth
                   \/ Names(table, cookie)
                   \/ /\ Names(table, auth.nonce)
                      /\ auth.username = <<"user">>
                      /\ auth.response = <<DigestOf[Head(auth.nonce)]>>
  BY DEF ValidateAuthentication
<1> HIDE DEF h, auth, cookie, admitted
<1>4. \A n \in Live(table) : n \in Nonces /\ n # Nothing /\ n # "forwarded" /\ DigestOf[n] # "wrong"
  BY NoncesAreNoWords, Zenon DEF Live
<1>5. \A text : Names(table, text) <=> \E n \in Live(table) : text = <<n>>
  BY DEF Names
<1>6. \A x : x # Nothing => Words(x) = <<x>>
  BY DEF Words
<1>7. Words(Nothing) = <<>>
  BY DEF Words
<1>8. ASSUME intent.cookie \in Live(table), ~Misread(intent, layout) PROVE admitted
  BY <1>2, <1>3, <1>4, <1>5, <1>6, <1>8, Zenon
<1>9. ASSUME intent.nonce \in Live(table), intent.right PROVE admitted
  <2>1. intent.nonce # Nothing /\ auth.nonce = <<intent.nonce>>
    BY <1>1, <1>4, <1>6, <1>9, Zenon
  <2>2. Names(table, auth.nonce) /\ Head(auth.nonce) = intent.nonce
    BY <1>5, <1>9, <2>1, Token, Zenon
  <2>3. Response(intent) = DigestOf[intent.nonce]
    BY <1>9 DEF Response
  <2> QED
    BY <1>1, <1>3, <2>1, <2>2, <2>3, Zenon
<1>10. ASSUME admitted, needsAuth
       PROVE  intent.cookie \in Live(table) \/ (intent.right /\ intent.nonce \in Live(table))
  <2>1. CASE Names(table, cookie)
    <3>1. PICK n \in Live(table) : cookie = <<n>>
      BY <1>5, <2>1, Zenon
    <3>2. <<n>> # <<"forwarded">> /\ <<n>> # <<>>
      BY <1>4, Token, Zenon
    <3>3. <<n>> = Words(intent.cookie)
      BY <1>2, <3>1, <3>2, Zenon
    <3>4. intent.cookie # Nothing
      BY <1>7, <3>2, <3>3, Zenon
    <3> QED
      <4>1. <<n>> = <<intent.cookie>>
        BY <1>6, <3>3, <3>4, Zenon
      <4>2. n = intent.cookie
        BY <4>1, Token, Zenon
      <4> QED
        BY <4>2, Zenon
  <2>2. CASE /\ Names(table, auth.nonce)
             /\ auth.response = <<DigestOf[Head(auth.nonce)]>>
    <3>1. PICK n \in Live(table) : auth.nonce = <<n>>
      BY <1>5, <2>2, Zenon
    <3>2. intent.nonce # Nothing
      BY <1>1, <1>7, <3>1, Token, Zenon
    <3>3. n = intent.nonce
      <4>1. <<n>> = <<intent.nonce>>
        BY <1>1, <1>6, <3>1, <3>2, Zenon
      <4> QED
        BY <4>1, Token, Zenon
    <3>4. Response(intent) = DigestOf[n]
      <4>1. Head(auth.nonce) = n
        BY <3>1, Token, Zenon
      <4>2. <<Response(intent)>> = <<DigestOf[n]>>
        BY <1>1, <2>2, <3>2, <4>1, Zenon
      <4> QED
        BY <4>2, Token, Zenon
    <3>5. intent.right
      BY <1>4, <3>4, Zenon DEF Response
    <3> QED
      BY <3>3, <3>5, Zenon
  <2> QED
    BY <1>3, <1>10, <2>1, <2>2, Zenon
<1> QED
  BY <1>8, <1>9, <1>10, Zenon DEF admitted, h

\* What the table holds when it has been cleared.
LEMMA Cleared ==
    ASSUME TypeOK, SessionsOK, NEW erased \in Clearings
    PROVE  LET table == Without(erased)
           IN  /\ \A n \in Nonces : table[n] \in {Never} \cup 0 .. MaxTime + Expiry
               /\ DOMAIN table = Nonces
               /\ \A n \in Live(table) :
                     n \in Nonces /\ issued[n] # Never /\ table[n] = issued[n] + Expiry
               /\ \A n \in Nonces : issued[n] # Never /\ now <= issued[n] + Expiry => n \in Live(table)
               /\ Cardinality(Expired) <= 1 => \A n \in Live(table) : now <= issued[n] + Expiry
<1> DEFINE table == Without(erased)
<1>1. erased \subseteq Expired /\ (Expired # {} => erased # {})
  <2>1. CASE Expired = {}
    BY <2>1 DEF Clearings
  <2>2. CASE Expired # {}
    <3>1. erased \in (SUBSET Expired) \ {{}}
      BY <2>2 DEF Clearings
    <3> QED
      BY <3>1
  <2> QED
    BY <2>1, <2>2
<1>2. Expired \subseteq Nonces /\ \A n \in Nonces : n \in Expired <=> sessions[n] # Never /\ sessions[n] < now
  BY DEF Expired, Live, IsExpired
<1>3. \A n \in Nonces : table[n] = IF n \in erased THEN Never ELSE sessions[n]
  BY DEF Without
<1>4. DOMAIN table = Nonces
  BY DEF Without
<1>5. \A n : n \in Live(table) <=> n \in Nonces /\ table[n] # Never
  BY DEF Live
<1> HIDE DEF table
<1>6. /\ now \in 0 .. MaxTime /\ Expiry \in Nat /\ MaxTime \in Nat
      /\ \A n \in Nonces : sessions[n] \in {Never} \cup 0 .. MaxTime + Expiry
      /\ \A n \in Nonces : issued[n] \in {Never} \cup 0 .. MaxTime
  BY TimesAssumption DEF TypeOK
<1>7. \A n \in Nonces : table[n] \in {Never} \cup 0 .. MaxTime + Expiry
  BY <1>3, <1>6
<1>8. \A n \in Live(table) : n \in Nonces /\ n \notin erased /\ table[n] = sessions[n] /\ sessions[n] # Never
                             /\ issued[n] # Never /\ sessions[n] = issued[n] + Expiry
  BY <1>3, <1>5 DEF SessionsOK
<1>9. ASSUME NEW n \in Nonces, issued[n] # Never, now <= issued[n] + Expiry
      PROVE  n \in Live(table)
  <2>1. sessions[n] # Never /\ sessions[n] = issued[n] + Expiry
    BY <1>9 DEF SessionsOK
  <2>2. now \in Int /\ sessions[n] \in Int /\ ~(sessions[n] < now)
    BY <1>6, <1>9, <2>1 DEF Never
  <2>3. n \notin erased
    BY <1>1, <1>2, <2>2
  <2> QED
    BY <1>3, <1>5, <2>1, <2>3
<1>10. ASSUME Cardinality(Expired) <= 1 PROVE erased = Expired
  <2>1. IsFiniteSet(Expired)
    BY <1>2, NoncesAssumption, FS_Subset
  <2>2. CASE Expired = {}
    BY <1>1, <2>2
  <2>3. CASE Expired # {}
    <3>1. PICK x \in erased : TRUE
      BY <1>1, <2>3
    <3>2. x \in Expired /\ IsFiniteSet({x}) /\ Cardinality({x}) = 1
      BY <1>1, FS_Singleton
    <3>3. {x} \subseteq Expired /\ Cardinality(Expired) \in Nat
      BY <2>1, <3>2, FS_CardinalityType
    <3>4. Cardinality({x}) <= Cardinality(Expired)
      BY <2>1, <3>3, FS_Subset
    <3>5. {x} = Expired
      <4>1. Cardinality({x}) = Cardinality(Expired)
        BY <1>10, <3>2, <3>3, <3>4
      <4> QED
        BY <2>1, <3>3, <4>1, FS_Subset
    <3> QED
      BY <1>1, <3>1, <3>5
  <2> QED
    BY <2>2, <2>3
<1>11. ASSUME Cardinality(Expired) <= 1, NEW n \in Live(table)
       PROVE  now <= issued[n] + Expiry
  <2>1. n \in Nonces /\ n \notin Expired /\ sessions[n] # Never /\ sessions[n] = issued[n] + Expiry
    BY <1>8, <1>10, <1>11
  <2>2. ~(sessions[n] < now) /\ now \in Int /\ sessions[n] \in Int
    BY <1>2, <1>6, <2>1 DEF Never
  <2> QED
    BY <2>1, <2>2
<1> QED
  BY <1>4, <1>7, <1>8, <1>9, <1>11 DEF table

-----------------------------------------------------------------------------
(* The steps                                                               *)

\* At first nothing was sent.
LEMMA InitInv == Init => Inv
<1> SUFFICES ASSUME Init PROVE Inv
  OBVIOUS
<1>1. TypeOK
  <2>1. now \in 0 .. MaxTime
    BY TimesAssumption DEF Init
  <2>2. /\ sessions \in [Nonces -> {Never} \cup 0 .. MaxTime + Expiry]
        /\ issued \in [Nonces -> {Never} \cup 0 .. MaxTime]
    BY DEF Init
  <2>3. last.admitted = TRUE /\ needsAuth = FALSE /\ lost = FALSE /\ given = {}
    BY DEF Init, NoRequest
  <2> QED
    BY <2>1, <2>2, <2>3 DEF TypeOK
<1>2. SessionsOK /\ given \subseteq Live(issued)
  BY DEF Init, SessionsOK, Never
<1>3. last.intent = [cookie |-> Nothing, nonce |-> Nothing, right |-> FALSE] /\ last.needed = FALSE
      /\ last.layout = [cookieFirst |-> FALSE, lookalike |-> "none"]
  BY DEF Init, NoRequest
<1>4. RequestOK
  BY <1>3 DEF RequestOK, IntentOK, Layouts
<1>5. SessionLasts /\ ExpiredIsRefused
  BY <1>3 DEF SessionLasts, ExpiredIsRefused, Lasted, Cookie, Digested
<1> QED
  BY <1>1, <1>2, <1>4, <1>5 DEF Inv

\* Time passes: what was sent is as it was.
LEMMA TickInv == Inv /\ Tick => Inv'
<1> SUFFICES ASSUME Inv, Tick PROVE Inv'
  OBVIOUS
<1>1. now < MaxTime /\ now' = now + 1 /\ UNCHANGED <<needsAuth, sessions, issued, given, last, lost>>
  BY DEF Tick
<1>2. TypeOK'
  BY <1>1, TimesAssumption DEF Inv, TypeOK
<1>3. SessionsOK'
  <2> SUFFICES ASSUME NEW n \in Nonces
               PROVE  /\ sessions[n] # Never => issued[n] # Never /\ sessions[n] = issued[n] + Expiry
                      /\ issued[n] # Never /\ now' <= issued[n] + Expiry => sessions[n] # Never
    BY <1>1 DEF SessionsOK
  <2>1. now \in Int /\ issued[n] \in Int /\ Expiry \in Int
    BY TimesAssumption DEF Inv, TypeOK, Never
  <2>2. now' <= issued[n] + Expiry => now <= issued[n] + Expiry
    BY <1>1, <2>1
  <2> QED
    BY <2>2 DEF Inv, SessionsOK
<1>4. RequestOK' /\ SessionLasts' /\ ExpiredIsRefused' /\ (given \subseteq Live(issued))'
  BY <1>1 DEF Inv, RequestOK, SessionLasts, ExpiredIsRefused, Lasted, Cookie, Digested, CookieIsMisread, Live
<1> QED
  BY <1>2, <1>3, <1>4 DEF Inv

\* Nor does it depend on who is asked to log in, or on a loop that is led astray.
LEMMA OtherInv == Inv /\ (RequireAuth \/ ClearAstray \/ UNCHANGED vars) => Inv'
<1> SUFFICES ASSUME Inv, RequireAuth \/ ClearAstray \/ UNCHANGED vars PROVE Inv'
  OBVIOUS
<1>1. /\ UNCHANGED <<now, sessions, issued, given, last>>
      /\ needsAuth' \in BOOLEAN /\ lost' \in BOOLEAN
  BY DEF RequireAuth, ClearAstray, vars, Inv, TypeOK
<1>2. TypeOK' /\ SessionsOK'
  BY <1>1 DEF Inv, TypeOK, SessionsOK
<1>3. RequestOK' /\ SessionLasts' /\ ExpiredIsRefused' /\ (given \subseteq Live(issued))'
  BY <1>1 DEF Inv, RequestOK, SessionLasts, ExpiredIsRefused, Lasted, Cookie, Digested, CookieIsMisread, Live
<1> QED
  BY <1>2, <1>3 DEF Inv

\* What a client means is right or wrong about nonces that were sent.
LEMMA IntentsAreOK ==
    ASSUME Inv, NEW intent \in Intents
    PROVE  /\ IntentOK(intent)
           /\ intent.cookie \in Live(issued) \cup {Nothing}
           /\ intent.nonce \in Live(issued) \cup {Nothing}
<1>1. Live(issued) \subseteq Nonces /\ given \subseteq Live(issued)
  BY DEF Live, Inv
<1>2. /\ intent.cookie \in given \cup {Nothing} /\ intent.nonce \in Live(issued) \cup {Nothing}
      /\ intent.right \in BOOLEAN /\ (intent.nonce = Nothing => ~intent.right)
  BY DEF Intents
<1> QED
  BY <1>1, <1>2 DEF IntentOK

\* What a request does to the table: it is cleared, and a session begins or is
\* renewed unless the request is let through.
Changes(table) ==
    \/ /\ sessions' = table /\ issued' = issued /\ given' \subseteq given \cup Live(table)
    \/ \E n \in Nonces : /\ sessions' = [table EXCEPT ![n] = now + Expiry]
                         /\ issued' = [issued EXCEPT ![n] = now]
                         /\ given' = given

\* It is what a request does, and what it is remembered for.
LEMMA RequestChanges ==
    ASSUME Inv, NEW intent \in Intents, NEW layout \in Layouts, OnClientMessage(intent, layout)
    PROVE  \E erased \in Clearings :
              /\ Changes(Without(erased))
              /\ last' = [intent |-> intent, layout |-> layout,
                          admitted |-> ValidateAuthentication(Without(erased), Header(intent, layout)),
                          needed |-> needsAuth, time |-> now, issued |-> issued,
                          expired |-> Expired]
<1>1. PICK erased \in Clearings :
         /\ \/ Admit(Without(erased), Header(intent, layout))
            \/ Refuse(Without(erased), Header(intent, layout))
         /\ last' = [intent |-> intent, layout |-> layout,
                     admitted |-> ValidateAuthentication(Without(erased), Header(intent, layout)),
                     needed |-> needsAuth, time |-> now, issued |-> issued,
                     expired |-> Expired]
  BY DEF OnClientMessage
<1> DEFINE table == Without(erased)
           nonce == GetAuthorization(Header(intent, layout)).nonce
<1>2. Names(table, nonce) => Head(nonce) \in Live(table)
  BY Token, Zenon DEF Names
<1>3. Live(table) \subseteq Nonces
  BY DEF Live
<1>4. CASE Admit(table, Header(intent, layout))
  <2>1. /\ given' = IF Names(table, nonce) THEN given \cup {Head(nonce)} ELSE given
        /\ sessions' = table /\ issued' = issued
    BY <1>4 DEF Admit
  <2> HIDE DEF table, nonce
  <2>2. given' \subseteq given \cup Live(table)
    BY <1>2, <2>1
  <2>3. Changes(table)
    BY <2>1, <2>2, Zenon DEF Changes
  <2> QED
    BY <1>1, <2>3, Zenon DEF table
<1>5. CASE Refuse(table, Header(intent, layout))
  <2>1. /\ \E n \in IF Names(table, nonce) THEN {Head(nonce)} ELSE Nonces \ Live(issued) :
              /\ sessions' = [table EXCEPT ![n] = now + Expiry]
              /\ issued' = [issued EXCEPT ![n] = now]
        /\ given' = given
    BY <1>5 DEF Refuse
  <2> HIDE DEF table, nonce
  <2>2. PICK n \in Nonces : /\ sessions' = [table EXCEPT ![n] = now + Expiry]
                            /\ issued' = [issued EXCEPT ![n] = now]
    BY <1>2, <1>3, <2>1
  <2>3. Changes(table)
    BY <2>1, <2>2, Zenon DEF Changes
  <2> QED
    BY <1>1, <2>3, Zenon DEF table
<1> QED
  BY <1>1, <1>4, <1>5, Zenon

\* A request keeps the invariant.
LEMMA RequestInv ==
    ASSUME Inv, NEW intent \in Intents, NEW layout \in Layouts, OnClientMessage(intent, layout)
    PROVE  Inv'
<1>1. PICK erased \in Clearings :
         /\ Changes(Without(erased))
         /\ last' = [intent |-> intent, layout |-> layout,
                     admitted |-> ValidateAuthentication(Without(erased), Header(intent, layout)),
                     needed |-> needsAuth, time |-> now, issued |-> issued,
                     expired |-> Expired]
  BY RequestChanges
<1> DEFINE table == Without(erased)
           admitted == ValidateAuthentication(table, Header(intent, layout))
<1>2. /\ \A n \in Nonces : table[n] \in {Never} \cup 0 .. MaxTime + Expiry
      /\ DOMAIN table = Nonces
      /\ \A n \in Live(table) :
            n \in Nonces /\ issued[n] # Never /\ table[n] = issued[n] + Expiry
      /\ \A n \in Nonces : issued[n] # Never /\ now <= issued[n] + Expiry => n \in Live(table)
      /\ Cardinality(Expired) <= 1 => \A n \in Live(table) : now <= issued[n] + Expiry
  BY Cleared DEF Inv
<1>3. table = [n \in Nonces |-> table[n]]
  BY DEF Without
<1>4. \A t, n : n \in Live(t) <=> n \in Nonces /\ t[n] # Never
  BY DEF Live
<1>5. UNCHANGED <<now, needsAuth, lost>>
  BY DEF OnClientMessage
<1>6. IntentOK(intent) /\ intent.cookie \in Live(issued) \cup {Nothing}
      /\ intent.nonce \in Live(issued) \cup {Nothing}
  BY IntentsAreOK
<1>7. /\ intent.cookie \in Live(table) /\ ~Misread(intent, layout) => admitted
      /\ intent.nonce \in Live(table) /\ intent.right => admitted
      /\ admitted /\ needsAuth =>
            intent.cookie \in Live(table) \/ (intent.right /\ intent.nonce \in Live(table))
  BY <1>6, Admission, Zenon
<1>8. Changes(table)
  BY <1>1
<1>9. /\ last'.intent = intent /\ last'.layout = layout /\ last'.admitted = admitted
      /\ last'.needed = needsAuth /\ last'.time = now /\ last'.issued = issued /\ last'.expired = Expired
  BY <1>1
<1>10. admitted \in BOOLEAN
  BY DEF ValidateAuthentication
<1> HIDE DEF table, admitted
<1>11. /\ now \in 0 .. MaxTime /\ Expiry \in Nat /\ MaxTime \in Nat
       /\ issued \in [Nonces -> {Never} \cup 0 .. MaxTime]
       /\ \A n \in Nonces : issued[n] \in {Never} \cup 0 .. MaxTime
       /\ given \subseteq Live(issued)
  BY TimesAssumption DEF Inv, TypeOK
<1>12. table \in [Nonces -> {Never} \cup 0 .. MaxTime + Expiry]
  BY <1>2, <1>3
<1>13. /\ now + Expiry \in {Never} \cup 0 .. MaxTime + Expiry
       /\ now \in {Never} \cup 0 .. MaxTime
       /\ now + Expiry # Never /\ now # Never
  BY <1>11 DEF Never
<1>14. /\ sessions' \in [Nonces -> {Never} \cup 0 .. MaxTime + Expiry]
       /\ issued' \in [Nonces -> {Never} \cup 0 .. MaxTime]
  BY <1>8, <1>11, <1>12, <1>13 DEF Changes
<1>15. (given \subseteq Live(issued))'
  <2>1. CASE sessions' = table /\ issued' = issued /\ given' \subseteq given \cup Live(table)
    BY <1>2, <1>4, <1>11, <2>1
  <2>2. ASSUME NEW n \in Nonces, issued' = [issued EXCEPT ![n] = now], given' = given
        PROVE  (given \subseteq Live(issued))'
    <3>1. \A i \in Nonces : issued[i] # Never => issued'[i] # Never
      BY <1>11, <1>13, <2>2
    <3> QED
      BY <1>4, <1>11, <2>2, <3>1
  <2> QED
    BY <1>8, <2>1, <2>2, Zenon DEF Changes
<1>16. TypeOK'
  <2>1. given' \subseteq Nonces
    BY <1>4, <1>15
  <2>2. last'.admitted \in BOOLEAN
    BY <1>9, <1>10
  <2> QED
    BY <1>5, <1>14, <2>1, <2>2 DEF Inv, TypeOK
<1>17. SessionsOK'
  <2> SUFFICES ASSUME NEW n \in Nonces
               PROVE  /\ sessions'[n] # Never => issued'[n] # Never /\ sessions'[n] = issued'[n] + Expiry
                      /\ issued'[n] # Never /\ now <= issued'[n] + Expiry => sessions'[n] # Never
    BY <1>5 DEF SessionsOK
  <2>1. /\ table[n] # Never => issued[n] # Never /\ table[n] = issued[n] + Expiry
        /\ issued[n] # Never /\ now <= issued[n] + Expiry => table[n] # Never
    BY <1>2, <1>4
  <2>2. CASE sessions' = table /\ issued' = issued
    BY <2>1, <2>2
  <2>3. ASSUME NEW i \in Nonces, sessions' = [table EXCEPT ![i] = now + Expiry],
               issued' = [issued EXCEPT ![i] = now]
        PROVE  /\ sessions'[n] # Never => issued'[n] # Never /\ sessions'[n] = issued'[n] + Expiry
               /\ issued'[n] # Never /\ now <= issued'[n] + Expiry => sessions'[n] # Never
    <3>1. CASE n = i
      <4>1. sessions'[n] = now + Expiry /\ issued'[n] = now
        BY <1>2, <1>11, <2>3, <3>1
      <4> QED
        BY <1>13, <4>1
    <3>2. CASE n # i
      <4>1. sessions'[n] = table[n] /\ issued'[n] = issued[n]
        BY <1>2, <1>11, <2>3, <3>2
      <4> QED
        BY <2>1, <4>1
    <3> QED
      BY <3>1, <3>2
  <2> QED
    BY <1>8, <2>2, <2>3, Zenon DEF Changes
<1>18. RequestOK'
  BY <1>6, <1>9 DEF RequestOK
<1>19. \A n \in Live(issued) \cup {Nothing} : n # Nothing /\ now <= issued[n] + Expiry => n \in Live(table)
  BY <1>2, <1>4
<1>20. \A n : Lasted(n)' <=> n # Nothing /\ now <= issued[n] + Expiry
  BY <1>9 DEF Lasted
<1>21. /\ CookieIsMisread' <=> Misread(intent, layout)
       /\ Cookie' = intent.cookie
       /\ Digested' = IF intent.right THEN intent.nonce ELSE Nothing
  BY <1>9 DEF CookieIsMisread, Misread, Cookie, Digested
<1>22. SessionLasts'
  <2>1. ASSUME Lasted(Cookie)', ~CookieIsMisread' PROVE admitted
    <3>1. intent.cookie \in Live(table)
      BY <1>6, <1>9, <1>19, <1>21, <2>1 DEF Lasted
    <3> QED
      BY <1>7, <1>21, <2>1, <3>1
  <2>2. ASSUME Lasted(Digested)' PROVE admitted
    <3>1. Digested' # Nothing /\ now <= issued[Digested'] + Expiry
      BY <1>9, <2>2 DEF Lasted
    <3>2. intent.right /\ Digested' = intent.nonce
      BY <1>21, <3>1, Zenon
    <3>3. intent.nonce \in Live(table)
      BY <1>6, <1>19, <3>1, <3>2
    <3> QED
      BY <1>7, <3>2, <3>3
  <2> QED
    BY <1>9, <2>1, <2>2 DEF SessionLasts
<1>23. ExpiredIsRefused'
  <2> SUFFICES ASSUME needsAuth, admitted, Cardinality(Expired) <= 1
               PROVE  Lasted(Cookie)' \/ Lasted(Digested)'
    BY <1>9 DEF ExpiredIsRefused
  <2>1. \A n \in Live(table) : n # Nothing /\ now <= issued[n] + Expiry
    BY <1>2, NoncesAreNoWords
  <2>2. CASE intent.cookie \in Live(table)
    BY <1>9, <1>21, <2>1, <2>2 DEF Lasted
  <2>3. CASE intent.right /\ intent.nonce \in Live(table)
    BY <1>9, <1>21, <2>1, <2>3 DEF Lasted
  <2> QED
    BY <1>7, <2>2, <2>3
<1> QED
  BY <1>15, <1>16, <1>17, <1>18, <1>22, <1>23 DEF Inv

\* Every step keeps the invariant.
LEMMA NextInv == Inv /\ [Next]_vars => Inv'
<1> SUFFICES ASSUME Inv, [Next]_vars PROVE Inv'
  OBVIOUS
<1>1. CASE Tick
  BY <1>1, TickInv
<1>2. CASE RequireAuth \/ ClearAstray \/ UNCHANGED vars
  BY <1>2, OtherInv
<1>3. ASSUME NEW intent \in Intents, NEW layout \in Layouts, OnClientMessage(intent, layout)
      PROVE  Inv'
  BY <1>3, RequestInv
<1> QED
  BY <1>1, <1>2, <1>3 DEF Next

\* The invariant of the authentication.
THEOREM Invariant == Spec => []Inv
BY InitInv, NextInv, PTL DEF Spec

-----------------------------------------------------------------------------
(* The properties                                                          *)

\* The session table of onClientMessage holds times, and remembers nonces only.
THEOREM TypeCorrect == Spec => []TypeOK
<1>1. Inv => TypeOK
  BY DEF Inv
<1> QED
  BY <1>1, Invariant, PTL

\* The lookups of HTTPRequest read every request as it is meant, for any nonces and
\* any password digests that are not marks of a header.
THEOREM Understood == Spec => []RequestIsUnderstood
<1>1. Inv => RequestIsUnderstood
  <2> SUFFICES ASSUME Inv PROVE RequestIsUnderstood
    OBVIOUS
  <2> DEFINE intent == last.intent
             layout == last.layout
             header == Header(intent, layout)
             auth == GetAuthorization(header)
  <2>1. IntentOK(intent) /\ layout \in Layouts
    BY DEF Inv, RequestOK
  <2>2. /\ auth.nonce = Words(intent.nonce)
        /\ intent.nonce # Nothing => auth.username = <<"user">> /\ auth.response = <<Response(intent)>>
    <3> HIDE DEF intent, layout
    <3> QED
      BY <2>1, AuthorizationIs
  <2>3. ~Misread(intent, layout) => GetCookie(header, "session") = Words(intent.cookie)
    <3> HIDE DEF intent, layout
    <3> QED
      BY <2>1, CookieIs
  <2>4. GetMethod(header) = <<"get">> /\ GetURL(header) = <<"/rest">>
    <3> HIDE DEF intent, layout
    <3> QED
      BY <2>1, MethodIs
  <2>5. CookieIsMisread <=> Misread(intent, layout)
    BY DEF CookieIsMisread, Misread
  <2>6. intent.nonce # Nothing => (<<Response(intent)>> = <<DigestOf[intent.nonce]>>) = intent.right
    <3> SUFFICES ASSUME intent.nonce # Nothing
                 PROVE  (<<Response(intent)>> = <<DigestOf[intent.nonce]>>) = intent.right
      OBVIOUS
    <3>1. intent.nonce \in Nonces /\ intent.right \in BOOLEAN
      BY <2>1 DEF IntentOK
    <3>2. DigestOf[intent.nonce] # "wrong"
      BY <3>1, NoncesAreNoWords
    <3>3. <<Response(intent)>> = <<DigestOf[intent.nonce]>> <=> intent.right
      BY <3>1, <3>2, Token, Zenon DEF Response
    <3> QED
      BY <3>1, <3>3, Zenon
  <2> HIDE DEF header, auth
  <2>7. intent.nonce # Nothing => (auth.response = <<DigestOf[intent.nonce]>>) = intent.right
    BY <2>2, <2>6, Zenon
  <2> QED
    BY <2>2, <2>3, <2>4, <2>5, <2>7, Zenon DEF RequestIsUnderstood, header, auth
<1> QED
  BY <1>1, Invariant, PTL

\* validateAuthentication() lets a session through for all of mSessionExpires.
THEOREM SessionsLast == Spec => []SessionLasts
<1>1. Inv => SessionLasts
  BY DEF Inv
<1> QED
  BY <1>1, Invariant, PTL

\* And no longer, unless clearExpiredSessions() has two to erase.
THEOREM ExpiredAreRefused == Spec => []ExpiredIsRefused
<1>1. Inv => ExpiredIsRefused
  BY DEF Inv
<1> QED
  BY <1>1, Invariant, PTL

=============================================================================
