-------------------------- MODULE WebAuthentication --------------------------
(***************************************************************************)
(* The part of WebServer::onClientMessage that decides whether a request   *)
(* is let through: sessions, their expiry, and the 401 that begins one.    *)
(* The reactor handles one request after the other, while time passes.     *)
(*                                                                         *)
(* A session begins with the 401 that names its nonce, and is renewed by   *)
(* the next one that does.  A client answers a 401 with a digest of its    *)
(* nonce, and sends the cookie it is then given; what it puts in a request *)
(* stands there with other lines, cookies and fields.  MD5 is DigestOf.    *)
(***************************************************************************)
EXTENDS Integers, HTTPRequest

CONSTANTS Nonces,    \* what generateNonce may return: each once
          DigestOf,  \* the response to each of them, with the right password
          Expiry,    \* mSessionExpires
          MaxTime    \* bound: of the clock

ASSUME NoncesAssumption == IsFiniteSet(Nonces)
ASSUME TimesAssumption == Expiry \in Nat /\ MaxTime \in Nat

Never == -1
Nothing == "nothing"

\* What MD5 makes is hexadecimal: none of the words and marks of a header.
ASSUME WordsAssumption ==
    \A n \in Nonces : /\ n \notin Marks \cup {Nothing, "forwarded"}
                      /\ DigestOf[n] \notin Marks \cup {"wrong"}

VARIABLES now,        \* the clock
          needsAuth,  \* mNeedsAuth
          sessions,   \* mSessions: the mExpires of each, or Never
          issued,     \* when the last 401 that names a nonce was sent, or Never
          given,      \* nonces that were given as a cookie
          last,       \* the last request, and what became of it
          lost        \* the loop of clearExpiredSessions has ended the program

vars == <<now, needsAuth, sessions, issued, given, last, lost>>

Live(table) == {n \in Nonces : table[n] # Never}

-----------------------------------------------------------------------------
(* Requests                                                                *)

\* What a client means: its cookie, the nonce it answers, and whether it knows the
\* password.  Nothing stands for a request without it.
Intents ==
    {intent \in [cookie : given \cup {Nothing}, nonce : Live(issued) \cup {Nothing},
                 right : BOOLEAN] : intent.nonce = Nothing => ~intent.right}

\* How it is written: whether the cookie comes first, in its line and with its line,
\* and where a line is whose name ends with that of another.
Layouts == [cookieFirst : BOOLEAN, lookalike : {"none", "before", "after"}]

RequestLine == <<"get", Space, "/rest", Space, "http/1.1">>
Lookalike == <<"x-", "cookie", Colon, Space, "session", Equals, "forwarded">>

CookieLine(cookie, cookieFirst) ==
    IF cookieFirst
    THEN <<"cookie", Colon, Space, "session", Equals, cookie, Semicolon, Space,
           "theme", Equals, "dark", Space, "blue">>
    ELSE <<"cookie", Colon, Space, "theme", Equals, "dark", Space, "blue", Semicolon, Space,
           "session", Equals, cookie>>

AuthLine(nonce, response) ==
    <<"authorization", Colon, Space, "digest", Space, "username", Equals, Quote, "user", Quote,
      Comma, Space, "realm", Equals, Quote, "dumais", Quote,
      Comma, Space, "nonce", Equals, Quote, nonce, Quote,
      Comma, Space, "uri", Equals, Quote, "/rest", Equals, Quote,
      Comma, "response", Equals, Quote, response, Quote>>

Header(intent, layout) ==
    LET cookies == IF intent.cookie = Nothing THEN <<>>
                   ELSE <<CookieLine(intent.cookie, layout.cookieFirst)>>
        auths == IF intent.nonce = Nothing THEN <<>>
                 ELSE <<AuthLine(intent.nonce,
                                 IF intent.right THEN DigestOf[intent.nonce] ELSE "wrong")>>
    IN  <<RequestLine>>
        \o (IF layout.lookalike = "before" THEN <<Lookalike>> ELSE <<>>)
        \o (IF layout.cookieFirst THEN cookies \o auths ELSE auths \o cookies)
        \o (IF layout.lookalike = "after" THEN <<Lookalike>> ELSE <<>>)

-----------------------------------------------------------------------------

NoRequest == [intent |-> [cookie |-> Nothing, nonce |-> Nothing, right |-> FALSE],
              layout |-> [cookieFirst |-> FALSE, lookalike |-> "none"],
              admitted |-> TRUE, needed |-> FALSE, time |-> 0,
              issued |-> [n \in Nonces |-> Never], expired |-> {}]

TypeOK ==
    /\ now \in 0 .. MaxTime
    /\ needsAuth \in BOOLEAN
    /\ sessions \in [Nonces -> {Never} \cup 0 .. MaxTime + Expiry]
    /\ issued \in [Nonces -> {Never} \cup 0 .. MaxTime]
    /\ given \subseteq Nonces
    /\ last.admitted \in BOOLEAN
    /\ lost \in BOOLEAN

Init ==
    /\ now = 0
    /\ needsAuth = FALSE
    /\ sessions = [n \in Nonces |-> Never]
    /\ issued = [n \in Nonces |-> Never]
    /\ given = {}
    /\ last = NoRequest
    /\ lost = FALSE

Tick ==
    /\ ~lost
    /\ now < MaxTime
    /\ now' = now + 1
    /\ UNCHANGED <<needsAuth, sessions, issued, given, last, lost>>

\* requireAuth(), which may be called while the server runs.
RequireAuth ==
    /\ ~lost
    /\ ~needsAuth
    /\ needsAuth' = TRUE
    /\ UNCHANGED <<now, sessions, issued, given, last, lost>>

-----------------------------------------------------------------------------
(* onClientMessage()                                                       *)

\* Mutant of IsExpired: a session ends when its time comes.
IsExpiredEarly(n) == sessions[n] <= now

IsExpired(n) == sessions[n] < now

Expired == {n \in Live(sessions) : IsExpired(n)}

\* Mutant of Clearings: sessions stay in the table.
NoClearing == {{}}

\* clearExpiredSessions() goes on from the iterator it has erased: of those that
\* have expired it erases one, and others if it comes to them.
Clearings == IF Expired = {} THEN {{}} ELSE (SUBSET Expired) \ {{}}

Without(erased) == [n \in Nonces |-> IF n \in erased THEN Never ELSE sessions[n]]

\* Whether text is the one token that names a session of the table.
Names(table, text) == \E n \in Live(table) : text = <<n>>

\* validateAuthentication(): a session in a cookie, or the digest of one.
ValidateAuthentication(table, header) ==
    LET auth == GetAuthorization(header)
    IN  \/ ~needsAuth
        \/ Names(table, GetCookie(header, "session"))
        \/ /\ Names(table, auth.nonce)
           /\ auth.username = <<"user">>
           /\ auth.response = <<DigestOf[Head(auth.nonce)]>>

\* Let through: the response will set the cookie, if there is a nonce.
Admit(table, header) ==
    LET nonce == GetAuthorization(header).nonce
    IN  /\ given' = IF Names(table, nonce) THEN given \cup {Head(nonce)} ELSE given
        /\ sessions' = table
        /\ UNCHANGED issued

\* Mutant of Refuse: the session of a known nonce keeps its time.
RefuseUnrenewed(table, header) ==
    LET nonce == GetAuthorization(header).nonce
    IN  /\ \E n \in IF Names(table, nonce) THEN {Head(nonce)} ELSE Nonces \ Live(issued) :
              /\ sessions' = IF Names(table, nonce) THEN table
                             ELSE [table EXCEPT ![n] = now + Expiry]
              /\ issued' = [issued EXCEPT ![n] = now]
        /\ UNCHANGED given

\* A 401 with the nonce of the request, if it is a session's, or with a new one.
Refuse(table, header) ==
    LET nonce == GetAuthorization(header).nonce
    IN  /\ \E n \in IF Names(table, nonce) THEN {Head(nonce)} ELSE Nonces \ Live(issued) :
              /\ sessions' = [table EXCEPT ![n] = now + Expiry]
              /\ issued' = [issued EXCEPT ![n] = now]
        /\ UNCHANGED given

OnClientMessage(intent, layout) ==
    /\ ~lost
    /\ \E erased \in Clearings :
          LET header == Header(intent, layout)
              admitted == ValidateAuthentication(Without(erased), header)
          IN  /\ IF admitted THEN Admit(Without(erased), header)
                 ELSE Refuse(Without(erased), header)
              /\ last' = [intent |-> intent, layout |-> layout, admitted |-> admitted,
                          needed |-> needsAuth, time |-> now, issued |-> issued,
                          expired |-> Expired]
    /\ UNCHANGED <<now, needsAuth, lost>>

\* The iterator that was erased ends the program.
ClearAstray ==
    /\ ~lost
    /\ Expired # {}
    /\ lost' = TRUE
    /\ UNCHANGED <<now, needsAuth, sessions, issued, given, last>>

-----------------------------------------------------------------------------

Next ==
    \/ Tick \/ RequireAuth \/ ClearAstray
    \/ \E intent \in Intents, layout \in Layouts : OnClientMessage(intent, layout)

Spec == Init /\ [][Next]_vars

-----------------------------------------------------------------------------
(* Properties                                                              *)

Words(text) == IF text = Nothing THEN <<>> ELSE <<text>>

\* A line whose name ends with "cookie" is taken for the cookie line that it comes
\* before, or that is missing.
CookieIsMisread ==
    \/ last.layout.lookalike = "before"
    \/ last.layout.lookalike = "after" /\ last.intent.cookie = Nothing

\* Every request is read as it is meant, wherever its lines, cookies and fields
\* stand: method, URL, cookie, and the fields of its digest.  (The lookups of
\* HTTPRequest search the whole header.)
RequestIsUnderstood ==
    LET header == Header(last.intent, last.layout)
        auth == GetAuthorization(header)
    IN  /\ GetMethod(header) = <<"get">>
        /\ GetURL(header) = <<"/rest">>
        /\ ~CookieIsMisread => GetCookie(header, "session") = Words(last.intent.cookie)
        /\ auth.nonce = Words(last.intent.nonce)
        /\ last.intent.nonce # Nothing =>
              /\ auth.username = <<"user">>
              /\ (auth.response = <<DigestOf[last.intent.nonce]>>) = last.intent.right

Lasted(n) == n # Nothing /\ last.time <= last.issued[n] + Expiry

Cookie == last.intent.cookie
Digested == IF last.intent.right THEN last.intent.nonce ELSE Nothing

\* A client is let through, by its cookie or a right digest, until mSessionExpires
\* have passed since the last 401 with its nonce, whatever else was asked, refused
\* or cleared since then.
SessionLasts ==
    (Lasted(Cookie) /\ ~CookieIsMisread) \/ Lasted(Digested) => last.admitted

\* And no longer: a session that has outlived mSessionExpires lets nobody through,
\* unless another has expired since the last request and the loop that clears them
\* was led astray.
ExpiredIsRefused ==
    last.needed /\ last.admitted /\ Cardinality(last.expired) <= 1 =>
        Lasted(Cookie) \/ Lasted(Digested)

=============================================================================
