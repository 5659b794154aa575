---------------------------- MODULE WSConnection ----------------------------
(***************************************************************************)
(* websocket/WebSocket.cpp: one connection from its first byte on.  It     *)
(* speaks HTTP until a request has switched it to the WebSocket protocol,  *)
(* whose frames WSProtocolParser reads.  The client waits for the answer   *)
(* to a request, sends another when it was refused, and frames when it was *)
(* accepted.  Whether a request is served, the application decides.        *)
(***************************************************************************)
EXTENDS WSProtocolParser, WSUpgrade

CONSTANTS Requests,   \* what the client may ask
          MaxData,    \* MAX_HTTP_DATA
          NoRequest

\* A request: what stands before the key, behind it, and the protocols it lists.
RequestType == [type : {"GET", "POST"}, before : {"nothing", "empty", "long"},
                hasKey : BOOLEAN, protocols : Seq(STRING \ {Space, Colon, Comma, NewLine}),
                after : {"nothing", "empty"}]

ASSUME RequestsAssumption == Requests \subseteq RequestType
ASSUME NamesAssumption ==
    /\ Lower("Sec-WebSocket-Key") = "sec-websocket-key"
    /\ Lower("Sec-WebSocket-Protocol") = "sec-websocket-protocol"
    /\ Lower("Cookie") = "cookie"
ASSUME UpgradeAssumption == MaxData \in Nat /\ NoRequest \notin RequestType

VARIABLES protocol,  \* WebSocket::protocol
          request,   \* the one that was not answered yet, or NoRequest
          unread,    \* what of it was not received yet
          data,      \* what is kept of it
          asked,     \* what the handler was asked, or NoRequest
          answer,    \* what is on its way to the client, or NoAnswer
          left       \* whether any of what it was read from was left out

upgrade == <<protocol, request, unread, data, asked, answer, left>>
allVars == <<vars, upgrade>>

NoAnswer == "none"

Line(name, value) == <<name, Colon>> \o value \o <<NewLine>>

\* "p1, p2" and so on
Listed(protocols) ==
    [k \in 1 .. 3 * Len(protocols) - 2 |->
        IF k % 3 = 1 THEN protocols[(k + 2) \div 3] ELSE IF k % 3 = 2 THEN Comma ELSE Space]

Extra(what) ==
    CASE what = "nothing" -> <<>>
      [] what = "empty" -> Line("X-Empty", <<>>)
      [] what = "long" -> Line("Cookie", <<Space>> \o [k \in 1 .. 8 |-> "c"])

\* The text of a request.
Text(r) ==
    <<r.type, Space, "/chat", Space, "HTTP/1.1", NewLine>>
    \o Extra(r.before)
    \o (IF r.hasKey THEN Line("Sec-WebSocket-Key", <<Space, "key">>) ELSE <<>>)
    \o (IF r.protocols = <<>> THEN <<>>
        ELSE Line("Sec-WebSocket-Protocol", <<Space>> \o Listed(r.protocols)))
    \o Extra(r.after)
    \o <<NewLine>>

ConnectionInit ==
    /\ Init
    /\ protocol = "http"
    /\ request = NoRequest
    /\ unread = <<>>
    /\ data = <<>>
    /\ asked = NoRequest
    /\ answer = NoAnswer
    /\ left = FALSE

-----------------------------------------------------------------------------

\* A client asks again when all it has sent was received.
ClientAsks(r) ==
    /\ protocol = "http"
    /\ request = NoRequest
    /\ unread = <<>>
    /\ request' = r
    /\ unread' = Text(r)
    /\ UNCHANGED <<vars, protocol, data, asked, answer, left>>

ClientReadsAnswer ==
    /\ answer # NoAnswer
    /\ request' = NoRequest
    /\ asked' = NoRequest
    /\ answer' = NoAnswer
    /\ left' = (left /\ data \o unread # <<>>)
    /\ UNCHANGED <<vars, protocol, unread, data>>

\* The handler is asked, and serves the resource or not.  It is served when there is
\* a key, and there is no answer when there is none.
AskHandler(read) ==
    /\ asked' = read
    /\ \/ /\ read.hasKey
          /\ protocol' = "websocket"
          /\ answer' = "switch"
       \/ /\ ~read.hasKey
          /\ UNCHANGED <<protocol, answer>>
       \/ /\ answer' = "reject"
          /\ UNCHANGED protocol

\* Mutant of Dropped: what was read stays.
NotDropped(text) == text

\* What is kept of the text once it was read: nothing.
Dropped(text) == <<>>

\* Mutant of Joined: what was kept is written over.
NotJoined(piece) == piece

Joined(piece) == data \o piece

\* checkHTTPBuffer() with the n tokens received.  Too many are an error, and left
\* out; what was kept before stays.
CheckHTTPBuffer(n) ==
    /\ protocol = "http"
    /\ n \in DOMAIN unread
    /\ unread' = SubSeq(unread, n + 1, Len(unread))
    /\ LET text == Joined(SubSeq(unread, 1, n))
           read == ParseIncoming(text)
       IN  IF Len(text) >= MaxData
           THEN left' = TRUE /\ UNCHANGED <<protocol, data, asked, answer>>
           ELSE /\ data' = IF read.status = "ready" THEN Dropped(text) ELSE text
                /\ UNCHANGED left
                /\ IF read.status = "ready" /\ read.type = <<"GET">>
                   THEN AskHandler(read)
                   ELSE UNCHANGED <<protocol, asked, answer>>
    /\ UNCHANGED <<vars, request>>

\* Frames: the client sends them when it has read that it may.
Speak(step) == protocol = "websocket" /\ answer = NoAnswer /\ step /\ UNCHANGED upgrade

ConnectionNext ==
    \/ \E r \in Requests : ClientAsks(r)
    \/ ClientReadsAnswer
    \/ \E n \in DOMAIN unread : CheckHTTPBuffer(n)
    \/ \E f \in Frames : Speak(ClientSends(f))
    \/ \E n \in 1 .. RecvSize : Speak(Receive(n))
    \/ Speak(Parse)

ConnectionSpec == ConnectionInit /\ [][ConnectionNext]_allVars

\* work() is called again and again, and processData runs to its end; answers arrive;
\* and every piece of a request is received: the weak fairness of CheckHTTPBuffer,
\* since each of its steps shortens what is unread.
ConnectionFairSpec ==
    /\ ConnectionSpec
    /\ []<>(protocol = "http" => unread = <<>>)
    /\ WF_allVars(ClientReadsAnswer)
    /\ WF_allVars(\E n \in 1 .. RecvSize : Speak(Receive(n)))
    /\ WF_allVars(Speak(Parse))

-----------------------------------------------------------------------------
(* Properties                                                              *)

\* What a request means.  (parseIncoming puts the name of a header without a value
\* before the name of the next one, and loses both.)
Meaning(r) ==
    [status |-> "ready", type |-> <<r.type>>, resource |-> <<"/chat">>, hasKey |-> r.hasKey,
     protocols |-> {<<p>> : p \in ToSet(r.protocols)}]

IsReadable(r) == r.type = "GET" /\ r.before # "empty"

\* However the network cuts a request, and whatever was refused on this connection
\* before, the handler is asked for what the client means, unless the client sent
\* more than MAX_HTTP_DATA.
UpgradeIsRead ==
    asked # NoRequest /\ ~left /\ IsReadable(request) => asked = Meaning(request)

\* A request that is shorter than MAX_HTTP_DATA is answered, whatever was refused
\* before.
UpgradeIsAnswered ==
    \A r \in Requests :
        request = r /\ ~left /\ IsReadable(r) /\ r.hasKey /\ Len(Text(r)) < MaxData
            ~> answer # NoAnswer

=============================================================================
