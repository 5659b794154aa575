--------------------------- MODULE WebSocketServer ---------------------------
(***************************************************************************)
(* websocket/WebSocketServer.cpp and the WebSocket objects it keeps: one   *)
(* thread calls work() again and again; work() takes what epoll reports,   *)
(* watches over the connections that are closing, and sends what is        *)
(* queued.  Handlers of the application run inside work().                 *)
(*                                                                         *)
(* A frame is its kind: how frames are cut out of the bytes received is    *)
(* the subject of WSProtocolParser, and so are the frames that loop in it. *)
(* A socket's buffer is counted in messages.                               *)
(***************************************************************************)
EXTENDS Naturals, FiniteSets, Sequences, SequencesExt, Functions

CONSTANTS Conns,           \* connections clients may make
          MaxConnections,
          MaxFrames,       \* bound: what the clients send, all in all
          Kinds,           \* what clients send, of FrameKinds
          SocketSpace,     \* messages a socket holds until the client reads
          TxSize,          \* messages a WebSocket's txList holds
          MaxSends,        \* bound: sendText calls the application makes
          Timeout,         \* CLOSING_TIMEOUT
          MaxTime,         \* bound: of the clock
          Faults,          \* of {"reset", "accept", "read", "destroy", "foreign"}
          NoConn

\* What a client sends: a request for a resource that is served or not, then
\* frames.  "bad" stands for a frame the parser calls an error.
FrameKinds == {"upgrade", "unknown", "text", "ping", "close", "bad"}

ASSUME ConnsAssumption == IsFiniteSet(Conns) /\ NoConn \notin Conns
ASSUME KindsAssumption == Kinds \subseteq FrameKinds
ASSUME BoundsAssumption ==
    /\ {MaxConnections, SocketSpace, TxSize} \subseteq Nat \ {0}
    /\ TxSize > 1
    /\ {MaxFrames, MaxSends, Timeout, MaxTime} \subseteq Nat

VARIABLES
    conn,      \* what has become of a connection, as the client sees it
    total,     \* frames the client has sent
    inbox,     \* those the server has not received
    got,       \* messages the client has received, in its socket or read
    unread,    \* how many of got it has not read
    ready,     \* what epoll will report: sockets, and NoConn for the listening one
    listening, \* listenSocket # -1
    pc,        \* where work() is
    events,    \* epollEvents not yet processed
    at,        \* the connection it is working on
    chunk,     \* frames received, in the loop of processData
    todo,      \* connections processSend has still to visit
    sockets,   \* webSockets: the connections in the map
    alive,     \* the WebSocket objects that are not deleted
    protocol, state, stamp, txList, current,   \* WebSocket's fields
    broken,    \* WebSockets whose parser has met an error, and meets it again
    known,     \* the WebSockets the application knows of
    sends,     \* sendText calls made
    now,       \* the clock
    foreign    \* another thread has sent something

client == <<conn, total, inbox, got, unread>>
server == <<listening, pc, events, at, chunk, todo>>
object == <<protocol, state, stamp, txList, current, broken>>
vars == <<client, ready, server, sockets, alive, object, known, sends, now, foreign>>

\* What the server sends: answers to the request, and frames.
Messages == {"101", "404", "text", "pong", "close"}
NoMessage == "none"

TypeOK ==
    /\ conn \in [Conns -> {"none", "backlog", "open", "hungup", "reset", "closed"}]
    /\ total \in [Conns -> Nat]
    /\ inbox \in [Conns -> Seq(Kinds)]
    /\ got \in [Conns -> Seq(Messages)]
    /\ unread \in [Conns -> 0 .. SocketSpace]
    /\ ready \subseteq Conns \cup {NoConn}
    /\ listening \in BOOLEAN
    /\ pc \in {"out", "events", "read", "frames", "watchdog", "send", "crashed"}
    /\ events \subseteq Conns \cup {NoConn}
    /\ at \in Conns \cup {NoConn}
    /\ chunk \in Seq(Kinds)
    /\ todo \subseteq Conns
    /\ sockets \subseteq Conns /\ alive \subseteq Conns /\ known \subseteq Conns
    /\ broken \subseteq Conns
    /\ protocol \in [Conns -> {"http", "websocket"}]
    /\ state \in [Conns -> {"unset", "connected", "closing", "closed"}]
    /\ stamp \in [Conns -> 0 .. MaxTime]
    /\ txList \in [Conns -> Seq(Messages)]
    /\ \A c \in Conns : Len(txList[c]) <= TxSize
    /\ current \in [Conns -> Messages \cup {NoMessage}]
    /\ sends \in 0 .. MaxSends
    /\ now \in 0 .. MaxTime
    /\ foreign \in BOOLEAN

Init ==
    /\ conn = [c \in Conns |-> "none"]
    /\ total = [c \in Conns |-> 0]
    /\ inbox = [c \in Conns |-> <<>>]
    /\ got = [c \in Conns |-> <<>>]
    /\ unread = [c \in Conns |-> 0]
    /\ ready = {}
    /\ listening = TRUE
    /\ pc = "out"
    /\ events = {}
    /\ at = NoConn
    /\ chunk = <<>>
    /\ todo = {}
    /\ sockets = {} /\ alive = {} /\ known = {} /\ broken = {}
    /\ protocol = [c \in Conns |-> "http"]
    /\ state = [c \in Conns |-> "unset"]
    /\ stamp = [c \in Conns |-> 0]
    /\ txList = [c \in Conns |-> <<>>]
    /\ current = [c \in Conns |-> NoMessage]
    /\ sends = 0
    /\ now = 0
    /\ foreign = FALSE

-----------------------------------------------------------------------------
(* Clients, and the clock                                                  *)

\* Which connection is made next is all the same.
Connect(c) ==
    /\ conn[c] = "none"
    /\ c = CHOOSE d \in Conns : conn[d] = "none"
    /\ listening
    /\ conn' = [conn EXCEPT ![c] = "backlog"]
    /\ ready' = ready \cup {NoConn}
    /\ UNCHANGED <<total, inbox, got, unread, server, sockets, alive, object, known,
                   sends, now, foreign>>

HasRead(c) == SubSeq(got[c], 1, Len(got[c]) - unread[c])

\* A client sends frames once it has read that the protocol is switched, and
\* until then one request at a time.
MaySend(c, kind) ==
    IF "101" \in ToSet(HasRead(c)) THEN kind \notin {"upgrade", "unknown"}
    ELSE kind \in {"upgrade", "unknown"} /\ total[c] = Len(HasRead(c))

ClientSends(c, kind) ==
    /\ conn[c] \in {"backlog", "open"}
    /\ SumFunction(total) < MaxFrames
    /\ MaySend(c, kind)
    /\ total' = [total EXCEPT ![c] = @ + 1]
    /\ inbox' = [inbox EXCEPT ![c] = Append(@, kind)]
    /\ ready' = IF conn[c] = "open" THEN ready \cup {c} ELSE ready
    /\ UNCHANGED <<conn, got, unread, server, sockets, alive, object, known, sends,
                   now, foreign>>

ClientReads(c) ==
    /\ unread[c] > 0
    /\ unread' = [unread EXCEPT ![c] = 0]
    /\ ready' = IF conn[c] = "open" THEN ready \cup {c} ELSE ready
    /\ UNCHANGED <<conn, total, inbox, got, server, sockets, alive, object, known,
                   sends, now, foreign>>

HangUp(c) ==
    /\ conn[c] = "open"
    /\ \/ conn' = [conn EXCEPT ![c] = "hungup"]
       \/ "reset" \in Faults /\ conn' = [conn EXCEPT ![c] = "reset"]
    /\ ready' = ready \cup {c}
    /\ UNCHANGED <<total, inbox, got, unread, server, sockets, alive, object, known,
                   sends, now, foreign>>

Tick ==
    /\ now < MaxTime
    /\ now' = now + 1
    /\ UNCHANGED <<client, ready, server, sockets, alive, object, known, sends, foreign>>

-----------------------------------------------------------------------------
(* WebSocket: what its methods do to its fields                            *)

\* Mutant of SendData: nobody looks at what put() returns.
PutAnyway(c, m) == txList' = [txList EXCEPT ![c] = Append(@, m)] /\ UNCHANGED state

\* sendData(): a full queue aborts the connection, by its state alone.
SendData(c, m) ==
    IF Len(txList[c]) < TxSize
    THEN txList' = [txList EXCEPT ![c] = Append(@, m)] /\ UNCHANGED state
    ELSE state' = [state EXCEPT ![c] = "closed"] /\ UNCHANGED txList

\* sendText(), called by a handler, or by another thread, for a WebSocket it
\* knows of; the application may also send nothing.
SendText ==
    \/ UNCHANGED <<txList, state, sends>>
    \/ /\ sends < MaxSends
       /\ sends' = sends + 1
       /\ \E d \in known : SendData(d, "text")

\* closeWebSocket(): whatever sendData made of the state, it is then Closing.
CloseWebSocket(c) ==
    /\ txList' = IF Len(txList[c]) < TxSize
                 THEN [txList EXCEPT ![c] = Append(@, "close")] ELSE txList
    /\ state' = [state EXCEPT ![c] = "closing"]
    /\ stamp' = [stamp EXCEPT ![c] = now]

\* Mutant of CheckHTTPBuffer: the application is told first.
TellFirst(c, kind) ==
    IF kind = "upgrade"
    THEN \E reply \in {<<>>, <<"text">>} :
            /\ sends + Len(reply) <= MaxSends
            /\ sends' = sends + Len(reply)
            /\ txList' = [txList EXCEPT ![c] = @ \o reply \o <<"101">>]
            /\ protocol' = [protocol EXCEPT ![c] = "websocket"]
            /\ state' = [state EXCEPT ![c] = "connected"]
            /\ known' = known \cup {c}
            /\ UNCHANGED stamp
    ELSE SendData(c, "404") /\ UNCHANGED <<protocol, stamp, known, sends>>

\* checkHTTPBuffer(): the answer is queued before the application is told.
CheckHTTPBuffer(c, kind) ==
    IF kind = "upgrade"
    THEN \E reply \in {<<>>, <<"text">>} :
            /\ sends + Len(reply) <= MaxSends
            /\ sends' = sends + Len(reply)
            /\ txList' = [txList EXCEPT ![c] = @ \o <<"101">> \o reply]
            /\ protocol' = [protocol EXCEPT ![c] = "websocket"]
            /\ state' = [state EXCEPT ![c] = "connected"]
            /\ known' = known \cup {c}
            /\ UNCHANGED stamp
    ELSE SendData(c, "404") /\ UNCHANGED <<protocol, stamp, known, sends>>

\* A frame that is whole: processWholeWSPacket(), or the error of the parser.
\* A Close is answered, and the connection aborted at once.
ProcessFrame(c, kind) ==
    /\ UNCHANGED <<protocol, known>>
    /\ CASE kind = "text" -> SendText /\ UNCHANGED stamp
         [] kind = "ping" -> SendData(c, "pong") /\ UNCHANGED <<stamp, sends>>
         [] kind = "bad" -> CloseWebSocket(c) /\ UNCHANGED sends
         [] kind = "close" ->
              /\ IF state[c] = "connected" /\ Len(txList[c]) < TxSize
                 THEN txList' = [txList EXCEPT ![c] = Append(@, "close")]
                 ELSE UNCHANGED txList
              /\ stamp' = IF state[c] = "connected" THEN [stamp EXCEPT ![c] = now] ELSE stamp
              /\ state' = [state EXCEPT ![c] = "closed"]
              /\ UNCHANGED sends

\* getTxData(): nothing, unless the connection is Connected or still HTTP.
Sendable(c) ==
    /\ protocol[c] = "http" \/ state[c] = "connected"
    /\ current[c] # NoMessage \/ txList[c] # <<>>

TxData(c) == IF current[c] # NoMessage THEN current[c] ELSE Head(txList[c])

\* Mutant of GetTxData: a buffer is taken although one is being sent.
GetNextTxData(c) ==
    txList' = IF txList[c] = <<>> THEN txList ELSE [txList EXCEPT ![c] = Tail(@)]

GetTxData(c) ==
    txList' = IF current[c] # NoMessage THEN txList ELSE [txList EXCEPT ![c] = Tail(@)]

\* abort(): every connection is closed and every WebSocket deleted; the
\* destructor tells the application.
Abort ==
    /\ listening' = FALSE
    /\ conn' = [c \in Conns |->
                   IF c \in sockets \/ conn[c] = "backlog" THEN "closed" ELSE conn[c]]
    /\ alive' = alive \ sockets
    /\ known' = known \ sockets
    /\ sockets' = {}
    /\ ready' = {}

\* Mutant of Delete: the application is not told.
DeleteQuietly(c) == alive' = alive \ {c} /\ UNCHANGED known

\* The WebSocket is deleted and its destructor tells the application.
Delete(c) == alive' = alive \ {c} /\ known' = known \ {c}

-----------------------------------------------------------------------------
(* work()                                                                  *)

\* epoll_wait() may report one event more than epollEvents has room for: what is
\* written behind it ends the program, or does not.
Wait ==
    /\ pc = "out"
    /\ listening
    /\ \E S \in SUBSET ready :
          /\ \/ S = ready /\ Cardinality(S) <= MaxConnections + 2
             \/ Cardinality(S) = MaxConnections + 2
          /\ events' = S
          /\ ready' = ready \ S
          /\ IF Cardinality(S) = MaxConnections + 2
             THEN pc' \in {"events", "crashed"} ELSE pc' = "events"
    /\ UNCHANGED <<client, listening, at, chunk, todo, sockets, alive, object, known,
                   sends, now, foreign>>

Backlog == {c \in Conns : conn[c] = "backlog"}

\* Mutant of AcceptedNow: one connection is accepted for each event.
AcceptOne == IF Backlog = {} THEN {} ELSE {CHOOSE c \in Backlog : TRUE}

\* The limit is looked at once, and then everything that waits is accepted.
AcceptedNow == Backlog

\* processAccept().  A socket that is added to epoll can be written, so there is
\* an event for it.
ProcessAccept ==
    /\ pc = "events"
    /\ NoConn \in events
    /\ listening
    /\ events' = events \ {NoConn}
    /\ IF Cardinality(sockets) >= MaxConnections
       THEN UNCHANGED <<conn, ready, sockets, alive>>
       ELSE /\ conn' = [c \in Conns |-> IF c \in AcceptedNow THEN "open" ELSE conn[c]]
            /\ sockets' = sockets \cup AcceptedNow
            /\ alive' = alive \cup AcceptedNow
            /\ ready' = ready \cup AcceptedNow
    /\ UNCHANGED <<total, inbox, got, unread, listening, pc, at, chunk, todo, object, known,
                   sends, now, foreign>>

\* accept() fails for another reason than EAGAIN.
AcceptError ==
    /\ pc = "events"
    /\ NoConn \in events
    /\ listening
    /\ "accept" \in Faults
    /\ events' = events \ {NoConn}
    /\ Abort
    /\ UNCHANGED <<total, inbox, got, unread, pc, at, chunk, todo, object, sends, now,
                   foreign>>

\* An event of a connection that is not in the map is passed over, and after
\* abort() none is, whatever is read from epollEvents, which is deleted then.
ReadEvent(c) ==
    /\ pc = "events"
    /\ c \in events
    /\ c # NoConn \/ ~listening
    /\ events' = events \ {c}
    /\ IF c \in sockets THEN pc' = "read" /\ at' = c ELSE UNCHANGED <<pc, at>>
    /\ UNCHANGED <<client, ready, listening, chunk, todo, sockets, alive, object,
                   known, sends, now, foreign>>

EndEvents ==
    /\ pc = "events"
    /\ events = {}
    /\ pc' = "watchdog"
    /\ UNCHANGED <<client, ready, listening, events, at, chunk, todo, sockets, alive, object,
                   known, sends, now, foreign>>

-----------------------------------------------------------------------------
(* processReceive()                                                        *)

BackToEvents == pc' = "events" /\ at' = NoConn

Receive ==
    /\ pc = "read"
    /\ conn[at] \in {"open", "hungup"}
    /\ inbox[at] # <<>>
    /\ \E n \in 1 .. Len(inbox[at]) :
          /\ chunk' = SubSeq(inbox[at], 1, n)
          /\ inbox' = [inbox EXCEPT ![at] = SubSeq(@, n + 1, Len(@))]
    /\ pc' = "frames"
    /\ UNCHANGED <<conn, total, got, unread, ready, listening, events, at, todo, sockets, alive,
                   object, known, sends, now, foreign>>

ReceiveAgain ==
    /\ pc = "read"
    /\ conn[at] = "open"
    /\ inbox[at] = <<>>
    /\ BackToEvents
    /\ UNCHANGED <<client, ready, listening, events, chunk, todo, sockets, alive, object, known,
                   sends, now, foreign>>

\* The client closed: the socket itself is not closed.
ReceiveGone ==
    /\ pc = "read"
    /\ conn[at] = "hungup"
    /\ inbox[at] = <<>>
    /\ sockets' = sockets \ {at}
    /\ Delete(at)
    /\ BackToEvents
    /\ UNCHANGED <<client, ready, listening, events, chunk, todo, object, sends, now,
                   foreign>>

\* An error on one connection aborts the server.
ReceiveError ==
    /\ pc = "read"
    /\ conn[at] = "reset" \/ "read" \in Faults
    /\ Abort
    /\ BackToEvents
    /\ UNCHANGED <<total, inbox, got, unread, events, chunk, todo, object, sends, now,
                   foreign>>

\* The loop of processData(): after an error the rest of the chunk is dropped, and
\* what comes later is the same error.
ProcessData ==
    /\ pc = "frames"
    /\ chunk # <<>>
    /\ LET error == Head(chunk) = "bad" \/ at \in broken
       IN  IF protocol[at] = "http"
           THEN CheckHTTPBuffer(at, Head(chunk)) /\ chunk' = <<>> /\ UNCHANGED broken
           ELSE /\ ProcessFrame(at, IF error THEN "bad" ELSE Head(chunk))
                /\ chunk' = IF error THEN <<>> ELSE Tail(chunk)
                /\ broken' = IF error THEN broken \cup {at} ELSE broken
    /\ UNCHANGED <<client, ready, listening, pc, events, at, todo, sockets, alive,
                   current, now, foreign>>

\* processData() returned true: there may be more to receive.
ReceiveMore ==
    /\ pc = "frames"
    /\ chunk = <<>>
    /\ protocol[at] = "http" \/ state[at] # "closed"
    /\ pc' = "read"
    /\ UNCHANGED <<client, ready, listening, events, at, chunk, todo, sockets, alive, object,
                   known, sends, now, foreign>>

\* processData() returned false.
CloseSocket ==
    /\ pc = "frames"
    /\ chunk = <<>>
    /\ protocol[at] = "websocket" /\ state[at] = "closed"
    /\ conn' = [conn EXCEPT ![at] = "closed"]
    /\ Delete(at)
    /\ sockets' = sockets \ {at}
    /\ BackToEvents
    /\ UNCHANGED <<total, inbox, got, unread, ready, listening, events, chunk, todo, object, sends,
                   now, foreign>>

-----------------------------------------------------------------------------
(* The watchdog, and processSend()                                         *)

Expired ==
    {c \in sockets : /\ protocol[c] = "websocket"
                     /\ state[c] = "closing"
                     /\ now >= stamp[c] + Timeout}

WatchdogQuiet ==
    /\ pc = "watchdog"
    /\ Expired = {}
    /\ pc' = "send"
    /\ todo' = sockets
    /\ UNCHANGED <<client, ready, listening, events, at, chunk, sockets, alive, object, known,
                   sends, now, foreign>>

\* The loop goes on from the element it erased, which ends the program, or the
\* loop.  The WebSocket is not deleted, and the application is not told.
WatchdogExpired(c) ==
    /\ pc = "watchdog"
    /\ c \in Expired
    /\ state' = [state EXCEPT ![c] = "closed"]
    /\ conn' = [conn EXCEPT ![c] = "closed"]
    /\ sockets' = sockets \ {c}
    /\ todo' = sockets'
    /\ pc' \in {"send", "crashed"}
    /\ UNCHANGED <<total, inbox, got, unread, ready, listening, events, at, chunk, alive, protocol,
                   stamp, txList, current, broken, known, sends, now, foreign>>

SendTo(c) ==
    /\ pc = "send"
    /\ at = NoConn
    /\ c \in todo
    /\ at' = c
    /\ todo' = todo \ {c}
    /\ UNCHANGED <<client, ready, listening, pc, events, chunk, sockets, alive, object, known,
                   sends, now, foreign>>

\* send() takes the message; a client that has hung up does not get it.
SendMessage ==
    /\ pc = "send"
    /\ at # NoConn /\ Sendable(at)
    /\ conn[at] \in {"open", "hungup"}
    /\ conn[at] = "open" => unread[at] < SocketSpace
    /\ GetTxData(at)
    /\ current' = [current EXCEPT ![at] = NoMessage]
    /\ IF conn[at] = "open"
       THEN /\ got' = [got EXCEPT ![at] = Append(@, TxData(at))]
            /\ unread' = [unread EXCEPT ![at] = @ + 1]
       ELSE UNCHANGED <<got, unread>>
    /\ UNCHANGED <<conn, total, inbox, ready, server, sockets, alive, protocol, state, stamp,
                   broken, known, sends, now, foreign>>

\* EAGAIN: the loop tries again.
SendAgain ==
    /\ pc = "send"
    /\ at # NoConn /\ Sendable(at)
    /\ conn[at] = "open" /\ unread[at] = SocketSpace
    /\ GetTxData(at)
    /\ current' = [current EXCEPT ![at] = TxData(at)]
    /\ UNCHANGED <<client, ready, server, sockets, alive, protocol, state, stamp, broken, known,
                   sends, now, foreign>>

\* Another error aborts the server, under the loop over the map, which goes on
\* from an element of the map that is cleared.
SendError ==
    /\ pc = "send"
    /\ at # NoConn /\ Sendable(at)
    /\ conn[at] = "reset"
    /\ Abort
    /\ at' = NoConn
    /\ todo' = {}
    /\ pc' \in {"send", "crashed"}
    /\ UNCHANGED <<total, inbox, got, unread, events, chunk, object, sends, now, foreign>>

\* Mutant of SendDone: one message is sent to each connection.
SendOne ==
    /\ pc = "send"
    /\ at # NoConn
    /\ at' = NoConn
    /\ UNCHANGED <<client, ready, listening, pc, events, chunk, todo, sockets, alive, object,
                   known, sends, now, foreign>>

\* Mutant of SendDone: the loop over the connections begins again.
StartOver ==
    /\ pc = "send"
    /\ at # NoConn /\ ~Sendable(at)
    /\ at' = NoConn
    /\ todo' = sockets
    /\ UNCHANGED <<client, ready, listening, pc, events, chunk, sockets, alive, object,
                   known, sends, now, foreign>>

SendDone ==
    /\ pc = "send"
    /\ at # NoConn /\ ~Sendable(at)
    /\ at' = NoConn
    /\ UNCHANGED <<client, ready, listening, pc, events, chunk, todo, sockets, alive, object,
                   known, sends, now, foreign>>

Return ==
    /\ pc = "send"
    /\ at = NoConn /\ todo = {}
    /\ pc' = "out"
    /\ UNCHANGED <<client, ready, listening, events, at, chunk, todo, sockets, alive, object, known,
                   sends, now, foreign>>

-----------------------------------------------------------------------------
(* The application                                                         *)

\* ~WebSocketServer()
Destroy ==
    /\ pc = "out"
    /\ listening
    /\ "destroy" \in Faults
    /\ Abort
    /\ UNCHANGED <<total, inbox, got, unread, pc, events, at, chunk, todo, object,
                   sends, now, foreign>>

\* sendText() on another thread, which must know that the WebSocket exists.
ForeignSend ==
    /\ "foreign" \in Faults
    /\ pc # "crashed"
    /\ SendText
    /\ sends' # sends
    /\ foreign' = TRUE
    /\ UNCHANGED <<client, ready, server, sockets, alive, protocol, stamp, current, broken, known,
                   now>>

-----------------------------------------------------------------------------

Work ==
    \/ Wait \/ ProcessAccept \/ AcceptError \/ EndEvents
    \/ \E c \in Conns \cup {NoConn} : ReadEvent(c)
    \/ Receive \/ ReceiveAgain \/ ReceiveGone \/ ReceiveError
    \/ ProcessData \/ ReceiveMore \/ CloseSocket
    \/ WatchdogQuiet \/ (\E c \in Conns : WatchdogExpired(c))
    \/ (\E c \in Conns : SendTo(c))
    \/ SendMessage \/ SendAgain \/ SendError \/ SendDone \/ Return

Next ==
    \/ Work
    \/ Destroy \/ ForeignSend \/ Tick
    \/ \E c \in Conns : Connect(c) \/ ClientReads(c) \/ HangUp(c)
    \/ \E c \in Conns, kind \in Kinds : ClientSends(c, kind)

Spec == Init /\ [][Next]_vars

\* The application calls work() for ever, time passes, and the clients read what
\* they are sent.
FairSpec == Spec /\ WF_vars(Work) /\ WF_vars(Tick) /\ \A c \in Conns : WF_vars(ClientReads(c))

-----------------------------------------------------------------------------
(* Properties                                                              *)

\* The WebSockets the application has been told of, and not told that they are
\* closed, are those that are connected and not deleted: a handler never holds a
\* WebSocket that is gone, whichever way it went.
ApplicationInStep == known = {c \in alive : protocol[c] = "websocket"}

\* No frame reaches a client before the answer that switches the protocol, even
\* if the application sends one as soon as it hears of the connection.
SwitchComesFirst ==
    \A c \in Conns : \A k \in DOMAIN got[c] :
        got[c][k] \notin {"101", "404"} => \E j \in 1 .. k - 1 : got[c][j] = "101"

\* What the handlers of a call of work() queued has been sent when the call
\* returns (README.md:15), as long as no other thread sends: nothing waits for an
\* event that may not come.
SentWhenReturned == pc = "out" /\ ~foreign => \A c \in sockets : ~Sendable(c)

\* work() comes to its end, with clients that read what they are sent.
WorkReturns == pc = "events" ~> pc \in {"out", "crashed"}

\* Edges of epoll come once, and none is wasted: a client that connects is accepted,
\* and the application hears of every client that leaves, unless the watchdog has
\* closed it, which tells nobody.
NoEdgeIsLost ==
    \A c \in Conns :
        /\ conn[c] = "backlog" ~> (conn[c] # "backlog" \/ pc = "crashed")
        /\ conn[c] \in {"hungup", "reset"} ~>
              (c \notin known \/ conn[c] = "closed" \/ pc = "crashed")

\* What waits to be sent on a connection, and the connection as a channel.
Waiting(c) ==
    IF conn[c] \in {"hungup", "reset", "closed"} THEN <<>>
    ELSE (IF current[c] = NoMessage THEN <<>> ELSE <<current[c]>>) \o txList[c]

Connection == INSTANCE Channel
                  WITH Ends <- Conns, sent <- got, queue <- [c \in Conns |-> Waiting(c)],
                       ended <- [c \in Conns |-> conn[c] \in {"hungup", "reset", "closed"}]

\* A client is sent what was queued for it, in that order and once, although the
\* queue refuses when it is full and send() when the socket is.
ImplementsChannel == Connection!Spec

=============================================================================
