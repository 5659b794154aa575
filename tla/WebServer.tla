------------------------------ MODULE WebServer ------------------------------
(***************************************************************************)
(* webserver/WebServer.cpp on top of the reactor of TcpServer: requests    *)
(* answered by the reactor thread, or handed to the listener whose callback*)
(* comes back on any thread and goes through mAsyncResponses.              *)
(*                                                                         *)
(* A client is known by the address of its TcpClient.  The allocator hands *)
(* a freed address out again, so one address can serve several connections *)
(* one after the other.  The events of one epoll_wait, the asynchronous    *)
(* queue and the pass over the clients follow one another as in run();     *)
(* peers read what they are sent.  Who is let in is the subject of         *)
(* WebAuthentication; here it is a choice between an answer now and one    *)
(* later.  A response is the chunks sendResponse cuts it into.             *)
(***************************************************************************)
EXTENDS Naturals, Sequences, SequencesExt

CONSTANTS Conns,       \* connections, each made at most once
          Addrs,       \* where a TcpClient can be allocated
          Requests,    \* requests, each received at most once
          MaxPerConn,  \* bound: requests on one connection
          Pieces,      \* times BUFSIZE a response is long
          Async,       \* the constructor's argument
          May,         \* what may happen, of Chances
          NoAddr, NoConn

\* put() on mAsyncResponses answers false, the allocator uses an address again, a
\* client sends what cannot be framed, the application calls stop().
Chances == {"refuse", "reuse", "frame", "stop"}

ASSUME BoundsAssumption == MaxPerConn \in Nat /\ Pieces \in Nat
ASSUME SwitchesAssumption == Async \in BOOLEAN /\ May \subseteq Chances
ASSUME NoneAssumption == NoAddr \notin Addrs /\ NoConn \notin Conns

VARIABLES rpc,       \* where the reactor is in its loop
          woken,     \* controlEventFd has an event
          stopping,  \* TcpServer::stopping
          life,      \* of each connection
          failed,    \* connections that met a framing error
          at,        \* the address of its TcpClient
          clients,   \* WebServer::clients
          asker,     \* the connection a request came on
          job,       \* where the callback of a request is
          jobAddr,   \* the client the callback captured
          queue,     \* mAsyncResponses
          tx,        \* txList of the client at an address
          stuck,     \* its currentSendBuffer is empty and stays there
          got        \* the chunks each connection was sent, in order

reactor == <<rpc, woken, stopping>>
connection == <<life, failed, at, clients>>
request == <<asker, job, jobAddr>>
output == <<tx, stuck, got>>
vars == <<reactor, connection, request, queue, output>>

Open == {c \in Conns : life[c] = "open"}

AskedBy(c) == {r \in Requests : asker[r] = c}

\* getResponseChunk from index 0 on: the pieces of header and content, the header
\* being built once, then the empty chunk that says there is no more.
Piece(r, k) == [req |-> r, piece |-> k]
Chunks(r) == [k \in 1 .. Pieces + 1 |-> Piece(r, IF k > Pieces THEN 0 ELSE k)]

IsEmpty(chunk) == chunk.piece = 0

\* What waits in mAsyncResponses, and in the txList of a client.
Response == [addr : Addrs, req : Requests, filled : BOOLEAN]
Chunk == [req : Requests, piece : 0 .. Pieces]

TypeOK ==
    /\ rpc \in {"sleep", "events", "async", "send", "done", "crashed"}
    /\ woken \in BOOLEAN /\ stopping \in BOOLEAN
    /\ life \in [Conns -> {"new", "open", "closed"}]
    /\ failed \subseteq Open
    /\ at \in [Conns -> Addrs \cup {NoAddr}]
    /\ clients \subseteq Addrs
    /\ asker \in [Requests -> Conns \cup {NoConn}]
    /\ job \in [Requests -> {"none", "working", "fill", "notify", "done", "lost"}]
    /\ jobAddr \in [Requests -> Addrs \cup {NoAddr}]
    /\ queue \in Seq(Response)
    /\ tx \in [Addrs -> Seq(Chunk)]
    /\ stuck \in [Addrs -> BOOLEAN]
    /\ got \in [Conns -> Seq({chunk \in Chunk : ~IsEmpty(chunk)})]

Init ==
    /\ rpc = "sleep"
    /\ woken = FALSE
    /\ stopping = FALSE
    /\ failed = {}
    /\ life = [c \in Conns |-> "new"]
    /\ at = [c \in Conns |-> NoAddr]
    /\ clients = {}
    /\ asker = [r \in Requests |-> NoConn]
    /\ job = [r \in Requests |-> "none"]
    /\ jobAddr = [r \in Requests |-> NoAddr]
    /\ queue = <<>>
    /\ tx = [a \in Addrs |-> <<>>]
    /\ stuck = [a \in Addrs |-> FALSE]
    /\ got = [c \in Conns |-> <<>>]

-----------------------------------------------------------------------------
(* Events of the reactor                                                   *)

\* Nothing is accepted or read once the server is stopping.
Events == rpc \in {"sleep", "events"} /\ ~stopping

Free(a) == \A c \in Conns : at[c] = a => "reuse" \in May /\ life[c] = "closed"

\* A TcpClient is allocated for a new connection: onClientConnected.
Connect(c, a) ==
    /\ Events /\ rpc' = "events"
    /\ life[c] = "new"
    /\ Free(a)
    /\ life' = [life EXCEPT ![c] = "open"]
    /\ at' = [at EXCEPT ![c] = a]
    /\ clients' = clients \cup {a}
    /\ UNCHANGED <<woken, stopping, failed, request, queue, output>>

\* The connection ends: onClientDisconnected, and the TcpClient is freed.
Disconnect(c) ==
    /\ Events /\ rpc' = "events"
    /\ life[c] = "open"
    /\ life' = [life EXCEPT ![c] = "closed"]
    /\ failed' = failed \ {c}
    /\ clients' = clients \ {at[c]}
    /\ tx' = [tx EXCEPT ![at[c]] = <<>>]
    /\ stuck' = [stuck EXCEPT ![at[c]] = FALSE]
    /\ UNCHANGED <<woken, stopping, at, request, queue, got>>

\* Mutant of SendResponse: a response goes before those that wait.
SendResponseFirst(a, r) ==
    /\ tx' = [tx EXCEPT ![a] = Chunks(r) \o @]
    /\ woken' = TRUE

\* sendResponse: every chunk is queued by sendData, which wakes the reactor up.
SendResponse(a, r) ==
    /\ tx' = [tx EXCEPT ![a] = @ \o Chunks(r)]
    /\ woken' = TRUE

\* The r-th request comes on c, which has not failed.
Receive(c, r) ==
    /\ Events /\ rpc' = "events"
    /\ life[c] = "open" /\ c \notin failed
    /\ asker[r] = NoConn
    /\ Cardinality(AskedBy(c)) < MaxPerConn
    /\ asker' = [asker EXCEPT ![r] = c]

\* onFramingError: one of three answers, and the client is closed after it.
FramingError(c, r) ==
    /\ "frame" \in May
    /\ Receive(c, r)
    /\ SendResponse(at[c], r)
    /\ failed' = failed \cup {c}
    /\ UNCHANGED <<stopping, life, at, clients, job, jobAddr, queue, stuck, got>>

\* Mutant of Message: the callback captures its client by reference.
MessageByReference(c, r) ==
    /\ Receive(c, r)
    /\ job' = [job EXCEPT ![r] = "working"]
    /\ jobAddr' = [q \in Requests |-> IF job[q] = "working" \/ q = r THEN at[c] ELSE jobAddr[q]]
    /\ UNCHANGED <<woken, stopping, tx, connection, queue, stuck, got>>

\* onClientMessage: answered at once (no listener, no authorization, or a
\* synchronous listener), or handed to the listener with a callback.
Message(c, r) ==
    /\ Receive(c, r)
    /\ \/ SendResponse(at[c], r) /\ UNCHANGED <<job, jobAddr>>
       \/ /\ Async
          /\ job' = [job EXCEPT ![r] = "working"]
          /\ jobAddr' = [jobAddr EXCEPT ![r] = at[c]]
          /\ UNCHANGED <<woken, tx>>
    /\ UNCHANGED <<stopping, connection, queue, stuck, got>>

\* The control event, and the end of the events of this epoll_wait.
WakeUp ==
    /\ rpc = "sleep" /\ woken
    /\ rpc' = "events"
    /\ woken' = FALSE
    /\ UNCHANGED <<stopping, connection, request, queue, output>>

EndEvents ==
    /\ rpc = "events"
    /\ rpc' = "async"
    /\ UNCHANGED <<woken, stopping, connection, request, queue, output>>

-----------------------------------------------------------------------------
(* processAsyncQueue(), and processSend() for every client                 *)

HasFilled == queue # <<>> /\ Head(queue).filled

\* Mutant of Deliverable: the client is taken to be still there.
DeliverableAlways(a) == TRUE

\* The client the callback captured is still in the map.
Deliverable(a) == a \in clients

Deliver ==
    /\ rpc = "async"
    /\ HasFilled
    /\ queue' = Tail(queue)
    /\ IF Deliverable(Head(queue).addr)
       THEN SendResponse(Head(queue).addr, Head(queue).req)
       ELSE UNCHANGED <<woken, tx>>
    /\ UNCHANGED <<rpc, stopping, connection, request, stuck, got>>

EndAsync ==
    /\ rpc = "async"
    /\ ~HasFilled
    /\ rpc' = "send"
    /\ UNCHANGED <<woken, stopping, connection, request, queue, output>>

\* The buffers of a pass over one client: those before the first empty one,
\* which becomes the current buffer and is never finished.
Sendable(a) ==
    IF stuck[a] THEN <<>>
    ELSE LET empties == {k \in DOMAIN tx[a] : IsEmpty(tx[a][k])}
         IN  IF empties = {} THEN tx[a] ELSE SubSeq(tx[a], 1, Min(empties) - 1)

\* The clients of visited are sent what they can be, and those that failed are
\* closed: onClientDisconnected, and the TcpClient is freed.
Pass(visited) ==
    LET dropped == visited \cap failed
        addrs(cs) == {at[c] : c \in cs}
    IN  /\ got' = [c \in Conns |-> IF c \in visited THEN got[c] \o Sendable(at[c]) ELSE got[c]]
        /\ stuck' = [a \in Addrs |->
                        /\ a \notin addrs(dropped)
                        /\ stuck[a] \/ (a \in addrs(visited) /\ Len(Sendable(a)) < Len(tx[a]))]
        /\ tx' = [a \in Addrs |->
                      IF a \in addrs(dropped) THEN <<>>
                      ELSE IF stuck[a] \/ a \notin addrs(visited) THEN tx[a]
                      ELSE SubSeq(tx[a], Len(Sendable(a)) + 2, Len(tx[a]))]
        /\ life' = [c \in Conns |-> IF c \in dropped THEN "closed" ELSE life[c]]
        /\ failed' = failed \ dropped
        /\ clients' = clients \ addrs(dropped)
        /\ UNCHANGED at

ProcessSend ==
    /\ rpc = "send"
    /\ ~stopping
    /\ failed = {}
    /\ rpc' = "sleep"
    /\ Pass(Open)
    /\ UNCHANGED <<woken, stopping, request, queue>>

\* The loop goes on from the iterator of a client it has erased, which ends the
\* program or leaves some of the others out.
ProcessSendFailed ==
    /\ rpc = "send"
    /\ ~stopping
    /\ rpc' \in {"sleep", "crashed"}
    /\ \E visited \in SUBSET Open : visited \cap failed # {} /\ Pass(visited)
    /\ UNCHANGED <<woken, stopping, request, queue>>

ProcessSendStopping ==
    /\ rpc = "send"
    /\ stopping
    /\ rpc' = "sleep"
    /\ UNCHANGED <<woken, stopping, connection, request, queue, output>>

\* run() ends: the TcpClients are freed.  onClientDisconnected is not called, and
\* clients keeps their addresses.
Exit ==
    /\ rpc = "sleep"
    /\ stopping
    /\ rpc' = "done"
    /\ life' = [c \in Conns |-> IF c \in Open THEN "closed" ELSE life[c]]
    /\ failed' = {}
    /\ tx' = [a \in Addrs |-> <<>>]
    /\ stuck' = [a \in Addrs |-> FALSE]
    /\ UNCHANGED <<woken, stopping, at, clients, request, queue, got>>

\* stop(), which also wakes the reactor up.
Stop ==
    /\ "stop" \in May
    /\ ~stopping
    /\ stopping' = TRUE
    /\ woken' = TRUE
    /\ UNCHANGED <<rpc, connection, request, queue, output>>

ReactorStep ==
    \/ WakeUp \/ EndEvents \/ Deliver \/ EndAsync
    \/ ProcessSend \/ ProcessSendFailed \/ ProcessSendStopping \/ Exit

-----------------------------------------------------------------------------
(* The callback given to processHTTPRequestAsync, on a thread of its own   *)

SetJob(r, state) == job' = [job EXCEPT ![r] = state]

\* put() reserves a place in mAsyncResponses, ...
CallBack(r) ==
    /\ job[r] = "working"
    /\ queue' = Append(queue, [addr |-> jobAddr[r], req |-> r, filled |-> FALSE])
    /\ SetJob(r, "fill")
    /\ UNCHANGED <<reactor, connection, asker, jobAddr, output>>

\* ... fills it, ...
CallBackFill(r) ==
    /\ job[r] = "fill"
    /\ queue' = [k \in DOMAIN queue |->
                     IF queue[k].req = r THEN [queue[k] EXCEPT !.filled = TRUE] ELSE queue[k]]
    /\ SetJob(r, "notify")
    /\ UNCHANGED <<reactor, connection, asker, jobAddr, output>>

\* Mutant of CallBackNotify: the reactor is left asleep.
CallBackQuietly(r) ==
    /\ job[r] = "notify"
    /\ SetJob(r, "done")
    /\ UNCHANGED <<reactor, connection, asker, jobAddr, queue, output>>

\* ... and the reactor is woken up.
CallBackNotify(r) ==
    /\ job[r] = "notify"
    /\ woken' = TRUE
    /\ SetJob(r, "done")
    /\ UNCHANGED <<rpc, stopping, connection, asker, jobAddr, queue, output>>

\* put() answers false: the response is lost ("should handle that error").
CallBackRefused(r) ==
    /\ "refuse" \in May
    /\ job[r] = "working"
    /\ SetJob(r, "lost")
    /\ UNCHANGED <<reactor, connection, asker, jobAddr, queue, output>>

JobStep(r) == CallBack(r) \/ CallBackFill(r) \/ CallBackNotify(r) \/ CallBackRefused(r)

-----------------------------------------------------------------------------

Next ==
    \/ ReactorStep
    \/ Stop
    \/ \E r \in Requests : JobStep(r)
    \/ \E c \in Conns : \/ Disconnect(c)
                        \/ \E a \in Addrs : Connect(c, a)
                        \/ \E r \in Requests : Message(c, r) \/ FramingError(c, r)

Spec == Init /\ [][Next]_vars

\* Threads are scheduled, and the listener calls back in the end.
FairSpec == Spec /\ WF_vars(ReactorStep) /\ \A r \in Requests : WF_vars(JobStep(r))

-----------------------------------------------------------------------------
(* Properties                                                              *)

\* A response whose connection has ended, by itself, by a framing error or with
\* the server, touches nothing: no buffer is queued on a TcpClient that was freed.
DeletedClientIsLeftAlone ==
    \A a \in Addrs : (\A c \in Open : at[c] # a) => tx[a] = <<>>

\* A response goes to the connection that asked, at most once, whatever connects
\* and disconnects while it is being worked on; or, since the map is keyed by
\* address, to the one that has the address of a connection that has ended.
ResponseToRequester ==
    \A c \in Conns :
        /\ \A chunk \in ToSet(got[c]) :
              LET d == asker[chunk.req] IN d = c \/ (life[d] = "closed" /\ at[d] = at[c])
        /\ IsInjective(got[c])

\* The chunks of s that are not empty, in order.
Data(s) ==
    LET kept[k \in 0 .. Len(s)] ==
            IF k = 0 THEN <<>>
            ELSE IF IsEmpty(s[k]) THEN kept[k - 1] ELSE Append(kept[k - 1], s[k])
    IN  kept[Len(s)]

\* What waits to be sent on a connection, and the connection as a channel.
Waiting(c) == IF c \in Open THEN Data(tx[at[c]]) ELSE <<>>

Connection == INSTANCE Channel
                  WITH Ends <- Conns, sent <- got, queue <- [c \in Conns |-> Waiting(c)],
                       ended <- [c \in Conns |-> life[c] = "closed"]

\* A connection is sent what was queued for it, whole and in order: responses of
\* the reactor and of callbacks do not mix or overtake one another.
ImplementsChannel == Connection!Spec

\* The connection has ended, or put() refused the response, or the program ended.
Excused(r) ==
    \/ job[r] = "lost" \/ rpc = "crashed"
    \/ \E c \in Conns : asker[r] = c /\ life[c] = "closed"

\* A connection that asks is sent a whole response, unless it ends or put()
\* refused: neither the callback's thread nor the reactor leaves it in a queue.
FirstIsAnswered ==
    \A r \in Requests :
        asker[r] # NoConn ~>
            Excused(r) \/ \E c \in Conns : asker[r] = c /\ Len(got[c]) >= Pieces

\* Each request is answered, also the second one of a connection.
RequestIsAnswered ==
    \A r \in Requests :
        asker[r] # NoConn ~>
            Excused(r) \/ \E c \in Conns : asker[r] = c /\ Piece(r, Pieces) \in ToSet(got[c])

=============================================================================
