------------------------------ MODULE TcpServer ------------------------------
(***************************************************************************)
(* webserver/TcpServer.cpp and the transmit and receive halves of          *)
(* webserver/TcpClient.cpp: one reactor thread that accepts, reads, calls  *)
(* the observer and sends; peers at the other end of the sockets; threads  *)
(* of the application that call TcpClient::sendData; and one that calls    *)
(* TcpServer::stop.                                                        *)
(*                                                                         *)
(* epoll is edge triggered: a source that becomes ready is put in "ready"  *)
(* once and the next epoll_wait takes everything out of it.  A client's    *)
(* txList is the queue MPSCRingBuffer implements, places being reserved    *)
(* and filled in two steps.  Bytes are counted, messages are not parsed:   *)
(* the framing strategy's verdict on what was received is a choice.        *)
(***************************************************************************)
EXTENDS Naturals, Sequences, FiniteSets, SequencesExt

CONSTANTS Conns,        \* connections, each made at most once
          Senders,      \* application threads that call sendData
          Sizes,        \* of the buffers given to sendData
          SocketSpace,  \* bytes a socket takes before send() says EAGAIN
          MaxRx,        \* bound: messages the peers send, all in all
          MaxTx,        \* bound: buffers given to sendData, all in all
          Faults,       \* what can go wrong, among FaultKinds
          MayStop,      \* whether the application calls stop()
          NoConn

ASSUME SizesAssumption == Sizes \subseteq Nat
ASSUME SpaceAssumption == SocketSpace \in Nat \ {0}
ASSUME BoundsAssumption == MaxRx \in Nat /\ MaxTx \in Nat

\* Peers that close, reset or send what cannot be framed; accept() and read()
\* failing for a reason of their own.
FaultKinds == {"close", "reset", "framing", "accept", "read"}

ASSUME FaultsAssumption == Faults \subseteq FaultKinds
ASSUME MayStopAssumption == MayStop \in BOOLEAN
ASSUME NoConnAssumption == NoConn \notin Conns /\ "listen" \notin Conns /\ "control" \notin Conns

VARIABLES stopping,  \* TcpServer::stopping
          rpc,       \* where the reactor thread is
          ready,     \* sources epoll has an event for
          batch,     \* events of this epoll_wait not looked at yet
          cur,       \* the client being read from or sent to
          todo,      \* clients processSend has not come to yet
          conn,      \* life of each connection; "client" is in clientList
          observed,  \* connections the observer was told of and not told gone
          failed,    \* TcpClient::mFailed
          tx,        \* TcpClient::txList
          sending,   \* TcpClient::currentSendBuffer: what is left of it, if any
          peer,      \* the other end of each socket
          inbox,     \* messages that arrived and were not read
          arrived,   \* messages the peers have sent
          unread,    \* bytes sent that the peer has not read
          starved,   \* send() said EAGAIN since the socket last had room
          spc,       \* where each application thread is in sendData
          target,    \* the client it sends to
          made,      \* buffers given to sendData so far
          stopper    \* where the application is in stop()

control == <<stopping, stopper>>
reactor == <<rpc, batch, cur, todo>>
client == <<conn, observed, failed>>
transmit == <<tx, sending, made>>
socket == <<peer, inbox, arrived, unread, starved>>
sender == <<spc, target>>
vars == <<control, reactor, ready, client, transmit, socket, sender>>

Clients == {c \in Conns : conn[c] = "client"}

\* read() would not say EAGAIN: the EPOLLIN bit of an event.
Readable(c) == inbox[c] > 0 \/ peer[c] # "open"

Room(c) == SocketSpace - unread[c]

\* TcpClient::getTxData has a buffer, and what is left of it.
HasFilled(c) == tx[c] # <<>> /\ Head(tx[c]).filled

\* A place in txList: who reserved it (NoConn for the reactor), and whether it is filled.
Place == [size : Sizes, by : Senders \cup {NoConn}, filled : BOOLEAN]

TypeOK ==
    /\ stopping \in BOOLEAN
    /\ rpc \in {"check", "wait", "dispatch", "accept", "read", "async", "pick", "send",
                "exit", "done", "crashed"}
    /\ ready \subseteq Conns \cup {"listen", "control"}
    /\ batch \subseteq Conns \cup {"listen", "control"}
    /\ cur \in Conns \cup {NoConn}
    /\ todo \subseteq Conns
    /\ conn \in [Conns -> {"new", "backlog", "client", "deleted"}]
    /\ observed \subseteq Conns
    /\ failed \in [Conns -> BOOLEAN]
    /\ tx \in [Conns -> Seq(Place)] /\ sending \in [Conns -> Seq(Nat)]
    /\ \A c \in Conns : Len(sending[c]) <= 1 /\ Len(tx[c]) + Len(sending[c]) <= MaxTx
    /\ peer \in [Conns -> {"open", "closed", "reset"}]
    /\ inbox \in [Conns -> 0 .. MaxRx] /\ arrived \in 0 .. MaxRx
    /\ unread \in [Conns -> 0 .. SocketSpace]
    /\ starved \in [Conns -> BOOLEAN]
    /\ spc \in [Senders -> {"idle", "fill", "notify"}]
    /\ target \in [Senders -> Conns \cup {NoConn}]
    /\ made \in 0 .. MaxTx
    /\ stopper \in {"idle", "notify", "join", "joined"}

\* start() has returned: the reactor thread is about to look at stopping.
Init ==
    /\ stopping = FALSE
    /\ rpc = "check"
    /\ ready = {}
    /\ batch = {}
    /\ cur = NoConn
    /\ todo = {}
    /\ conn = [c \in Conns |-> "new"]
    /\ observed = {}
    /\ failed = [c \in Conns |-> FALSE]
    /\ tx = [c \in Conns |-> <<>>]
    /\ sending = [c \in Conns |-> <<>>]
    /\ peer = [c \in Conns |-> "open"]
    /\ inbox = [c \in Conns |-> 0]
    /\ arrived = 0
    /\ unread = [c \in Conns |-> 0]
    /\ starved = [c \in Conns |-> FALSE]
    /\ spc = [t \in Senders |-> "idle"]
    /\ target = [t \in Senders |-> NoConn]
    /\ made = 0
    /\ stopper = "idle"

-----------------------------------------------------------------------------
(* run(): the loop and the dispatch of events                              *)

CheckStopping ==
    /\ rpc = "check"
    /\ rpc' = IF stopping THEN "exit" ELSE "wait"
    /\ UNCHANGED <<control, ready, batch, cur, todo, client, transmit, socket, sender>>

\* Mutant of Wait: only the first event that epoll_wait returns is looked at.
WaitOne ==
    /\ rpc = "wait"
    /\ \E e \in ready : batch' = {d \in {e} : d \in Conns => Readable(d)}
    /\ ready' = {}
    /\ rpc' = "dispatch"
    /\ UNCHANGED <<control, cur, todo, client, transmit, socket, sender>>

\* epoll_wait.  An event that does not say EPOLLIN only wakes the thread up.
Wait ==
    /\ rpc = "wait"
    /\ ready # {}
    /\ batch' = {e \in ready : e \in Conns => Readable(e)}
    /\ ready' = {}
    /\ rpc' = "dispatch"
    /\ UNCHANGED <<control, cur, todo, client, transmit, socket, sender>>

\* An event on controlEventFd was only there to wake the thread up.
DispatchControl ==
    /\ rpc = "dispatch"
    /\ "control" \in batch
    /\ batch' = batch \ {"control"}
    /\ UNCHANGED <<control, rpc, cur, todo, ready, client, transmit, socket, sender>>

\* processAccept refuses to run once the server is stopping: abort().
DispatchListen ==
    /\ rpc = "dispatch"
    /\ "listen" \in batch
    /\ batch' = batch \ {"listen"}
    /\ rpc' = IF stopping THEN "dispatch" ELSE "accept"
    /\ UNCHANGED <<control, cur, todo, ready, client, transmit, socket, sender>>

\* processReceive finds the client in clientList.
DispatchRead(c) ==
    /\ rpc = "dispatch"
    /\ c \in batch
    /\ batch' = batch \ {c}
    /\ IF c \in Clients
       THEN rpc' = "read" /\ cur' = c
       ELSE UNCHANGED <<rpc, cur>>
    /\ UNCHANGED <<control, todo, ready, client, transmit, socket, sender>>

DispatchDone ==
    /\ rpc = "dispatch"
    /\ batch = {}
    /\ rpc' = "async"
    /\ UNCHANGED <<control, batch, cur, todo, ready, client, transmit, socket, sender>>

-----------------------------------------------------------------------------
(* processAccept(): until accept() says EAGAIN                             *)

\* A new socket is writable, so adding it to epoll makes an event of it.
Accept(c) ==
    /\ rpc = "accept"
    /\ conn[c] = "backlog"
    /\ conn' = [conn EXCEPT ![c] = "client"]
    /\ observed' = observed \cup {c}
    /\ ready' = ready \cup {c}
    /\ UNCHANGED <<control, reactor, failed, transmit, socket, sender>>

AcceptAgain ==
    /\ rpc = "accept"
    /\ \A c \in Conns : conn[c] # "backlog"
    /\ rpc' = "dispatch"
    /\ UNCHANGED <<control, batch, cur, todo, ready, client, transmit, socket, sender>>

\* Any other error of accept(): abort().
AcceptError ==
    /\ "accept" \in Faults
    /\ rpc = "accept"
    /\ rpc' = "dispatch"
    /\ stopping' = TRUE
    /\ UNCHANGED <<stopper, batch, cur, todo, ready, client, transmit, socket, sender>>

-----------------------------------------------------------------------------
(* processReceive(): until read() says EAGAIN                              *)

EndRead == rpc' = "dispatch" /\ cur' = NoConn

\* Mutant of Delete: the observer is not told.
DeleteQuietly(c) ==
    /\ conn' = [conn EXCEPT ![c] = "deleted"]
    /\ observed' = observed
    /\ tx' = [tx EXCEPT ![c] = <<>>]
    /\ sending' = [sending EXCEPT ![c] = <<>>]

\* onDisconnected, erase and delete: the buffers of the client go with it.
Delete(c) ==
    /\ conn' = [conn EXCEPT ![c] = "deleted"]
    /\ observed' = observed \ {c}
    /\ tx' = [tx EXCEPT ![c] = <<>>]
    /\ sending' = [sending EXCEPT ![c] = <<>>]

ReadStopping ==
    /\ rpc = "read"
    /\ stopping
    /\ EndRead
    /\ UNCHANGED <<control, batch, todo, ready, client, transmit, socket, sender>>

ReadAgain ==
    /\ rpc = "read"
    /\ ~stopping
    /\ ~Readable(cur)
    /\ EndRead
    /\ UNCHANGED <<control, batch, todo, ready, client, transmit, socket, sender>>

\* Mutant of ReadGone: the loop goes on after the client is deleted.
ReadGoneAndOn ==
    /\ rpc = "read"
    /\ ~stopping
    /\ inbox[cur] = 0
    /\ peer[cur] # "open"
    /\ Delete(cur)
    /\ UNCHANGED <<control, reactor, ready, failed, made, socket, sender>>

\* read() says end of file, or ECONNRESET.
ReadGone ==
    /\ rpc = "read"
    /\ ~stopping
    /\ inbox[cur] = 0
    /\ peer[cur] # "open"
    /\ Delete(cur)
    /\ EndRead
    /\ UNCHANGED <<control, batch, todo, ready, failed, made, socket, sender>>

\* sendData from the reactor thread: put() and the write to controlEventFd
\* with nothing of the reactor's in between.
Respond(c, n) ==
    /\ made < MaxTx
    /\ tx' = [tx EXCEPT ![c] = Append(@, [size |-> n, by |-> NoConn, filled |-> TRUE])]
    /\ made' = made + 1
    /\ ready' = ready \cup {"control"}
    /\ UNCHANGED sending

\* TcpClient::onReceive: a failed client takes nothing more; a framing error
\* fails it, and the observer answers; a complete message may be answered.
ReadMessage ==
    /\ rpc = "read"
    /\ ~stopping
    /\ inbox[cur] > 0
    /\ inbox' = [inbox EXCEPT ![cur] = @ - 1]
    /\ \/ /\ UNCHANGED <<failed, ready, transmit>>
       \/ /\ ~failed[cur]
          /\ \E n \in Sizes : Respond(cur, n)
          /\ UNCHANGED failed
       \/ /\ ~failed[cur]
          /\ "framing" \in Faults
          /\ failed' = [failed EXCEPT ![cur] = TRUE]
          /\ \E n \in Sizes : Respond(cur, n)
    /\ UNCHANGED <<control, reactor, conn, observed, peer, arrived, unread, starved, sender>>

\* Any other error of read(): abort().
ReadError ==
    /\ "read" \in Faults
    /\ rpc = "read"
    /\ ~stopping
    /\ stopping' = TRUE
    /\ EndRead
    /\ UNCHANGED <<stopper, batch, todo, ready, client, transmit, socket, sender>>

Receive == ReadStopping \/ ReadAgain \/ ReadGone \/ ReadMessage \/ ReadError

-----------------------------------------------------------------------------
(* processSend(): every client in turn                                     *)

BeginSend ==
    /\ rpc = "async"
    /\ IF stopping
       THEN rpc' = "check" /\ UNCHANGED todo
       ELSE rpc' = "pick" /\ todo' = Clients
    /\ UNCHANGED <<control, batch, cur, ready, client, transmit, socket, sender>>

NextClient(c) ==
    /\ rpc = "pick"
    /\ c \in todo
    /\ cur' = c
    /\ todo' = todo \ {c}
    /\ rpc' = "send"
    /\ UNCHANGED <<control, batch, ready, client, transmit, socket, sender>>

EndSend ==
    /\ rpc = "pick"
    /\ todo = {}
    /\ rpc' = "check"
    /\ UNCHANGED <<control, batch, cur, todo, ready, client, transmit, socket, sender>>

\* getTxData moves on to the next buffer.
TakeBuffer ==
    /\ rpc = "send"
    /\ sending[cur] = <<>>
    /\ HasFilled(cur)
    /\ sending' = [sending EXCEPT ![cur] = <<Head(tx[cur]).size>>]
    /\ tx' = [tx EXCEPT ![cur] = Tail(@)]
    /\ UNCHANGED <<control, reactor, ready, client, made, socket, sender>>

\* getTxData returned something to send.
Pending(c) == sending[c] # <<>> /\ Head(sending[c]) > 0

\* send() took k bytes, and onDataSent counts them.
SendBytes(k) ==
    /\ rpc = "send"
    /\ Pending(cur)
    /\ peer[cur] # "reset"
    /\ k <= Head(sending[cur])
    /\ k <= Room(cur)
    /\ sending' = [sending EXCEPT ![cur] =
                       IF Head(@) = k THEN <<>> ELSE <<Head(@) - k>>]
    /\ unread' = [unread EXCEPT ![cur] = IF peer[cur] = "open" THEN @ + k ELSE @]
    /\ UNCHANGED <<control, reactor, ready, client, tx, made, peer, inbox, arrived,
                   starved, sender>>

\* EAGAIN: the while loop goes on with the same buffer.
SendAgain ==
    /\ rpc = "send"
    /\ Pending(cur)
    /\ peer[cur] # "reset"
    /\ Room(cur) = 0
    /\ starved' = [starved EXCEPT ![cur] = TRUE]
    /\ UNCHANGED <<control, reactor, ready, client, transmit, peer, inbox, arrived, unread,
                   sender>>

\* Any other error: abort(), and the while loop goes on with the same buffer.
SendError ==
    /\ rpc = "send"
    /\ Pending(cur)
    /\ peer[cur] = "reset"
    /\ stopping' = TRUE
    /\ UNCHANGED <<stopper, reactor, ready, client, transmit, socket, sender>>

NothingToSend(c) ==
    IF sending[c] = <<>> THEN ~HasFilled(c) ELSE Head(sending[c]) = 0

SendDone ==
    /\ rpc = "send"
    /\ NothingToSend(cur)
    /\ ~failed[cur]
    /\ rpc' = "pick"
    /\ cur' = NoConn
    /\ UNCHANGED <<control, batch, todo, ready, client, transmit, socket, sender>>

\* The client failed: it is closed and deleted, and its iterator erased and
\* then incremented, which is undefined.  The build crashes, or goes on with
\* some of the clients that were left.
DropFailed ==
    /\ rpc = "send"
    /\ NothingToSend(cur)
    /\ failed[cur]
    /\ Delete(cur)
    /\ cur' = NoConn
    /\ rpc' \in {"pick", "crashed"}
    /\ todo' \in SUBSET todo
    /\ UNCHANGED <<control, batch, ready, failed, made, socket, sender>>

Send ==
    \/ BeginSend \/ EndSend \/ TakeBuffer \/ SendAgain \/ SendError \/ SendDone
    \/ DropFailed
    \/ \E c \in Conns : NextClient(c)
    \/ \E k \in 1 .. SocketSpace : SendBytes(k)

-----------------------------------------------------------------------------
(* run(): the way out                                                      *)

\* Every client is deleted; the observer is not told, clientList is not cleared.
Exit ==
    /\ rpc = "exit"
    /\ rpc' = "done"
    /\ conn' = [c \in Conns |-> IF c \in Clients THEN "deleted" ELSE conn[c]]
    /\ tx' = [c \in Conns |-> <<>>]
    /\ sending' = [c \in Conns |-> <<>>]
    /\ UNCHANGED <<control, batch, cur, todo, ready, observed, failed, made, socket, sender>>

ReactorStep ==
    \/ CheckStopping \/ Wait
    \/ DispatchControl \/ DispatchListen \/ DispatchDone
    \/ AcceptAgain \/ AcceptError
    \/ \E c \in Conns : DispatchRead(c) \/ Accept(c)
    \/ Receive \/ Send \/ Exit

-----------------------------------------------------------------------------
(* The application's threads                                               *)

\* TcpClient::sendData on another thread reserves a place in txList, ...
SendData(t, c, n) ==
    /\ spc[t] = "idle"
    /\ c \in Clients
    /\ made < MaxTx
    /\ tx' = [tx EXCEPT ![c] = Append(@, [size |-> n, by |-> t, filled |-> FALSE])]
    /\ made' = made + 1
    /\ spc' = [spc EXCEPT ![t] = "fill"]
    /\ target' = [target EXCEPT ![t] = c]
    /\ UNCHANGED <<control, reactor, ready, client, sending, socket>>

\* ... fills it (in memory that is no longer a queue, if the client has been
\* deleted meanwhile), ...
SendDataFill(t) ==
    /\ spc[t] = "fill"
    /\ tx' = [tx EXCEPT ![target[t]] =
                  [k \in DOMAIN @ |-> IF @[k].by = t THEN [@[k] EXCEPT !.filled = TRUE]
                                      ELSE @[k]]]
    /\ spc' = [spc EXCEPT ![t] = "notify"]
    /\ UNCHANGED <<control, reactor, ready, client, sending, made, socket, target>>

\* Mutant of SendDataNotify: the reactor is woken up only if it seems to wait.
NotifyIfWaiting(t) ==
    /\ spc[t] = "notify"
    /\ ready' = IF rpc = "wait" THEN ready \cup {"control"} ELSE ready
    /\ spc' = [spc EXCEPT ![t] = "idle"]
    /\ target' = [target EXCEPT ![t] = NoConn]
    /\ UNCHANGED <<control, reactor, client, transmit, socket>>

\* ... and writes to controlEventFd.
SendDataNotify(t) ==
    /\ spc[t] = "notify"
    /\ ready' = ready \cup {"control"}
    /\ spc' = [spc EXCEPT ![t] = "idle"]
    /\ target' = [target EXCEPT ![t] = NoConn]
    /\ UNCHANGED <<control, reactor, client, transmit, socket>>

\* stop(): stopping is set, the reactor woken up, and its thread joined.
Stop ==
    /\ MayStop
    /\ stopper = "idle"
    /\ stopping' = TRUE
    /\ stopper' = "notify"
    /\ UNCHANGED <<reactor, ready, client, transmit, socket, sender>>

\* Mutant of StopNotify: the reactor is not woken up.
StopQuietly ==
    /\ stopper = "notify"
    /\ stopper' = "join"
    /\ UNCHANGED <<stopping, reactor, ready, client, transmit, socket, sender>>

StopNotify ==
    /\ stopper = "notify"
    /\ ready' = ready \cup {"control"}
    /\ stopper' = "join"
    /\ UNCHANGED <<stopping, reactor, client, transmit, socket, sender>>

StopJoin ==
    /\ stopper = "join"
    /\ rpc = "done"
    /\ stopper' = "joined"
    /\ UNCHANGED <<stopping, reactor, ready, client, transmit, socket, sender>>

-----------------------------------------------------------------------------
(* The peers                                                               *)

Registered(c) == IF c \in Clients THEN {c} ELSE {}

\* Which connection is made next is all the same.
PeerConnects(c) ==
    /\ conn[c] = "new"
    /\ c = CHOOSE d \in Conns : conn[d] = "new"
    /\ rpc \notin {"done", "crashed"}
    /\ conn' = [conn EXCEPT ![c] = "backlog"]
    /\ ready' = ready \cup {"listen"}
    /\ UNCHANGED <<control, reactor, observed, failed, transmit, socket, sender>>

PeerSends(c) ==
    /\ conn[c] \in {"backlog", "client"}
    /\ peer[c] = "open"
    /\ arrived < MaxRx
    /\ arrived' = arrived + 1
    /\ inbox' = [inbox EXCEPT ![c] = @ + 1]
    /\ ready' = ready \cup Registered(c)
    /\ UNCHANGED <<control, reactor, client, transmit, peer, unread, starved, sender>>

\* Room in a socket that had none is an EPOLLOUT event.
PeerReads(c) ==
    /\ peer[c] = "open"
    /\ unread[c] > 0
    /\ unread' = [unread EXCEPT ![c] = 0]
    /\ starved' = [starved EXCEPT ![c] = FALSE]
    /\ ready' = IF starved[c] THEN ready \cup Registered(c) ELSE ready
    /\ UNCHANGED <<control, reactor, client, transmit, peer, inbox, arrived, sender>>

\* The peer closes; it may then answer anything it is sent with a reset.
PeerCloses(c) ==
    /\ conn[c] \in {"backlog", "client"}
    /\ \/ "close" \in Faults /\ peer[c] = "open" /\ peer' = [peer EXCEPT ![c] = "closed"]
       \/ "reset" \in Faults /\ peer[c] # "reset" /\ peer' = [peer EXCEPT ![c] = "reset"]
    /\ inbox' = IF peer'[c] = "reset" THEN [inbox EXCEPT ![c] = 0] ELSE inbox
    /\ unread' = [unread EXCEPT ![c] = 0]
    /\ starved' = [starved EXCEPT ![c] = FALSE]
    /\ ready' = ready \cup Registered(c)
    /\ UNCHANGED <<control, reactor, client, transmit, arrived, sender>>

-----------------------------------------------------------------------------

Next ==
    \/ ReactorStep
    \/ \E t \in Senders : \/ SendDataFill(t) \/ SendDataNotify(t)
                          \/ \E c \in Conns, n \in Sizes : SendData(t, c, n)
    \/ Stop \/ StopNotify \/ StopJoin
    \/ \E c \in Conns : PeerConnects(c) \/ PeerSends(c) \/ PeerReads(c) \/ PeerCloses(c)

Spec == Init /\ [][Next]_vars

\* Threads are scheduled; nobody has to connect, to send or to stop.
ThreadFairness ==
    /\ WF_vars(ReactorStep)
    /\ \A t \in Senders : WF_vars(SendDataFill(t) \/ SendDataNotify(t))
    /\ WF_vars(StopNotify \/ StopJoin)

\* Peers that are sent something read it in the end.
FairSpec == Spec /\ ThreadFairness /\ \A c \in Conns : WF_vars(PeerReads(c))

-----------------------------------------------------------------------------
(* Properties                                                              *)

Running == rpc \notin {"exit", "done", "crashed"}

\* While the reactor runs, the observer's idea of who is connected is
\* clientList: a connection is announced once, before anything is read from
\* it, and its end is announced once, whoever noticed it.
ObserverInStep == Running => observed = Clients

\* The reactor never works on a client it has deleted: not on one left in a
\* batch of events, and not on one left in processSend's iteration.
NoDeletedClient ==
    /\ rpc \in {"read", "send"} => cur \in Clients
    /\ rpc = "pick" => todo \subseteq Clients

\* What the code loses: the program, when processSend goes on from an iterator it
\* erased, or the reactor thread, which asks send() for ever for a peer that has
\* reset the connection.
Lost == rpc = "crashed" \/ (rpc = "send" /\ Pending(cur) /\ peer[cur] = "reset")

\* Each edge of epoll comes once, and none is wasted: a connection in the backlog
\* is accepted, what arrives is read, and a client whose peer is gone is deleted.
NoEdgeIsLost ==
    \A c \in Conns :
        /\ conn[c] = "backlog" ~> (conn[c] # "backlog" \/ stopping \/ Lost)
        /\ inbox[c] > 0 ~> (inbox[c] = 0 \/ conn[c] = "deleted" \/ stopping \/ Lost)
        /\ (c \in Clients /\ peer[c] # "open") ~> (conn[c] = "deleted" \/ stopping \/ Lost)

\* A buffer sendData accepted is sent: no wake-up is lost between the put, the
\* write to controlEventFd and the reactor's pass over txList.
QueuedIsSent ==
    \A c \in Conns :
        HasFilled(c) ~> \/ tx[c] = <<>> /\ sending[c] = <<>>
                        \/ conn[c] = "deleted" \/ stopping \/ Lost

\* stop() returns, whatever the reactor is doing, if it is not lost.
StopReturns == stopper = "notify" ~> (stopper = "joined" \/ Lost)

=============================================================================
