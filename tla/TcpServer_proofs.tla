--------------------------- MODULE TcpServer_proofs ---------------------------
(***************************************************************************)
(* Safety of the reactor, for every set of connections and of threads that *)
(* send, every size and every bound.                                       *)
(***************************************************************************)
EXTENDS TcpServer, SequenceTheorems, TLAPS

-----------------------------------------------------------------------------
(* The inductive invariant                                                 *)

\* What the reactor is doing is about clients in clientList, and what is left of
\* a pass over them does not include the one it is at.
ReactorInv ==
    /\ rpc \in {"read", "send"} => cur \in Clients
    /\ rpc = "pick" => todo \subseteq Clients
    /\ rpc = "send" => todo \subseteq Clients \ {cur}

IInv ==
    /\ conn \in [Conns -> {"new", "backlog", "client", "deleted"}]
    /\ ObserverInStep
    /\ ReactorInv

\* A server that has accepted nobody has the invariant.
LEMMA InitIInv == Init => IInv
BY DEF Init, IInv, ReactorInv, ObserverInStep, Running, Clients

\* A step that leaves conn and the observer alone, and the reactor where it was or
\* at a place where it works on no client.
LEMMA ElsewhereIInv ==
    ASSUME IInv, UNCHANGED <<conn, observed>>, Running' => Running,
           rpc' \notin {"read", "pick", "send"}
    PROVE  IInv'
BY DEF IInv, ReactorInv, ObserverInStep, Clients

\* A step that changes neither a client nor the reactor keeps the invariant.
LEMMA StayIInv ==
    ASSUME IInv, UNCHANGED <<conn, observed, reactor>>
    PROVE  IInv'
BY DEF IInv, ReactorInv, ObserverInStep, Running, Clients, reactor

\* The end of a client the reactor is at: it is in no other place.
LEMMA DeleteIInv ==
    ASSUME IInv, Running, cur \in Clients, Delete(cur),
           rpc' # "read" /\ rpc' # "send",
           rpc' = "pick" => todo' \subseteq Clients \ {cur}
    PROVE  IInv'
<1>1. Clients' = Clients \ {cur}
  BY DEF IInv, Delete, Clients
<1> QED
  BY <1>1 DEF IInv, ReactorInv, ObserverInStep, Delete, Clients

\* Every step keeps the invariant, one action after the other.
LEMMA NextIInv == IInv /\ [Next]_vars => IInv'
<1> SUFFICES ASSUME IInv, [Next]_vars PROVE IInv'
  OBVIOUS
<1>1. CASE CheckStopping \/ Wait \/ DispatchControl \/ DispatchListen \/ DispatchDone
           \/ AcceptAgain \/ AcceptError
  BY <1>1, ElsewhereIInv
  DEF CheckStopping, Wait, DispatchControl, DispatchListen, DispatchDone, AcceptAgain,
      AcceptError, client, Running
<1>2. ASSUME NEW c \in Conns, DispatchRead(c) PROVE IInv'
  BY <1>2 DEF DispatchRead, IInv, ReactorInv, ObserverInStep, Running, Clients, client
<1>3. ASSUME NEW c \in Conns, Accept(c) PROVE IInv'
  BY <1>3 DEF Accept, IInv, ReactorInv, ObserverInStep, Running, Clients, reactor
<1>4. CASE ReadStopping \/ ReadAgain \/ ReadError
  BY <1>4, ElsewhereIInv DEF ReadStopping, ReadAgain, ReadError, EndRead, client, Running
<1>5. CASE ReadGone
  BY <1>5, DeleteIInv DEF ReadGone, EndRead, IInv, ReactorInv, Running
<1>6. CASE ReadMessage
  BY <1>6, StayIInv DEF ReadMessage
<1>7. CASE BeginSend \/ EndSend
  BY <1>7 DEF BeginSend, EndSend, IInv, ReactorInv, ObserverInStep, Running, Clients, client
<1>8. ASSUME NEW c \in Conns, NextClient(c) PROVE IInv'
  BY <1>8 DEF NextClient, IInv, ReactorInv, ObserverInStep, Running, Clients, client
<1>9. CASE TakeBuffer \/ SendAgain \/ SendError \/ \E k \in 1 .. SocketSpace : SendBytes(k)
  BY <1>9, StayIInv DEF TakeBuffer, SendAgain, SendError, SendBytes, client
<1>10. CASE SendDone
  BY <1>10 DEF SendDone, IInv, ReactorInv, ObserverInStep, Running, Clients, client
<1>11. CASE DropFailed
  BY <1>11, DeleteIInv DEF DropFailed, IInv, ReactorInv, Running
<1>12. CASE Exit
  BY <1>12 DEF Exit, IInv, ReactorInv, ObserverInStep, Running, Clients
<1>13. ASSUME NEW t \in Senders,
              SendDataFill(t) \/ SendDataNotify(t)
              \/ \E c \in Conns, n \in Sizes : SendData(t, c, n)
       PROVE  IInv'
  BY <1>13, StayIInv DEF SendDataFill, SendDataNotify, SendData, client
<1>14. CASE Stop \/ StopNotify \/ StopJoin
  BY <1>14, StayIInv DEF Stop, StopNotify, StopJoin, client
<1>15. ASSUME NEW c \in Conns, PeerConnects(c) PROVE IInv'
  BY <1>15 DEF PeerConnects, IInv, ReactorInv, ObserverInStep, Running, Clients, reactor
<1>16. ASSUME NEW c \in Conns, PeerSends(c) \/ PeerReads(c) \/ PeerCloses(c) PROVE IInv'
  BY <1>16, StayIInv DEF PeerSends, PeerReads, PeerCloses, client
<1>17. CASE UNCHANGED vars
  BY <1>17, StayIInv DEF vars, client
<1> QED
  BY <1>1, <1>2, <1>3, <1>4, <1>5, <1>6, <1>7, <1>8, <1>9, <1>10, <1>11, <1>12, <1>13,
     <1>14, <1>15, <1>16, <1>17
  DEF Next, ReactorStep, Receive, Send

\* The observer knows the clients of clientList, and the reactor works on those alone,
\* whatever the peers and the other threads do.
THEOREM Invariance == Spec => []IInv
BY InitIInv, NextIInv, PTL DEF Spec

\* The observer has been told of exactly the clients that clientList has, at every step
\* of epollThread and of the threads that send.
THEOREM ObserverIsInStep == Spec => []ObserverInStep
BY Invariance, PTL DEF IInv

\* The reactor never reads from, or sends to, a client that it has deleted.
THEOREM NoDeletedClientIsUsed == Spec => []NoDeletedClient
<1>1. IInv => NoDeletedClient
  BY DEF IInv, ReactorInv, NoDeletedClient
<1> QED
  BY <1>1, Invariance, PTL

-----------------------------------------------------------------------------
(* Type correctness: the bounds on queues and on what has arrived hold     *)
(* because everything is counted when it is made.                          *)

QueueInv ==
    /\ tx \in [Conns -> Seq(Place)] /\ sending \in [Conns -> Seq(Nat)]
    /\ made \in 0 .. MaxTx
    /\ \A c \in Conns : Len(sending[c]) <= 1 /\ Len(tx[c]) + Len(sending[c]) <= made

SocketInv ==
    /\ peer \in [Conns -> {"open", "closed", "reset"}]
    /\ inbox \in [Conns -> Nat]
    /\ arrived \in 0 .. MaxRx
    /\ unread \in [Conns -> 0 .. SocketSpace]
    /\ \A c \in Conns : inbox[c] <= arrived

FlagInv == failed \in [Conns -> BOOLEAN] /\ starved \in [Conns -> BOOLEAN]

ThreadInv ==
    /\ stopping \in BOOLEAN
    /\ rpc \in {"check", "wait", "dispatch", "accept", "read", "async", "pick", "send",
                "exit", "done", "crashed"}
    /\ ready \subseteq Conns \cup {"listen", "control"}
    /\ batch \subseteq Conns \cup {"listen", "control"}
    /\ cur \in Conns \cup {NoConn}
    /\ rpc \in {"read", "send"} => cur \in Conns
    /\ todo \subseteq Conns
    /\ conn \in [Conns -> {"new", "backlog", "client", "deleted"}]
    /\ observed \subseteq Conns
    /\ spc \in [Senders -> {"idle", "fill", "notify"}]
    /\ target \in [Senders -> Conns \cup {NoConn}]
    /\ \A t \in Senders : spc[t] # "idle" => target[t] \in Conns
    /\ stopper \in {"idle", "notify", "join", "joined"}

TypeInv == QueueInv /\ SocketInv /\ FlagInv /\ ThreadInv

\* What is proved of the variables one by one is the type invariant.
LEMMA TypeInvImplies == TypeInv => TypeOK
<1> SUFFICES ASSUME TypeInv PROVE TypeOK
  OBVIOUS
<1>1. inbox \in [Conns -> 0 .. MaxRx]
  BY BoundsAssumption DEF TypeInv, SocketInv
<1>2. \A c \in Conns : Len(sending[c]) <= 1 /\ Len(tx[c]) + Len(sending[c]) <= MaxTx
  BY BoundsAssumption DEF TypeInv, QueueInv
<1> QED
  BY <1>1, <1>2 DEF TypeInv, QueueInv, SocketInv, FlagInv, ThreadInv, TypeOK

\* The types of a server that has accepted nobody.
LEMMA InitTypeInv == Init => TypeInv
<1> SUFFICES ASSUME Init PROVE TypeInv
  OBVIOUS
<1>1. QueueInv
  <2>1. <<>> \in Seq(Place) /\ <<>> \in Seq(Nat) /\ Len(<<>>) = 0
    OBVIOUS
  <2> QED
    BY <2>1, BoundsAssumption DEF Init, QueueInv
<1>2. SocketInv
  BY BoundsAssumption, SpaceAssumption DEF Init, SocketInv
<1>3. FlagInv
  BY DEF Init, FlagInv
<1>4. ThreadInv
  BY DEF Init, ThreadInv
<1> QED
  BY <1>1, <1>2, <1>3, <1>4 DEF TypeInv

\* The locals of the reactor and of the sending threads keep their types.
LEMMA NextThreadInv == TypeInv /\ [Next]_vars => ThreadInv'
<1> SUFFICES ASSUME ThreadInv, [Next]_vars PROVE ThreadInv'
  BY DEF TypeInv
<1> USE DEF ThreadInv
<1>1. CASE ReactorStep
  <2>1. CASE CheckStopping \/ Wait \/ DispatchControl \/ DispatchListen \/ DispatchDone
             \/ AcceptAgain \/ AcceptError
    BY <2>1
    DEF CheckStopping, Wait, DispatchControl, DispatchListen, DispatchDone, AcceptAgain,
        AcceptError, control, client, sender
  <2>2. ASSUME NEW c \in Conns, DispatchRead(c) \/ Accept(c) \/ NextClient(c) PROVE ThreadInv'
    BY <2>2 DEF DispatchRead, Accept, NextClient, control, client, reactor, sender
  <2>3. CASE Receive
    BY <2>3 DEF Receive, ReadStopping, ReadAgain, ReadGone, ReadMessage, ReadError, EndRead,
                Delete, Respond, control, client, reactor, sender, transmit
  <2>4. CASE BeginSend \/ EndSend \/ SendDone \/ DropFailed \/ Exit
    BY <2>4 DEF BeginSend, EndSend, SendDone, DropFailed, Exit, Delete, Clients,
                control, client, sender
  <2>5. CASE TakeBuffer \/ SendAgain \/ SendError \/ \E k \in 1 .. SocketSpace : SendBytes(k)
    BY <2>5 DEF TakeBuffer, SendAgain, SendError, SendBytes, control, client, reactor, sender
  <2> QED
    BY <1>1, <2>1, <2>2, <2>3, <2>4, <2>5 DEF ReactorStep, Send
<1>2. ASSUME NEW t \in Senders,
             SendDataFill(t) \/ SendDataNotify(t)
             \/ \E c \in Conns, n \in Sizes : SendData(t, c, n)
      PROVE  ThreadInv'
  <2>1. CASE SendDataFill(t)
    <3>1. spc[t] = "fill" /\ spc' = [spc EXCEPT ![t] = "notify"]
          /\ UNCHANGED <<target, control, reactor, ready, client>>
      BY <2>1 DEF SendDataFill
    <3> QED
      BY <3>1 DEF control, reactor, client
  <2>2. CASE SendDataNotify(t)
    BY <2>2 DEF SendDataNotify, control, client, reactor
  <2>3. ASSUME NEW c \in Conns, NEW n \in Sizes, SendData(t, c, n) PROVE ThreadInv'
    BY <2>3 DEF SendData, control, client, reactor
  <2> QED
    BY <1>2, <2>1, <2>2, <2>3
<1>3. CASE Stop \/ StopNotify \/ StopJoin
  BY <1>3 DEF Stop, StopNotify, StopJoin, client, reactor, sender
<1>4. ASSUME NEW c \in Conns, PeerConnects(c) \/ PeerSends(c) \/ PeerReads(c) \/ PeerCloses(c)
      PROVE  ThreadInv'
  BY <1>4 DEF PeerConnects, PeerSends, PeerReads, PeerCloses, Registered, control, client,
              reactor, sender
<1>5. CASE UNCHANGED vars
  BY <1>5 DEF vars, control, client, reactor, sender
<1> QED
  BY <1>1, <1>2, <1>3, <1>4, <1>5 DEF Next

\* What a failed send() and a full queue leave behind keeps its type.
LEMMA NextFlagInv == TypeInv /\ [Next]_vars => FlagInv'
<1> SUFFICES ASSUME FlagInv, [Next]_vars PROVE FlagInv'
  BY DEF TypeInv
<1> USE DEF Next, ReactorStep, CheckStopping, Wait, DispatchControl, DispatchListen,
            DispatchDone, DispatchRead, Accept, AcceptAgain, AcceptError, Receive,
            ReadStopping, ReadAgain, ReadGone, ReadMessage, ReadError, Send, BeginSend,
            EndSend, NextClient, TakeBuffer, SendBytes, SendAgain, SendError, SendDone,
            DropFailed, Exit, SendData, SendDataFill, SendDataNotify, Stop, StopNotify,
            StopJoin, PeerConnects, PeerSends, PeerReads, PeerCloses, vars
<1>1. UNCHANGED failed \/ failed' = [failed EXCEPT ![cur] = TRUE]
  BY DEF client
<1>2. \/ UNCHANGED starved
      \/ starved' = [starved EXCEPT ![cur] = TRUE]
      \/ \E c \in Conns : starved' = [starved EXCEPT ![c] = FALSE]
  BY DEF socket
<1> QED
  BY <1>1, <1>2 DEF FlagInv

\* What is on its way in a socket stays within its space.
LEMMA NextSocketInv == TypeInv /\ [Next]_vars => SocketInv'
<1> SUFFICES ASSUME SocketInv, ThreadInv, [Next]_vars PROVE SocketInv'
  BY DEF TypeInv
<1> USE BoundsAssumption, SpaceAssumption DEF SocketInv, ThreadInv
<1>1. CASE ReactorStep
  <2>1. CASE ReadMessage
    BY <2>1 DEF ReadMessage
  <2>2. ASSUME NEW k \in 1 .. SocketSpace, SendBytes(k) PROVE SocketInv'
    BY <2>2 DEF SendBytes, Room
  <2>3. ReadMessage \/ (\E k \in 1 .. SocketSpace : SendBytes(k))
        \/ UNCHANGED <<peer, inbox, arrived, unread>>
    BY <1>1 DEF ReactorStep, CheckStopping, Wait, DispatchControl, DispatchListen,
            DispatchDone, DispatchRead, Accept, AcceptAgain, AcceptError, Receive,
            ReadStopping, ReadAgain, ReadGone, ReadError, Send, BeginSend,
            EndSend, NextClient, TakeBuffer, SendAgain, SendError, SendDone,
            DropFailed, Exit, socket
  <2> QED
    BY <2>1, <2>2, <2>3
<1>2. ASSUME NEW t \in Senders,
             SendDataFill(t) \/ SendDataNotify(t)
             \/ \E c \in Conns, n \in Sizes : SendData(t, c, n)
      PROVE  SocketInv'
  <2>1. UNCHANGED socket
    BY <1>2 DEF SendDataFill, SendDataNotify, SendData
  <2> QED
    BY <2>1 DEF socket
<1>3. CASE Stop \/ StopNotify \/ StopJoin
  BY <1>3 DEF Stop, StopNotify, StopJoin, socket
<1>4. ASSUME NEW c \in Conns, PeerConnects(c) \/ PeerSends(c) \/ PeerReads(c) PROVE SocketInv'
  BY <1>4 DEF PeerConnects, PeerSends, PeerReads, socket
<1>5. ASSUME NEW c \in Conns, PeerCloses(c) PROVE SocketInv'
  BY <1>5 DEF PeerCloses
<1>6. CASE UNCHANGED vars
  BY <1>6 DEF vars, socket
<1> QED
  BY <1>1, <1>2, <1>3, <1>4, <1>5, <1>6 DEF Next

\* Filling a place leaves its size and its owner alone.
LEMMA FilledPlace ==
    ASSUME NEW place \in Place
    PROVE  LET filled == [place EXCEPT !.filled = TRUE]
           IN  filled \in Place /\ filled.size = place.size /\ filled.by = place.by
               /\ filled.filled
BY DEF Place

\* A place is filled where it is; those of other threads are left alone.
LEMMA FilledQueue ==
    ASSUME QueueInv, ThreadInv, NEW t \in Senders, SendDataFill(t)
    PROVE  LET c == target[t]
           IN  /\ c \in Conns
               /\ tx' \in [Conns -> Seq(Place)]
               /\ \A d \in Conns : Len(tx'[d]) = Len(tx[d])
               /\ \A d \in Conns : \A k \in 1 .. Len(tx[d]) :
                      IF d = c /\ tx[d][k].by = t
                      THEN tx'[d][k].by = t /\ tx'[d][k].filled
                      ELSE tx'[d][k] = tx[d][k]
<1> DEFINE c == target[t]
           F(place) == [place EXCEPT !.filled = TRUE]
           q == [k \in DOMAIN tx[c] |-> IF tx[c][k].by = t THEN F(tx[c][k]) ELSE tx[c][k]]
<1>1. c \in Conns /\ tx[c] \in Seq(Place) /\ tx \in [Conns -> Seq(Place)]
  BY DEF SendDataFill, ThreadInv, QueueInv
<1>2. tx' = [tx EXCEPT ![c] = q]
  BY DEF SendDataFill
<1>3. \A place \in Place : F(place) \in Place /\ F(place).by = place.by /\ F(place).filled
  BY FilledPlace
<1> HIDE DEF c, F
<1>4. /\ DOMAIN tx[c] = 1 .. Len(tx[c]) /\ Len(tx[c]) \in Nat
      /\ \A k \in 1 .. Len(tx[c]) : tx[c][k] \in Place
  BY <1>1, LenProperties
<1>5. q \in [1 .. Len(tx[c]) -> Place]
  BY <1>3, <1>4
<1>6. q \in Seq(Place) /\ Len(q) = Len(tx[c])
  BY <1>4, <1>5, SeqDef
<1>7. \A k \in 1 .. Len(tx[c]) : IF tx[c][k].by = t THEN q[k].by = t /\ q[k].filled
                                ELSE q[k] = tx[c][k]
  BY <1>3, <1>4
<1> HIDE DEF q
<1>8. tx' \in [Conns -> Seq(Place)] /\ \A d \in Conns : tx'[d] = IF d = c THEN q ELSE tx[d]
  BY <1>1, <1>2, <1>6
<1> QED
  BY <1>1, <1>6, <1>7, <1>8 DEF c

\* Deleting a client empties its queue.
LEMMA DeleteQueueInv ==
    ASSUME QueueInv, NEW c \in Conns, Delete(c), UNCHANGED made
    PROVE  QueueInv'
<1>1. <<>> \in Seq(Place) /\ <<>> \in Seq(Nat) /\ Len(<<>>) = 0
  OBVIOUS
<1> QED
  BY <1>1, BoundsAssumption DEF QueueInv, Delete

\* sendData puts one place at the end of the queue, and counts it.
LEMMA AppendQueueInv ==
    ASSUME QueueInv, NEW c \in Conns, NEW place \in Place,
           made < MaxTx, made' = made + 1, UNCHANGED sending,
           tx' = [tx EXCEPT ![c] = Append(@, place)]
    PROVE  QueueInv'
<1>1. Append(tx[c], place) \in Seq(Place) /\ Len(Append(tx[c], place)) = Len(tx[c]) + 1
  BY AppendProperties DEF QueueInv
<1>2. tx' \in [Conns -> Seq(Place)]
  BY <1>1 DEF QueueInv
<1>3. \A d \in Conns : /\ Len(tx'[d]) <= Len(tx[d]) + 1
                       /\ Len(tx[d]) \in Nat /\ Len(sending[d]) \in Nat
  BY <1>1, LenProperties DEF QueueInv
<1> QED
  BY <1>2, <1>3, BoundsAssumption DEF QueueInv

\* The queues stay within TxSize: addToQueue() refuses what has no room.
LEMMA NextQueueInv == TypeInv /\ [Next]_vars => QueueInv'
<1> SUFFICES ASSUME QueueInv, ThreadInv, [Next]_vars PROVE QueueInv'
  BY DEF TypeInv
<1> USE BoundsAssumption, SizesAssumption
<1>1. CASE ReadGone \/ DropFailed
  BY <1>1, DeleteQueueInv DEF ReadGone, DropFailed, ThreadInv
<1>2. CASE Exit
  <2>1. <<>> \in Seq(Place) /\ <<>> \in Seq(Nat) /\ Len(<<>>) = 0
    OBVIOUS
  <2> QED
    BY <1>2, <2>1 DEF Exit, QueueInv
<1>3. CASE ReadMessage
  <2>1. CASE UNCHANGED transmit
    BY <2>1 DEF transmit, QueueInv
  <2>2. ASSUME NEW n \in Sizes, Respond(cur, n) PROVE QueueInv'
    <3>1. [size |-> n, by |-> NoConn, filled |-> TRUE] \in Place
      BY DEF Place
    <3> QED
      BY <1>3, <2>2, <3>1, AppendQueueInv DEF Respond, ReadMessage, ThreadInv
  <2> QED
    BY <1>3, <2>1, <2>2 DEF ReadMessage
<1>4. CASE TakeBuffer
  <2>1. cur \in Conns
    BY <1>4 DEF TakeBuffer, ThreadInv
  <2>2. /\ Head(tx[cur]).size \in Nat
        /\ Tail(tx[cur]) \in Seq(Place) /\ Len(Tail(tx[cur])) = Len(tx[cur]) - 1
    <3>1. tx[cur] \in Seq(Place) /\ tx[cur] # <<>>
      BY <1>4, <2>1 DEF TakeBuffer, HasFilled, QueueInv
    <3>2. Head(tx[cur]) \in Place
      BY <3>1, HeadTailProperties
    <3> QED
      BY <3>1, <3>2, HeadTailProperties DEF Place
  <2>3. Len(sending[cur]) = 0
    BY <1>4 DEF TakeBuffer
  <2>4. tx' \in [Conns -> Seq(Place)] /\ sending' \in [Conns -> Seq(Nat)]
    BY <1>4, <2>1, <2>2 DEF TakeBuffer, QueueInv
  <2>5. \A d \in Conns : Len(sending'[d]) <= 1 /\ Len(tx'[d]) + Len(sending'[d]) <= made
    BY <1>4, <2>1, <2>2, <2>3 DEF TakeBuffer, QueueInv
  <2> QED
    BY <1>4, <2>4, <2>5 DEF TakeBuffer, QueueInv
<1>5. ASSUME NEW k \in 1 .. SocketSpace, SendBytes(k) PROVE QueueInv'
  <2>1. cur \in Conns /\ sending[cur] \in Seq(Nat) /\ sending[cur] # <<>>
    BY <1>5 DEF SendBytes, Pending, ThreadInv, QueueInv
  <2>2. /\ Head(sending[cur]) \in Nat
        /\ k <= Head(sending[cur]) /\ k \in Nat
        /\ Len(sending[cur]) \in Nat /\ Len(sending[cur]) > 0
    <3>1. k <= Head(sending[cur]) /\ k \in Nat
      BY <1>5, SpaceAssumption DEF SendBytes
    <3> QED
      BY <2>1, <3>1, HeadTailProperties, EmptySeq
  <2>3. sending'[cur] \in Seq(Nat) /\ Len(sending'[cur]) <= 1
    BY <1>5, <2>1, <2>2 DEF SendBytes, QueueInv
  <2>4. /\ sending' \in [Conns -> Seq(Nat)]
        /\ \A d \in Conns : d # cur => sending'[d] = sending[d]
    BY <1>5, <2>1, <2>3 DEF SendBytes, QueueInv
  <2> QED
    BY <1>5, <2>1, <2>2, <2>3, <2>4 DEF SendBytes, QueueInv
<1>6. ASSUME NEW t \in Senders, NEW c \in Conns, NEW n \in Sizes, SendData(t, c, n)
      PROVE  QueueInv'
  <2>1. [size |-> n, by |-> t, filled |-> FALSE] \in Place
    BY DEF Place
  <2> QED
    BY <1>6, <2>1, AppendQueueInv DEF SendData
<1>7. ASSUME NEW t \in Senders, SendDataFill(t) PROVE QueueInv'
  <2>1. tx' \in [Conns -> Seq(Place)] /\ \A d \in Conns : Len(tx'[d]) = Len(tx[d])
    BY <1>7, FilledQueue
  <2>2. UNCHANGED <<sending, made>>
    BY <1>7 DEF SendDataFill
  <2> QED
    BY <2>1, <2>2 DEF QueueInv
<1>8. \/ ReadGone \/ DropFailed \/ Exit \/ ReadMessage \/ TakeBuffer
      \/ \E k \in 1 .. SocketSpace : SendBytes(k)
      \/ \E t \in Senders : SendDataFill(t) \/ \E c \in Conns, n \in Sizes : SendData(t, c, n)
      \/ UNCHANGED transmit
  BY DEF Next, ReactorStep, CheckStopping, Wait, DispatchControl, DispatchListen,
         DispatchDone, DispatchRead, Accept, AcceptAgain, AcceptError, Receive,
         ReadStopping, ReadAgain, ReadError, Send, BeginSend, EndSend, NextClient,
         SendAgain, SendError, SendDone, SendDataNotify, Stop, StopNotify,
         StopJoin, PeerConnects, PeerSends, PeerReads, PeerCloses, vars
<1>9. CASE UNCHANGED transmit
  BY <1>9 DEF transmit, QueueInv
<1> QED
  BY <1>1, <1>2, <1>3, <1>4, <1>5, <1>6, <1>7, <1>8, <1>9

\* Every step keeps the types.
LEMMA NextTypeInv == TypeInv /\ [Next]_vars => TypeInv'
BY NextThreadInv, NextFlagInv, NextSocketInv, NextQueueInv DEF TypeInv

\* Every variable keeps its type, whatever peers, senders and stop() do.
THEOREM TypeCorrect == Spec => []TypeOK
BY InitTypeInv, NextTypeInv, TypeInvImplies, PTL DEF Spec

-----------------------------------------------------------------------------
(* txList: reserved places, and what becomes of them                       *)

\* The places of a queue that are reserved and not filled yet.
Unfilled(c) == {k \in 1 .. Len(tx[c]) : ~tx[c][k].filled}

\* The reactor, which stops at a place that is not filled, never waits for nobody:
\* a thread of the application is inside sendData for that very client and will
\* fill the place; and a thread has one such place at most, so that filling "its"
\* place leaves no other behind.
EveryPlaceHasAWriter ==
    \A c \in Conns : \A k \in Unfilled(c) :
        LET t == tx[c][k].by
        IN  /\ t \in Senders /\ spc[t] = "fill" /\ target[t] = c
            /\ \A j \in Unfilled(c) : tx[c][j].by = t => j = k

\* Empty queues have no place to fill.
LEMMA InitWriter == Init => EveryPlaceHasAWriter
<1> SUFFICES ASSUME Init PROVE EveryPlaceHasAWriter
  OBVIOUS
<1>1. Len(<<>>) = 0
  OBVIOUS
<1> QED
  BY <1>1 DEF Init, EveryPlaceHasAWriter, Unfilled

\* Each step leaves the queues alone but for emptying some, putting a place at the
\* end of one, taking one off its beginning, or filling places.
LEMMA NextWriter == TypeInv /\ EveryPlaceHasAWriter /\ [Next]_vars => EveryPlaceHasAWriter'
<1> SUFFICES ASSUME QueueInv, ThreadInv, EveryPlaceHasAWriter, [Next]_vars
             PROVE  EveryPlaceHasAWriter'
  BY DEF TypeInv
<1>0. \A c \in Conns : /\ tx[c] \in Seq(Place) /\ Len(tx[c]) \in Nat
                       /\ \A k \in 1 .. Len(tx[c]) : tx[c][k] \in Place
  BY LenProperties DEF QueueInv
<1>1. CASE /\ UNCHANGED <<spc, target>>
           /\ \A c \in Conns : tx'[c] = tx[c] \/ tx'[c] = <<>>
  <2>1. Len(<<>>) = 0
    OBVIOUS
  <2> QED
    BY <1>1, <2>1 DEF EveryPlaceHasAWriter, Unfilled
<1>2. ASSUME NEW c \in Conns, NEW n \in Sizes, Respond(c, n), UNCHANGED <<spc, target>>
      PROVE  EveryPlaceHasAWriter'
  <2> DEFINE place == [size |-> n, by |-> NoConn, filled |-> TRUE]
  <2>1. place \in Place /\ place.filled
    BY DEF Place
  <2> HIDE DEF place
  <2>2. tx' = [tx EXCEPT ![c] = Append(tx[c], place)]
    BY <1>2 DEF Respond, place
  <2>3. \A d \in Conns : Unfilled(d)' = Unfilled(d) /\ \A k \in Unfilled(d) : tx'[d][k] = tx[d][k]
    BY <1>0, <2>1, <2>2, AppendProperties DEF Unfilled, QueueInv
  <2> QED
    BY <1>2, <2>3 DEF EveryPlaceHasAWriter
<1>3. ASSUME NEW t \in Senders, NEW c \in Conns, NEW n \in Sizes, SendData(t, c, n)
      PROVE  EveryPlaceHasAWriter'
  <2> DEFINE place == [size |-> n, by |-> t, filled |-> FALSE]
  <2>1. place \in Place /\ place.by = t
    BY DEF Place
  <2> HIDE DEF place
  <2>2. /\ tx' = [tx EXCEPT ![c] = Append(tx[c], place)]
        /\ spc[t] = "idle"
        /\ spc' = [spc EXCEPT ![t] = "fill"] /\ target' = [target EXCEPT ![t] = c]
    BY <1>3 DEF SendData, place
  <2>3. \A d \in Conns : \A k \in Unfilled(d)' :
           \/ k \in Unfilled(d) /\ tx'[d][k] = tx[d][k]
           \/ d = c /\ k = Len(tx[c]) + 1 /\ tx'[d][k].by = t
    BY <1>0, <2>1, <2>2, AppendProperties DEF Unfilled, QueueInv
  <2>4. \A d \in Conns : \A k \in Unfilled(d) : tx[d][k].by # t
    BY <2>2 DEF EveryPlaceHasAWriter
  <2>5. \A d \in Conns : \A k \in Unfilled(d)' :
           LET u == tx'[d][k].by
           IN  u \in Senders /\ spc'[u] = "fill" /\ target'[u] = d
    <3> SUFFICES ASSUME NEW d \in Conns, NEW k \in Unfilled(d)', NEW u, u = tx'[d][k].by
                 PROVE  u \in Senders /\ spc'[u] = "fill" /\ target'[u] = d
      OBVIOUS
    <3>1. CASE d = c /\ u = t
      BY <3>1, <2>2 DEF ThreadInv
    <3>2. CASE k \in Unfilled(d) /\ tx'[d][k] = tx[d][k]
      <4>1. u \in Senders /\ spc[u] = "fill" /\ target[u] = d /\ u # t
        BY <3>2, <2>4 DEF EveryPlaceHasAWriter
      <4> QED
        BY <4>1, <2>2 DEF ThreadInv
    <3> QED
      BY <3>1, <3>2, <2>3
  <2>6. \A d \in Conns : \A k, j \in Unfilled(d)' : tx'[d][k].by = tx'[d][j].by => j = k
    BY <2>3, <2>4 DEF EveryPlaceHasAWriter
  <2> QED
    BY <2>5, <2>6 DEF EveryPlaceHasAWriter
<1>4. CASE TakeBuffer
  <2>1. /\ cur \in Conns /\ tx[cur] # <<>>
        /\ tx' = [tx EXCEPT ![cur] = Tail(tx[cur])] /\ UNCHANGED <<spc, target>>
    BY <1>4 DEF TakeBuffer, HasFilled, ThreadInv, sender
  <2>2. \A d \in Conns : \A k \in Unfilled(d)' :
           \/ d # cur /\ k \in Unfilled(d) /\ tx'[d][k] = tx[d][k]
           \/ d = cur /\ k + 1 \in Unfilled(d) /\ tx'[d][k] = tx[d][k + 1] /\ k \in Nat
    BY <1>0, <2>1, HeadTailProperties DEF Unfilled, QueueInv
  <2>3. \A d \in Conns : \A k \in Unfilled(d)' :
           LET u == tx'[d][k].by
           IN  u \in Senders /\ spc'[u] = "fill" /\ target'[u] = d
    <3> SUFFICES ASSUME NEW d \in Conns, NEW k \in Unfilled(d)',
                        NEW j \in Unfilled(d), tx'[d][k] = tx[d][j]
                 PROVE  LET u == tx'[d][k].by
                        IN  u \in Senders /\ spc'[u] = "fill" /\ target'[u] = d
      BY <2>2
    <3> QED
      BY <2>1 DEF EveryPlaceHasAWriter
  <2>4. \A d \in Conns : \A k, j \in Unfilled(d)' : tx'[d][k].by = tx'[d][j].by => j = k
    <3> SUFFICES ASSUME NEW d \in Conns, NEW k \in Unfilled(d)', NEW j \in Unfilled(d)',
                        tx'[d][k].by = tx'[d][j].by
                 PROVE  j = k
      OBVIOUS
    <3>1. CASE d = cur
      <4>1. k \in Nat /\ j \in Nat /\ k + 1 \in Unfilled(d) /\ j + 1 \in Unfilled(d)
            /\ tx[d][k + 1].by = tx[d][j + 1].by
        BY <3>1, <2>2
      <4>2. j + 1 = k + 1
        BY <4>1 DEF EveryPlaceHasAWriter
      <4> QED
        BY <4>1, <4>2
    <3>2. CASE d # cur
      BY <3>2, <2>2 DEF EveryPlaceHasAWriter
    <3> QED
      BY <3>1, <3>2
  <2> QED
    BY <2>3, <2>4 DEF EveryPlaceHasAWriter
<1>5. ASSUME NEW t \in Senders, SendDataFill(t) PROVE EveryPlaceHasAWriter'
  <2>1. spc' = [spc EXCEPT ![t] = "notify"] /\ UNCHANGED target
    BY <1>5 DEF SendDataFill
  <2>2. \A d \in Conns : \A k \in Unfilled(d)' :
           /\ k \in Unfilled(d) /\ tx'[d][k] = tx[d][k]
           /\ d = target[t] => tx[d][k].by # t
    BY <1>5, FilledQueue DEF Unfilled
  <2> QED
    BY <2>1, <2>2 DEF EveryPlaceHasAWriter, ThreadInv
<1>6. ASSUME NEW t \in Senders, SendDataNotify(t) PROVE EveryPlaceHasAWriter'
  BY <1>6 DEF SendDataNotify, transmit, EveryPlaceHasAWriter, Unfilled, ThreadInv
<1>7. \/ UNCHANGED <<spc, target>> /\ \A c \in Conns : tx'[c] = tx[c] \/ tx'[c] = <<>>
      \/ \E c \in Conns, n \in Sizes : Respond(c, n) /\ UNCHANGED <<spc, target>>
      \/ TakeBuffer
      \/ \E t \in Senders : SendDataFill(t) \/ SendDataNotify(t)
                            \/ \E c \in Conns, n \in Sizes : SendData(t, c, n)
  <2>1. CASE ReadMessage
    BY <2>1 DEF ReadMessage, transmit, sender, ThreadInv
  <2>2. CASE ReadGone \/ DropFailed \/ Exit
    BY <2>2 DEF ReadGone, DropFailed, Exit, Delete, sender, QueueInv
  <2>3. CASE UNCHANGED <<tx, spc, target>>
    BY <2>3
  <2>4. \/ UNCHANGED <<tx, spc, target>>
        \/ ReadMessage \/ ReadGone \/ DropFailed \/ Exit \/ TakeBuffer
        \/ \E t \in Senders : SendDataFill(t) \/ SendDataNotify(t)
                              \/ \E c \in Conns, n \in Sizes : SendData(t, c, n)
    BY DEF Next, ReactorStep, CheckStopping, Wait, DispatchControl, DispatchListen,
           DispatchDone, DispatchRead, Accept, AcceptAgain, AcceptError, Receive,
           ReadStopping, ReadAgain, ReadError, Send, BeginSend, EndSend, NextClient,
           SendBytes, SendAgain, SendError, SendDone, Stop, StopNotify, StopJoin,
           PeerConnects, PeerSends, PeerReads, PeerCloses, vars, transmit, sender
  <2> QED
    BY <2>1, <2>2, <2>3, <2>4
<1> QED
  BY <1>1, <1>2, <1>3, <1>4, <1>5, <1>6, <1>7

\* At every place of every queue that is not filled a thread is about to fill it,
\* and no thread ever has two.
THEOREM PlacesAreFilled == Spec => []EveryPlaceHasAWriter
BY InitTypeInv, NextTypeInv, InitWriter, NextWriter, PTL DEF Spec

-----------------------------------------------------------------------------
(* The end of a connection                                                 *)

\* Nothing waits on a connection that is not in clientList: what was queued on a
\* client goes with it, and nothing is queued on it afterwards.
QueuesGoWithClients == \A c \in Conns \ Clients : tx[c] = <<>> /\ sending[c] = <<>>

\* No queue has anything before its client is accepted.
LEMMA InitQueues == Init => QueuesGoWithClients
BY DEF Init, QueuesGoWithClients

\* A queue is filled for a client of clientList alone, and emptied when it is deleted.
LEMMA NextQueues ==
    TypeInv /\ IInv /\ QueuesGoWithClients /\ [Next]_vars => QueuesGoWithClients'
<1> SUFFICES ASSUME QueueInv, ThreadInv, IInv, QueuesGoWithClients, [Next]_vars
             PROVE  QueuesGoWithClients'
  BY DEF TypeInv
<1> USE DEF QueuesGoWithClients, Clients
<1>1. CASE UNCHANGED transmit /\ Clients \subseteq Clients'
  BY <1>1 DEF transmit
<1>2. CASE ReadGone \/ DropFailed
  BY <1>2 DEF ReadGone, DropFailed, Delete, QueueInv, ThreadInv
<1>3. CASE Exit
  BY <1>3 DEF Exit
<1>4. CASE ReadMessage \/ TakeBuffer \/ \E k \in 1 .. SocketSpace : SendBytes(k)
  <2>1. cur \in Clients /\ UNCHANGED conn
    BY <1>4 DEF ReadMessage, TakeBuffer, SendBytes, IInv, ReactorInv, client
  <2>2. \A c \in Conns : c # cur => tx'[c] = tx[c] /\ sending'[c] = sending[c]
    BY <1>4 DEF ReadMessage, Respond, TakeBuffer, SendBytes, transmit, QueueInv
  <2> QED
    BY <2>1, <2>2
<1>5. ASSUME NEW t \in Senders, NEW c \in Conns, NEW n \in Sizes, SendData(t, c, n)
      PROVE  QueuesGoWithClients'
  BY <1>5 DEF SendData, QueueInv, client
<1>6. ASSUME NEW t \in Senders, SendDataFill(t) PROVE QueuesGoWithClients'
  <2>1. UNCHANGED <<conn, sending>>
    BY <1>6 DEF SendDataFill, client
  <2>2. \A c \in Conns : tx[c] = <<>> => tx'[c] = <<>>
    BY <1>6, FilledQueue, EmptySeq DEF QueueInv
  <2> QED
    BY <2>1, <2>2
<1>7. \/ UNCHANGED transmit /\ Clients \subseteq Clients'
      \/ ReadGone \/ DropFailed \/ Exit
      \/ ReadMessage \/ TakeBuffer \/ \E k \in 1 .. SocketSpace : SendBytes(k)
      \/ \E t \in Senders : SendDataFill(t) \/ \E c \in Conns, n \in Sizes : SendData(t, c, n)
  BY DEF Next, ReactorStep, CheckStopping, Wait, DispatchControl, DispatchListen,
         DispatchDone, DispatchRead, Accept, AcceptAgain, AcceptError, Receive,
         ReadStopping, ReadAgain, ReadError, Send, BeginSend, EndSend, NextClient,
         SendAgain, SendError, SendDone, SendDataNotify, Stop, StopNotify, StopJoin,
         PeerConnects, PeerSends, PeerReads, PeerCloses, vars, client, ThreadInv
<1> QED
  BY <1>1, <1>2, <1>3, <1>4, <1>5, <1>6, <1>7

\* Whatever ends a connection, a peer, a framing error or stop(), and whoever is
\* inside sendData meanwhile, the queues of one that ended stay empty.
THEOREM QueuesEndWithClients == Spec => []QueuesGoWithClients
BY InitTypeInv, NextTypeInv, InitIInv, NextIInv, InitQueues, NextQueues, PTL DEF Spec

\* A connection is accepted once and deleted once; the observer is told of it when
\* it is accepted and of its end when it is deleted, and never otherwise.
LifeGoesOn ==
    \A c \in Conns :
        /\ conn'[c] = conn[c] \/ <<conn[c], conn'[c]>> \in
               {<<"new", "backlog">>, <<"backlog", "client">>, <<"client", "deleted">>}
        /\ c \in observed' /\ c \notin observed => conn[c] = "backlog" /\ conn'[c] = "client"
        /\ c \in observed /\ c \notin observed' => conn[c] = "client" /\ conn'[c] = "deleted"

\* Every step tells the observer of what it adds to clientList and of what it deletes.
LEMMA NextLife == IInv /\ [Next]_vars => LifeGoesOn
<1> SUFFICES ASSUME IInv, [Next]_vars PROVE LifeGoesOn
  OBVIOUS
<1> USE DEF LifeGoesOn, IInv, ReactorInv, Clients
<1>1. CASE UNCHANGED <<conn, observed>>
  BY <1>1
<1>2. ASSUME NEW c \in Conns, Accept(c) \/ PeerConnects(c) PROVE LifeGoesOn
  BY <1>2 DEF Accept, PeerConnects
<1>3. CASE ReadGone \/ DropFailed
  BY <1>3 DEF ReadGone, DropFailed, Delete
<1>4. CASE Exit
  BY <1>4 DEF Exit
<1>5. \/ UNCHANGED <<conn, observed>> \/ ReadGone \/ DropFailed \/ Exit
      \/ \E c \in Conns : Accept(c) \/ PeerConnects(c)
  BY DEF Next, ReactorStep, CheckStopping, Wait, DispatchControl, DispatchListen,
         DispatchDone, DispatchRead, AcceptAgain, AcceptError, Receive,
         ReadStopping, ReadAgain, ReadMessage, ReadError, Send, BeginSend, EndSend, NextClient,
         TakeBuffer, SendBytes, SendAgain, SendError, SendDone, SendData, SendDataFill,
         SendDataNotify, Stop, StopNotify, StopJoin, PeerSends, PeerReads, PeerCloses,
         vars, client
<1> QED
  BY <1>1, <1>2, <1>3, <1>4, <1>5

\* The observer hears of each connection once, and once of its end, unless the
\* server ends first.
THEOREM EachLifeIsToldOnce == Spec => [][LifeGoesOn]_vars
<1>1. IInv /\ [Next]_vars => [LifeGoesOn]_vars
  BY NextLife
<1> QED
  BY <1>1, Invariance, PTL DEF Spec
=============================================================================
