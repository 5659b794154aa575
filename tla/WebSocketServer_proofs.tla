------------------------ MODULE WebSocketServer_proofs ------------------------
(***************************************************************************)
(* Safety of the WebSocket server, for any number of connections, queues   *)
(* and sockets of any size, and clients that send any number of frames.    *)
(***************************************************************************)
EXTENDS WebSocketServer, SequenceTheorems, TLAPS

-----------------------------------------------------------------------------
(* The inductive invariant                                                 *)

\* A connection that has not been accepted has no WebSocket.  The connection work()
\* receives from is in the map, and a WebSocket in the map is not deleted.
ObjectInv ==
    /\ sockets \subseteq alive
    /\ pc \in {"read", "frames"} => at \in sockets
    /\ \A c \in Conns :
          conn[c] \in {"none", "backlog"} => c \notin alive /\ protocol[c] = "http"

\* What processData() still has to look at, of a connection.
ChunkOf(c) == IF pc = "frames" /\ at = c THEN chunk ELSE <<>>

InFlight(c) == IF current[c] = NoMessage THEN 0 ELSE 1

\* Before the switch a client waits for each answer, so that there is one request at
\* most, or one answer, on its way.
HttpInv(c) ==
    /\ \A k \in 1 .. Len(got[c]) : got[c][k] = "404"
    /\ \A k \in 1 .. Len(txList[c]) : txList[c][k] = "404"
    /\ current[c] \in {"404", NoMessage}
    /\ Len(inbox[c]) + Len(ChunkOf(c)) + Len(txList[c]) + InFlight(c) + Len(got[c]) <= total[c]
    /\ total[c] <= Len(got[c]) - unread[c] + 1

Frames == Kinds \ {"upgrade", "unknown"}

Switched(c) == \E k \in 1 .. Len(got[c]) : got[c][k] = "101"
SwitchRead(c) == \E k \in 1 .. Len(got[c]) - unread[c] : got[c][k] = "101"

\* After it the switch is the first thing the client is sent, and the client sends
\* nothing until it has read it, and then frames.
FramesInv(c) ==
    /\ inbox[c] \in Seq(Frames) /\ ChunkOf(c) \in Seq(Frames)
    /\ ~SwitchRead(c) => /\ inbox[c] = <<>> /\ ChunkOf(c) = <<>>
                         /\ total[c] = Len(got[c]) - unread[c] + 1
    /\ ~Switched(c) => unread[c] = 0
    /\ ~Switched(c) /\ conn[c] = "open" =>
          \/ current[c] = "101"
          \/ current[c] = NoMessage /\ Len(txList[c]) > 0 /\ txList[c][1] = "101"

SwitchInv ==
    \A c \in Conns :
        /\ unread[c] <= Len(got[c])
        /\ IF protocol[c] = "http" THEN HttpInv(c) ELSE FramesInv(c)

FirstInv ==
    \A c \in Conns : \A k \in 1 .. Len(got[c]) :
        got[c][k] \notin {"101", "404"} => \E j \in 1 .. k - 1 : got[c][j] = "101"

\* In the loop of processSend() only the connections it has still to visit, and the
\* one it is at, have something to send.
SendInv ==
    /\ pc = "send" /\ ~foreign => \A c \in sockets : c \in todo \/ c = at \/ ~Sendable(c)
    /\ pc = "out" /\ ~foreign => \A c \in sockets : ~Sendable(c)

IInv == TypeOK /\ ObjectInv /\ ApplicationInStep /\ SwitchInv /\ FirstInv

\* The bounds are what they are called.
LEMMA Bounds ==
    /\ TxSize \in Nat /\ TxSize > 1 /\ SocketSpace \in Nat /\ SocketSpace > 0
    /\ MaxSends \in Nat /\ Timeout \in Nat /\ MaxTime \in Nat
BY BoundsAssumption

-----------------------------------------------------------------------------
(* What the methods of a WebSocket do                                      *)

States == {"unset", "connected", "closing", "closed"}

\* Some WebSockets the application knows have one message more; c may, too.
Extends(c) ==
    /\ txList' \in [Conns -> Seq(Messages)]
    /\ \A d \in Conns : Len(txList'[d]) <= TxSize
    /\ \A d \in Conns : \/ txList'[d] = txList[d]
                        \/ /\ d \in known \cup {c}
                           /\ \E m \in Messages : txList'[d] = Append(txList[d], m)

\* A queue that is not full has room for one message more.
LEMMA Room ==
    ASSUME TypeOK, NEW d \in Conns, NEW m \in Messages
    PROVE  /\ Append(txList[d], m) \in Seq(Messages)
           /\ Len(txList[d]) < TxSize => Len(Append(txList[d], m)) <= TxSize
<1>1. txList[d] \in Seq(Messages) /\ Len(txList[d]) \in Nat /\ TxSize \in Nat
  BY Bounds DEF TypeOK
<1>2. Len(Append(txList[d], m)) = Len(txList[d]) + 1 /\ Append(txList[d], m) \in Seq(Messages)
  BY <1>1, AppendProperties
<1> QED
  BY <1>1, <1>2

\* A message more for one WebSocket, if there is room.
LEMMA OneMore ==
    ASSUME TypeOK, NEW c, NEW d \in Conns, d \in known \cup {c}, NEW m \in Messages,
           \/ UNCHANGED txList
           \/ Len(txList[d]) < TxSize /\ txList' = [txList EXCEPT ![d] = Append(@, m)]
    PROVE  Extends(c)
<1>1. /\ txList \in [Conns -> Seq(Messages)]
      /\ \A e \in Conns : Len(txList[e]) <= TxSize
  BY DEF TypeOK
<1>2. CASE UNCHANGED txList
  BY <1>1, <1>2 DEF Extends
<1>3. CASE Len(txList[d]) < TxSize /\ txList' = [txList EXCEPT ![d] = Append(@, m)]
  <2>1. /\ txList'[d] = Append(txList[d], m)
        /\ \A e \in Conns : e # d => txList'[e] = txList[e]
    BY <1>1, <1>3
  <2>2. Append(txList[d], m) \in Seq(Messages) /\ Len(Append(txList[d], m)) <= TxSize
    BY <1>3, Room
  <2>3. txList' \in [Conns -> Seq(Messages)]
    BY <1>1, <1>3, <2>2
  <2> QED
    BY <1>1, <2>1, <2>2, <2>3 DEF Extends
<1> QED
  BY <1>2, <1>3

\* sendData() puts one message behind those of a WebSocket.
LEMMA SendDataEffect ==
    ASSUME TypeOK, NEW c, NEW d \in Conns, d \in known \cup {c}, NEW m \in Messages,
           SendData(d, m)
    PROVE  Extends(c) /\ state' \in [Conns -> States]
<1>1. Extends(c)
  BY OneMore DEF SendData
<1>2. state \in [Conns -> States]
  BY DEF TypeOK, States
<1> QED
  BY <1>1, <1>2 DEF SendData, States

\* sendText() of the application reaches the WebSockets it knows.
LEMMA SendTextEffect ==
    ASSUME TypeOK, SendText, NEW c
    PROVE  /\ Extends(c) /\ state' \in [Conns -> States] /\ sends' \in 0 .. MaxSends
<1>0. /\ known \subseteq Conns /\ sends \in 0 .. MaxSends /\ MaxSends \in Nat
      /\ state \in [Conns -> States]
      /\ txList \in [Conns -> Seq(Messages)] /\ \A d \in Conns : Len(txList[d]) <= TxSize
  BY Bounds DEF TypeOK, States
<1>1. CASE UNCHANGED <<txList, state, sends>>
  BY <1>0, <1>1 DEF Extends
<1>2. ASSUME sends < MaxSends, sends' = sends + 1, NEW d \in known, SendData(d, "text")
      PROVE  Extends(c) /\ state' \in [Conns -> States] /\ sends' \in 0 .. MaxSends
  <2>1. d \in Conns /\ d \in known \cup {c} /\ "text" \in Messages
    BY <1>0 DEF Messages
  <2>2. Extends(c) /\ state' \in [Conns -> States]
    BY <1>2, <2>1, SendDataEffect
  <2> QED
    BY <1>0, <1>2, <2>2
<1> QED
  BY <1>1, <1>2 DEF SendText

\* A frame is answered on its own connection, and by the application on those it knows.
LEMMA ProcessFrameEffect ==
    ASSUME TypeOK, NEW c \in Conns, NEW kind \in {"text", "ping", "bad", "close"},
           ProcessFrame(c, kind)
    PROVE  /\ Extends(c) /\ UNCHANGED <<protocol, known>>
           /\ state' \in [Conns -> States] /\ stamp' \in [Conns -> 0 .. MaxTime]
           /\ sends' \in 0 .. MaxSends
<1>0. /\ state \in [Conns -> States] /\ stamp \in [Conns -> 0 .. MaxTime] /\ now \in 0 .. MaxTime
      /\ sends \in 0 .. MaxSends /\ c \in known \cup {c}
      /\ "pong" \in Messages /\ "close" \in Messages
  BY DEF TypeOK, States, Messages
<1>1. UNCHANGED <<protocol, known>>
  BY DEF ProcessFrame
<1>2. CASE kind = "text"
  BY <1>0, <1>1, <1>2, SendTextEffect DEF ProcessFrame
<1>3. CASE kind = "ping"
  <2>1. SendData(c, "pong") /\ UNCHANGED <<stamp, sends>>
    BY <1>3 DEF ProcessFrame
  <2> QED
    BY <1>0, <1>1, <2>1, SendDataEffect
<1>4. CASE kind = "bad"
  <2>1. CloseWebSocket(c) /\ UNCHANGED sends
    BY <1>4 DEF ProcessFrame
  <2>2. Extends(c)
    BY <1>0, <2>1, OneMore DEF CloseWebSocket
  <2> QED
    BY <1>0, <1>1, <2>1, <2>2 DEF CloseWebSocket, States
<1>5. CASE kind = "close"
  <2>1. /\ \/ UNCHANGED txList
           \/ Len(txList[c]) < TxSize /\ txList' = [txList EXCEPT ![c] = Append(@, "close")]
        /\ stamp' = [stamp EXCEPT ![c] = now] \/ UNCHANGED stamp
        /\ state' = [state EXCEPT ![c] = "closed"]
        /\ UNCHANGED sends
    BY <1>5 DEF ProcessFrame
  <2>2. Extends(c)
    BY <1>0, <2>1, OneMore
  <2> QED
    BY <1>0, <1>1, <2>1, <2>2 DEF States
<1> QED
  BY <1>2, <1>3, <1>4, <1>5

-----------------------------------------------------------------------------
(* What processData() does                                                 *)

\* A request that is being looked at is the only thing on its way.
LEMMA OneRequest ==
    ASSUME TypeOK, SwitchInv, NEW c \in Conns, protocol[c] = "http", ChunkOf(c) # <<>>,
           ChunkOf(c) \in Seq(Kinds)
    PROVE  /\ txList[c] = <<>> /\ current[c] = NoMessage /\ inbox[c] = <<>>
           /\ unread[c] = 0 /\ total[c] = Len(got[c]) + 1
<1>1. /\ txList[c] \in Seq(Messages) /\ inbox[c] \in Seq(Kinds) /\ got[c] \in Seq(Messages)
      /\ total[c] \in Nat /\ unread[c] \in Nat
  BY Bounds DEF TypeOK
<1>2. /\ Len(inbox[c]) + Len(ChunkOf(c)) + Len(txList[c]) + InFlight(c) + Len(got[c]) <= total[c]
      /\ total[c] <= Len(got[c]) - unread[c] + 1
  BY DEF SwitchInv, HttpInv
<1>3. InFlight(c) \in {0, 1}
  BY DEF InFlight
<1>4. Len(ChunkOf(c)) > 0
  BY EmptySeq
<1>5. /\ ~(Len(txList[c]) > 0) /\ ~(Len(inbox[c]) > 0) /\ InFlight(c) = 0
      /\ unread[c] = 0 /\ total[c] = Len(got[c]) + 1
  <2> DEFINE x == Len(txList[c])
             i == Len(inbox[c])
             k == Len(ChunkOf(c))
             g == Len(got[c])
  <2>1. x \in Nat /\ i \in Nat /\ k \in Nat /\ g \in Nat
    BY <1>1
  <2>2. i + k + x + InFlight(c) + g <= total[c] /\ total[c] <= g - unread[c] + 1 /\ k > 0
    BY <1>2, <1>4
  <2> HIDE DEF x, i, k, g
  <2>3. /\ ~(x > 0) /\ ~(i > 0) /\ InFlight(c) = 0 /\ unread[c] = 0 /\ total[c] = g + 1
    BY <1>1, <1>3, <2>1, <2>2
  <2> QED
    BY <2>3 DEF x, i, g
<1>6. txList[c] = <<>> /\ inbox[c] = <<>>
  BY <1>1, <1>5, EmptySeq
<1> QED
  BY <1>5, <1>6 DEF InFlight

\* The answer that switches the protocol is in front of what the application sends.
LEMMA SwitchAndReply ==
    ASSUME NEW reply \in Seq(Messages), Len(reply) <= 1
    PROVE  LET s == (<<>> \o <<"101">>) \o reply
           IN  s \in Seq(Messages) /\ Len(s) > 0 /\ Len(s) <= TxSize /\ s[1] = "101"
<1>1. "101" \in Messages
  BY DEF Messages
<1>2. <<"101">> \in Seq(Messages) /\ <<"101">>[1] = "101" /\ Len(<<"101">>) = 1
  BY <1>1
<1>3. <<>> \o <<"101">> = <<"101">>
  BY <1>2, ConcatEmptySeq
<1> DEFINE one == <<"101">>
<1> HIDE DEF one
<1>4. one \in Seq(Messages) /\ one[1] = "101" /\ Len(one) <= 1 /\ Len(one) > 0
  BY <1>2 DEF one
<1>5. /\ one \o reply \in Seq(Messages)
      /\ Len(one \o reply) = Len(one) + Len(reply)
      /\ (one \o reply)[1] = "101"
  BY <1>4, ConcatProperties
<1>6. Len(one \o reply) > 0 /\ Len(one \o reply) <= TxSize
  BY <1>4, <1>5, Bounds
<1> QED
  BY <1>3, <1>5, <1>6 DEF one

\* What processData() does, once it is known what it works on.
Quiet == UNCHANGED <<client, ready, listening, pc, events, at, todo, sockets, alive,
                     current, now, foreign>>

Switch ==
    /\ protocol[at] = "http" /\ chunk' = <<>> /\ known' = known \cup {at}
    /\ protocol' = [protocol EXCEPT ![at] = "websocket"]
    /\ \E s \in Seq(Messages) : /\ Len(s) > 0 /\ Len(s) <= TxSize /\ s[1] = "101"
                               /\ txList' = [txList EXCEPT ![at] = s]

Refuse ==
    /\ protocol[at] = "http" /\ chunk' = <<>> /\ UNCHANGED <<protocol, known>>
    /\ txList' = [txList EXCEPT ![at] = <<"404">>]

Frame ==
    /\ protocol[at] = "websocket" /\ chunk' \in {<<>>, Tail(chunk)}
    /\ UNCHANGED <<protocol, known>>
    /\ Extends(at)

\* processData() switches to WebSocket, refuses, or takes one frame.
LEMMA ProcessDataEffect ==
    ASSUME TypeOK, ObjectInv, SwitchInv, ProcessData
    PROVE  /\ pc = "frames" /\ at \in sockets /\ chunk # <<>> /\ Quiet
           /\ protocol[at] = "http" => /\ txList[at] = <<>> /\ current[at] = NoMessage
                                       /\ inbox[at] = <<>> /\ unread[at] = 0
                                       /\ total[at] = Len(got[at]) + 1
           /\ Switch \/ Refuse \/ Frame
           /\ state' \in [Conns -> States] /\ stamp' \in [Conns -> 0 .. MaxTime]
           /\ sends' \in 0 .. MaxSends /\ broken' \subseteq Conns
<1>1. /\ pc = "frames" /\ at \in sockets /\ at \in Conns /\ chunk # <<>> /\ Quiet
  BY DEF ProcessData, Quiet, ObjectInv, TypeOK
<1>2. /\ state \in [Conns -> States] /\ stamp \in [Conns -> 0 .. MaxTime] /\ now \in 0 .. MaxTime
      /\ sends \in 0 .. MaxSends /\ broken \subseteq Conns /\ chunk \in Seq(Kinds)
      /\ txList \in [Conns -> Seq(Messages)] /\ protocol[at] \in {"http", "websocket"}
  BY <1>1 DEF TypeOK, States
<1>3. ChunkOf(at) = chunk
  BY <1>1 DEF ChunkOf
<1>4. broken' \subseteq Conns
  BY <1>1, <1>2 DEF ProcessData
<1>5. Head(chunk) \in Kinds /\ Head(chunk) = chunk[1] /\ Len(chunk) > 0
  BY <1>1, <1>2, EmptySeq, HeadTailProperties
<1>6. ASSUME protocol[at] = "http"
      PROVE  /\ txList[at] = <<>> /\ current[at] = NoMessage /\ inbox[at] = <<>>
             /\ unread[at] = 0 /\ total[at] = Len(got[at]) + 1
             /\ Switch \/ Refuse
             /\ state' \in [Conns -> States] /\ stamp' \in [Conns -> 0 .. MaxTime]
             /\ sends' \in 0 .. MaxSends
  <2>1. /\ txList[at] = <<>> /\ current[at] = NoMessage /\ inbox[at] = <<>>
        /\ unread[at] = 0 /\ total[at] = Len(got[at]) + 1
    BY <1>1, <1>2, <1>3, <1>6, OneRequest
  <2>2. chunk' = <<>> /\ CheckHTTPBuffer(at, Head(chunk))
    BY <1>6 DEF ProcessData
  <2>3. ASSUME Head(chunk) = "upgrade"
        PROVE  /\ Switch /\ state' \in [Conns -> States] /\ UNCHANGED stamp
               /\ sends' \in 0 .. MaxSends
    <3>1. PICK reply \in {<<>>, <<"text">>} :
            /\ sends + Len(reply) <= MaxSends
            /\ sends' = sends + Len(reply)
            /\ txList' = [txList EXCEPT ![at] = @ \o <<"101">> \o reply]
            /\ protocol' = [protocol EXCEPT ![at] = "websocket"]
            /\ state' = [state EXCEPT ![at] = "connected"]
            /\ known' = known \cup {at}
            /\ UNCHANGED stamp
      BY <2>2, <2>3 DEF CheckHTTPBuffer
    <3>2. reply \in Seq(Messages) /\ Len(reply) <= 1
      <4>1. "text" \in Messages
        BY DEF Messages
      <4>2. <<"text">> \in Seq(Messages) /\ ~(Len(<<"text">>) > 1)
        BY <4>1
      <4>3. <<>> \in Seq(Messages) /\ ~(Len(<<>>) > 1)
        OBVIOUS
      <4>4. reply \in Seq(Messages) /\ ~(Len(reply) > 1)
        BY <3>1, <4>2, <4>3
      <4> QED
        BY <4>4
    <3>3. /\ (<<>> \o <<"101">>) \o reply \in Seq(Messages)
          /\ Len((<<>> \o <<"101">>) \o reply) > 0
          /\ Len((<<>> \o <<"101">>) \o reply) <= TxSize
          /\ ((<<>> \o <<"101">>) \o reply)[1] = "101"
      BY <3>2, SwitchAndReply
    <3>4. sends' \in 0 .. MaxSends
      <4>1. Len(reply) \in Nat
        BY <3>1
      <4> QED
        BY <1>2, <3>1, <4>1, Bounds
    <3> QED
      BY <1>2, <1>6, <2>1, <2>2, <3>1, <3>3, <3>4 DEF Switch, States
  <2>4. ASSUME Head(chunk) # "upgrade"
        PROVE  /\ Refuse /\ UNCHANGED <<state, stamp, sends>>
    <3>1. SendData(at, "404") /\ UNCHANGED <<protocol, stamp, known, sends>>
      BY <2>2, <2>4 DEF CheckHTTPBuffer
    <3>2. Len(txList[at]) < TxSize
      BY <2>1, Bounds
    <3>3. txList' = [txList EXCEPT ![at] = Append(<<>>, "404")] /\ UNCHANGED state
      BY <2>1, <3>1, <3>2 DEF SendData
    <3>4. Append(<<>>, "404") = <<"404">>
      OBVIOUS
    <3> QED
      BY <1>6, <2>2, <3>1, <3>3, <3>4 DEF Refuse
  <2> QED
    BY <1>2, <2>1, <2>3, <2>4
<1>7. ASSUME protocol[at] = "websocket"
      PROVE  /\ Frame
             /\ state' \in [Conns -> States] /\ stamp' \in [Conns -> 0 .. MaxTime]
             /\ sends' \in 0 .. MaxSends
  <2>1. chunk \in Seq(Frames)
    BY <1>1, <1>3, <1>7 DEF SwitchInv, FramesInv
  <2>2. Head(chunk) \in {"text", "ping", "bad", "close"}
    BY <1>1, <2>1, HeadTailProperties, KindsAssumption DEF Frames, FrameKinds
  <2>3. PICK kind \in {"text", "ping", "bad", "close"} : ProcessFrame(at, kind)
    BY <1>7, <2>2 DEF ProcessData
  <2>4. chunk' \in {<<>>, Tail(chunk)}
    BY <1>7 DEF ProcessData
  <2> QED
    BY <1>1, <1>7, <2>3, <2>4, ProcessFrameEffect DEF Frame
<1> QED
  BY <1>1, <1>2, <1>4, <1>6, <1>7

-----------------------------------------------------------------------------
(* Types                                                                   *)

\* The types of a server that nobody has connected to.
LEMMA InitTypeOK == Init => TypeOK
<1> SUFFICES ASSUME Init PROVE TypeOK
  OBVIOUS
<1>1. <<>> \in Seq(Kinds) /\ <<>> \in Seq(Messages) /\ ~(Len(<<>>) > 0)
  OBVIOUS
<1>2. listening \in BOOLEAN /\ foreign \in BOOLEAN
  BY DEF Init
<1> QED
  BY <1>1, <1>2, Bounds DEF Init, TypeOK

\* What a connection has received is cut in two.
LEMMA Cut ==
    ASSUME NEW S, NEW s \in Seq(S), NEW n \in 1 .. Len(s)
    PROVE  /\ SubSeq(s, 1, n) \in Seq(S) /\ SubSeq(s, n + 1, Len(s)) \in Seq(S)
           /\ Len(SubSeq(s, 1, n)) + Len(SubSeq(s, n + 1, Len(s))) = Len(s)
<1>1. \A k \in 1 .. Len(s) : s[k] \in S
  BY ElementOfSeq
<1>2. SubSeq(s, 1, n) \in Seq(S) /\ Len(SubSeq(s, 1, n)) = n
  BY <1>1, SubSeqProperties
<1>3. /\ SubSeq(s, n + 1, Len(s)) \in Seq(S)
      /\ Len(SubSeq(s, n + 1, Len(s))) = IF n + 1 <= Len(s) THEN Len(s) - (n + 1) + 1 ELSE 0
  BY <1>1, SubSeqProperties
<1> QED
  BY <1>2, <1>3

\* The message send() is called with.
LEMMA TakenMessage ==
    ASSUME TypeOK, NEW c \in Conns, Sendable(c)
    PROVE  /\ TxData(c) \in Messages
           /\ current[c] = NoMessage => /\ TxData(c) = txList[c][1] /\ Len(txList[c]) > 0
                                        /\ Tail(txList[c]) \in Seq(Messages)
                                        /\ Len(Tail(txList[c])) = Len(txList[c]) - 1
                                        /\ \A k \in 1 .. Len(Tail(txList[c])) :
                                              Tail(txList[c])[k] = txList[c][k + 1]
           /\ current[c] # NoMessage => TxData(c) = current[c]
<1>1. txList[c] \in Seq(Messages) /\ current[c] \in Messages \cup {NoMessage}
  BY DEF TypeOK
<1>2. ASSUME current[c] = NoMessage
      PROVE  /\ TxData(c) = txList[c][1] /\ Len(txList[c]) > 0 /\ TxData(c) \in Messages
             /\ Tail(txList[c]) \in Seq(Messages)
             /\ Len(Tail(txList[c])) = Len(txList[c]) - 1
             /\ \A k \in 1 .. Len(Tail(txList[c])) : Tail(txList[c])[k] = txList[c][k + 1]
  <2>1. txList[c] # <<>>
    BY <1>2 DEF Sendable
  <2> QED
    BY <1>1, <1>2, <2>1, EmptySeq, HeadTailProperties DEF TxData
<1> QED
  BY <1>1, <1>2 DEF TxData

\* What is left of txList when a message has been taken.
LEMMA TakeTypes ==
    ASSUME TypeOK, NEW c \in Conns, Sendable(c), GetTxData(c)
    PROVE  /\ txList' \in [Conns -> Seq(Messages)]
           /\ \A d \in Conns : Len(txList'[d]) <= TxSize
           /\ \A d \in Conns : d # c => txList'[d] = txList[d]
           /\ txList'[c] = IF current[c] # NoMessage THEN txList[c] ELSE Tail(txList[c])
<1>1. /\ txList \in [Conns -> Seq(Messages)] /\ \A d \in Conns : Len(txList[d]) <= TxSize
      /\ \A d \in Conns : Len(txList[d]) \in Nat
  BY SMTT(20) DEF TypeOK
<1>2. CASE current[c] # NoMessage
  BY <1>1, <1>2 DEF GetTxData
<1>3. CASE current[c] = NoMessage
  <2>1. txList' = [txList EXCEPT ![c] = Tail(@)]
    BY <1>3 DEF GetTxData
  <2>2. Tail(txList[c]) \in Seq(Messages) /\ Len(Tail(txList[c])) = Len(txList[c]) - 1
    BY <1>3, TakenMessage
  <2>3. Len(Tail(txList[c])) <= TxSize
    BY <1>1, <2>2, Bounds
  <2> QED
    BY <1>1, <1>3, <2>1, <2>2, <2>3
<1> QED
  BY <1>2, <1>3

\* The end of work() closes everything and keeps the types.
LEMMA AbortTypes ==
    ASSUME TypeOK, Abort
    PROVE  /\ listening' \in BOOLEAN /\ ready' \subseteq Conns \cup {NoConn}
           /\ conn' \in [Conns -> {"none", "backlog", "open", "hungup", "reset", "closed"}]
           /\ alive' \subseteq Conns /\ known' \subseteq Conns /\ sockets' \subseteq Conns
BY DEF TypeOK, Abort

\* Every step keeps the types.
LEMMA NextTypeOK == TypeOK /\ ObjectInv /\ SwitchInv /\ [Next]_vars => TypeOK'
<1> SUFFICES ASSUME TypeOK, ObjectInv, SwitchInv, [Next]_vars PROVE TypeOK'
  OBVIOUS
<1> USE DEF client, server, object
<1>1. CASE Wait \/ EndEvents \/ ReceiveAgain \/ ReceiveMore \/ WatchdogQuiet
           \/ SendDone \/ Return
  BY <1>1
  DEF Wait, EndEvents, ReceiveAgain, BackToEvents, ReceiveMore, WatchdogQuiet, SendDone, Return,
      TypeOK
<1>2. CASE ProcessAccept \/ ReceiveGone \/ CloseSocket
  <2>1. CASE ProcessAccept
    BY <2>1, SMTT(20) DEF ProcessAccept, AcceptedNow, Backlog, BackToEvents, TypeOK
  <2>2. CASE ReceiveGone
    BY <2>2, SMTT(20) DEF ReceiveGone, Delete, BackToEvents, TypeOK
  <2>3. CASE CloseSocket
    <3>1. conn' \in [Conns -> {"none", "backlog", "open", "hungup", "reset", "closed"}]
      BY <2>3 DEF CloseSocket, TypeOK
    <3>2. sockets' \subseteq Conns /\ alive' \subseteq Conns /\ known' \subseteq Conns
      BY <2>3 DEF CloseSocket, Delete, TypeOK
    <3>3. pc' = "events" /\ at' = NoConn
      BY <2>3 DEF CloseSocket, BackToEvents
    <3> QED
      BY <2>3, <3>1, <3>2, <3>3 DEF CloseSocket, TypeOK
  <2> QED
    BY <1>2, <2>1, <2>2, <2>3
<1>3. CASE AcceptError \/ ReceiveError \/ SendError \/ Destroy
  BY <1>3, AbortTypes
  DEF AcceptError, ReceiveError, SendError, Destroy, BackToEvents, TypeOK
<1>4. ASSUME NEW c \in Conns \cup {NoConn}, ReadEvent(c) PROVE TypeOK'
  BY <1>4 DEF ReadEvent, TypeOK
<1>5. CASE Receive
  <2>1. at \in Conns
    BY <1>5 DEF Receive, ObjectInv, TypeOK
  <2>2. PICK n \in 1 .. Len(inbox[at]) :
           /\ chunk' = SubSeq(inbox[at], 1, n)
           /\ inbox' = [inbox EXCEPT ![at] = SubSeq(@, n + 1, Len(@))]
    BY <1>5 DEF Receive
  <2>3. inbox[at] \in Seq(Kinds)
    BY <2>1 DEF TypeOK
  <2>4. chunk' \in Seq(Kinds) /\ SubSeq(inbox[at], n + 1, Len(inbox[at])) \in Seq(Kinds)
    BY <2>2, <2>3, Cut
  <2> QED
    BY <1>5, <2>1, <2>2, <2>4 DEF Receive, TypeOK
<1>6. CASE ProcessData
  <2>1. /\ pc = "frames" /\ at \in sockets /\ Quiet
        /\ Switch \/ Refuse \/ Frame
        /\ state' \in [Conns -> States] /\ stamp' \in [Conns -> 0 .. MaxTime]
        /\ sends' \in 0 .. MaxSends /\ broken' \subseteq Conns /\ chunk # <<>>
    BY <1>6, ProcessDataEffect
  <2>2. /\ txList \in [Conns -> Seq(Messages)] /\ at \in Conns /\ chunk \in Seq(Kinds)
        /\ \A d \in Conns : Len(txList[d]) <= TxSize
        /\ known \subseteq Conns /\ protocol \in [Conns -> {"http", "websocket"}]
    BY <2>1 DEF TypeOK
  <2>3. /\ txList' \in [Conns -> Seq(Messages)] /\ \A d \in Conns : Len(txList'[d]) <= TxSize
        /\ known' \subseteq Conns /\ protocol' \in [Conns -> {"http", "websocket"}]
    <3>1. CASE Switch
      BY <2>2, <3>1 DEF Switch
    <3>2. CASE Refuse
      <4>1. "404" \in Messages
        BY DEF Messages
      <4>2. <<"404">> \in Seq(Messages) /\ ~(Len(<<"404">>) > 1) /\ 1 < TxSize
        BY <4>1, Bounds
      <4>3. <<"404">> \in Seq(Messages) /\ Len(<<"404">>) <= TxSize
        BY <4>2, Bounds
      <4> QED
        BY <2>2, <3>2, <4>3 DEF Refuse
    <3>3. CASE Frame
      BY <2>2, <3>3 DEF Frame, Extends
    <3> QED
      BY <2>1, <3>1, <3>2, <3>3
  <2>4. chunk' \in Seq(Kinds)
    <3>1. chunk' \in {<<>>, Tail(chunk)}
      BY <2>1 DEF Switch, Refuse, Frame
    <3>2. chunk \in Seq(Kinds) /\ chunk # <<>>
      BY <2>1, <2>2 DEF TypeOK
    <3>3. Tail(chunk) \in Seq(Kinds)
      BY <3>2, HeadTailProperties
    <3> QED
      BY <3>1, <3>3, EmptySeq
  <2> QED
    BY <2>1, <2>3, <2>4, SMTT(20) DEF Quiet, TypeOK, States
<1>7. ASSUME NEW c \in Conns, WatchdogExpired(c) \/ SendTo(c) PROVE TypeOK'
  BY <1>7 DEF WatchdogExpired, SendTo, TypeOK
<1>8. CASE SendMessage
  <2>1. at \in Conns /\ Sendable(at) /\ GetTxData(at)
    BY <1>8 DEF SendMessage, TypeOK
  <2>2. /\ txList' \in [Conns -> Seq(Messages)] /\ \A d \in Conns : Len(txList'[d]) <= TxSize
        /\ TxData(at) \in Messages
    BY <2>1, TakeTypes, TakenMessage
  <2>3. got' \in [Conns -> Seq(Messages)] /\ unread' \in [Conns -> 0 .. SocketSpace]
    <3>1. Append(got[at], TxData(at)) \in Seq(Messages)
      BY <2>1, <2>2, AppendProperties DEF TypeOK
    <3>2. CASE conn[at] = "open"
      <4>1. /\ unread[at] < SocketSpace /\ unread \in [Conns -> 0 .. SocketSpace]
            /\ got \in [Conns -> Seq(Messages)]
            /\ got' = [got EXCEPT ![at] = Append(@, TxData(at))]
            /\ unread' = [unread EXCEPT ![at] = @ + 1]
        BY <1>8, <3>2 DEF SendMessage, TypeOK
      <4>2. unread[at] + 1 \in 0 .. SocketSpace
        BY <2>1, <4>1, Bounds
      <4> QED
        BY <2>1, <3>1, <4>1, <4>2
    <3>3. CASE conn[at] # "open"
      BY <1>8, <3>3 DEF SendMessage, TypeOK
    <3> QED
      BY <3>2, <3>3
  <2> QED
    BY <1>8, <2>1, <2>2, <2>3 DEF SendMessage, TypeOK
<1>9. CASE SendAgain
  <2>1. at \in Conns /\ Sendable(at) /\ GetTxData(at)
    BY <1>9 DEF SendAgain, TypeOK
  <2>2. /\ txList' \in [Conns -> Seq(Messages)] /\ \A d \in Conns : Len(txList'[d]) <= TxSize
        /\ TxData(at) \in Messages
    BY <2>1, TakeTypes, TakenMessage
  <2> QED
    BY <1>9, <2>1, <2>2 DEF SendAgain, TypeOK
<1>10. CASE ForeignSend
  <2>1. Extends(NoConn) /\ state' \in [Conns -> States] /\ sends' \in 0 .. MaxSends
    BY <1>10, SendTextEffect DEF ForeignSend
  <2> QED
    BY <1>10, <2>1 DEF ForeignSend, Extends, States, TypeOK
<1>11. ASSUME NEW c \in Conns, Connect(c) \/ ClientReads(c) \/ HangUp(c) PROVE TypeOK'
  <2>1. conn' \in [Conns -> {"none", "backlog", "open", "hungup", "reset", "closed"}]
    BY <1>11, ZenonT(40) DEF Connect, ClientReads, HangUp, TypeOK
  <2>2. unread' \in [Conns -> 0 .. SocketSpace]
    <3>1. UNCHANGED unread \/ unread' = [unread EXCEPT ![c] = 0]
      BY <1>11 DEF Connect, ClientReads, HangUp
    <3>2. unread \in [Conns -> 0 .. SocketSpace]
      BY DEF TypeOK
    <3> QED
      BY <3>1, <3>2, Bounds
  <2>3. ready' \subseteq Conns \cup {NoConn}
    BY <1>11 DEF Connect, ClientReads, HangUp, TypeOK
  <2>4. UNCHANGED <<total, inbox, got, server, sockets, alive, object, known, sends, now, foreign>>
    BY <1>11 DEF Connect, ClientReads, HangUp
  <2> QED
    BY <2>1, <2>2, <2>3, <2>4 DEF TypeOK
<1>12. ASSUME NEW c \in Conns, NEW kind \in Kinds, ClientSends(c, kind) PROVE TypeOK'
  <2>1. Append(inbox[c], kind) \in Seq(Kinds)
    BY AppendProperties DEF TypeOK
  <2> QED
    <3>1. /\ total' = [total EXCEPT ![c] = @ + 1] /\ inbox' = [inbox EXCEPT ![c] = Append(@, kind)]
          /\ ready' \subseteq Conns \cup {NoConn}
          /\ UNCHANGED <<conn, got, unread, server, sockets, alive, object, known, sends,
                         now, foreign>>
      BY <1>12 DEF ClientSends, TypeOK
    <3>2. total \in [Conns -> Nat] /\ inbox \in [Conns -> Seq(Kinds)]
      BY DEF TypeOK
    <3>3. total' \in [Conns -> Nat] /\ inbox' \in [Conns -> Seq(Kinds)]
      BY <2>1, <3>1, <3>2
    <3> QED
      BY <3>1, <3>3 DEF TypeOK
<1>13. CASE Tick
  <2>1. now' \in 0 .. MaxTime
    BY <1>13, Bounds DEF Tick, TypeOK
  <2> QED
    BY <1>13, <2>1 DEF Tick, TypeOK
<1>14. CASE UNCHANGED vars
  BY <1>14 DEF vars, TypeOK
<1> QED
  BY <1>1, <1>2, <1>3, <1>4, <1>5, <1>6, <1>7, <1>8, <1>9, <1>10, <1>11, <1>12, <1>13, <1>14
  DEF Next, Work

-----------------------------------------------------------------------------
(* The WebSockets and what the application knows of them                   *)

\* A new server has no WebSocket and the application knows none.
LEMMA InitObjectInv == Init => ObjectInv /\ ApplicationInStep
BY DEF Init, ObjectInv, ApplicationInStep

\* Which steps touch the map, the WebSockets and what is known of them.
LEMMA ObjectSteps ==
    ASSUME [Next]_vars
    PROVE  \/ ProcessAccept \/ AcceptError \/ ReceiveGone \/ ReceiveError \/ ProcessData
           \/ CloseSocket \/ SendError \/ Destroy
           \/ \E c \in Conns : WatchdogExpired(c)
           \/ \E c \in Conns : Connect(c) \/ HangUp(c)
           \/ \E c \in Conns \cup {NoConn} : ReadEvent(c)
           \/ UNCHANGED <<conn, sockets, alive, known, protocol>>
              /\ (pc' \in {"read", "frames"} => pc \in {"read", "frames"} /\ at' = at)
BY DEF Next, Work, Wait, EndEvents, Receive, ReceiveAgain, BackToEvents, ReceiveMore,
       WatchdogQuiet, SendTo, SendMessage, SendAgain, SendDone, Return, ForeignSend, Tick,
       ClientReads, ClientSends, vars, client, server, object

\* Every step of the map of WebSockets is told to the application.
LEMMA NextObjectInv ==
    TypeOK /\ ObjectInv /\ ApplicationInStep /\ SwitchInv /\ [Next]_vars
        => ObjectInv' /\ ApplicationInStep'
<1> SUFFICES ASSUME TypeOK, ObjectInv, ApplicationInStep, SwitchInv, [Next]_vars
             PROVE  ObjectInv' /\ ApplicationInStep'
  OBVIOUS
<1> USE DEF client, server, object
<1>0. /\ sockets \subseteq alive /\ sockets \subseteq Conns /\ alive \subseteq Conns
      /\ known = {c \in alive : protocol[c] = "websocket"}
      /\ \A c \in Conns : conn[c] \in {"none", "backlog"} => c \notin alive /\ protocol[c] = "http"
      /\ conn \in [Conns -> {"none", "backlog", "open", "hungup", "reset", "closed"}]
      /\ protocol \in [Conns -> {"http", "websocket"}]
  BY DEF TypeOK, ObjectInv, ApplicationInStep
<1> USE DEF ObjectInv, ApplicationInStep
<1>1. CASE ProcessAccept
  <2>1. CASE UNCHANGED <<conn, ready, sockets, alive>>
    BY <1>0, <1>1, <2>1 DEF ProcessAccept
  <2>2. CASE /\ conn' = [c \in Conns |-> IF c \in AcceptedNow THEN "open" ELSE conn[c]]
             /\ sockets' = sockets \cup AcceptedNow
             /\ alive' = alive \cup AcceptedNow
    BY <1>0, <1>1, <2>2 DEF ProcessAccept, AcceptedNow, Backlog
  <2> QED
    BY <1>1, <2>1, <2>2 DEF ProcessAccept
<1>2. CASE AcceptError \/ ReceiveError \/ SendError \/ Destroy
  <2>1. Abort /\ UNCHANGED protocol /\ pc' \notin {"read", "frames"}
    BY <1>2 DEF AcceptError, ReceiveError, SendError, Destroy, BackToEvents
  <2> QED
    BY <1>0, <2>1 DEF Abort
<1>3. CASE ReceiveGone \/ CloseSocket
  BY <1>0, <1>3 DEF ReceiveGone, CloseSocket, Delete, BackToEvents
<1>4. CASE ProcessData
  <2>1. /\ at \in sockets /\ UNCHANGED <<pc, at, sockets, alive, conn>>
        /\ \/ /\ protocol' = [protocol EXCEPT ![at] = "websocket"] /\ known' = known \cup {at}
           \/ UNCHANGED <<protocol, known>>
    BY <1>4, ProcessDataEffect DEF Switch, Refuse, Frame, Quiet
  <2> QED
    BY <1>0, <2>1
<1>5. ASSUME NEW c \in Conns, WatchdogExpired(c) PROVE ObjectInv' /\ ApplicationInStep'
  BY <1>0, <1>5 DEF WatchdogExpired
<1>6. ASSUME NEW c \in Conns, Connect(c) \/ HangUp(c) PROVE ObjectInv' /\ ApplicationInStep'
  BY <1>0, <1>6 DEF Connect, HangUp
<1>7. ASSUME NEW c \in Conns \cup {NoConn}, ReadEvent(c) PROVE ObjectInv' /\ ApplicationInStep'
  BY <1>0, <1>7 DEF ReadEvent
<1>8. CASE /\ UNCHANGED <<conn, sockets, alive, known, protocol>>
           /\ (pc' \in {"read", "frames"} => pc \in {"read", "frames"} /\ at' = at)
  BY <1>0, <1>8
<1> QED
  BY <1>1, <1>2, <1>3, <1>4, <1>5, <1>6, <1>7, <1>8, ObjectSteps

-----------------------------------------------------------------------------
(* The switch of the protocol                                              *)

Switching(c) ==
    /\ unread[c] <= Len(got[c])
    /\ IF protocol[c] = "http" THEN HttpInv(c) ELSE FramesInv(c)

\* What the types say of one connection.
LEMMA OneConnection ==
    ASSUME TypeOK, NEW c \in Conns
    PROVE  /\ inbox[c] \in Seq(Kinds) /\ got[c] \in Seq(Messages) /\ txList[c] \in Seq(Messages)
           /\ Len(inbox[c]) \in Nat /\ Len(got[c]) \in Nat /\ Len(txList[c]) \in Nat
           /\ total[c] \in Nat /\ unread[c] \in Nat /\ ChunkOf(c) \in Seq(Kinds)
           /\ Len(ChunkOf(c)) \in Nat /\ InFlight(c) \in {0, 1}
           /\ protocol[c] \in {"http", "websocket"}
<1>1. unread[c] \in Nat
  BY Bounds DEF TypeOK
<1>2. ChunkOf(c) \in Seq(Kinds)
  BY DEF ChunkOf, TypeOK
<1>3. InFlight(c) \in {0, 1}
  BY DEF InFlight
<1>4. Len(inbox[c]) \in Nat /\ Len(got[c]) \in Nat /\ Len(txList[c]) \in Nat
  BY LenProperties DEF TypeOK
<1>5. Len(ChunkOf(c)) \in Nat
  BY <1>2, LenProperties
<1> QED
  BY <1>1, <1>2, <1>3, <1>4, <1>5 DEF TypeOK

\* What a client has read.
LEMMA WhatIsRead ==
    ASSUME TypeOK, NEW c \in Conns, unread[c] <= Len(got[c])
    PROVE  /\ ("101" \in ToSet(HasRead(c))) <=> SwitchRead(c)
           /\ total[c] = Len(HasRead(c)) => total[c] = Len(got[c]) - unread[c]
<1> DEFINE n == Len(got[c]) - unread[c]
<1>1. n \in Nat /\ n <= Len(got[c]) /\ got[c] \in Seq(Messages)
  BY OneConnection
<1>2. \A k \in 1 .. n : got[c][k] \in Messages
  BY <1>1, ElementOfSeq
<1>3. HasRead(c) = SubSeq(got[c], 1, n)
  BY DEF HasRead
<1>4. n = Len(got[c]) - unread[c]
  OBVIOUS
<1> HIDE DEF n
<1>5. /\ SubSeq(got[c], 1, n) \in Seq(Messages)
      /\ Len(SubSeq(got[c], 1, n)) = n
      /\ \A k \in 1 .. n : SubSeq(got[c], 1, n)[k] = got[c][k]
  BY <1>1, <1>2, SubSeqProperties
<1>6. DOMAIN SubSeq(got[c], 1, n) = 1 .. n
  BY <1>5, LenProperties
<1>7. ("101" \in ToSet(HasRead(c))) <=> \E k \in 1 .. n : got[c][k] = "101"
  BY <1>3, <1>5, <1>6 DEF ToSet
<1>8. SwitchRead(c) <=> \E k \in 1 .. n : got[c][k] = "101"
  BY <1>4 DEF SwitchRead
<1>9. total[c] = Len(HasRead(c)) => total[c] = n
  BY <1>3, <1>5
<1> QED
  BY <1>4, <1>7, <1>8, <1>9

\* The steps that matter here, the others taken together.
LEMMA SwitchSteps ==
    ASSUME TypeOK, ObjectInv, [Next]_vars
    PROVE  \/ Receive \/ ProcessData \/ SendMessage \/ SendAgain \/ ForeignSend
           \/ \E c \in Conns : ClientReads(c)
           \/ \E c \in Conns, kind \in Kinds : ClientSends(c, kind)
           \/ /\ UNCHANGED <<total, inbox, got, unread, txList, current, protocol>>
              /\ \A c \in Conns : ChunkOf(c)' = ChunkOf(c)
              /\ \A c \in Conns : conn'[c] = "open" => conn[c] \in {"open", "backlog"}
<1> DEFINE Still == /\ UNCHANGED <<total, inbox, got, unread, txList, current, protocol>>
                    /\ \A c \in Conns : ChunkOf(c)' = ChunkOf(c)
                    /\ \A c \in Conns : conn'[c] = "open" => conn[c] \in {"open", "backlog"}
<1> USE DEF client, server, object
<1>0. conn \in [Conns -> {"none", "backlog", "open", "hungup", "reset", "closed"}]
  BY DEF TypeOK
<1>1. CASE Wait \/ EndEvents \/ ReceiveAgain \/ ReceiveMore \/ WatchdogQuiet
           \/ SendDone \/ Return \/ Tick \/ UNCHANGED vars
  BY <1>1 DEF Wait, EndEvents, ReceiveAgain, BackToEvents, ReceiveMore, WatchdogQuiet, SendDone,
              Return, Tick, vars, ChunkOf
<1>2. CASE ProcessAccept \/ ReceiveGone \/ CloseSocket
  BY <1>0, <1>2 DEF ProcessAccept, AcceptedNow, Backlog, ReceiveGone, CloseSocket, Delete,
                    BackToEvents, ChunkOf
<1>3. CASE AcceptError \/ ReceiveError \/ SendError \/ Destroy
  BY <1>3 DEF AcceptError, ReceiveError, SendError, Destroy, BackToEvents, Abort, ChunkOf
<1>4. ASSUME NEW c \in Conns \cup {NoConn}, ReadEvent(c) PROVE Still
  BY <1>4 DEF ReadEvent, ChunkOf
<1>5. ASSUME NEW c \in Conns, WatchdogExpired(c) PROVE Still
  BY <1>0, <1>5 DEF WatchdogExpired, ChunkOf
<1>6. ASSUME NEW c \in Conns, SendTo(c) PROVE Still
  BY <1>6 DEF SendTo, ChunkOf
<1>7. ASSUME NEW c \in Conns, Connect(c) \/ HangUp(c) PROVE Still
  BY <1>0, <1>7 DEF Connect, HangUp, ChunkOf
<1> QED
  BY <1>1, <1>2, <1>3, <1>4, <1>5, <1>6, <1>7 DEF Next, Work

\* A message more behind those that wait leaves the first one where it is.
LEMMA ExtendsKeeps ==
    ASSUME TypeOK, NEW c \in Conns, NEW d, Extends(d), Len(txList[c]) > 0
    PROVE  Len(txList'[c]) > 0 /\ txList'[c][1] = txList[c][1]
<1>1. txList[c] \in Seq(Messages) /\ Len(txList[c]) \in Nat
  BY OneConnection
<1>2. \A m \in Messages : /\ Len(Append(txList[c], m)) > 0
                          /\ Append(txList[c], m)[1] = txList[c][1]
  BY <1>1, AppendProperties
<1>3. txList'[c] = txList[c] \/ \E m \in Messages : txList'[c] = Append(txList[c], m)
  BY DEF Extends
<1> QED
  BY <1>2, <1>3

\* Receiving moves what the client sent to where processData() looks at it.
LEMMA ReceiveSwitch ==
    ASSUME TypeOK, ObjectInv, SwitchInv, Receive, NEW c \in Conns
    PROVE  Switching(c)'
<1>1. /\ pc = "read" /\ pc' = "frames" /\ at' = at /\ inbox[at] # <<>>
      /\ UNCHANGED <<got, unread, total, conn, protocol, txList, current>>
      /\ at \in Conns /\ inbox \in [Conns -> Seq(Kinds)]
  BY DEF Receive, ObjectInv, TypeOK, object
<1>2. PICK n \in 1 .. Len(inbox[at]) :
         /\ chunk' = SubSeq(inbox[at], 1, n)
         /\ inbox' = [inbox EXCEPT ![at] = SubSeq(@, n + 1, Len(@))]
  BY DEF Receive
<1>3. Switching(c) /\ ChunkOf(c) = <<>> /\ ChunkOf(c)' = IF at = c THEN chunk' ELSE <<>>
  BY <1>1 DEF SwitchInv, Switching, ChunkOf
<1>4. CASE c # at
  <2>1. inbox'[c] = inbox[c] /\ ChunkOf(c)' = ChunkOf(c)
    BY <1>1, <1>2, <1>3, <1>4
  <2> QED
    BY <1>1, <1>3, <2>1 DEF Switching, HttpInv, FramesInv, InFlight, SwitchRead, Switched
<1>5. CASE c = at /\ protocol[c] = "http"
  <2>1. inbox'[c] = SubSeq(inbox[c], n + 1, Len(inbox[c])) /\ ChunkOf(c)' = SubSeq(inbox[c], 1, n)
    BY <1>1, <1>2, <1>3, <1>5
  <2>2. /\ Len(inbox'[c]) + Len(ChunkOf(c)') = Len(inbox[c])
        /\ inbox'[c] \in Seq(Kinds) /\ ChunkOf(c)' \in Seq(Kinds)
    BY <1>2, <1>5, <2>1, OneConnection, Cut
  <2>3. Len(inbox[c]) + Len(ChunkOf(c)) + Len(txList[c]) + InFlight(c) + Len(got[c]) <= total[c]
    BY <1>3, <1>5 DEF Switching, HttpInv
  <2>4. InFlight(c)' = InFlight(c) /\ InFlight(c) \in {0, 1}
    BY <1>1 DEF InFlight
  <2>5. Len(inbox'[c]) + Len(ChunkOf(c)') + Len(txList[c]) + InFlight(c) + Len(got[c]) <= total[c]
    <3> DEFINE i == Len(inbox[c])
               j == Len(inbox'[c])
               k == Len(ChunkOf(c)')
               x == Len(txList[c])
               g == Len(got[c])
               o == Len(ChunkOf(c))
    <3>1. i \in Nat /\ j \in Nat /\ k \in Nat /\ x \in Nat /\ g \in Nat /\ o \in Nat
      BY <2>2, OneConnection
    <3>2. j + k = i /\ i + o + x + InFlight(c) + g <= total[c]
      BY <2>2, <2>3
    <3>3. total[c] \in Nat
      BY OneConnection
    <3> HIDE DEF i, j, k, x, g, o
    <3>4. j + k + x + InFlight(c) + g <= total[c]
      BY <2>4, <3>1, <3>2, <3>3
    <3> QED
      BY <3>4 DEF i, j, k, x, g
  <2> QED
    BY <1>1, <1>3, <1>5, <2>4, <2>5 DEF Switching, HttpInv
<1>6. CASE c = at /\ protocol[c] # "http"
  <2>1. inbox'[c] = SubSeq(inbox[c], n + 1, Len(inbox[c])) /\ ChunkOf(c)' = SubSeq(inbox[c], 1, n)
    BY <1>1, <1>2, <1>3, <1>6
  <2>2. FramesInv(c) /\ inbox[c] \in Seq(Frames) /\ SwitchRead(c)
    BY <1>1, <1>3, <1>6 DEF Switching, FramesInv
  <2>3. inbox'[c] \in Seq(Frames) /\ ChunkOf(c)' \in Seq(Frames)
    BY <1>2, <1>6, <2>1, <2>2, Cut
  <2> QED
    BY <1>1, <1>3, <1>6, <2>2, <2>3 DEF Switching, FramesInv, SwitchRead, Switched
<1> QED
  BY <1>4, <1>5, <1>6

\* processData() answers an upgrade once, before everything else.
LEMMA DataSwitch ==
    ASSUME TypeOK, ObjectInv, ApplicationInStep, SwitchInv, ProcessData, NEW c \in Conns
    PROVE  Switching(c)'
<1>1. /\ UNCHANGED <<pc, at, conn, total, inbox, got, unread, current>>
      /\ pc = "frames" /\ at \in Conns /\ chunk # <<>> /\ chunk \in Seq(Kinds)
      /\ protocol[at] = "http" => /\ txList[at] = <<>> /\ current[at] = NoMessage
                                  /\ inbox[at] = <<>> /\ unread[at] = 0
                                  /\ total[at] = Len(got[at]) + 1
      /\ Switch \/ Refuse \/ Frame
      /\ txList \in [Conns -> Seq(Messages)] /\ protocol \in [Conns -> {"http", "websocket"}]
  BY ProcessDataEffect DEF Quiet, client, TypeOK
<1>2. Switching(c) /\ (c # at => ChunkOf(c)' = ChunkOf(c)) /\ (c = at => ChunkOf(c)' = chunk')
      /\ (c = at => ChunkOf(c) = chunk) /\ InFlight(c)' = InFlight(c)
      /\ SwitchRead(c)' = SwitchRead(c) /\ Switched(c)' = Switched(c)
  BY <1>1 DEF SwitchInv, Switching, ChunkOf, InFlight, SwitchRead, Switched
<1>3. CASE c # at /\ (Switch \/ Refuse)
  <2>1. txList'[c] = txList[c] /\ protocol'[c] = protocol[c]
    BY <1>1, <1>3 DEF Switch, Refuse
  <2> QED
    BY <1>1, <1>2, <1>3, <2>1 DEF Switching, HttpInv, FramesInv
<1>4. CASE c = at /\ Switch
  <2>1. /\ protocol'[c] = "websocket" /\ ChunkOf(c)' = <<>>
        /\ Len(txList'[c]) > 0 /\ txList'[c][1] = "101"
    BY <1>1, <1>2, <1>4 DEF Switch
  <2>2. /\ inbox'[c] = <<>> /\ current'[c] = NoMessage /\ unread'[c] = 0 /\ UNCHANGED got[c]
        /\ total'[c] = Len(got[c]) + 1 /\ Len(got[c]) \in Nat
    BY <1>1, <1>4, OneConnection DEF Switch
  <2>3. <<>> \in Seq(Frames)
    OBVIOUS
  <2>4. unread'[c] <= Len(got'[c]) /\ total'[c] = Len(got'[c]) - unread'[c] + 1
    BY <2>2
  <2>5. FramesInv(c)'
    BY <2>1, <2>2, <2>3, <2>4 DEF FramesInv
  <2> QED
    BY <2>1, <2>4, <2>5 DEF Switching
<1>5. CASE c = at /\ Refuse
  <2>1. protocol'[c] = "http" /\ ChunkOf(c)' = <<>> /\ txList'[c] = <<"404">>
    BY <1>1, <1>2, <1>5 DEF Refuse
  <2>2. /\ inbox'[c] = <<>> /\ current'[c] = NoMessage /\ unread'[c] = 0 /\ UNCHANGED got[c]
        /\ total'[c] = Len(got[c]) + 1 /\ Len(got[c]) \in Nat
    BY <1>1, <1>5, OneConnection DEF Refuse
  <2>3. /\ Len(<<>>) = 0 /\ Len(<<"404">>) = 1 /\ \A k \in 1 .. 1 : <<"404">>[k] = "404"
    OBVIOUS
  <2>4. InFlight(c)' = 0
    BY <2>2 DEF InFlight
  <2>5. Len(inbox'[c]) + Len(ChunkOf(c)') + Len(txList'[c]) + InFlight(c)' + Len(got'[c]) <= total'[c]
    BY <2>1, <2>2, <2>3, <2>4
  <2>6. unread'[c] <= Len(got'[c]) /\ total'[c] <= Len(got'[c]) - unread'[c] + 1
    BY <2>2
  <2>7. \A k \in 1 .. Len(got'[c]) : got'[c][k] = "404"
    BY <1>1, <1>2, <1>5 DEF Switching, HttpInv, Refuse
  <2>8. \A k \in 1 .. Len(txList'[c]) : txList'[c][k] = "404"
    BY <2>1, <2>3
  <2> QED
    BY <2>1, <2>2, <2>5, <2>6, <2>7, <2>8 DEF Switching, HttpInv
<1>6. CASE Frame
  <2>1. UNCHANGED protocol /\ Extends(at) /\ protocol[at] = "websocket" /\ chunk' \in {<<>>, Tail(chunk)}
    BY <1>6 DEF Frame
  <2>2. CASE protocol[c] = "http"
    <3>1. c # at /\ c \notin known
      BY <2>1, <2>2 DEF ApplicationInStep
    <3>2. txList'[c] = txList[c]
      BY <2>1, <3>1 DEF Extends
    <3> QED
      BY <1>1, <1>2, <2>1, <2>2, <3>1, <3>2 DEF Switching, HttpInv
  <2>3. CASE protocol[c] # "http"
    <3>1. FramesInv(c)
      BY <1>2, <2>3 DEF Switching
    <3>2. Len(txList[c]) > 0 => Len(txList'[c]) > 0 /\ txList'[c][1] = txList[c][1]
      BY <2>1, ExtendsKeeps
    <3>3. /\ ChunkOf(c)' \in Seq(Frames)
          /\ ~SwitchRead(c) => ChunkOf(c)' = <<>>
      <4>1. CASE c # at
        BY <1>2, <3>1, <4>1 DEF FramesInv
      <4>2. CASE c = at
        <5>1. chunk \in Seq(Frames) /\ SwitchRead(c)
          BY <1>1, <1>2, <3>1, <4>2 DEF FramesInv
        <5>2. chunk' \in Seq(Frames)
          BY <1>1, <2>1, <5>1, EmptySeq, HeadTailProperties, ZenonT(40)
        <5> QED
          BY <1>2, <4>2, <5>1, <5>2
      <4> QED
        BY <4>1, <4>2
    <3> QED
      BY <1>1, <1>2, <2>1, <2>3, <3>1, <3>2, <3>3 DEF Switching, FramesInv
  <2> QED
    BY <2>2, <2>3
<1> QED
  BY <1>1, <1>3, <1>4, <1>5, <1>6

\* Another thread sends to the WebSockets that the application knows, which have switched.
LEMMA ForeignSwitch ==
    ASSUME TypeOK, ApplicationInStep, SwitchInv, ForeignSend, NEW c \in Conns
    PROVE  Switching(c)'
<1>1. /\ UNCHANGED <<pc, at, chunk, conn, total, inbox, got, unread, current, protocol>>
      /\ Extends(NoConn) /\ c # NoConn
  BY SendTextEffect, ConnsAssumption DEF ForeignSend, client, server
<1>2. /\ Switching(c) /\ ChunkOf(c)' = ChunkOf(c) /\ InFlight(c)' = InFlight(c)
      /\ SwitchRead(c)' = SwitchRead(c) /\ Switched(c)' = Switched(c)
  BY <1>1 DEF SwitchInv, Switching, ChunkOf, InFlight, SwitchRead, Switched
<1>3. CASE protocol[c] = "http"
  <2>1. c \notin known
    BY <1>3 DEF ApplicationInStep
  <2>2. txList'[c] = txList[c]
    BY <1>1, <2>1 DEF Extends
  <2> QED
    <3>1. HttpInv(c) /\ unread[c] <= Len(got[c])
      BY <1>2, <1>3 DEF Switching
    <3>2. HttpInv(c)'
      BY <1>1, <1>2, <2>2, <3>1 DEF HttpInv
    <3> QED
      BY <1>1, <1>3, <3>1, <3>2 DEF Switching
<1>4. CASE protocol[c] # "http"
  <2>1. Len(txList[c]) > 0 => Len(txList'[c]) > 0 /\ txList'[c][1] = txList[c][1]
    BY <1>1, ExtendsKeeps
  <2> QED
    BY <1>1, <1>2, <1>4, <2>1 DEF Switching, FramesInv
<1> QED
  BY <1>3, <1>4

\* A client reads what it has been sent, or sends something.
LEMMA ClientReadsSwitch ==
    ASSUME TypeOK, SwitchInv, NEW d \in Conns, ClientReads(d), NEW c \in Conns
    PROVE  Switching(c)'
<1>1. /\ UNCHANGED <<pc, at, chunk, conn, total, inbox, got, txList, current, protocol>>
      /\ unread' = [unread EXCEPT ![d] = 0] /\ unread \in [Conns -> 0 .. SocketSpace]
  BY DEF ClientReads, server, object, TypeOK
<1>2. /\ Switching(c) /\ ChunkOf(c)' = ChunkOf(c) /\ InFlight(c)' = InFlight(c)
      /\ Switched(c)' = Switched(c)
  BY <1>1 DEF SwitchInv, Switching, ChunkOf, InFlight, Switched
<1>3. /\ unread'[c] = 0 \/ unread'[c] = unread[c]
      /\ unread[c] \in Nat /\ Len(got[c]) \in Nat /\ total[c] \in Nat
  BY <1>1, OneConnection
<1>4. unread'[c] <= Len(got'[c])
  BY <1>1, <1>2, <1>3 DEF Switching
<1>5. CASE protocol[c] = "http"
  <2>1. HttpInv(c)
    BY <1>2, <1>5 DEF Switching
  <2>2. total[c] <= Len(got[c]) - unread'[c] + 1
    BY <1>3, <2>1 DEF HttpInv
  <2>3. HttpInv(c)'
    BY <1>1, <1>2, <2>1, <2>2 DEF HttpInv
  <2> QED
    BY <1>1, <1>4, <1>5, <2>3 DEF Switching
<1>6. CASE protocol[c] # "http"
  <2>1. FramesInv(c)
    BY <1>2, <1>6 DEF Switching
  <2>2. ~Switched(c) => unread'[c] = unread[c] /\ unread[c] = 0
    BY <1>3, <2>1 DEF FramesInv
  <2>3. SwitchRead(c)' = (\E k \in 1 .. Len(got[c]) - unread'[c] : got[c][k] = "101")
    BY <1>1 DEF SwitchRead
  <2>4. ~SwitchRead(c)' => ~SwitchRead(c) /\ unread'[c] = unread[c]
    <3>1. CASE unread'[c] = unread[c]
      BY <2>3, <3>1 DEF SwitchRead
    <3>2. CASE unread'[c] = 0
      <4>1. SwitchRead(c) => SwitchRead(c)'
        BY <1>3, <2>3, <3>2 DEF SwitchRead
      <4>2. ~SwitchRead(c)' => ~Switched(c)
        BY <1>3, <2>3, <3>2 DEF Switched
      <4> QED
        BY <2>2, <4>1, <4>2
    <3> QED
      BY <1>3, <3>1, <3>2
  <2>5. FramesInv(c)'
    BY <1>1, <1>2, <2>1, <2>2, <2>4 DEF FramesInv
  <2> QED
    BY <1>1, <1>4, <1>6, <2>5 DEF Switching
<1> QED
  BY <1>5, <1>6

\* A client sends a frame after it has read that the connection has switched.
LEMMA ClientSendsSwitch ==
    ASSUME TypeOK, SwitchInv, NEW d \in Conns, NEW kind \in Kinds, ClientSends(d, kind),
           NEW c \in Conns
    PROVE  Switching(c)'
<1>1. /\ UNCHANGED <<pc, at, chunk, conn, got, unread, txList, current, protocol>>
      /\ total' = [total EXCEPT ![d] = @ + 1] /\ inbox' = [inbox EXCEPT ![d] = Append(@, kind)]
      /\ total \in [Conns -> Nat] /\ inbox \in [Conns -> Seq(Kinds)]
      /\ MaySend(d, kind)
  BY DEF ClientSends, server, object, TypeOK
<1>2. /\ Switching(c) /\ ChunkOf(c)' = ChunkOf(c) /\ InFlight(c)' = InFlight(c)
      /\ Switched(c)' = Switched(c) /\ SwitchRead(c)' = SwitchRead(c)
  BY <1>1 DEF SwitchInv, Switching, ChunkOf, InFlight, Switched, SwitchRead
<1>3. CASE c # d
  <2>1. total'[c] = total[c] /\ inbox'[c] = inbox[c]
    BY <1>1, <1>3
  <2> QED
    BY <1>1, <1>2, <2>1 DEF Switching, HttpInv, FramesInv
<1>4. CASE c = d
  <2>0. /\ unread[c] \in Nat /\ Len(got[c]) \in Nat /\ unread[c] <= Len(got[c])
        /\ inbox[c] \in Seq(Kinds) /\ total[c] \in Nat
    BY <1>2, OneConnection DEF Switching
  <2>1. total'[c] = total[c] + 1 /\ inbox'[c] = Append(inbox[c], kind)
    BY <1>1, <1>4
  <2>2. IF SwitchRead(c) THEN kind \notin {"upgrade", "unknown"}
        ELSE total[c] = Len(got[c]) - unread[c]
    BY <1>1, <1>4, <2>0, WhatIsRead DEF MaySend
  <2>3. CASE protocol[c] = "http"
    <3>1. HttpInv(c)
      BY <1>2, <2>3 DEF Switching
    <3>2. ~SwitchRead(c)
      BY <2>0, <3>1 DEF HttpInv, SwitchRead
    <3>3. total'[c] <= Len(got[c]) - unread[c] + 1
      BY <2>0, <2>1, <2>2, <3>2
    <3>4. Len(inbox'[c]) = Len(inbox[c]) + 1
      BY <2>0, <2>1, AppendProperties
    <3>5. Len(inbox'[c]) + Len(ChunkOf(c)) + Len(txList[c]) + InFlight(c) + Len(got[c])
              <= total'[c]
      <4> DEFINE i == Len(inbox[c])
                 j == Len(inbox'[c])
                 x == Len(txList[c])
                 g == Len(got[c])
                 o == Len(ChunkOf(c))
      <4>1. i \in Nat /\ x \in Nat /\ g \in Nat /\ o \in Nat /\ InFlight(c) \in {0, 1}
        BY OneConnection
      <4>2. i + o + x + InFlight(c) + g <= total[c]
        BY <3>1 DEF HttpInv
      <4>3. j = i + 1
        BY <3>4
      <4> HIDE DEF i, j, x, g, o
      <4>4. j + o + x + InFlight(c) + g <= total'[c]
        BY <2>0, <2>1, <4>1, <4>2, <4>3
      <4> QED
        BY <4>4 DEF j, x, g, o
    <3>6. HttpInv(c)'
      BY <1>1, <1>2, <3>1, <3>3, <3>5 DEF HttpInv
    <3> QED
      BY <1>1, <2>0, <2>3, <3>6 DEF Switching
  <2>4. CASE protocol[c] # "http"
    <3>1. FramesInv(c)
      BY <1>2, <2>4 DEF Switching
    <3>2. SwitchRead(c)
      BY <2>0, <2>2, <3>1 DEF FramesInv
    <3>3. kind \in Frames
      BY <2>2, <3>2 DEF Frames
    <3>4. inbox'[c] \in Seq(Frames)
      BY <2>1, <3>1, <3>3, AppendProperties DEF FramesInv
    <3>5. FramesInv(c)'
      BY <1>1, <1>2, <3>1, <3>2, <3>4 DEF FramesInv
    <3> QED
      BY <1>1, <2>0, <2>4, <3>5 DEF Switching
  <2> QED
    BY <2>3, <2>4
<1> QED
  BY <1>3, <1>4

\* Taking a message: either it was the one being sent, or the first that waits.
LEMMA Taken ==
    ASSUME TypeOK, NEW c \in Conns, Sendable(c), GetTxData(c)
    PROVE  /\ \A d \in Conns : d # c => txList'[d] = txList[d]
           /\ \/ /\ current[c] # NoMessage /\ TxData(c) = current[c] /\ txList'[c] = txList[c]
              \/ /\ current[c] = NoMessage /\ TxData(c) = txList[c][1] /\ Len(txList[c]) > 0
                 /\ Len(txList'[c]) = Len(txList[c]) - 1
                 /\ \A k \in 1 .. Len(txList'[c]) : txList'[c][k] = txList[c][k + 1]
           /\ TxData(c) \in Messages
           /\ InFlight(c) + Len(txList[c]) = Len(txList'[c]) + 1
<1>1. /\ \A d \in Conns : d # c => txList'[d] = txList[d]
      /\ txList'[c] = IF current[c] # NoMessage THEN txList[c] ELSE Tail(txList[c])
  BY TakeTypes
<1>2. Len(txList[c]) \in Nat
  BY OneConnection
<1>3. CASE current[c] # NoMessage
  <2>1. InFlight(c) = 1
    BY <1>3 DEF InFlight
  <2> QED
    BY <1>1, <1>2, <1>3, <2>1, TakenMessage
<1>4. CASE current[c] = NoMessage
  <2>1. InFlight(c) = 0
    BY <1>4 DEF InFlight
  <2>2. /\ TxData(c) \in Messages
        /\ TxData(c) = txList[c][1] /\ Len(txList[c]) > 0
        /\ Len(Tail(txList[c])) = Len(txList[c]) - 1
        /\ \A k \in 1 .. Len(Tail(txList[c])) : Tail(txList[c])[k] = txList[c][k + 1]
    BY <1>4, TakenMessage
  <2>3. txList'[c] = Tail(txList[c])
    BY <1>1, <1>4
  <2> QED
    BY <1>1, <1>2, <1>4, <2>1, <2>2, <2>3
<1> QED
  BY <1>3, <1>4

\* The first message a client is sent after the switch is the switch.
LEMMA FirstIsSwitch ==
    ASSUME TypeOK, NEW c \in Conns, Sendable(c), FramesInv(c), ~Switched(c), conn[c] = "open"
    PROVE  TxData(c) = "101"
BY TakenMessage DEF FramesInv, NoMessage

\* Before it, each is an answer.
LEMMA AnswersWait ==
    ASSUME TypeOK, NEW c \in Conns, Sendable(c), GetTxData(c), HttpInv(c)
    PROVE  TxData(c) = "404" /\ \A k \in 1 .. Len(txList'[c]) : txList'[c][k] = "404"
<1>1. Len(txList[c]) \in Nat /\ Len(txList'[c]) \in Nat
  <2>1. txList' \in [Conns -> Seq(Messages)]
    BY TakeTypes
  <2> QED
    BY <2>1, OneConnection
<1>2. CASE current[c] # NoMessage /\ TxData(c) = current[c] /\ txList'[c] = txList[c]
  BY <1>2 DEF HttpInv
<1>3. CASE /\ current[c] = NoMessage /\ TxData(c) = txList[c][1] /\ Len(txList[c]) > 0
           /\ Len(txList'[c]) = Len(txList[c]) - 1
           /\ \A k \in 1 .. Len(txList'[c]) : txList'[c][k] = txList[c][k + 1]
  BY <1>1, <1>3 DEF HttpInv
<1> QED
  BY <1>2, <1>3, Taken

\* A message that send() refused stays the first.
LEMMA AgainSwitch ==
    ASSUME TypeOK, SwitchInv, SendAgain, NEW c \in Conns
    PROVE  Switching(c)'
<1>1. /\ UNCHANGED <<pc, at, chunk, conn, total, inbox, got, unread, protocol>>
      /\ at \in Conns /\ Sendable(at) /\ GetTxData(at) /\ conn[at] = "open"
      /\ current' = [current EXCEPT ![at] = TxData(at)]
      /\ current \in [Conns -> Messages \cup {NoMessage}]
  BY DEF SendAgain, client, server, TypeOK
<1>2. /\ Switching(c) /\ ChunkOf(c)' = ChunkOf(c)
      /\ Switched(c)' = Switched(c) /\ SwitchRead(c)' = SwitchRead(c)
  BY <1>1 DEF SwitchInv, Switching, ChunkOf, Switched, SwitchRead
<1>3. CASE c # at
  <2>1. txList'[c] = txList[c] /\ current'[c] = current[c]
    BY <1>1, <1>3, Taken
  <2>2. InFlight(c)' = InFlight(c)
    BY <2>1 DEF InFlight
  <2> QED
    BY <1>1, <1>2, <2>1, <2>2 DEF Switching, HttpInv, FramesInv
<1>4. CASE c = at
  <2>1. current'[c] = TxData(c) /\ TxData(c) \in Messages /\ InFlight(c)' = 1
    <3>1. current'[c] = TxData(c) /\ TxData(c) \in Messages
      BY <1>1, <1>4, Taken
    <3> QED
      BY <3>1 DEF InFlight, Messages, NoMessage
  <2>2. CASE protocol[c] = "http"
    <3>1. HttpInv(c)
      BY <1>2, <2>2 DEF Switching
    <3>2. TxData(c) = "404" /\ \A k \in 1 .. Len(txList'[c]) : txList'[c][k] = "404"
      BY <1>1, <1>4, <3>1, AnswersWait
    <3>3. Len(inbox[c]) + Len(ChunkOf(c)) + Len(txList'[c]) + 1 + Len(got[c]) <= total[c]
      <4> DEFINE i == Len(inbox[c])
                 x == Len(txList[c])
                 y == Len(txList'[c])
                 g == Len(got[c])
                 o == Len(ChunkOf(c))
      <4>1. /\ i \in Nat /\ x \in Nat /\ g \in Nat /\ o \in Nat /\ total[c] \in Nat
            /\ InFlight(c) \in {0, 1}
        BY OneConnection
      <4>2. i + o + x + InFlight(c) + g <= total[c]
        BY <3>1 DEF HttpInv
      <4>3. InFlight(c) + x = y + 1 /\ y \in Nat
        <5>1. txList'[c] \in Seq(Messages)
          BY <1>1, TakeTypes
        <5> QED
          BY <1>1, <1>4, <5>1, Taken
      <4> HIDE DEF i, x, y, g, o
      <4>4. i + o + y + 1 + g <= total[c]
        BY <4>1, <4>2, <4>3
      <4> QED
        BY <4>4 DEF i, y, g, o
    <3>4. HttpInv(c)'
      BY <1>1, <1>2, <2>1, <3>1, <3>2, <3>3 DEF HttpInv
    <3> QED
      BY <1>1, <1>2, <2>2, <3>4 DEF Switching
  <2>3. CASE protocol[c] # "http"
    <3>1. FramesInv(c)
      BY <1>2, <2>3 DEF Switching
    <3>2. ~Switched(c) => current'[c] = "101"
      BY <1>1, <1>4, <2>1, <3>1, FirstIsSwitch
    <3>3. FramesInv(c)'
      BY <1>1, <1>2, <3>1, <3>2 DEF FramesInv
    <3> QED
      BY <1>1, <1>2, <2>3, <3>3 DEF Switching
  <2> QED
    BY <2>2, <2>3
<1> QED
  BY <1>3, <1>4

\* The message that is sent is the first of those that wait.
LEMMA MessageSwitch ==
    ASSUME TypeOK, SwitchInv, SendMessage, NEW c \in Conns
    PROVE  Switching(c)'
<1>1. /\ UNCHANGED <<pc, at, chunk, conn, total, inbox, protocol>>
      /\ at \in Conns /\ Sendable(at) /\ GetTxData(at)
      /\ current' = [current EXCEPT ![at] = NoMessage]
      /\ IF conn[at] = "open"
         THEN /\ got' = [got EXCEPT ![at] = Append(@, TxData(at))]
              /\ unread' = [unread EXCEPT ![at] = @ + 1]
         ELSE UNCHANGED <<got, unread>>
      /\ current \in [Conns -> Messages \cup {NoMessage}]
      /\ got \in [Conns -> Seq(Messages)] /\ unread \in [Conns -> 0 .. SocketSpace]
  BY DEF SendMessage, server, TypeOK
<1>2. Switching(c) /\ ChunkOf(c)' = ChunkOf(c)
  BY <1>1 DEF SwitchInv, Switching, ChunkOf
<1>3. CASE c # at
  <2>1. txList'[c] = txList[c] /\ current'[c] = current[c]
    BY <1>1, <1>3, Taken
  <2>2. got'[c] = got[c] /\ unread'[c] = unread[c]
    BY <1>1, <1>3
  <2>3. /\ InFlight(c)' = InFlight(c)
        /\ Switched(c)' = Switched(c) /\ SwitchRead(c)' = SwitchRead(c)
    BY <2>1, <2>2 DEF InFlight, Switched, SwitchRead
  <2> QED
    <3>1. CASE protocol[c] = "http"
      <4>1. HttpInv(c) /\ unread[c] <= Len(got[c])
        BY <1>2, <3>1 DEF Switching
      <4>2. HttpInv(c)'
        BY <1>1, <1>2, <2>1, <2>2, <2>3, <4>1 DEF HttpInv
      <4> QED
        BY <1>1, <2>2, <3>1, <4>1, <4>2 DEF Switching
    <3>2. CASE protocol[c] # "http"
      BY <1>1, <1>2, <2>1, <2>2, <2>3, <3>2 DEF Switching, FramesInv
    <3> QED
      BY <3>1, <3>2
<1>4. CASE c = at
  <2>0. /\ current'[c] = NoMessage /\ InFlight(c)' = 0
        /\ Len(got[c]) \in Nat /\ unread[c] \in Nat /\ total[c] \in Nat
        /\ unread[c] <= Len(got[c]) /\ TxData(c) \in Messages
    BY <1>1, <1>2, <1>4, OneConnection, Taken DEF InFlight, Switching
  <2>1. /\ conn[c] = "open" => /\ Len(got'[c]) = Len(got[c]) + 1 /\ unread'[c] = unread[c] + 1
                               /\ got'[c][Len(got[c]) + 1] = TxData(c)
        /\ conn[c] # "open" => Len(got'[c]) = Len(got[c]) /\ unread'[c] = unread[c]
        /\ \A k \in 1 .. Len(got[c]) : got'[c][k] = got[c][k]
    <3>1. CASE conn[c] = "open"
      <4>1. got'[c] = Append(got[c], TxData(c)) /\ unread'[c] = unread[c] + 1
        BY <1>1, <1>4, <3>1
      <4> QED
        BY <2>0, <3>1, <4>1, OneConnection, AppendProperties
    <3>2. CASE conn[c] # "open"
      BY <1>1, <1>4, <3>2
    <3> QED
      BY <3>1, <3>2
  <2>2. /\ unread'[c] <= Len(got'[c])
        /\ Len(got'[c]) - unread'[c] = Len(got[c]) - unread[c]
    BY <2>0, <2>1
  <2>3. SwitchRead(c)' = SwitchRead(c)
    <3>1. \A k \in 1 .. Len(got[c]) - unread[c] : got'[c][k] = got[c][k]
      BY <2>0, <2>1
    <3> QED
      BY <2>2, <3>1 DEF SwitchRead
  <2>4. Switched(c) => Switched(c)'
    <3>1. Len(got'[c]) \in Nat /\ Len(got'[c]) >= Len(got[c])
      BY <2>0, <2>1
    <3> QED
      BY <2>0, <2>1, <3>1, SMTT(20) DEF Switched
  <2>5. CASE protocol[c] = "http"
    <3>1. HttpInv(c)
      BY <1>2, <2>5 DEF Switching
    <3>2. TxData(c) = "404" /\ \A k \in 1 .. Len(txList'[c]) : txList'[c][k] = "404"
      BY <1>1, <1>4, <3>1, AnswersWait
    <3>3. Len(inbox[c]) + Len(ChunkOf(c)) + Len(txList'[c]) + 0 + Len(got'[c]) <= total[c]
      <4> DEFINE i == Len(inbox[c])
                 x == Len(txList[c])
                 y == Len(txList'[c])
                 g == Len(got[c])
                 h == Len(got'[c])
                 o == Len(ChunkOf(c))
      <4>1. /\ i \in Nat /\ x \in Nat /\ g \in Nat /\ o \in Nat /\ total[c] \in Nat
            /\ InFlight(c) \in {0, 1}
        BY OneConnection
      <4>2. i + o + x + InFlight(c) + g <= total[c]
        BY <3>1 DEF HttpInv
      <4>3. InFlight(c) + x = y + 1 /\ y \in Nat
        <5>1. txList'[c] \in Seq(Messages)
          BY <1>1, TakeTypes
        <5> QED
          BY <1>1, <1>4, <5>1, Taken
      <4>4. h = g \/ h = g + 1
        BY <2>1
      <4> HIDE DEF i, x, y, g, h, o
      <4>5. i + o + y + 0 + h <= total[c]
        BY <4>1, <4>2, <4>3, <4>4
      <4> QED
        BY <4>5 DEF i, y, h, o
    <3>4. \A k \in 1 .. Len(got'[c]) : got'[c][k] = "404"
      <4>1. \A k \in 1 .. Len(got[c]) : got[c][k] = "404"
        BY <3>1 DEF HttpInv
      <4> QED
        BY <2>0, <2>1, <3>2, <4>1, SMTT(20)
    <3>5. total'[c] <= Len(got'[c]) - unread'[c] + 1
      BY <1>1, <2>2, <3>1 DEF HttpInv
    <3>6. HttpInv(c)'
      BY <1>1, <1>2, <2>0, <3>2, <3>3, <3>4, <3>5 DEF HttpInv
    <3> QED
      BY <1>1, <2>2, <2>5, <3>6 DEF Switching
  <2>6. CASE protocol[c] # "http"
    <3>1. FramesInv(c)
      BY <1>2, <2>6 DEF Switching
    <3>2. ~Switched(c)' => unread'[c] = 0 /\ conn[c] # "open"
      <4>1. CASE conn[c] = "open"
        <5>1. ~Switched(c) => TxData(c) = "101"
          BY <1>1, <1>4, <3>1, <4>1, FirstIsSwitch
        <5>2. TxData(c) = "101" => Switched(c)'
          BY <2>0, <2>1, <4>1 DEF Switched
        <5> QED
          BY <2>4, <5>1, <5>2
      <4>2. CASE conn[c] # "open"
        BY <2>1, <2>4, <3>1, <4>2 DEF FramesInv
      <4> QED
        BY <4>1, <4>2
    <3>3. FramesInv(c)'
      BY <1>1, <1>2, <2>2, <2>3, <3>1, <3>2 DEF FramesInv
    <3> QED
      BY <1>1, <2>2, <2>6, <3>3 DEF Switching
  <2> QED
    BY <2>5, <2>6
<1> QED
  BY <1>3, <1>4

\* Every step keeps what each connection is in the middle of.
LEMMA NextSwitchInv ==
    TypeOK /\ ObjectInv /\ ApplicationInStep /\ SwitchInv /\ [Next]_vars => SwitchInv'
<1> SUFFICES ASSUME TypeOK, ObjectInv, ApplicationInStep, SwitchInv, [Next]_vars,
                    NEW c \in Conns
             PROVE  Switching(c)'
  BY DEF SwitchInv, Switching
<1>1. CASE /\ UNCHANGED <<total, inbox, got, unread, txList, current, protocol>>
           /\ \A d \in Conns : ChunkOf(d)' = ChunkOf(d)
           /\ \A d \in Conns : conn'[d] = "open" => conn[d] \in {"open", "backlog"}
  <2>1. /\ Switching(c) /\ ChunkOf(c)' = ChunkOf(c) /\ InFlight(c)' = InFlight(c)
        /\ Switched(c)' = Switched(c) /\ SwitchRead(c)' = SwitchRead(c)
        /\ (conn'[c] = "open" => conn[c] = "open" \/ protocol[c] = "http")
    BY <1>1 DEF SwitchInv, Switching, InFlight, Switched, SwitchRead, ObjectInv
  <2>2. CASE protocol[c] = "http"
    BY <1>1, <2>1, <2>2 DEF Switching, HttpInv
  <2>3. CASE protocol[c] # "http"
    BY <1>1, <2>1, <2>3 DEF Switching, FramesInv
  <2> QED
    BY <2>2, <2>3
<1> QED
  BY <1>1, SwitchSteps, ReceiveSwitch, DataSwitch, MessageSwitch, AgainSwitch, ForeignSwitch,
     ClientReadsSwitch, ClientSendsSwitch

\* Before a connection nothing is sent.
LEMMA InitSwitchInv == Init => SwitchInv /\ FirstInv
<1> SUFFICES ASSUME Init, NEW c \in Conns
             PROVE  /\ unread[c] <= Len(got[c]) /\ protocol[c] = "http" /\ HttpInv(c)
                    /\ \A k \in 1 .. Len(got[c]) : FALSE
  BY DEF SwitchInv, FirstInv
<1>1. Len(<<>>) = 0
  OBVIOUS
<1>2. InFlight(c) = 0 /\ ChunkOf(c) = <<>>
  BY DEF Init, InFlight, ChunkOf
<1> QED
  BY <1>1, <1>2 DEF Init, HttpInv

\* Only send() gives a client something.
LEMMA NextFirstInv ==
    TypeOK /\ SwitchInv /\ FirstInv /\ [Next]_vars => FirstInv'
<1> SUFFICES ASSUME TypeOK, SwitchInv, FirstInv, [Next]_vars PROVE FirstInv'
  OBVIOUS
<1>1. CASE UNCHANGED got
  BY <1>1 DEF FirstInv
<1>2. CASE /\ at \in Conns /\ Sendable(at) /\ conn[at] = "open"
           /\ GetTxData(at) /\ got' = [got EXCEPT ![at] = Append(@, TxData(at))]
  <2> SUFFICES ASSUME NEW c \in Conns, NEW k \in 1 .. Len(got'[c]),
                      got'[c][k] \notin {"101", "404"}
               PROVE  \E j \in 1 .. k - 1 : got'[c][j] = "101"
    BY DEF FirstInv
  <2>1. got \in [Conns -> Seq(Messages)] /\ Len(got[c]) \in Nat
    BY SMTT(20) DEF TypeOK
  <2>2. CASE c # at
    BY <1>2, <2>1, <2>2 DEF FirstInv
  <2>3. CASE c = at
    <3>1. /\ Len(got'[c]) = Len(got[c]) + 1 /\ got'[c][Len(got[c]) + 1] = TxData(c)
          /\ \A i \in 1 .. Len(got[c]) : got'[c][i] = got[c][i]
      <4>1. got'[c] = Append(got[c], TxData(c)) /\ TxData(c) \in Messages
        BY <1>2, <2>1, <2>3, TakenMessage
      <4> QED
        BY <4>1, OneConnection, AppendProperties
    <3>2. CASE k <= Len(got[c])
      BY <2>1, <3>1, <3>2, SMTT(20) DEF FirstInv
    <3>3. CASE k = Len(got[c]) + 1
      <4>1. protocol[c] # "http" /\ FramesInv(c)
        BY <1>2, <2>3, <3>1, <3>3, AnswersWait DEF SwitchInv
      <4>2. Switched(c)
        BY <1>2, <2>3, <3>1, <3>3, <4>1, FirstIsSwitch
      <4> QED
        BY <2>1, <3>1, <3>3, <4>2 DEF Switched
    <3> QED
      BY <2>1, <3>1, <3>2, <3>3
  <2> QED
    BY <2>2, <2>3
<1>3. SendMessage => \/ UNCHANGED got
                     \/ /\ at \in Conns /\ Sendable(at) /\ conn[at] = "open"
                        /\ GetTxData(at) /\ got' = [got EXCEPT ![at] = Append(@, TxData(at))]
  BY DEF SendMessage, TypeOK
<1>4. SendMessage \/ UNCHANGED got
  BY DEF Next, Work, Wait, ProcessAccept, AcceptError, EndEvents, ReadEvent, Receive, ReceiveAgain,
         ReceiveGone, ReceiveError, ProcessData, ReceiveMore, CloseSocket, WatchdogQuiet,
         WatchdogExpired, SendTo, SendAgain, SendError, SendDone, Return, Destroy, ForeignSend,
         Tick, Connect, ClientReads, HangUp, ClientSends, vars, client
<1> QED
  BY <1>1, <1>2, <1>3, <1>4

-----------------------------------------------------------------------------
(* The loop of processSend()                                               *)

\* In the beginning work() is not about to wait.
LEMMA InitSendInv == Init => SendInv
BY DEF Init, SendInv

\* work() visits everything that has something to send before it returns.
LEMMA NextSendInv == TypeOK /\ SendInv /\ [Next]_vars => SendInv'
<1> SUFFICES ASSUME TypeOK, SendInv, [Next]_vars PROVE SendInv'
  OBVIOUS
<1> USE DEF client, server, object, SendInv
<1>1. CASE WatchdogQuiet
  BY <1>1 DEF WatchdogQuiet
<1>2. ASSUME NEW c \in Conns, WatchdogExpired(c) PROVE SendInv'
  BY <1>2 DEF WatchdogExpired
<1>3. ASSUME NEW c \in Conns, SendTo(c) PROVE SendInv'
  <2>1. \A d \in Conns : Sendable(d)' = Sendable(d)
    BY <1>3 DEF SendTo, Sendable
  <2> QED
    BY <1>3, <2>1, ConnsAssumption DEF SendTo, TypeOK
<1>4. CASE SendMessage \/ SendAgain
  <2>1. /\ at \in Conns /\ Sendable(at) /\ GetTxData(at)
        /\ UNCHANGED <<pc, sockets, todo, at, protocol, state, foreign>> /\ pc = "send"
        /\ \A d \in Conns : d # at => current'[d] = current[d]
    BY <1>4 DEF SendMessage, SendAgain, TypeOK
  <2>2. \A d \in Conns : d # at => txList'[d] = txList[d]
    BY <2>1, Taken
  <2>3. \A d \in Conns : d # at => (Sendable(d)' <=> Sendable(d))
    BY <2>1, <2>2 DEF Sendable
  <2> QED
    BY <2>1, <2>3 DEF TypeOK
<1>5. CASE SendError \/ Destroy
  BY <1>5 DEF SendError, Destroy, Abort
<1>6. CASE SendDone
  <2>1. \A d \in Conns : Sendable(d)' = Sendable(d)
    BY <1>6 DEF SendDone, Sendable
  <2> QED
    BY <1>6, <2>1 DEF SendDone, TypeOK
<1>7. CASE Return
  <2>1. \A d \in Conns : Sendable(d)' = Sendable(d)
    BY <1>7 DEF Return, Sendable
  <2> QED
    BY <1>7, <2>1, ConnsAssumption DEF Return, TypeOK
<1>8. CASE ForeignSend
  BY <1>8 DEF ForeignSend
<1>9. CASE UNCHANGED <<pc, sockets, todo, at, protocol, state, current, txList, foreign>>
  <2>1. \A d \in Conns : Sendable(d)' = Sendable(d)
    BY <1>9 DEF Sendable
  <2> QED
    BY <1>9, <2>1 DEF TypeOK
<1>10. CASE pc' \notin {"send", "out"}
  BY <1>10
<1>11. \/ WatchdogQuiet \/ SendMessage \/ SendAgain \/ SendError \/ Destroy \/ SendDone \/ Return
       \/ ForeignSend \/ (\E c \in Conns : WatchdogExpired(c) \/ SendTo(c))
       \/ UNCHANGED <<pc, sockets, todo, at, protocol, state, current, txList, foreign>>
       \/ pc' \notin {"send", "out"}
  BY DEF Next, Work, Wait, ProcessAccept, AcceptError, EndEvents, ReadEvent, Receive, ReceiveAgain,
         ReceiveGone, ReceiveError, BackToEvents, ProcessData, ReceiveMore, CloseSocket,
         Tick, Connect, ClientReads, HangUp, ClientSends, vars
<1> QED
  BY <1>1, <1>2, <1>3, <1>4, <1>5, <1>6, <1>7, <1>8, <1>9, <1>10, <1>11

-----------------------------------------------------------------------------
(* Theorems                                                                *)

\* All the named parts hold together, in every state.
THEOREM Invariance == Spec => [](IInv /\ SendInv)
<1>1. Init => IInv /\ SendInv
  BY InitTypeOK, InitObjectInv, InitSwitchInv, InitSendInv DEF IInv
<1>2. IInv /\ SendInv /\ [Next]_vars => (IInv /\ SendInv)'
  BY NextTypeOK, NextObjectInv, NextSwitchInv, NextFirstInv, NextSendInv DEF IInv
<1> QED
  BY <1>1, <1>2, PTL DEF Spec

\* No WebSocket's queue is ever longer than its size, and every field keeps its type.
THEOREM TypeCorrect == Spec => []TypeOK
<1>1. IInv => TypeOK
  BY DEF IInv
<1> QED
  BY <1>1, Invariance, PTL

\* A handler of the application never holds a WebSocket that was deleted, and hears
\* of each that is connected, whichever way it is deleted.
THEOREM ApplicationIsInStep == Spec => []ApplicationInStep
<1>1. IInv => ApplicationInStep
  BY DEF IInv
<1> QED
  BY <1>1, Invariance, PTL

\* Whatever the application sends, and however many answers came before, a client is
\* sent no frame before the answer that switches the protocol.
THEOREM SwitchIsFirst == Spec => []SwitchComesFirst
<1>1. IInv => SwitchComesFirst
  <2> SUFFICES ASSUME IInv, NEW c \in Conns, NEW k \in DOMAIN got[c],
                      got[c][k] \notin {"101", "404"}
               PROVE  \E j \in 1 .. k - 1 : got[c][j] = "101"
    BY DEF SwitchComesFirst
  <2>1. DOMAIN got[c] = 1 .. Len(got[c])
    BY LenProperties DEF IInv, TypeOK
  <2> QED
    BY <2>1 DEF IInv, FirstInv
<1> QED
  BY <1>1, Invariance, PTL

\* Whatever the handlers queued during a call of work() has been given to the sockets
\* when the call returns.
THEOREM NothingIsLeft == Spec => []SentWhenReturned
<1>1. SendInv => SentWhenReturned
  BY DEF SendInv, SentWhenReturned
<1> QED
  BY <1>1, Invariance, PTL

-----------------------------------------------------------------------------
(* A connection is a channel                                               *)

\* A sequence begins with itself and with what others are put behind.
LEMMA BeginsWith ==
    ASSUME NEW S, NEW s \in Seq(S), NEW t \in Seq(S)
    PROVE  IsPrefix(s, s \o t) /\ s \o t \in Seq(S)
<1>1. /\ s \o t \in Seq(S) /\ Len(s \o t) = Len(s) + Len(t)
      /\ \A k \in 1 .. Len(s) : (s \o t)[k] = s[k]
      /\ Len(s) \in Nat /\ Len(t) \in Nat
  BY ConcatProperties
<1>2. /\ \A k \in 1 .. Len(s) : s[k] \in S
      /\ \A k \in 1 .. Len(s) : (s \o t)[k] \in S
  BY <1>1, ElementOfSeq
<1> DEFINE u == s \o t
           n == Len(s)
<1>3. u \in Seq(S) /\ n \in Nat /\ n <= Len(u) /\ \A k \in 1 .. n : u[k] = s[k] /\ s[k] \in S
  BY <1>1, <1>2
<1>4. n <= Len(s)
  BY <1>1
<1> HIDE DEF u, n
<1>5. /\ SubSeq(s, 1, n) \in Seq(S) /\ Len(SubSeq(s, 1, n)) = n
      /\ \A k \in 1 .. n : SubSeq(s, 1, n)[k] = s[k]
  BY <1>3, <1>4, SubSeqProperties
<1>6. /\ SubSeq(u, 1, n) \in Seq(S) /\ Len(SubSeq(u, 1, n)) = n
      /\ \A k \in 1 .. n : SubSeq(u, 1, n)[k] = u[k]
  BY <1>3, SubSeqProperties
<1>7. SubSeq(s, 1, n) = SubSeq(u, 1, n)
  BY <1>3, <1>5, <1>6, SeqEqual
<1> QED
  BY <1>1, <1>3, <1>7 DEF IsPrefix, u, n

\* A sequence is its first element, and the others behind it.
LEMMA HeadAndTail ==
    ASSUME NEW S, NEW s \in Seq(S), s # <<>>
    PROVE  s = <<Head(s)>> \o Tail(s)
<1>1. Len(s) \in Nat /\ Len(s) >= 1 /\ Head(s) = s[1]
  BY EmptySeq
<1>2. Tail(s) = SubSeq(s, 2, Len(s))
  BY TailIsSubSeq
<1>3. SubSeq(s, 1, Len(s)) = <<s[1]>> \o SubSeq(s, 1 + 1, Len(s))
  BY <1>1, SubSeqRecursiveFirst
<1>4. SubSeq(s, 1, Len(s)) = s
  BY SubSeqFull
<1> QED
  BY <1>1, <1>2, <1>3, <1>4

Over(c) == conn[c] \in {"hungup", "reset", "closed"}

\* What a step may do to a connection: put messages behind those that wait, give the
\* client the first of them, or end it.
ChannelStep(c) ==
    \/ /\ ~Over(c) /\ ~Over(c)' /\ UNCHANGED got[c]
       /\ \E more \in Seq(Messages) : Waiting(c)' = Waiting(c) \o more
    \/ /\ ~Over(c) /\ ~Over(c)'
       /\ \E m \in Messages : /\ got'[c] = Append(got[c], m)
                              /\ Waiting(c) = <<m>> \o Waiting(c)'
    \/ ~Over(c) /\ Over(c)' /\ UNCHANGED got[c]
    \/ Over(c) /\ Over(c)' /\ UNCHANGED got[c]

\* What waits for a connection is messages, and there is none once it is over.
LEMMA WaitingType ==
    ASSUME TypeOK, NEW c \in Conns
    PROVE  Waiting(c) \in Seq(Messages) /\ (Over(c) => Waiting(c) = <<>>)
<1>1. txList[c] \in Seq(Messages) /\ current[c] \in Messages \cup {NoMessage}
  BY DEF TypeOK
<1>2. current[c] # NoMessage => <<current[c]>> \in Seq(Messages)
  BY <1>1
<1> QED
  BY <1>1, <1>2, EmptySeq, ConcatProperties DEF Waiting, Over

\* Nothing is put behind what waits when nothing is put into txList.
LEMMA SameQueue ==
    ASSUME TypeOK, TypeOK', NEW c \in Conns, UNCHANGED <<got[c], txList[c], current[c]>>,
           Over(c) => Over(c)'
    PROVE  ChannelStep(c)
<1>1. CASE ~Over(c) /\ ~Over(c)'
  <2>1. Waiting(c)' = Waiting(c)
    BY <1>1 DEF Waiting, Over
  <2>2. Waiting(c) \o <<>> = Waiting(c) /\ <<>> \in Seq(Messages)
    BY WaitingType, ConcatEmptySeq
  <2> QED
    BY <1>1, <2>1, <2>2 DEF ChannelStep
<1>2. CASE Over(c)'
  BY <1>2 DEF ChannelStep
<1> QED
  BY <1>1, <1>2

\* A message put into txList is the last of those that wait.
LEMMA LongerQueue ==
    ASSUME TypeOK, TypeOK', NEW c \in Conns, UNCHANGED <<got[c], current[c], conn>>,
           NEW more \in Seq(Messages), txList'[c] = txList[c] \o more
    PROVE  ChannelStep(c)
<1>1. txList[c] \in Seq(Messages) /\ current[c] \in Messages \cup {NoMessage}
  BY DEF TypeOK
<1>2. Over(c)' = Over(c)
  BY DEF Over
<1>3. CASE ~Over(c)
  <2> DEFINE first == IF current[c] = NoMessage THEN <<>> ELSE <<current[c]>>
  <2>1. first \in Seq(Messages)
    BY <1>1
  <2>2. Waiting(c) = first \o txList[c] /\ Waiting(c)' = first \o (txList[c] \o more)
    BY <1>2, <1>3 DEF Waiting, Over
  <2> HIDE DEF first
  <2>3. first \o (txList[c] \o more) = (first \o txList[c]) \o more
    <3> DEFINE t == txList[c]
    <3>1. first \in Seq(Messages) /\ t \in Seq(Messages)
      BY <1>1, <2>1
    <3> HIDE DEF t
    <3>2. (first \o t) \o more = first \o (t \o more)
      BY <3>1, ConcatAssociative
    <3> QED
      BY <3>2 DEF t
  <2> QED
    BY <1>2, <1>3, <2>2, <2>3 DEF ChannelStep
<1>4. CASE Over(c)
  BY <1>2, <1>4 DEF ChannelStep
<1> QED
  BY <1>3, <1>4

\* Queueing a message is a step of a channel.
LEMMA ExtendsChannel ==
    ASSUME TypeOK, TypeOK', NEW c \in Conns, NEW d, Extends(d),
           UNCHANGED <<got[c], current[c], conn>>
    PROVE  ChannelStep(c)
<1>1. txList[c] \in Seq(Messages)
  BY DEF TypeOK
<1>2. CASE txList'[c] = txList[c]
  BY <1>2, SameQueue DEF Over
<1>3. ASSUME NEW m \in Messages, txList'[c] = Append(txList[c], m)
      PROVE  ChannelStep(c)
  <2>1. Append(txList[c], m) = txList[c] \o <<m>> /\ <<m>> \in Seq(Messages)
    BY <1>1, AppendIsConcat
  <2> QED
    BY <1>3, <2>1, LongerQueue
<1> QED
  BY <1>2, <1>3 DEF Extends

\* A message that is taken is given to the client, and was the first of those that wait.
LEMMA MessageChannel ==
    ASSUME TypeOK, TypeOK', SendMessage, NEW c \in Conns
    PROVE  ChannelStep(c)
<1>1. /\ UNCHANGED conn /\ at \in Conns /\ Sendable(at) /\ GetTxData(at)
      /\ conn[at] \in {"open", "hungup"}
      /\ current' = [current EXCEPT ![at] = NoMessage]
      /\ IF conn[at] = "open" THEN got' = [got EXCEPT ![at] = Append(@, TxData(at))]
         ELSE UNCHANGED got
      /\ current \in [Conns -> Messages \cup {NoMessage}]
      /\ got \in [Conns -> Seq(Messages)]
  BY DEF SendMessage, TypeOK
<1>2. Over(c)' = Over(c)
  BY <1>1 DEF Over
<1>3. CASE c # at
  <2>1. txList'[c] = txList[c] /\ current'[c] = current[c] /\ got'[c] = got[c]
    BY <1>1, <1>3, TakeTypes
  <2> QED
    BY <1>2, <2>1, SameQueue
<1>4. CASE c = at /\ conn[c] # "open"
  BY <1>1, <1>2, <1>4 DEF ChannelStep, Over
<1>5. CASE c = at /\ conn[c] = "open"
  <2>1. got'[c] = Append(got[c], TxData(c)) /\ current'[c] = NoMessage /\ ~Over(c)
    BY <1>1, <1>5 DEF Over
  <2>2. TxData(c) \in Messages /\ txList[c] \in Seq(Messages) /\ txList'[c] \in Seq(Messages)
    BY <1>1, <1>5, TakenMessage DEF TypeOK
  <2>3. Waiting(c)' = <<>> \o txList'[c]
    BY <1>1, <2>1, <1>5 DEF Waiting
  <2>4. Waiting(c)' = txList'[c]
    BY <2>2, <2>3, ConcatEmptySeq
  <2>5. Waiting(c) = <<TxData(c)>> \o txList'[c]
    <3>1. CASE current[c] # NoMessage
      BY <1>1, <1>5, <3>1, TakeTypes, TakenMessage DEF Waiting
    <3>2. CASE current[c] = NoMessage
      <4>1. Waiting(c) = <<>> \o txList[c] /\ <<>> \o txList[c] = txList[c]
        BY <1>1, <1>5, <2>2, <3>2, ConcatEmptySeq DEF Waiting
      <4>2. txList[c] # <<>> /\ TxData(c) = Head(txList[c]) /\ txList'[c] = Tail(txList[c])
        BY <1>1, <1>5, <3>2, TakeTypes DEF Sendable, TxData
      <4>3. txList[c] = <<Head(txList[c])>> \o Tail(txList[c])
        BY <2>2, <4>2, HeadAndTail
      <4> QED
        BY <4>1, <4>2, <4>3
    <3> QED
      BY <3>1, <3>2
  <2> QED
    BY <1>2, <2>1, <2>2, <2>4, <2>5 DEF ChannelStep
<1> QED
  BY <1>3, <1>4, <1>5

\* A message that is kept for later still waits in front of the others.
LEMMA AgainChannel ==
    ASSUME TypeOK, TypeOK', SendAgain, NEW c \in Conns
    PROVE  ChannelStep(c)
<1>1. /\ UNCHANGED <<conn, got>> /\ at \in Conns /\ Sendable(at) /\ GetTxData(at)
      /\ conn[at] = "open"
      /\ current' = [current EXCEPT ![at] = TxData(at)]
      /\ current \in [Conns -> Messages \cup {NoMessage}]
  BY DEF SendAgain, client, TypeOK
<1>2. Over(c)' = Over(c)
  BY <1>1 DEF Over
<1>3. CASE c # at
  <2>1. txList'[c] = txList[c] /\ current'[c] = current[c]
    BY <1>1, <1>3, TakeTypes
  <2> QED
    BY <1>1, <1>2, <2>1, SameQueue
<1>4. CASE c = at /\ current[c] # NoMessage
  <2>1. txList'[c] = txList[c] /\ current'[c] = current[c]
    BY <1>1, <1>4, TakeTypes, TakenMessage
  <2> QED
    BY <1>1, <1>2, <2>1, SameQueue
<1>5. CASE c = at /\ current[c] = NoMessage
  <2>1. txList[c] \in Seq(Messages) /\ TxData(c) \in Messages /\ TxData(c) # NoMessage
    BY <1>1, <1>5, TakenMessage DEF TypeOK, Messages, NoMessage
  <2>2. txList[c] # <<>> /\ TxData(c) = Head(txList[c]) /\ txList'[c] = Tail(txList[c])
    BY <1>1, <1>5, TakeTypes DEF Sendable, TxData
  <2>3. Waiting(c) = <<>> \o txList[c] /\ <<>> \o txList[c] = txList[c]
    BY <1>1, <1>5, <2>1, ConcatEmptySeq DEF Waiting
  <2>4. current'[c] = TxData(c) /\ Waiting(c)' = <<TxData(c)>> \o txList'[c]
    BY <1>1, <1>5, <2>1 DEF Waiting
  <2>5. Waiting(c)' = Waiting(c)
    BY <2>1, <2>2, <2>3, <2>4, HeadAndTail
  <2>6. Waiting(c) = Waiting(c) \o <<>> /\ <<>> \in Seq(Messages)
    BY WaitingType, ConcatEmptySeq
  <2>7. ~Over(c)
    BY <1>1, <1>5 DEF Over
  <2> QED
    BY <1>1, <1>2, <2>5, <2>6, <2>7 DEF ChannelStep
<1> QED
  BY <1>3, <1>4, <1>5

\* processData() puts its answers behind what waits.
LEMMA DataChannel ==
    ASSUME IInv, TypeOK', ProcessData, NEW c \in Conns
    PROVE  ChannelStep(c)
<1>1. /\ UNCHANGED <<conn, got, current>> /\ at \in Conns
      /\ protocol[at] = "http" => txList[at] = <<>>
      /\ Switch \/ Refuse \/ Frame
      /\ txList \in [Conns -> Seq(Messages)] /\ TypeOK
  BY ProcessDataEffect DEF Quiet, client, TypeOK, IInv
<1>2. CASE Frame
  BY <1>1, <1>2, ExtendsChannel DEF Frame
<1>3. CASE Switch \/ Refuse
  <2>1. PICK s \in Seq(Messages) : txList' = [txList EXCEPT ![at] = s]
    <3>1. <<"404">> \in Seq(Messages)
      BY DEF Messages
    <3> QED
      BY <1>3, <3>1 DEF Switch, Refuse
  <2>2. CASE c # at
    <3>1. txList'[c] = txList[c]
      BY <1>1, <2>1, <2>2
    <3> QED
      BY <1>1, <3>1, SameQueue DEF Over
  <2>3. CASE c = at
    <3>1. txList[c] = <<>> /\ txList'[c] = s
      BY <1>1, <1>3, <2>1, <2>3 DEF Switch, Refuse
    <3>2. txList'[c] = txList[c] \o s
      BY <3>1, ConcatEmptySeq
    <3> QED
      BY <1>1, <3>2, LongerQueue
  <2> QED
    BY <2>2, <2>3
<1> QED
  BY <1>1, <1>2, <1>3

\* Every step is a step of each connection as a channel.
LEMMA NextChannel ==
    ASSUME IInv, IInv', [Next]_vars, NEW c \in Conns
    PROVE  ChannelStep(c)
<1>0. TypeOK /\ TypeOK'
  BY DEF IInv
<1> DEFINE Still == UNCHANGED <<got, txList, current>> /\ (Over(c) => Over(c)')
<1> USE DEF client, server, object
<1>1. CASE ProcessData
  BY <1>0, <1>1, DataChannel
<1>2. CASE SendMessage
  BY <1>0, <1>2, MessageChannel
<1>3. CASE SendAgain
  BY <1>0, <1>3, AgainChannel
<1>4. CASE ForeignSend
  <2>1. Extends(NoConn) /\ UNCHANGED <<got, current, conn>>
    BY <1>0, <1>4, SendTextEffect DEF ForeignSend
  <2> QED
    BY <1>0, <2>1, ExtendsChannel
<1>5. conn \in [Conns -> {"none", "backlog", "open", "hungup", "reset", "closed"}]
  BY <1>0 DEF TypeOK
<1>6. ASSUME NEW d \in Conns, WatchdogExpired(d) \/ Connect(d) \/ HangUp(d) PROVE Still
  BY <1>5, <1>6 DEF WatchdogExpired, Connect, HangUp, Over
<1>7. ASSUME AcceptError \/ ReceiveError \/ SendError \/ Destroy PROVE Still
  BY <1>5, <1>7 DEF AcceptError, ReceiveError, SendError, Destroy, Abort, Over
<1>8. ASSUME ProcessAccept \/ CloseSocket PROVE Still
  BY <1>5, <1>8 DEF ProcessAccept, AcceptedNow, Backlog, CloseSocket, Over
<1>9. ASSUME UNCHANGED <<conn, got, txList, current>> PROVE Still
  BY <1>9 DEF Over
<1>10. \/ ProcessData \/ SendMessage \/ SendAgain \/ ForeignSend
       \/ \E d \in Conns : WatchdogExpired(d) \/ Connect(d) \/ HangUp(d)
       \/ AcceptError \/ ReceiveError \/ SendError \/ Destroy \/ ProcessAccept \/ CloseSocket
       \/ UNCHANGED <<conn, got, txList, current>>
  BY DEF Next, Work, Wait, EndEvents, ReadEvent, Receive, ReceiveAgain,
         ReceiveGone, BackToEvents, ReceiveMore, WatchdogQuiet,
         SendTo, SendDone, Return, Tick, ClientReads, ClientSends, vars
<1>11. Still => ChannelStep(c)
  BY <1>0, SameQueue
<1> QED
  BY <1>1, <1>2, <1>3, <1>4, <1>6, <1>7, <1>8, <1>9, <1>10, <1>11

\* The channel's prefix relation is the one of the sequences.
LEMMA SamePrefix ==
    \A s, t : Connection!IsPrefix(s, t) <=> IsPrefix(s, t)
BY DEF Connection!IsPrefix, IsPrefix

\* The channel's steps, with the queue and the end of a connection put in.
LEMMA CarryIs ==
    ASSUME NEW c \in Conns,
           ~Over(c), ~Over(c)',
           IsPrefix(got[c], got'[c]),
           IsPrefix(got[c] \o Waiting(c), got'[c] \o Waiting(c)')
    PROVE  Connection!Carry(c)
<1>1. ~[d \in Conns |-> conn[d] \in {"hungup", "reset", "closed"}][c]
  BY Zenon DEF Over
<1>2. ~([d \in Conns |-> conn[d] \in {"hungup", "reset", "closed"}]')[c]
  BY Zenon DEF Over
<1>3. [d \in Conns |-> Waiting(d)][c] = Waiting(c)
  BY Zenon
<1>4. ([d \in Conns |-> Waiting(d)]')[c] = Waiting(c)'
  BY Zenon
<1>5. Connection!IsPrefix(got[c], got'[c])
  BY SamePrefix
<1>6. Connection!IsPrefix(got[c] \o Waiting(c), got'[c] \o Waiting(c)')
  BY SamePrefix
<1>7. Connection!IsPrefix(got[c] \o [d \in Conns |-> Waiting(d)][c],
                          got'[c] \o ([d \in Conns |-> Waiting(d)]')[c])
  BY <1>3, <1>4, <1>6, Zenon
<1> QED
  BY <1>1, <1>2, <1>5, <1>7, Zenon DEF Connection!Carry

\* The same of the step that ends the connection.
LEMMA EndIs ==
    ASSUME NEW c \in Conns,
           ~Over(c), Over(c)', Waiting(c)' = <<>>,
           IsPrefix(got[c], got'[c]),
           IsPrefix(got'[c], got[c] \o Waiting(c))
    PROVE  Connection!End(c)
<1>1. ~[d \in Conns |-> conn[d] \in {"hungup", "reset", "closed"}][c]
  BY Zenon DEF Over
<1>2. ([d \in Conns |-> conn[d] \in {"hungup", "reset", "closed"}]')[c]
  BY Zenon DEF Over
<1>3. [d \in Conns |-> Waiting(d)][c] = Waiting(c)
  BY Zenon
<1>4. ([d \in Conns |-> Waiting(d)]')[c] = <<>>
  BY Zenon
<1>5. Connection!IsPrefix(got[c], got'[c])
  BY SamePrefix
<1>6. Connection!IsPrefix(got'[c], got[c] \o Waiting(c))
  BY SamePrefix
<1>7. Connection!IsPrefix(got'[c], got[c] \o [d \in Conns |-> Waiting(d)][c])
  BY <1>3, <1>6, Zenon
<1> QED
  BY <1>1, <1>2, <1>4, <1>5, <1>7, Zenon DEF Connection!End

\* What a connection does as a channel is what a channel may do.
LEMMA StepRefines ==
    ASSUME TypeOK, TypeOK', NEW c \in Conns, ChannelStep(c)
    PROVE  Connection!Carry(c) \/ Connection!End(c) \/ Connection!Ended(c)
<1> DEFINE q == [d \in Conns |-> Waiting(d)]
           over == [d \in Conns |-> conn[d] \in {"hungup", "reset", "closed"}]
<1>1. /\ q[c] = Waiting(c) /\ (q')[c] = Waiting(c)'
      /\ (over[c] <=> Over(c)) /\ ((over')[c] <=> Over(c)')
  BY DEF Over
<1>2. /\ Waiting(c) \in Seq(Messages) /\ got[c] \in Seq(Messages)
      /\ Waiting(c)' \in Seq(Messages) /\ got'[c] \in Seq(Messages)
      /\ (Over(c) => Waiting(c) = <<>>) /\ (Over(c)' => Waiting(c)' = <<>>)
  <2>1. Waiting(c) \in Seq(Messages) /\ (Over(c) => Waiting(c) = <<>>)
    BY WaitingType
  <2>2. Waiting(c)' \in Seq(Messages) /\ (Over(c)' => Waiting(c)' = <<>>)
    <3>1. (Over(c) => Waiting(c) = <<>>)'
      BY DEF Over, Waiting
    <3>2. Waiting(c)' \in Seq(Messages)
      <4>1. txList'[c] \in Seq(Messages) /\ current'[c] \in Messages \cup {NoMessage}
        BY DEF TypeOK
      <4>2. current'[c] # NoMessage => <<current'[c]>> \in Seq(Messages)
        BY <4>1
      <4> QED
        BY <4>1, <4>2, EmptySeq, ConcatProperties DEF Waiting
    <3> QED
      BY <3>1, <3>2
  <2> QED
    BY <2>1, <2>2 DEF TypeOK
<1>3. /\ IsPrefix(got[c], got[c])
      /\ IsPrefix(got[c], got[c] \o Waiting(c))
      /\ got[c] \o Waiting(c) \in Seq(Messages)
  <2>1. got[c] \o <<>> = got[c]
    BY <1>2, ConcatEmptySeq
  <2> QED
    BY <1>2, <2>1, BeginsWith, EmptySeq
<1>4. CASE /\ ~Over(c) /\ ~Over(c)' /\ UNCHANGED got[c]
           /\ \E more \in Seq(Messages) : Waiting(c)' = Waiting(c) \o more
  <2>1. PICK more \in Seq(Messages) : Waiting(c)' = Waiting(c) \o more
    BY <1>4
  <2>2. got'[c] \o Waiting(c)' = (got[c] \o Waiting(c)) \o more
    <3> DEFINE g == got[c]
               w == Waiting(c)
    <3>1. g \in Seq(Messages) /\ w \in Seq(Messages)
      BY <1>2
    <3>2. Waiting(c)' = w \o more /\ got'[c] = g
      BY <1>4, <2>1
    <3> HIDE DEF g, w
    <3>3. g \o (w \o more) = (g \o w) \o more
      BY <3>1, ConcatAssociative, SMTT(20)
    <3> QED
      BY <3>2, <3>3 DEF g, w
  <2>3. IsPrefix(got[c] \o Waiting(c), got'[c] \o Waiting(c)')
    BY <1>3, <2>2, BeginsWith
  <2>4. IsPrefix(got[c], got'[c])
    BY <1>3, <1>4
  <2> QED
    BY <1>1, <1>4, <2>3, <2>4, CarryIs
<1>5. CASE /\ ~Over(c) /\ ~Over(c)'
           /\ \E m \in Messages : /\ got'[c] = Append(got[c], m)
                                  /\ Waiting(c) = <<m>> \o Waiting(c)'
  <2>1. PICK m \in Messages : got'[c] = Append(got[c], m) /\ Waiting(c) = <<m>> \o Waiting(c)'
    BY <1>5
  <2>2. got'[c] = got[c] \o <<m>> /\ <<m>> \in Seq(Messages)
    BY <1>2, <2>1, AppendIsConcat
  <2>3. got'[c] \o Waiting(c)' = got[c] \o Waiting(c)
    <3> DEFINE g == got[c]
               w == Waiting(c)'
               one == <<m>>
    <3>1. g \in Seq(Messages) /\ w \in Seq(Messages) /\ one \in Seq(Messages)
      BY <1>2, <2>2
    <3>2. Waiting(c) = one \o w /\ got'[c] = g \o one
      BY <2>1, <2>2
    <3> HIDE DEF g, w, one
    <3>3. (g \o one) \o w = g \o (one \o w)
      BY <3>1, ConcatAssociative
    <3> QED
      BY <3>2, <3>3 DEF g, w
  <2>4. IsPrefix(got[c], got'[c])
    BY <1>2, <2>2, BeginsWith
  <2>5. IsPrefix(got[c] \o Waiting(c), got'[c] \o Waiting(c)')
    <3>1. (got[c] \o Waiting(c)) \o <<>> = got[c] \o Waiting(c)
      BY <1>3, ConcatEmptySeq
    <3>2. IsPrefix(got[c] \o Waiting(c), (got[c] \o Waiting(c)) \o <<>>)
      BY <1>3, BeginsWith, EmptySeq
    <3> QED
      BY <2>3, <3>1, <3>2
  <2> QED
    BY <1>1, <1>5, <2>4, <2>5, CarryIs
<1>6. CASE ~Over(c) /\ Over(c)' /\ UNCHANGED got[c]
  BY <1>1, <1>2, <1>3, <1>6, EndIs
<1>7. CASE Over(c) /\ Over(c)' /\ UNCHANGED got[c]
  BY <1>1, <1>2, <1>7 DEF Connection!Ended
<1> QED
  BY <1>4, <1>5, <1>6, <1>7 DEF ChannelStep

\* Without a message each connection is an empty channel.
LEMMA InitRefines == Init => Connection!Init
<1> SUFFICES ASSUME Init PROVE Connection!Init
  OBVIOUS
<1>1. <<>> \o <<>> = <<>>
  BY EmptySeq, ConcatEmptySeq
<1>2. \A c \in Conns : Waiting(c) = <<>> /\ ~(conn[c] \in {"hungup", "reset", "closed"})
  BY <1>1 DEF Init, Waiting
<1>3. [c \in Conns |-> Waiting(c)] = [c \in Conns |-> <<>>]
  BY <1>2
<1>4. [c \in Conns |-> conn[c] \in {"hungup", "reset", "closed"}] = [c \in Conns |-> FALSE]
  <2>1. \A c \in Conns : (conn[c] \in {"hungup", "reset", "closed"}) = FALSE
    BY <1>2
  <2> QED
    BY <2>1, Zenon
<1>5. got = [c \in Conns |-> <<>>]
  BY DEF Init
<1> QED
  BY <1>3, <1>4, <1>5 DEF Connection!Init

\* Each connection is a channel: a client is sent what was queued for it, in that
\* order and once, for queues and sockets of any size.
THEOREM ServerIsChannel == Spec => ImplementsChannel
<1>1. IInv /\ IInv' /\ [Next]_vars => Connection!Next
  <2> SUFFICES ASSUME IInv, IInv', [Next]_vars PROVE Connection!Next
    OBVIOUS
  <2>1. TypeOK /\ TypeOK'
    BY DEF IInv
  <2>2. \A c \in Conns : Connection!Carry(c) \/ Connection!End(c) \/ Connection!Ended(c)
    BY <2>1, NextChannel, StepRefines
  <2> QED
    BY <2>2 DEF Connection!Next
<1>2. Spec => []IInv
  BY Invariance, PTL
<1> QED
  BY <1>1, <1>2, InitRefines, PTL DEF Spec, ImplementsChannel, Connection!Spec
=============================================================================
