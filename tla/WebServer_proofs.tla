--------------------------- MODULE WebServer_proofs ---------------------------
(***************************************************************************)
(* Safety of the web server, for every set of connections, addresses and   *)
(* requests, and responses of any length.                                  *)
(***************************************************************************)
EXTENDS WebServer, SequenceTheorems, WellFoundedInduction, TLAPS

FullChunk == {chunk \in Chunk : ~IsEmpty(chunk)}

-----------------------------------------------------------------------------
(* Types                                                                   *)

\* A request that has a connection, and one that is with the listener, whose
\* callback has the address the connection had.
RequestInv ==
    \A r \in Requests :
        /\ asker[r] # NoConn => life[asker[r]] # "new"
        /\ job[r] # "none" => asker[r] # NoConn /\ jobAddr[r] = at[asker[r]]

\* A connection has the address of its TcpClient from its beginning on, and two
\* that are open have different ones.
AddressInv ==
    /\ \A c \in Conns : IF life[c] = "new" THEN at[c] = NoAddr ELSE at[c] \in Addrs
    /\ \A c, d \in Open : at[c] = at[d] => c = d
    /\ rpc # "done" => clients = {at[c] : c \in Open}

TypeInv == TypeOK /\ RequestInv /\ AddressInv

-----------------------------------------------------------------------------
(* A pass of processSend() over a client                                   *)

\* Every non-empty set of numbers has a least element: Min is what it says.
LEMMA LeastOfSet ==
    ASSUME NEW T, T \subseteq Nat, T # {}
    PROVE  Min(T) \in T /\ \A n \in T : Min(T) <= n
<1> DEFINE Smaller == OpToRel(<, Nat)
<1>1. IsWellFoundedOn(Smaller, Nat)
  BY NatLessThanWellFounded
<1>2. \A m, n \in Nat : m < n => <<m, n>> \in Smaller
  BY DEF OpToRel
<1> HIDE DEF Smaller
<1>3. PICK x \in T : \A y \in T : ~(<<y, x>> \in Smaller)
  BY <1>1, WFMin
<1>4. ASSUME NEW y \in T PROVE x <= y
  <2>1. x \in Nat /\ y \in Nat
    OBVIOUS
  <2>2. ~(y < x)
    BY <1>2, <1>3, <2>1
  <2> QED
    BY <2>1, <2>2
<1> QED
  BY <1>4 DEF Min

\* What is sent is the beginning of txList, up to the first empty buffer.
LEMMA SendableIsPrefix ==
    ASSUME TypeOK, NEW a \in Addrs
    PROVE  /\ Sendable(a) \in Seq(FullChunk)
           /\ Len(Sendable(a)) <= Len(tx[a])
           /\ \A k \in 1 .. Len(Sendable(a)) : Sendable(a)[k] = tx[a][k]
           /\ ~stuck[a] /\ Len(Sendable(a)) < Len(tx[a]) => IsEmpty(tx[a][Len(Sendable(a)) + 1])
<1> DEFINE empties == {k \in DOMAIN tx[a] : IsEmpty(tx[a][k])}
<1>1. /\ tx[a] \in Seq(Chunk) /\ Len(tx[a]) \in Nat /\ DOMAIN tx[a] = 1 .. Len(tx[a])
      /\ \A k \in 1 .. Len(tx[a]) : tx[a][k] \in Chunk
  BY LenProperties DEF TypeOK
<1>2. CASE stuck[a]
  BY <1>1, <1>2, EmptySeq DEF Sendable
<1>3. CASE ~stuck[a] /\ empties = {}
  <2>1. tx[a] \in [1 .. Len(tx[a]) -> FullChunk]
    BY <1>1, <1>3 DEF FullChunk
  <2> QED
    BY <1>1, <1>3, <2>1, SeqDef DEF Sendable
<1>4. CASE ~stuck[a] /\ empties # {}
  <2>1. /\ Min(empties) \in 1 .. Len(tx[a]) /\ IsEmpty(tx[a][Min(empties)])
        /\ \A k \in 1 .. Len(tx[a]) : IsEmpty(tx[a][k]) => Min(empties) <= k
    <3>1. empties \subseteq Nat
      BY <1>1
    <3>2. Min(empties) \in empties /\ \A k \in empties : Min(empties) <= k
      <4> HIDE DEF empties
      <4> QED
        BY <1>4, <3>1, LeastOfSet
    <3> QED
      BY <1>1, <3>2
  <2> DEFINE m == Min(empties)
  <2>2. Sendable(a) = SubSeq(tx[a], 1, m - 1)
    BY <1>4 DEF Sendable
  <2> HIDE DEF m, empties
  <2>3. \A k \in 1 .. m - 1 : tx[a][k] \in FullChunk
    BY <1>1, <2>1 DEF FullChunk, m
  <2>4. /\ SubSeq(tx[a], 1, m - 1) \in Seq(FullChunk)
        /\ Len(SubSeq(tx[a], 1, m - 1)) = m - 1
        /\ \A k \in 1 .. m - 1 : SubSeq(tx[a], 1, m - 1)[k] = tx[a][k]
    BY <2>1, <2>3, SubSeqProperties DEF m
  <2> QED
    BY <1>1, <2>1, <2>2, <2>4 DEF m
<1> QED
  BY <1>2, <1>3, <1>4

\* What a pass leaves in a txList is the rest of it.
Rest(a) == SubSeq(tx[a], Len(Sendable(a)) + 2, Len(tx[a]))

\* What a pass leaves is the end of txList, behind the first empty buffer.
LEMMA RestIsSuffix ==
    ASSUME TypeOK, NEW a \in Addrs
    PROVE  /\ Rest(a) \in Seq(Chunk)
           /\ \A k \in 1 .. Len(Rest(a)) :
                 /\ Rest(a)[k] = tx[a][Len(Sendable(a)) + 1 + k]
                 /\ Len(Sendable(a)) + 1 + k <= Len(tx[a])
           /\ Len(Rest(a)) = IF Len(Sendable(a)) < Len(tx[a])
                             THEN Len(tx[a]) - Len(Sendable(a)) - 1 ELSE 0
<1> DEFINE m == Len(Sendable(a)) + 2
           n == Len(tx[a])
<1>1. /\ tx[a] \in Seq(Chunk) /\ n \in Nat
      /\ \A k \in 1 .. n : tx[a][k] \in Chunk
  BY LenProperties DEF TypeOK
<1>2. m \in Nat /\ m >= 2 /\ m - 2 <= n
  BY <1>1, SendableIsPrefix, LenProperties
<1>3. Rest(a) = SubSeq(tx[a], m, n)
  BY DEF Rest
<1>4. m - 2 = Len(Sendable(a)) /\ n = Len(tx[a])
  BY <1>2, SendableIsPrefix, LenProperties
<1> HIDE DEF m, n
<1>5. \A k \in m .. n : tx[a][k] \in Chunk
  BY <1>1, <1>2
<1>6. /\ SubSeq(tx[a], m, n) \in Seq(Chunk)
      /\ Len(SubSeq(tx[a], m, n)) = IF m <= n THEN n - m + 1 ELSE 0
      /\ \A k \in 1 .. n - m + 1 : SubSeq(tx[a], m, n)[k] = tx[a][m + k - 1]
  BY <1>1, <1>2, <1>5, SubSeqProperties
<1> QED
  BY <1>1, <1>2, <1>3, <1>4, <1>6

-----------------------------------------------------------------------------
(* Addresses                                                               *)

\* What a pass over some clients changes, connection by connection and address
\* by address.
LEMMA PassEffect ==
    ASSUME TypeInv, NEW visited \in SUBSET Open, Pass(visited)
    PROVE  /\ UNCHANGED at
           /\ life' \in [Conns -> {"new", "open", "closed"}]
           /\ \A c \in Conns : life'[c] = IF c \in visited \cap failed THEN "closed" ELSE life[c]
           /\ failed' = failed \ visited
           /\ clients' = clients \ {at[c] : c \in visited \cap failed}
           /\ \A c \in Conns : got'[c] = IF c \in visited THEN got[c] \o Sendable(at[c])
                                         ELSE got[c]
           /\ \A a \in Addrs : \/ tx'[a] = <<>>
                               \/ tx'[a] = tx[a] /\ \A c \in visited : at[c] = a => stuck[a]
                               \/ tx'[a] = Rest(a) /\ ~stuck[a]
                                  /\ \E c \in visited \ failed : at[c] = a
           /\ \A c \in visited \cap failed : tx'[at[c]] = <<>>
<1>1. \A c \in visited : c \in Conns /\ at[c] \in Addrs
  BY DEF TypeInv, AddressInv, Open
<1>2. life \in [Conns -> {"new", "open", "closed"}]
  BY DEF TypeInv, TypeOK
<1>3. \A a \in Addrs :
         tx'[a] = IF a \in {at[c] : c \in visited \cap failed} THEN <<>>
                  ELSE IF stuck[a] \/ a \notin {at[c] : c \in visited} THEN tx[a]
                  ELSE Rest(a)
  BY DEF Pass, Rest
<1>4. life' = [c \in Conns |-> IF c \in visited \cap failed THEN "closed" ELSE life[c]]
  BY DEF Pass
<1>5. /\ UNCHANGED at /\ failed' = failed \ visited
      /\ clients' = clients \ {at[c] : c \in visited \cap failed}
  BY DEF Pass
<1>6. \A c \in Conns : got'[c] = IF c \in visited THEN got[c] \o Sendable(at[c]) ELSE got[c]
  BY DEF Pass
<1> QED
  BY <1>1, <1>2, <1>3, <1>4, <1>5, <1>6

\* A pass over the clients keeps the types of what it changes.
LEMMA PassTypes ==
    ASSUME TypeInv, NEW visited \in SUBSET Open, Pass(visited)
    PROVE  /\ tx' \in [Addrs -> Seq(Chunk)]
           /\ stuck' \in [Addrs -> BOOLEAN]
           /\ got' \in [Conns -> Seq(FullChunk)]
<1>1. \A a \in Addrs : tx'[a] = <<>> \/ tx'[a] = tx[a] \/ tx'[a] = Rest(a)
  BY PassEffect
<1>2. \A a \in Addrs : tx'[a] \in Seq(Chunk)
  BY <1>1, RestIsSuffix, EmptySeq, ZenonT(40) DEF TypeInv, TypeOK
<1>3. \A c \in Conns : got'[c] \in Seq(FullChunk)
  <2> SUFFICES ASSUME NEW c \in Conns PROVE got'[c] \in Seq(FullChunk)
    OBVIOUS
  <2>1. got[c] \in Seq(FullChunk)
    BY DEF TypeInv, TypeOK, FullChunk
  <2>2. c \in visited => Sendable(at[c]) \in Seq(FullChunk)
    BY SendableIsPrefix DEF TypeInv, AddressInv, Open
  <2>3. got'[c] = IF c \in visited THEN got[c] \o Sendable(at[c]) ELSE got[c]
    BY PassEffect
  <2> QED
    BY <2>1, <2>2, <2>3, ConcatProperties
<1>4. stuck' \in [Addrs -> BOOLEAN]
  BY DEF Pass
<1>5. tx' = [a \in Addrs |-> tx'[a]] /\ got' = [c \in Conns |-> got'[c]]
  BY DEF Pass
<1> QED
  BY <1>2, <1>3, <1>4, <1>5

\* A response is chunks of the request it answers.
LEMMA ChunksAreChunks ==
    ASSUME NEW r \in Requests
    PROVE  /\ Chunks(r) \in Seq(Chunk)
           /\ Len(Chunks(r)) = Pieces + 1
           /\ \A k \in 1 .. Pieces + 1 :
                 Chunks(r)[k] = Piece(r, IF k > Pieces THEN 0 ELSE k)
<1>1. Chunks(r) \in [1 .. Pieces + 1 -> Chunk]
  BY BoundsAssumption DEF Chunks, Piece, Chunk
<1> QED
  BY <1>1, BoundsAssumption, SeqDef DEF Chunks

\* Queueing a response on a client.
LEMMA SendTypes ==
    ASSUME TypeOK, NEW a \in Addrs, NEW r \in Requests, SendResponse(a, r)
    PROVE  /\ tx' \in [Addrs -> Seq(Chunk)]
           /\ tx' = [tx EXCEPT ![a] = tx[a] \o Chunks(r)]
           /\ woken' = TRUE
<1>1. tx[a] \o Chunks(r) \in Seq(Chunk)
  BY ChunksAreChunks, ConcatProperties DEF TypeOK
<1> QED
  BY <1>1 DEF SendResponse, TypeOK

\* The address of the client a callback captured, and of a connection that is open.
LEMMA Captured ==
    ASSUME TypeInv
    PROVE  /\ \A r \in Requests : job[r] # "none" => jobAddr[r] \in Addrs
           /\ \A c \in Open : at[c] \in Addrs
BY NoneAssumption DEF TypeInv, TypeOK, RequestInv, AddressInv, Open

\* Filling a response in mAsyncResponses leaves it where it is, and for whom it is.
LEMMA FilledResponse ==
    ASSUME NEW entry \in Response
    PROVE  LET filled == [entry EXCEPT !.filled = TRUE]
           IN  filled \in Response /\ filled.addr = entry.addr /\ filled.req = entry.req
BY DEF Response

\* Filling in a response leaves mAsyncResponses as long as it was, each for the same client.
LEMMA FilledQueue ==
    ASSUME TypeOK, NEW r \in Requests, CallBackFill(r)
    PROVE  /\ queue' \in Seq(Response)
           /\ Len(queue') = Len(queue)
           /\ \A k \in 1 .. Len(queue) :
                  queue'[k].addr = queue[k].addr /\ queue'[k].req = queue[k].req
<1> DEFINE F(entry) == [entry EXCEPT !.filled = TRUE]
           q == [k \in DOMAIN queue |-> IF queue[k].req = r THEN F(queue[k]) ELSE queue[k]]
<1>1. queue' = q
  BY DEF CallBackFill
<1>2. \A entry \in Response :
         F(entry) \in Response /\ F(entry).addr = entry.addr /\ F(entry).req = entry.req
  BY FilledResponse
<1> HIDE DEF F
<1>3. /\ Len(queue) \in Nat /\ DOMAIN queue = 1 .. Len(queue)
      /\ \A k \in 1 .. Len(queue) : queue[k] \in Response
  BY LenProperties DEF TypeOK
<1>4. q \in [1 .. Len(queue) -> Response]
  BY <1>2, <1>3
<1>5. q \in Seq(Response) /\ Len(q) = Len(queue)
  BY <1>3, <1>4, SeqDef
<1>6. \A k \in 1 .. Len(queue) : q[k].addr = queue[k].addr /\ q[k].req = queue[k].req
  BY <1>2, <1>3
<1> HIDE DEF q
<1> QED
  BY <1>1, <1>5, <1>6

\* The types of a server that nobody has connected to.
LEMMA InitTypeInv == Init => TypeInv
<1> SUFFICES ASSUME Init PROVE TypeInv
  OBVIOUS
<1>1. <<>> \in Seq(Chunk) /\ <<>> \in Seq(FullChunk) /\ <<>> \in Seq(Response)
  OBVIOUS
<1>2. stuck \in [Addrs -> BOOLEAN] /\ woken \in BOOLEAN /\ stopping \in BOOLEAN
  BY DEF Init
<1> QED
  BY <1>1, <1>2, NoneAssumption
  DEF Init, TypeInv, TypeOK, RequestInv, AddressInv, Open, FullChunk

\* Every step keeps the types.
LEMMA NextTypeOK == TypeInv /\ [Next]_vars => TypeOK'
<1> SUFFICES ASSUME TypeInv, [Next]_vars PROVE TypeOK'
  OBVIOUS
<1> USE DEF reactor, connection, request, output
<1>0. TypeOK
  BY DEF TypeInv
<1>1. ASSUME NEW c \in Conns, NEW a \in Addrs, Connect(c, a) PROVE TypeOK'
  BY <1>0, <1>1 DEF Connect, TypeOK, Open
<1>2. ASSUME NEW c \in Conns, Disconnect(c) PROVE TypeOK'
  BY <1>0, <1>2, EmptySeq DEF Disconnect, TypeOK, Open
<1>3. ASSUME NEW c \in Conns, NEW r \in Requests, FramingError(c, r) \/ Message(c, r)
      PROVE TypeOK'
  <2>1. at[c] \in Addrs /\ c \in Open
    BY <1>3, Captured DEF FramingError, Message, Receive, Open
  <2>2. \/ SendResponse(at[c], r) /\ UNCHANGED <<job, jobAddr>>
        \/ /\ UNCHANGED <<woken, tx>>
           /\ job' = [job EXCEPT ![r] = "working"] /\ jobAddr' = [jobAddr EXCEPT ![r] = at[c]]
    BY <1>3 DEF FramingError, Message
  <2>3. tx' \in [Addrs -> Seq(Chunk)] /\ woken' \in BOOLEAN
    BY <1>0, <2>1, <2>2, SendTypes DEF TypeOK
  <2>4. /\ job' \in [Requests -> {"none", "working", "fill", "notify", "done", "lost"}]
        /\ jobAddr' \in [Requests -> Addrs \cup {NoAddr}]
    BY <1>0, <2>1, <2>2 DEF TypeOK
  <2>5. /\ UNCHANGED <<stopping, life, at, clients, queue, stuck, got>>
        /\ rpc' = "events" /\ asker' = [asker EXCEPT ![r] = c]
        /\ failed' = failed \/ failed' = failed \cup {c}
    BY <1>3 DEF FramingError, Message, Receive
  <2> QED
    BY <1>0, <2>1, <2>3, <2>4, <2>5 DEF TypeOK, Open
<1>4. CASE WakeUp \/ EndEvents \/ EndAsync \/ ProcessSendStopping \/ Stop
  BY <1>0, <1>4 DEF WakeUp, EndEvents, EndAsync, ProcessSendStopping, Stop, TypeOK, Open
<1>5. CASE Deliver
  <2> DEFINE entry == Head(queue)
  <2>1. entry \in Response /\ Tail(queue) \in Seq(Response)
    BY <1>0, <1>5, HeadTailProperties DEF Deliver, HasFilled, TypeOK
  <2>2. SendResponse(entry.addr, entry.req) \/ UNCHANGED <<woken, tx>>
    BY <1>5 DEF Deliver
  <2>3. tx' \in [Addrs -> Seq(Chunk)] /\ woken' \in BOOLEAN
    BY <1>0, <2>1, <2>2, SendTypes DEF TypeOK, Response
  <2>4. queue' = Tail(queue) /\ UNCHANGED <<rpc, stopping, connection, request, stuck, got>>
    BY <1>5 DEF Deliver
  <2> QED
    BY <1>0, <2>1, <2>3, <2>4 DEF TypeOK, Open
<1>6. CASE ProcessSend \/ ProcessSendFailed
  <2>1. PICK visited \in SUBSET Open : Pass(visited)
    BY <1>6 DEF ProcessSend, ProcessSendFailed
  <2>2. rpc' \in {"sleep", "crashed"} /\ UNCHANGED <<woken, stopping, request, queue>>
    BY <1>6 DEF ProcessSend, ProcessSendFailed
  <2>3. /\ tx' \in [Addrs -> Seq(Chunk)] /\ stuck' \in [Addrs -> BOOLEAN]
        /\ got' \in [Conns -> Seq(FullChunk)]
    BY <2>1, PassTypes
  <2>4. /\ UNCHANGED at /\ life' \in [Conns -> {"new", "open", "closed"}]
        /\ clients' \subseteq clients /\ failed' \subseteq Open'
    <3>1. /\ UNCHANGED at /\ life' \in [Conns -> {"new", "open", "closed"}]
          /\ \A c \in Conns : life'[c] = IF c \in visited \cap failed THEN "closed" ELSE life[c]
          /\ failed' = failed \ visited
          /\ clients' = clients \ {at[c] : c \in visited \cap failed}
      BY <2>1, PassEffect
    <3> QED
      BY <1>0, <3>1 DEF TypeOK, Open
  <2> QED
    BY <1>0, <2>2, <2>3, <2>4 DEF TypeOK, FullChunk
<1>7. CASE Exit
  BY <1>0, <1>7, EmptySeq DEF Exit, TypeOK, Open
<1>8. ASSUME NEW r \in Requests, CallBack(r) PROVE TypeOK'
  <2>1. [addr |-> jobAddr[r], req |-> r, filled |-> FALSE] \in Response
    BY <1>8, Captured DEF CallBack, Response
  <2>2. queue' \in Seq(Response)
    BY <1>0, <1>8, <2>1, AppendProperties DEF CallBack, TypeOK
  <2> QED
    BY <1>0, <1>8, <2>2 DEF CallBack, SetJob, TypeOK, Open
<1>9. ASSUME NEW r \in Requests, CallBackFill(r) PROVE TypeOK'
  <2>1. queue' \in Seq(Response)
    BY <1>0, <1>9, FilledQueue
  <2>2. job' = [job EXCEPT ![r] = "notify"] /\ UNCHANGED <<reactor, connection, asker, jobAddr, output>>
    BY <1>9 DEF CallBackFill, SetJob
  <2> QED
    BY <1>0, <2>1, <2>2 DEF TypeOK, Open
<1>10. ASSUME NEW r \in Requests, CallBackNotify(r) \/ CallBackRefused(r) PROVE TypeOK'
  BY <1>0, <1>10 DEF CallBackNotify, CallBackRefused, SetJob, TypeOK, Open
<1>11. CASE UNCHANGED vars
  BY <1>0, <1>11 DEF vars, TypeOK, Open
<1> QED
  BY <1>1, <1>2, <1>3, <1>4, <1>5, <1>6, <1>7, <1>8, <1>9, <1>10, <1>11
  DEF Next, ReactorStep, JobStep

\* A request is asked by a connection, and its callback keeps the address it had.
LEMMA NextRequestInv == TypeInv /\ [Next]_vars => RequestInv'
<1> SUFFICES ASSUME TypeOK, RequestInv, AddressInv, [Next]_vars PROVE RequestInv'
  BY DEF TypeInv
<1> USE DEF connection, request
\* Connections get an address once and keep it; a request gets its connection once.
<1>1. /\ \A c \in Conns : life[c] # "new" => at'[c] = at[c] /\ life'[c] # "new"
  <2>1. ASSUME NEW c \in Conns, NEW a \in Addrs, Connect(c, a)
        PROVE  \A d \in Conns : life[d] # "new" => at'[d] = at[d] /\ life'[d] # "new"
    BY <2>1 DEF Connect, TypeOK
  <2>2. ASSUME NEW c \in Conns, Disconnect(c)
        PROVE  \A d \in Conns : life[d] # "new" => at'[d] = at[d] /\ life'[d] # "new"
    BY <2>2 DEF Disconnect, TypeOK
  <2>3. ASSUME NEW visited \in SUBSET Open, Pass(visited)
        PROVE  \A d \in Conns : life[d] # "new" => at'[d] = at[d] /\ life'[d] # "new"
    BY <2>3 DEF Pass
  <2>4. CASE Exit
    BY <2>4 DEF Exit
  <2>5. CASE UNCHANGED <<life, at>>
    BY <2>5
  <2>6. \/ \E c \in Conns : Disconnect(c) \/ \E a \in Addrs : Connect(c, a)
        \/ \E visited \in SUBSET Open : Pass(visited)
        \/ Exit
        \/ UNCHANGED <<life, at>>
    BY DEF Next, ReactorStep, JobStep, FramingError, Message, Receive, WakeUp, EndEvents,
           EndAsync, Deliver, ProcessSend, ProcessSendFailed, ProcessSendStopping, Stop,
           CallBack, CallBackFill, CallBackNotify, CallBackRefused, vars
  <2> QED
    BY <2>1, <2>2, <2>3, <2>4, <2>5, <2>6
<1>2. ASSUME NEW c \in Conns, NEW r \in Requests, FramingError(c, r) \/ Message(c, r)
      PROVE  RequestInv'
  <2>1. /\ asker' = [asker EXCEPT ![r] = c] /\ asker[r] = NoConn
        /\ life[c] = "open" /\ UNCHANGED <<life, at>>
        /\ \/ UNCHANGED <<job, jobAddr>>
           \/ /\ job' = [job EXCEPT ![r] = "working"]
              /\ jobAddr' = [jobAddr EXCEPT ![r] = at[c]]
    BY <1>2 DEF FramingError, Message, Receive
  <2> QED
    BY <2>1, NoneAssumption DEF RequestInv, TypeOK
<1>3. ASSUME NEW r \in Requests, JobStep(r) PROVE RequestInv'
  BY <1>3 DEF JobStep, CallBack, CallBackFill, CallBackNotify, CallBackRefused, SetJob,
              RequestInv, TypeOK
<1>4. CASE UNCHANGED request
  BY <1>1, <1>4 DEF RequestInv, TypeOK
<1>5. \/ \E c \in Conns, r \in Requests : FramingError(c, r) \/ Message(c, r)
      \/ \E r \in Requests : JobStep(r)
      \/ UNCHANGED request
  BY DEF Next, ReactorStep, Connect, Disconnect, WakeUp, EndEvents, EndAsync, Deliver,
         ProcessSend, ProcessSendFailed, ProcessSendStopping, Exit, Stop, vars
<1> QED
  BY <1>2, <1>3, <1>4, <1>5

\* Open connections keep different addresses.
LEMMA NextAddressInv == TypeInv /\ [Next]_vars => AddressInv'
<1> SUFFICES ASSUME TypeInv, [Next]_vars PROVE AddressInv'
  OBVIOUS
<1>0. TypeOK /\ AddressInv
  BY DEF TypeInv
<1> USE DEF connection, reactor, Open, AddressInv
<1>1. ASSUME NEW c \in Conns, NEW a \in Addrs, Connect(c, a) PROVE AddressInv'
  BY <1>0, <1>1 DEF Connect, Free, Events, TypeOK
<1>2. ASSUME NEW c \in Conns, Disconnect(c) PROVE AddressInv'
  BY <1>0, <1>2 DEF Disconnect, Events, TypeOK
<1>3. CASE ProcessSend \/ ProcessSendFailed
  <2>1. PICK visited \in SUBSET Open : Pass(visited)
    BY <1>3 DEF ProcessSend, ProcessSendFailed
  <2>2. /\ UNCHANGED at
        /\ \A c \in Conns : life'[c] = IF c \in visited \cap failed THEN "closed" ELSE life[c]
        /\ clients' = clients \ {at[c] : c \in visited \cap failed}
    BY <2>1, PassEffect
  <2>3. rpc # "done"
    BY <1>3 DEF ProcessSend, ProcessSendFailed
  <2>4. Open' = Open \ (visited \cap failed)
    BY <2>1, <2>2
  <2>5. clients' = {at[c] : c \in Open'}
    <3>1. clients = {at[c] : c \in Open}
      BY <1>0, <2>3
    <3>2. \A c \in Open, d \in visited \cap failed : at[c] = at[d] => c = d
      BY <1>0
    <3> HIDE DEF Open, AddressInv
    <3> QED
      BY <2>2, <2>4, <3>1, <3>2
  <2>6. \A c \in Conns : IF life'[c] = "new" THEN at'[c] = NoAddr ELSE at'[c] \in Addrs
    BY <1>0, <2>1, <2>2
  <2>7. \A c, d \in Open' : at'[c] = at'[d] => c = d
    BY <1>0, <2>2, <2>4
  <2> QED
    BY <2>2, <2>5, <2>6, <2>7
<1>4. CASE Exit
  BY <1>0, <1>4 DEF Exit, TypeOK
<1>5. CASE UNCHANGED <<life, at, clients>> /\ (rpc' # "done" => rpc # "done")
  BY <1>0, <1>5
<1>6. \/ \E c \in Conns : Disconnect(c) \/ \E a \in Addrs : Connect(c, a)
      \/ ProcessSend \/ ProcessSendFailed \/ Exit
      \/ UNCHANGED <<life, at, clients>> /\ (rpc' # "done" => rpc # "done")
  BY DEF Next, ReactorStep, JobStep, FramingError, Message, Receive, Events, WakeUp, EndEvents,
         EndAsync, Deliver, ProcessSendStopping, Stop, CallBack, CallBackFill, CallBackNotify,
         CallBackRefused, vars
<1> QED
  BY <1>1, <1>2, <1>3, <1>4, <1>5, <1>6

\* Every step keeps the types and what they rest on.
LEMMA NextTypeInv == TypeInv /\ [Next]_vars => TypeInv'
BY NextTypeOK, NextRequestInv, NextAddressInv DEF TypeInv

\* Every variable keeps its type, whatever clients, listeners and stop() do.
THEOREM TypeCorrect == Spec => []TypeOK
<1>1. TypeInv => TypeOK
  BY DEF TypeInv
<1> QED
  BY <1>1, InitTypeInv, NextTypeInv, PTL DEF Spec

-----------------------------------------------------------------------------
(* What the steps do to the queues of the clients                          *)

\* The steps, those that only move the reactor or wake it up taken together.
LEMMA Steps ==
    ASSUME [Next]_vars
    PROVE  \/ \E c \in Conns : Disconnect(c)
           \/ \E c \in Conns, a \in Addrs : Connect(c, a)
           \/ \E c \in Conns, r \in Requests : Message(c, r) \/ FramingError(c, r)
           \/ Deliver
           \/ \E visited \in SUBSET Open : Pass(visited) /\ UNCHANGED <<request, queue>>
           \/ Exit
           \/ \E r \in Requests : JobStep(r)
           \/ UNCHANGED <<connection, request, queue, output>>
BY DEF Next, ReactorStep, WakeUp, EndEvents, EndAsync, ProcessSend, ProcessSendFailed,
       ProcessSendStopping, Stop, vars

\* What is at a place of two sequences put together.
LEMMA ConcatIndex ==
    ASSUME NEW S, NEW s \in Seq(S), NEW t \in Seq(S)
    PROVE  /\ s \o t \in Seq(S)
           /\ Len(s \o t) = Len(s) + Len(t)
           /\ \A k \in 1 .. Len(s \o t) :
                 IF k <= Len(s) THEN (s \o t)[k] = s[k]
                 ELSE k - Len(s) \in 1 .. Len(t) /\ (s \o t)[k] = t[k - Len(s)]
BY ConcatProperties

\* A response is put behind what waits for the client.
LEMMA SendEffect ==
    ASSUME TypeOK, NEW a \in Addrs, NEW r \in Requests, SendResponse(a, r)
    PROVE  /\ \A b \in Addrs : b # a => tx'[b] = tx[b]
           /\ Len(tx'[a]) = Len(tx[a]) + Pieces + 1
           /\ \A k \in 1 .. Len(tx'[a]) :
                 IF k <= Len(tx[a]) THEN tx'[a][k] = tx[a][k]
                 ELSE LET n == k - Len(tx[a])
                      IN  n \in 1 .. Pieces + 1
                          /\ tx'[a][k] = Piece(r, IF n > Pieces THEN 0 ELSE n)
<1>1. tx \in [Addrs -> Seq(Chunk)] /\ tx[a] \in Seq(Chunk)
  BY DEF TypeOK
<1>2. tx' = [tx EXCEPT ![a] = tx[a] \o Chunks(r)]
  BY SendTypes
<1>3. tx'[a] = tx[a] \o Chunks(r) /\ \A b \in Addrs : b # a => tx'[b] = tx[b]
  BY <1>1, <1>2
<1>4. Chunks(r) \in Seq(Chunk) /\ Len(Chunks(r)) = Pieces + 1
  BY ChunksAreChunks
<1>5. Len(tx'[a]) = Len(tx[a]) + Pieces + 1
  <2>1. Len(tx'[a]) = Len(tx[a]) + Len(Chunks(r))
    BY <1>1, <1>3, <1>4, ConcatIndex, ZenonT(40)
  <2> QED
    BY <1>1, <1>4, <2>1, BoundsAssumption
<1>6. \A k \in 1 .. Len(tx'[a]) :
         IF k <= Len(tx[a]) THEN tx'[a][k] = tx[a][k]
         ELSE /\ k - Len(tx[a]) \in 1 .. Len(Chunks(r))
              /\ tx'[a][k] = Chunks(r)[k - Len(tx[a])]
  BY <1>1, <1>3, <1>4, ConcatIndex
<1>7. \A n \in 1 .. Len(Chunks(r)) :
         n \in 1 .. Pieces + 1 /\ Chunks(r)[n] = Piece(r, IF n > Pieces THEN 0 ELSE n)
  BY ChunksAreChunks
<1> QED
  BY <1>3, <1>5, <1>6, <1>7

\* A message is answered now, or handed to the listener.
LEMMA MessageEffect ==
    ASSUME TypeInv, NEW c \in Conns, NEW r \in Requests, Message(c, r) \/ FramingError(c, r)
    PROVE  /\ c \in Open /\ at[c] \in Addrs
           /\ asker[r] = NoConn /\ asker' = [asker EXCEPT ![r] = c]
           /\ UNCHANGED <<life, at, clients, queue, stuck, got>>
           /\ \/ SendResponse(at[c], r) /\ UNCHANGED <<job, jobAddr>>
              \/ /\ UNCHANGED tx
                 /\ job' = [job EXCEPT ![r] = "working"]
                 /\ jobAddr' = [jobAddr EXCEPT ![r] = at[c]]
BY Captured DEF Message, FramingError, Receive, Open, connection

\* The first response of mAsyncResponses is taken out, and queued on its client
\* if it is there.
LEMMA DeliverEffect ==
    ASSUME TypeInv, Deliver
    PROVE  LET entry == Head(queue)
           IN  /\ entry \in Response /\ entry = queue[1] /\ Len(queue) > 0
               /\ queue' = Tail(queue) /\ Tail(queue) \in Seq(Response)
               /\ Len(Tail(queue)) = Len(queue) - 1
               /\ \A k \in 1 .. Len(Tail(queue)) : Tail(queue)[k] = queue[k + 1]
               /\ UNCHANGED <<connection, request, stuck, got>>
               /\ \/ UNCHANGED tx
                  \/ /\ SendResponse(entry.addr, entry.req)
                     /\ \E c \in Open : at[c] = entry.addr
<1>1. queue \in Seq(Response) /\ queue # <<>> /\ rpc = "async"
  BY DEF TypeInv, TypeOK, Deliver, HasFilled
<1>2. clients = {at[c] : c \in Open}
  BY <1>1 DEF TypeInv, AddressInv
<1>3. /\ Head(queue) \in Response /\ Tail(queue) \in Seq(Response)
      /\ Len(Tail(queue)) = Len(queue) - 1
      /\ \A k \in 1 .. Len(Tail(queue)) : Tail(queue)[k] = queue[k + 1]
  BY <1>1, HeadTailProperties
<1>4. Head(queue) = queue[1] /\ Len(queue) \in Nat /\ Len(queue) > 0
  BY <1>1, EmptySeq
<1>5. /\ queue' = Tail(queue)
      /\ UNCHANGED <<connection, request, stuck, got>>
      /\ \/ UNCHANGED tx
         \/ /\ SendResponse(Head(queue).addr, Head(queue).req)
            /\ Head(queue).addr \in clients
  BY DEF Deliver, Deliverable
<1> QED
  BY <1>2, <1>3, <1>4, <1>5

\* The callback's thread touches mAsyncResponses and nothing of the clients.
LEMMA JobEffect ==
    ASSUME TypeInv, NEW r \in Requests, JobStep(r)
    PROVE  UNCHANGED <<connection, asker, jobAddr, output>>
BY DEF JobStep, CallBack, CallBackFill, CallBackNotify, CallBackRefused

-----------------------------------------------------------------------------
(* Deleted clients                                                         *)

\* Before anything is sent nothing has gone to a deleted client.
LEMMA InitLeftAlone == Init => DeletedClientIsLeftAlone
BY DEF Init, DeletedClientIsLeftAlone

\* No step sends to a client that was deleted.
LEMMA NextLeftAlone ==
    TypeInv /\ DeletedClientIsLeftAlone /\ [Next]_vars => DeletedClientIsLeftAlone'
<1> SUFFICES ASSUME TypeInv, DeletedClientIsLeftAlone, [Next]_vars
             PROVE  DeletedClientIsLeftAlone'
  OBVIOUS
<1>0. TypeOK /\ AddressInv
  BY DEF TypeInv
<1> USE DEF DeletedClientIsLeftAlone, Open, connection, output
<1>1. ASSUME NEW c \in Conns, NEW a \in Addrs, Connect(c, a) PROVE DeletedClientIsLeftAlone'
  BY <1>0, <1>1 DEF Connect, TypeOK
<1>2. ASSUME NEW c \in Conns, Disconnect(c) PROVE DeletedClientIsLeftAlone'
  BY <1>0, <1>2 DEF Disconnect, TypeOK
<1>3. ASSUME NEW c \in Conns, NEW r \in Requests, Message(c, r) \/ FramingError(c, r)
      PROVE  DeletedClientIsLeftAlone'
  <2>1. c \in Open /\ UNCHANGED <<life, at>> /\ at[c] \in Addrs
        /\ (SendResponse(at[c], r) \/ UNCHANGED tx)
    BY <1>3, MessageEffect
  <2>2. \A b \in Addrs : b # at[c] => tx'[b] = tx[b]
    BY <1>0, <2>1, SendEffect
  <2> QED
    BY <2>1, <2>2
<1>4. CASE Deliver
  <2>1. /\ UNCHANGED <<life, at>> /\ Head(queue) \in Response
        /\ \/ UNCHANGED tx
           \/ /\ SendResponse(Head(queue).addr, Head(queue).req)
              /\ \E c \in Open : at[c] = Head(queue).addr
    BY <1>4, DeliverEffect
  <2>2. \/ UNCHANGED tx
        \/ \E c \in Open : \A b \in Addrs : b # at[c] => tx'[b] = tx[b]
    BY <1>0, <2>1, SendEffect DEF Response
  <2> QED
    BY <2>1, <2>2
<1>5. ASSUME NEW visited \in SUBSET Open, Pass(visited) PROVE DeletedClientIsLeftAlone'
  <2>1. /\ UNCHANGED at
        /\ \A c \in Conns : life'[c] = IF c \in visited \cap failed THEN "closed" ELSE life[c]
        /\ \A a \in Addrs : \/ tx'[a] = <<>>
                            \/ tx'[a] = tx[a]
                            \/ \E c \in visited \ failed : at[c] = a
        /\ \A c \in visited \cap failed : tx'[at[c]] = <<>>
    BY <1>5, PassEffect
  <2> QED
    BY <2>1
<1>6. CASE Exit
  BY <1>6 DEF Exit
<1>7. CASE UNCHANGED <<connection, output>>
  BY <1>7
<1> QED
  BY <1>1, <1>2, <1>3, <1>4, <1>5, <1>6, <1>7, Steps, JobEffect

\* No buffer is ever queued on a TcpClient that was freed, for every set of
\* addresses, used again or not.
THEOREM DeletedClientsAreLeftAlone == Spec => []DeletedClientIsLeftAlone
BY InitTypeInv, NextTypeInv, InitLeftAlone, NextLeftAlone, PTL DEF Spec

-----------------------------------------------------------------------------
(* Responses go to those that asked                                        *)

\* What waits in mAsyncResponses: one response of a request at most, for the client
\* its callback captured.
QueueInv ==
    \A k \in 1 .. Len(queue) :
        LET r == queue[k].req
        IN  /\ job[r] \in {"fill", "notify", "done"}
            /\ queue[k].addr = jobAddr[r]
            /\ \A j \in 1 .. Len(queue) : queue[j].req = r => j = k

\* The connection that asked for a chunk.
AskerOf(chunk) == asker[chunk.req]

\* What waits for the client at an address was asked for by the connection that is
\* there, or by one that was.
WaitingInv ==
    \A a \in Addrs : \A k \in 1 .. Len(tx[a]) :
        AskerOf(tx[a][k]) # NoConn /\ at[AskerOf(tx[a][k])] = a

RoutedInv ==
    \A c \in Conns : \A k \in 1 .. Len(got[c]) :
        LET d == AskerOf(got[c][k])
        IN  d # NoConn /\ (d = c \/ (life[d] = "closed" /\ at[d] = at[c]))

RouteInv == QueueInv /\ WaitingInv /\ RoutedInv

\* With no request nothing is on its way.
LEMMA InitRouteInv == Init => RouteInv
<1>1. Len(<<>>) = 0
  OBVIOUS
<1> QED
  BY <1>1 DEF Init, RouteInv, QueueInv, WaitingInv, RoutedInv

\* What waits in mAsyncResponses is responses.
LEMMA EntriesAreResponses ==
    ASSUME TypeOK
    PROVE  \A k \in 1 .. Len(queue) :
              queue[k] \in Response /\ queue[k].req \in Requests /\ queue[k].addr \in Addrs
<1>1. queue \in Seq(Response)
  BY DEF TypeOK
<1>2. \A k \in 1 .. Len(queue) : queue[k] \in Response
  BY <1>1, ElementOfSeq
<1> QED
  BY <1>2 DEF Response

\* A response keeps the address of the connection that asked, through the listener,
\* its thread and mAsyncResponses.
LEMMA NextQueueInv == TypeInv /\ QueueInv /\ [Next]_vars => QueueInv'
<1> SUFFICES ASSUME TypeInv, QueueInv, [Next]_vars PROVE QueueInv'
  OBVIOUS
<1>0. TypeOK /\ RequestInv
  BY DEF TypeInv
<1>1. ASSUME NEW c \in Conns, NEW r \in Requests, Message(c, r) \/ FramingError(c, r)
      PROVE  QueueInv'
  <2>1. job[r] = "none" /\ UNCHANGED queue
    BY <1>0, <1>1, MessageEffect DEF RequestInv
  <2>2. \A q \in Requests : q # r => job'[q] = job[q] /\ jobAddr'[q] = jobAddr[q]
    <3>1. \/ UNCHANGED <<job, jobAddr>>
          \/ job' = [job EXCEPT ![r] = "working"] /\ jobAddr' = [jobAddr EXCEPT ![r] = at[c]]
      BY <1>1, MessageEffect
    <3>2. job = [q \in Requests |-> job[q]] /\ jobAddr = [q \in Requests |-> jobAddr[q]]
      BY <1>0 DEF TypeOK
    <3> QED
      BY <3>1, <3>2
  <2>3. \A k \in 1 .. Len(queue) : queue[k].req \in Requests /\ queue[k].req # r
    BY <1>0, <2>1, EntriesAreResponses DEF QueueInv
  <2> QED
    BY <2>1, <2>2, <2>3 DEF QueueInv
<1>2. CASE Deliver
  <2>1. /\ queue' = Tail(queue) /\ UNCHANGED request /\ Len(Tail(queue)) = Len(queue) - 1
        /\ \A k \in 1 .. Len(Tail(queue)) : Tail(queue)[k] = queue[k + 1]
    BY <1>2, DeliverEffect
  <2>2. queue \in Seq(Response)
    BY <1>0 DEF TypeOK
  <2>3. \A k \in 1 .. Len(queue') : k + 1 \in 1 .. Len(queue) /\ queue'[k] = queue[k + 1]
    BY <2>1, <2>2
  <2> QED
    BY <2>1, <2>3 DEF QueueInv, request
<1>3. ASSUME NEW r \in Requests, CallBack(r) PROVE QueueInv'
  <2> DEFINE entry == [addr |-> jobAddr[r], req |-> r, filled |-> FALSE]
  <2>1. entry \in Response /\ entry.req = r /\ entry.addr = jobAddr[r]
    BY <1>3, Captured DEF CallBack, Response
  <2>2. queue' = Append(queue, entry) /\ UNCHANGED jobAddr
    BY <1>3 DEF CallBack
  <2> HIDE DEF entry
  <2>3. job[r] = "working" /\ job'[r] = "fill" /\ \A q \in Requests : q # r => job'[q] = job[q]
    BY <1>0, <1>3 DEF CallBack, SetJob, TypeOK
  <2>4. \A k \in 1 .. Len(queue) : queue[k].req \in Requests /\ queue[k].req # r
    BY <1>0, <2>3, EntriesAreResponses DEF QueueInv
  <2>5. \A k \in 1 .. Len(queue') : \/ k \in 1 .. Len(queue) /\ queue'[k] = queue[k]
                                    \/ k = Len(queue) + 1 /\ queue'[k] = entry
    BY <1>0, <2>1, <2>2, AppendProperties DEF TypeOK
  <2>6. \A k \in 1 .. Len(queue') : LET q == queue'[k].req
                                    IN  job'[q] \in {"fill", "notify", "done"}
                                        /\ queue'[k].addr = jobAddr'[q]
    BY <2>1, <2>2, <2>3, <2>4, <2>5 DEF QueueInv
  <2>7. \A k, j \in 1 .. Len(queue') : queue'[k].req = queue'[j].req => j = k
    BY <2>1, <2>4, <2>5 DEF QueueInv
  <2> QED
    BY <2>6, <2>7 DEF QueueInv
<1>4. ASSUME NEW r \in Requests, CallBackFill(r) PROVE QueueInv'
  <2>1. /\ Len(queue') = Len(queue)
        /\ \A k \in 1 .. Len(queue) :
               queue'[k].addr = queue[k].addr /\ queue'[k].req = queue[k].req
    BY <1>0, <1>4, FilledQueue
  <2>2. UNCHANGED jobAddr /\ job'[r] = "notify" /\ \A q \in Requests : q # r => job'[q] = job[q]
    BY <1>0, <1>4 DEF CallBackFill, SetJob, TypeOK
  <2>3. \A k \in 1 .. Len(queue) : queue[k].req \in Requests
    BY <1>0, EntriesAreResponses
  <2> QED
    BY <2>1, <2>2, <2>3 DEF QueueInv
<1>5. ASSUME NEW r \in Requests, CallBackNotify(r) \/ CallBackRefused(r) PROVE QueueInv'
  <2>1. \A k \in 1 .. Len(queue) : queue[k].req \in Requests
    BY <1>0, EntriesAreResponses
  <2> QED
    BY <1>0, <1>5, <2>1, SMTT(20) DEF CallBackNotify, CallBackRefused, SetJob, QueueInv, TypeOK
<1>6. CASE UNCHANGED <<request, queue>>
  BY <1>6 DEF QueueInv, request
<1> QED
  BY <1>1, <1>2, <1>3, <1>4, <1>5, <1>6, Steps
  DEF JobStep, Connect, Disconnect, Exit

\* A request is answered by one connection for ever, and a connection keeps its address.
LEMMA NothingIsForgotten ==
    ASSUME TypeInv, [Next]_vars
    PROVE  /\ \A r \in Requests : asker[r] # NoConn => asker'[r] = asker[r]
           /\ \A c \in Conns : life[c] # "new" => at'[c] = at[c] /\ life'[c] # "new"
           /\ \A c \in Conns : life[c] = "closed" => life'[c] = "closed"
<1> DEFINE Kept == /\ \A r \in Requests : asker[r] # NoConn => asker'[r] = asker[r]
                   /\ \A c \in Conns : life[c] # "new" => at'[c] = at[c] /\ life'[c] # "new"
                   /\ \A c \in Conns : life[c] = "closed" => life'[c] = "closed"
<1>0. /\ life \in [Conns -> {"new", "open", "closed"}]
      /\ at \in [Conns -> Addrs \cup {NoAddr}]
      /\ asker \in [Requests -> Conns \cup {NoConn}]
  BY DEF TypeInv, TypeOK
<1> USE DEF connection, request, Open
<1>1. ASSUME NEW c \in Conns, Disconnect(c) PROVE Kept
  BY <1>0, <1>1 DEF Disconnect
<1>2. ASSUME NEW c \in Conns, NEW a \in Addrs, Connect(c, a) PROVE Kept
  BY <1>0, <1>2 DEF Connect
<1>3. ASSUME NEW c \in Conns, NEW r \in Requests, Message(c, r) \/ FramingError(c, r)
      PROVE  Kept
  BY <1>0, <1>3, MessageEffect
<1>4. CASE Deliver
  BY <1>4, DeliverEffect
<1>5. ASSUME NEW visited \in SUBSET Open, Pass(visited), UNCHANGED request PROVE Kept
  <2>1. /\ UNCHANGED at
        /\ \A c \in Conns : life'[c] = IF c \in visited \cap failed THEN "closed" ELSE life[c]
    BY <1>5, PassEffect
  <2> QED
    BY <1>5, <2>1
<1>6. CASE Exit
  BY <1>0, <1>6 DEF Exit
<1>7. ASSUME NEW r \in Requests, JobStep(r) PROVE Kept
  BY <1>7, JobEffect
<1>8. CASE UNCHANGED <<connection, request>>
  BY <1>8
<1> QED
  BY <1>1, <1>2, <1>3, <1>4, <1>5, <1>6, <1>7, <1>8, Steps

\* A response that has been queued on a client: nobody works on it any more and it
\* does not wait in mAsyncResponses.
Answered(r) ==
    /\ asker[r] # NoConn /\ job[r] # "working"
    /\ \A k \in 1 .. Len(queue) : queue[k].req # r

\* What a step adds to the queue of a client is for a connection that has or had its
\* address, and had not been queued before.
NewTo(a, r) ==
    /\ r \in Requests
    /\ ~Answered(r) /\ Answered(r)'
    /\ asker'[r] # NoConn /\ at'[asker'[r]] = a

\* A response that is given at once had not been queued before.
LEMMA MessageIsNew ==
    ASSUME TypeInv, QueueInv, NEW c \in Conns, NEW r \in Requests,
           Message(c, r) \/ FramingError(c, r), SendResponse(at[c], r)
    PROVE  NewTo(at[c], r)
<1>1. /\ asker[r] = NoConn /\ asker \in [Requests -> Conns \cup {NoConn}]
      /\ asker' = [asker EXCEPT ![r] = c] /\ UNCHANGED <<at, queue>>
      /\ c # NoConn
  BY MessageEffect, NoneAssumption DEF TypeInv, TypeOK
<1>2. asker'[r] = c
  BY <1>1
<1>3. job[r] = "none"
  BY <1>1 DEF TypeInv, RequestInv
<1>4. job'[r] # "working"
  <2>1. UNCHANGED job
    <3>1. CASE FramingError(c, r)
      BY <3>1 DEF FramingError
    <3>2. CASE Message(c, r)
      <4>1. CASE UNCHANGED tx
        <5>1. /\ tx[at[c]] \in Seq(Chunk) /\ at[c] \in Addrs /\ Len(tx[at[c]]) \in Nat
          BY <3>2, MessageEffect, LenProperties DEF TypeInv, TypeOK
        <5>2. Len(tx'[at[c]]) = Len(tx[at[c]]) + Pieces + 1
          BY <5>1, SendEffect DEF TypeInv
        <5> QED
          BY <4>1, <5>1, <5>2, BoundsAssumption
      <4>2. CASE UNCHANGED job
        BY <4>2
      <4> QED
        BY <3>2, <4>1, <4>2 DEF Message
    <3> QED
      BY <3>1, <3>2
  <2> QED
    BY <1>3, <2>1
<1>5. \A k \in 1 .. Len(queue) : queue[k].req # r
  BY <1>3 DEF QueueInv
<1> QED
  BY <1>1, <1>2, <1>4, <1>5 DEF NewTo, Answered

\* A response that leaves mAsyncResponses had not been queued before.
LEMMA DeliveryIsNew ==
    ASSUME TypeInv, QueueInv, Deliver, NEW a \in Addrs, NEW r \in Requests,
           Head(queue).addr = a, Head(queue).req = r
    PROVE  NewTo(a, r)
<1>1. /\ Head(queue) \in Response /\ Head(queue) = queue[1] /\ Len(queue) > 0
      /\ queue' = Tail(queue) /\ Len(Tail(queue)) = Len(queue) - 1
      /\ \A k \in 1 .. Len(Tail(queue)) : Tail(queue)[k] = queue[k + 1]
      /\ UNCHANGED <<connection, request>>
  BY DeliverEffect
<1>2. queue \in Seq(Response) /\ Len(queue) \in Nat
  BY LenProperties DEF TypeInv, TypeOK
<1>3. 1 \in 1 .. Len(queue) /\ queue[1].req = r /\ r \in Requests
  BY <1>1, <1>2 DEF Response
<1>4. /\ job[r] \in {"fill", "notify", "done"} /\ Head(queue).addr = jobAddr[r]
      /\ \A j \in 1 .. Len(queue) : queue[j].req = r => j = 1
  BY <1>1, <1>3 DEF QueueInv
<1>5. asker[r] # NoConn /\ jobAddr[r] = at[asker[r]]
  BY <1>3, <1>4 DEF TypeInv, RequestInv
<1>6. \A k \in 1 .. Len(queue') : queue'[k].req # r
  BY <1>1, <1>2, <1>4
<1>7. UNCHANGED <<at, asker, job>>
  BY <1>1 DEF connection, request
<1>8. ~Answered(r)
  BY <1>3 DEF Answered
<1>9. Answered(r)'
  BY <1>4, <1>5, <1>6, <1>7 DEF Answered
<1> QED
  BY <1>3, <1>4, <1>5, <1>7, <1>8, <1>9 DEF NewTo

\* A step leaves the queue of a client as it was, sends a part of it, empties it, or
\* puts one response behind it that was nowhere before.
LEMMA QueueSteps ==
    ASSUME TypeInv, QueueInv, [Next]_vars
    PROVE  \/ UNCHANGED <<tx, got, life, at>>
           \/ \E c \in Conns, a \in Addrs : Connect(c, a) /\ UNCHANGED <<tx, got>>
           \/ \E a \in Addrs, r \in Requests :
                 SendResponse(a, r) /\ NewTo(a, r) /\ UNCHANGED <<got, life, at>>
           \/ \E c \in Open : /\ tx' = [tx EXCEPT ![at[c]] = <<>>] /\ UNCHANGED <<got, at>>
                              /\ life' = [life EXCEPT ![c] = "closed"]
           \/ \E visited \in SUBSET Open : Pass(visited)
           \/ tx' = [a \in Addrs |-> <<>>] /\ UNCHANGED <<got, at>> /\ Open' \subseteq Open
<1> USE DEF connection, output
<1>1. ASSUME NEW c \in Conns, NEW r \in Requests, Message(c, r) \/ FramingError(c, r)
      PROVE  \/ UNCHANGED <<tx, got, life, at>>
             \/ \E a \in Addrs, q \in Requests :
                   SendResponse(a, q) /\ NewTo(a, q) /\ UNCHANGED <<got, life, at>>
  BY <1>1, MessageEffect, MessageIsNew
<1>2. ASSUME Deliver
      PROVE  \/ UNCHANGED <<tx, got, life, at>>
             \/ \E a \in Addrs, q \in Requests :
                   SendResponse(a, q) /\ NewTo(a, q) /\ UNCHANGED <<got, life, at>>
  <2>1. /\ Head(queue) \in Response /\ UNCHANGED <<got, life, at>>
        /\ UNCHANGED tx \/ SendResponse(Head(queue).addr, Head(queue).req)
    BY <1>2, DeliverEffect
  <2>2. PICK a \in Addrs, r \in Requests : Head(queue).addr = a /\ Head(queue).req = r
    BY <2>1 DEF Response
  <2>3. NewTo(a, r)
    BY <1>2, <2>2, DeliveryIsNew
  <2> QED
    BY <2>1, <2>2, <2>3
<1>3. ASSUME NEW c \in Conns, Disconnect(c)
      PROVE  /\ tx' = [tx EXCEPT ![at[c]] = <<>>] /\ UNCHANGED <<got, at>> /\ c \in Open
             /\ life' = [life EXCEPT ![c] = "closed"]
  BY <1>3 DEF Disconnect, Open
<1>4. ASSUME NEW c \in Conns, NEW a \in Addrs, Connect(c, a) PROVE UNCHANGED <<tx, got>>
  BY <1>4 DEF Connect
<1>5. ASSUME Exit
      PROVE  tx' = [a \in Addrs |-> <<>>] /\ UNCHANGED <<got, at>> /\ Open' \subseteq Open
  BY <1>5 DEF Exit, Open
<1> QED
  BY <1>1, <1>2, <1>3, <1>4, <1>5, Steps, JobEffect

\* Where the buffers that wait for a client come from, and those a connection is sent.
LEMMA TxOrigin ==
    ASSUME TypeInv, QueueInv, [Next]_vars, NEW a \in Addrs, NEW k \in 1 .. Len(tx'[a])
    PROVE  \/ \E j \in 1 .. Len(tx[a]) : tx'[a][k] = tx[a][j]
           \/ \E r \in Requests : NewTo(a, r) /\ tx'[a][k].req = r
<1> DEFINE Origin == \/ \E j \in 1 .. Len(tx[a]) : tx'[a][k] = tx[a][j]
                     \/ \E r \in Requests : NewTo(a, r) /\ tx'[a][k].req = r
<1>0. /\ TypeOK /\ tx \in [Addrs -> Seq(Chunk)] /\ tx[a] \in Seq(Chunk)
      /\ Len(<<>>) = 0 /\ AddressInv
  BY DEF TypeInv, TypeOK
<1>1. CASE UNCHANGED tx
  BY <1>1
<1>2. ASSUME NEW b \in Addrs, NEW r \in Requests, SendResponse(b, r), NewTo(b, r)
      PROVE  Origin
  <2>1. /\ \A e \in Addrs : e # b => tx'[e] = tx[e]
        /\ \A i \in 1 .. Len(tx'[b]) :
              IF i <= Len(tx[b]) THEN tx'[b][i] = tx[b][i]
              ELSE LET n == i - Len(tx[b])
                   IN  tx'[b][i] = Piece(r, IF n > Pieces THEN 0 ELSE n)
    BY <1>0, <1>2, SendEffect
  <2>2. CASE a # b
    BY <2>1, <2>2
  <2>3. CASE a = b /\ k <= Len(tx[a])
    BY <1>0, <2>1, <2>3
  <2>4. CASE a = b /\ ~(k <= Len(tx[a]))
    <3>1. \E n : tx'[a][k] = Piece(r, n)
      BY <2>1, <2>4
    <3>2. tx'[a][k].req = r
      BY <3>1 DEF Piece
    <3> QED
      BY <1>2, <2>4, <3>2
  <2> QED
    BY <2>2, <2>3, <2>4
<1>3. ASSUME NEW c \in Open, tx' = [tx EXCEPT ![at[c]] = <<>>] PROVE Origin
  BY <1>0, <1>3
<1>4. ASSUME NEW visited \in SUBSET Open, Pass(visited) PROVE Origin
  <2>1. tx'[a] = <<>> \/ tx'[a] = tx[a] \/ tx'[a] = Rest(a)
    BY <1>4, PassEffect
  <2>2. CASE tx'[a] = Rest(a)
    <3>1. /\ tx'[a][k] = tx[a][Len(Sendable(a)) + 1 + k]
          /\ Len(Sendable(a)) + 1 + k <= Len(tx[a])
      BY <1>0, <2>2, RestIsSuffix
    <3>2. Sendable(a) \in Seq(FullChunk)
      BY <1>0, SendableIsPrefix
    <3> QED
      BY <1>0, <3>1, <3>2
  <2> QED
    BY <1>0, <2>1, <2>2
<1>5. CASE tx' = [b \in Addrs |-> <<>>]
  BY <1>0, <1>5
<1> QED
  BY <1>1, <1>2, <1>3, <1>4, <1>5, QueueSteps

\* Those a connection was sent before, in their places, and those of a pass behind them.
LEMMA PassGot ==
    ASSUME TypeInv, NEW visited \in SUBSET Open, Pass(visited), NEW c \in visited
    PROVE  /\ at[c] \in Addrs /\ Len(Sendable(at[c])) <= Len(tx[at[c]])
           /\ \A k \in 1 .. Len(got'[c]) :
                 IF k <= Len(got[c]) THEN got'[c][k] = got[c][k]
                 ELSE /\ k - Len(got[c]) \in 1 .. Len(Sendable(at[c]))
                      /\ got'[c][k] = tx[at[c]][k - Len(got[c])]
<1>1. at[c] \in Addrs /\ c \in Conns /\ TypeOK
  BY Captured DEF TypeInv, Open
<1>2. got[c] \in Seq(FullChunk)
  BY <1>1 DEF TypeInv, TypeOK, FullChunk
<1>3. /\ Sendable(at[c]) \in Seq(FullChunk)
      /\ Len(Sendable(at[c])) <= Len(tx[at[c]])
      /\ \A k \in 1 .. Len(Sendable(at[c])) : Sendable(at[c])[k] = tx[at[c]][k]
  BY <1>1, SendableIsPrefix
<1>4. got'[c] = got[c] \o Sendable(at[c])
  BY <1>1, PassEffect
<1>5. \A k \in 1 .. Len(got'[c]) :
         IF k <= Len(got[c]) THEN got'[c][k] = got[c][k]
         ELSE /\ k - Len(got[c]) \in 1 .. Len(Sendable(at[c]))
              /\ got'[c][k] = Sendable(at[c])[k - Len(got[c])]
  <2> DEFINE s == got[c]
             t == Sendable(at[c])
  <2>1. s \in Seq(FullChunk) /\ t \in Seq(FullChunk) /\ got'[c] = s \o t
    BY <1>2, <1>3, <1>4
  <2> HIDE DEF s, t
  <2>2. \A k \in 1 .. Len(s \o t) :
           IF k <= Len(s) THEN (s \o t)[k] = s[k]
           ELSE k - Len(s) \in 1 .. Len(t) /\ (s \o t)[k] = t[k - Len(s)]
    BY <2>1, ConcatIndex
  <2> QED
    BY <2>1, <2>2 DEF s, t
<1> QED
  BY <1>1, <1>3, <1>5

\* What a connection is sent waited for it, or was sent before.
LEMMA GotOrigin ==
    ASSUME TypeInv, QueueInv, [Next]_vars, NEW c \in Conns, NEW k \in 1 .. Len(got'[c])
    PROVE  \/ k \in 1 .. Len(got[c]) /\ got'[c][k] = got[c][k]
           \/ /\ c \in Open /\ at[c] \in Addrs
              /\ \E j \in 1 .. Len(tx[at[c]]) : got'[c][k] = tx[at[c]][j]
<1>1. CASE UNCHANGED got
  BY <1>1
<1>2. ASSUME NEW visited \in SUBSET Open, Pass(visited), c \in visited
      PROVE  \/ k \in 1 .. Len(got[c]) /\ got'[c][k] = got[c][k]
             \/ /\ c \in Open /\ at[c] \in Addrs
                /\ \E j \in 1 .. Len(tx[at[c]]) : got'[c][k] = tx[at[c]][j]
  <2>1. /\ at[c] \in Addrs /\ Len(Sendable(at[c])) <= Len(tx[at[c]])
        /\ IF k <= Len(got[c]) THEN got'[c][k] = got[c][k]
           ELSE /\ k - Len(got[c]) \in 1 .. Len(Sendable(at[c]))
                /\ got'[c][k] = tx[at[c]][k - Len(got[c])]
    BY <1>2, PassGot
  <2>2. /\ got[c] \in Seq(FullChunk) /\ tx[at[c]] \in Seq(Chunk)
        /\ Sendable(at[c]) \in Seq(FullChunk)
    BY <2>1, SendableIsPrefix DEF TypeInv, TypeOK, FullChunk
  <2> QED
    BY <1>2, <2>1, <2>2
<1>3. ASSUME NEW visited \in SUBSET Open, Pass(visited), c \notin visited
      PROVE  k \in 1 .. Len(got[c]) /\ got'[c][k] = got[c][k]
  BY <1>3, PassEffect
<1> QED
  BY <1>1, <1>2, <1>3, QueueSteps

\* What has been queued is never worked on again.
LEMMA AnsweredStays ==
    ASSUME TypeInv, QueueInv, [Next]_vars, NEW r \in Requests, Answered(r)
    PROVE  Answered(r)'
<1>0. /\ TypeOK /\ asker'[r] = asker[r] /\ asker[r] # NoConn /\ job[r] # "working"
      /\ \A k \in 1 .. Len(queue) : queue[k].req # r
      /\ queue \in Seq(Response) /\ job \in [Requests -> {"none", "working", "fill", "notify", "done", "lost"}]
  BY NothingIsForgotten DEF Answered, TypeInv, TypeOK
<1> USE DEF Answered
<1>1. ASSUME NEW c \in Conns, NEW q \in Requests, Message(c, q) \/ FramingError(c, q)
      PROVE  Answered(r)'
  <2>1. /\ q # r /\ UNCHANGED queue
        /\ UNCHANGED job \/ job' = [job EXCEPT ![q] = "working"]
    BY <1>0, <1>1, MessageEffect
  <2> QED
    BY <1>0, <2>1
<1>2. CASE Deliver
  <2>1. /\ queue' = Tail(queue) /\ Len(Tail(queue)) = Len(queue) - 1
        /\ \A k \in 1 .. Len(Tail(queue)) : Tail(queue)[k] = queue[k + 1]
        /\ UNCHANGED job
    BY <1>2, DeliverEffect DEF request
  <2>2. \A k \in 1 .. Len(queue') : queue'[k].req # r
    BY <1>0, <2>1
  <2> QED
    BY <1>0, <2>1, <2>2
<1>3. ASSUME NEW q \in Requests, CallBack(q) PROVE Answered(r)'
  <2> DEFINE entry == [addr |-> jobAddr[q], req |-> q, filled |-> FALSE]
  <2>1. entry \in Response /\ entry.req = q
    BY <1>3, Captured DEF CallBack, Response
  <2>2. queue' = Append(queue, entry)
    BY <1>3 DEF CallBack
  <2> HIDE DEF entry
  <2>3. q # r /\ job' = [job EXCEPT ![q] = "fill"]
    BY <1>0, <1>3 DEF CallBack, SetJob
  <2>4. \A k \in 1 .. Len(queue') : queue'[k] = entry \/ \E j \in 1 .. Len(queue) : queue'[k] = queue[j]
    BY <1>0, <2>1, <2>2, AppendProperties
  <2> QED
    BY <1>0, <2>1, <2>3, <2>4
<1>4. ASSUME NEW q \in Requests, CallBackFill(q) PROVE Answered(r)'
  <2>1. /\ Len(queue') = Len(queue)
        /\ \A k \in 1 .. Len(queue) : queue'[k].req = queue[k].req
    BY <1>0, <1>4, FilledQueue
  <2>2. job' = [job EXCEPT ![q] = "notify"]
    BY <1>4 DEF CallBackFill, SetJob
  <2> QED
    BY <1>0, <2>1, <2>2
<1>5. ASSUME NEW q \in Requests, CallBackNotify(q) \/ CallBackRefused(q) PROVE Answered(r)'
  BY <1>0, <1>5 DEF CallBackNotify, CallBackRefused, SetJob
<1>6. CASE UNCHANGED <<request, queue>>
  BY <1>0, <1>6 DEF request
<1> QED
  BY <1>1, <1>2, <1>3, <1>4, <1>5, <1>6, Steps DEF JobStep, Connect, Disconnect, Exit

\* What waits for a client was asked for at its address.
LEMMA NextWaitingInv ==
    TypeInv /\ QueueInv /\ WaitingInv /\ [Next]_vars => WaitingInv'
<1> SUFFICES ASSUME TypeInv, QueueInv, WaitingInv, [Next]_vars,
                    NEW a \in Addrs, NEW k \in 1 .. Len(tx'[a])
             PROVE  asker'[tx'[a][k].req] # NoConn /\ at'[asker'[tx'[a][k].req]] = a
  BY DEF WaitingInv, AskerOf
<1>1. CASE \E r \in Requests : NewTo(a, r) /\ tx'[a][k].req = r
  BY <1>1 DEF NewTo
<1>2. ASSUME NEW j \in 1 .. Len(tx[a]), tx'[a][k] = tx[a][j]
      PROVE  asker'[tx'[a][k].req] # NoConn /\ at'[asker'[tx'[a][k].req]] = a
  <2> DEFINE r == tx[a][j].req
  <2>1. r \in Requests
    <3>1. tx[a] \in Seq(Chunk)
      BY DEF TypeInv, TypeOK
    <3>2. tx[a][j] \in Chunk
      BY <3>1, ElementOfSeq
    <3> QED
      BY <3>2 DEF Chunk
  <2>2. asker[r] # NoConn /\ at[asker[r]] = a
    BY DEF WaitingInv, AskerOf
  <2>3. asker[r] \in Conns /\ life[asker[r]] # "new"
    BY <2>1, <2>2 DEF TypeInv, TypeOK, RequestInv
  <2>4. asker'[r] = asker[r] /\ at'[asker[r]] = at[asker[r]]
    <3> HIDE DEF r
    <3> QED
      BY <2>1, <2>2, <2>3, NothingIsForgotten
  <2>5. asker'[r] # NoConn /\ at'[asker'[r]] = a
    BY <2>2, <2>4
  <2> QED
    BY <1>2, <2>5
<1> QED
  BY <1>1, <1>2, TxOrigin

\* What a connection was sent it had asked for, or one that had its address before.
LEMMA NextRoutedInv ==
    TypeInv /\ RouteInv /\ [Next]_vars => RoutedInv'
<1> SUFFICES ASSUME TypeInv, RouteInv, [Next]_vars,
                    NEW c \in Conns, NEW k \in 1 .. Len(got'[c])
             PROVE  LET d == asker'[got'[c][k].req]
                    IN  d # NoConn /\ (d = c \/ (life'[d] = "closed" /\ at'[d] = at'[c]))
  BY DEF RoutedInv, AskerOf
<1>0. QueueInv /\ WaitingInv /\ RoutedInv
  BY DEF RouteInv
<1>1. ASSUME k \in 1 .. Len(got[c]), got'[c][k] = got[c][k]
      PROVE  /\ got[c][k].req \in Requests
             /\ LET d == asker[got[c][k].req]
                IN  d # NoConn /\ (d = c \/ (life[d] = "closed" /\ at[d] = at[c]))
  <2>1. got[c] \in Seq(FullChunk)
    BY DEF TypeInv, TypeOK, FullChunk
  <2>2. got[c][k] \in FullChunk
    BY <1>1, <2>1, ElementOfSeq
  <2> QED
    BY <1>0, <1>1, <2>2 DEF FullChunk, Chunk, RoutedInv, AskerOf
<1>2. ASSUME c \in Open, at[c] \in Addrs, NEW j \in 1 .. Len(tx[at[c]]),
             got'[c][k] = tx[at[c]][j]
      PROVE  /\ got'[c][k].req \in Requests
             /\ LET d == asker[got'[c][k].req]
                IN  d # NoConn /\ (d = c \/ (life[d] = "closed" /\ at[d] = at[c]))
  <2>1. tx[at[c]] \in Seq(Chunk)
    BY <1>2 DEF TypeInv, TypeOK
  <2>2. tx[at[c]][j] \in Chunk
    BY <1>2, <2>1, ElementOfSeq
  <2> DEFINE r == tx[at[c]][j].req
  <2>3. r \in Requests
    BY <2>2 DEF Chunk
  <2>4. asker[r] # NoConn /\ at[asker[r]] = at[c]
    BY <1>0, <1>2 DEF WaitingInv, AskerOf
  <2>5. asker[r] \in Conns /\ life[asker[r]] \in {"open", "closed"}
    BY <2>3, <2>4 DEF TypeInv, TypeOK, RequestInv
  <2>6. asker[r] = c \/ life[asker[r]] = "closed"
    BY <1>2, <2>4, <2>5 DEF TypeInv, AddressInv, Open
  <2> QED
    BY <1>2, <2>3, <2>4, <2>6
<1>3. ASSUME NEW r \in Requests, LET d == asker[r]
                                 IN  d # NoConn /\ (d = c \/ (life[d] = "closed" /\ at[d] = at[c]))
      PROVE  LET d == asker'[r]
             IN  d # NoConn /\ (d = c \/ (life'[d] = "closed" /\ at'[d] = at'[c]))
  <2>1. asker[r] \in Conns /\ life[asker[r]] # "new" /\ asker'[r] = asker[r]
    BY <1>3, NothingIsForgotten DEF TypeInv, TypeOK, RequestInv
  <2>2. CASE asker[r] = c
    BY <2>1, <2>2, <1>3
  <2>3. CASE asker[r] # c
    <3>1. life[asker[r]] = "closed" /\ at[asker[r]] = at[c] /\ at[asker[r]] \in Addrs
      BY <1>3, <2>1, <2>3 DEF TypeInv, AddressInv
    <3>2. life[c] # "new"
      BY <3>1, NoneAssumption DEF TypeInv, AddressInv
    <3>3. life'[asker[r]] = "closed" /\ at'[asker[r]] = at[asker[r]] /\ at'[c] = at[c]
      BY <2>1, <3>1, <3>2, NothingIsForgotten
    <3> QED
      BY <1>3, <2>1, <3>1, <3>3
  <2> QED
    BY <2>2, <2>3
<1>4. \/ k \in 1 .. Len(got[c]) /\ got'[c][k] = got[c][k]
      \/ /\ c \in Open /\ at[c] \in Addrs
         /\ \E j \in 1 .. Len(tx[at[c]]) : got'[c][k] = tx[at[c]][j]
  BY <1>0, GotOrigin
<1>5. PICK r \in Requests : /\ got'[c][k].req = r
                            /\ LET d == asker[r]
                               IN  d # NoConn /\ (d = c \/ (life[d] = "closed" /\ at[d] = at[c]))
  BY <1>1, <1>2, <1>4
<1> QED
  BY <1>3, <1>5

\* Every step keeps where the responses go.
LEMMA NextRouteInv == TypeInv /\ RouteInv /\ [Next]_vars => RouteInv'
BY NextQueueInv, NextWaitingInv, NextRoutedInv DEF RouteInv

\* What waits for a client, and what a connection was sent, had been queued once.
AnsweredInv ==
    /\ \A a \in Addrs : \A k \in 1 .. Len(tx[a]) : Answered(tx[a][k].req)
    /\ \A c \in Conns : \A k \in 1 .. Len(got[c]) : Answered(got[c][k].req)

\* What is queued or sent stays so, and is not queued again.
LEMMA NextAnsweredInv ==
    TypeInv /\ QueueInv /\ AnsweredInv /\ [Next]_vars => AnsweredInv'
<1> SUFFICES ASSUME TypeInv, QueueInv, AnsweredInv, [Next]_vars PROVE AnsweredInv'
  OBVIOUS
<1>1. /\ \A a \in Addrs : \A k \in 1 .. Len(tx[a]) : tx[a][k].req \in Requests
      /\ \A c \in Conns : \A k \in 1 .. Len(got[c]) : got[c][k].req \in Requests
  <2>1. /\ \A a \in Addrs : tx[a] \in Seq(Chunk)
        /\ \A c \in Conns : got[c] \in Seq(FullChunk)
    BY DEF TypeInv, TypeOK, FullChunk
  <2>2. /\ \A a \in Addrs : \A k \in 1 .. Len(tx[a]) : tx[a][k] \in Chunk
        /\ \A c \in Conns : \A k \in 1 .. Len(got[c]) : got[c][k] \in FullChunk
    BY <2>1, ElementOfSeq
  <2> QED
    BY <2>2 DEF Chunk, FullChunk
<1>2. \A r \in Requests : Answered(r) => Answered(r)'
  BY AnsweredStays
<1>3. ASSUME NEW a \in Addrs, NEW k \in 1 .. Len(tx'[a])
      PROVE  \E r \in Requests : tx'[a][k].req = r /\ Answered(r)'
  <2>1. CASE \E r \in Requests : NewTo(a, r) /\ tx'[a][k].req = r
    BY <2>1 DEF NewTo
  <2>2. CASE \E j \in 1 .. Len(tx[a]) : tx'[a][k] = tx[a][j]
    BY <1>1, <1>2, <2>2 DEF AnsweredInv
  <2> QED
    BY <2>1, <2>2, TxOrigin
<1>4. ASSUME NEW c \in Conns, NEW k \in 1 .. Len(got'[c])
      PROVE  \E r \in Requests : got'[c][k].req = r /\ Answered(r)'
  <2>1. CASE k \in 1 .. Len(got[c]) /\ got'[c][k] = got[c][k]
    BY <1>1, <1>2, <2>1 DEF AnsweredInv
  <2>2. CASE at[c] \in Addrs /\ \E j \in 1 .. Len(tx[at[c]]) : got'[c][k] = tx[at[c]][j]
    BY <1>1, <1>2, <2>2 DEF AnsweredInv
  <2> QED
    BY <2>1, <2>2, GotOrigin
<1> QED
  BY <1>3, <1>4 DEF AnsweredInv, Answered

-----------------------------------------------------------------------------
(* No buffer is sent twice                                                 *)

TxOnce == \A a \in Addrs : \A j, k \in 1 .. Len(tx[a]) : tx[a][j] = tx[a][k] => j = k
GotOnce == \A c \in Conns : \A j, k \in 1 .. Len(got[c]) : got[c][j] = got[c][k] => j = k

\* What waits for an open connection has not been sent to it.
Apart == \A c \in Open : \A j \in 1 .. Len(got[c]), k \in 1 .. Len(tx[at[c]]) :
            got[c][j] # tx[at[c]][k]

OnceInv == TxOnce /\ GotOnce /\ Apart

\* With nothing queued nothing is queued twice.
LEMMA InitOnceInv == Init => AnsweredInv /\ OnceInv
<1>1. Len(<<>>) = 0
  OBVIOUS
<1> QED
  BY <1>1 DEF Init, AnsweredInv, OnceInv, TxOnce, GotOnce, Apart, Open

\* Queueing the response of a request of which no buffer is anywhere.
LEMMA SendOnce ==
    ASSUME TypeInv, AnsweredInv, OnceInv, NEW a \in Addrs, NEW r \in Requests,
           SendResponse(a, r), NewTo(a, r), UNCHANGED <<got, life, at>>
    PROVE  OnceInv'
<1> DEFINE len == Len(tx[a])
<1>0. /\ TypeOK /\ tx[a] \in Seq(Chunk) /\ len \in Nat
  BY LenProperties DEF TypeInv, TypeOK
<1>1. /\ \A b \in Addrs : b # a => tx'[b] = tx[b]
      /\ Len(tx'[a]) = len + Pieces + 1
      /\ \A k \in 1 .. Len(tx'[a]) :
            IF k <= len THEN tx'[a][k] = tx[a][k]
            ELSE LET n == k - len
                 IN  n \in 1 .. Pieces + 1 /\ tx'[a][k] = Piece(r, IF n > Pieces THEN 0 ELSE n)
  BY <1>0, SendEffect
<1> HIDE DEF len
<1>2. /\ \A b \in Addrs : \A k \in 1 .. Len(tx[b]) : tx[b][k].req # r
      /\ \A c \in Conns : \A k \in 1 .. Len(got[c]) : got[c][k].req # r
  BY DEF AnsweredInv, NewTo
<1>3. \A k \in 1 .. Len(tx'[a]) :
         \/ k \in 1 .. len /\ tx'[a][k] = tx[a][k] /\ tx'[a][k].req # r
         \/ /\ k - len \in 1 .. Pieces + 1 /\ k > len
            /\ tx'[a][k].req = r
            /\ tx'[a][k].piece = IF k - len > Pieces THEN 0 ELSE k - len
  <2> TAKE k \in 1 .. Len(tx'[a])
  <2>1. CASE k <= len
    <3>1. k \in 1 .. len /\ tx'[a][k] = tx[a][k]
      BY <1>0, <1>1, <2>1
    <3> QED
      BY <1>2, <3>1 DEF len
  <2>2. CASE ~(k <= len)
    <3>1. /\ k - len \in 1 .. Pieces + 1
          /\ tx'[a][k] = Piece(r, IF k - len > Pieces THEN 0 ELSE k - len)
      BY <1>1, <2>2
    <3> QED
      BY <1>0, <2>2, <3>1 DEF Piece
  <2> QED
    BY <2>1, <2>2
<1>4. TxOnce'
  <2> SUFFICES ASSUME NEW b \in Addrs, NEW j \in 1 .. Len(tx'[b]), NEW k \in 1 .. Len(tx'[b]),
                      tx'[b][j] = tx'[b][k]
               PROVE  j = k
    BY DEF TxOnce
  <2>1. CASE b # a
    BY <1>1, <2>1 DEF OnceInv, TxOnce
  <2>2. CASE b = a
    <3>1. CASE tx'[a][k].req = r
      <4>1. /\ k - len \in 1 .. Pieces + 1
            /\ tx'[a][k].piece = IF k - len > Pieces THEN 0 ELSE k - len
        BY <1>3, <2>2, <3>1
      <4>2. /\ j - len \in 1 .. Pieces + 1
            /\ tx'[a][j].piece = IF j - len > Pieces THEN 0 ELSE j - len
        BY <1>3, <2>2, <3>1
      <4>3. \A m, n \in 1 .. Pieces + 1 :
               (IF m > Pieces THEN 0 ELSE m) = (IF n > Pieces THEN 0 ELSE n) => m = n
        BY BoundsAssumption
      <4>4. j - len = k - len
        BY <2>2, <4>1, <4>2, <4>3
      <4> QED
        BY <1>0, <4>4
    <3>2. CASE tx'[a][k].req # r
      <4>1. /\ j \in 1 .. len /\ tx'[a][j] = tx[a][j]
            /\ k \in 1 .. len /\ tx'[a][k] = tx[a][k]
        BY <1>3, <2>2, <3>2
      <4> QED
        BY <2>2, <4>1 DEF OnceInv, TxOnce, len
    <3> QED
      BY <3>1, <3>2
  <2> QED
    BY <2>1, <2>2
<1>5. GotOnce'
  BY DEF OnceInv, GotOnce
<1>6. Apart'
  <2> SUFFICES ASSUME NEW c \in Open, NEW j \in 1 .. Len(got[c]), NEW k \in 1 .. Len(tx'[at[c]])
               PROVE  got[c][j] # tx'[at[c]][k]
    BY DEF Apart, Open
  <2>1. at[c] \in Addrs /\ c \in Conns
    BY Captured DEF Open
  <2>2. CASE at[c] # a
    BY <1>1, <2>1, <2>2 DEF OnceInv, Apart
  <2>3. CASE at[c] = a
    <3>1. CASE k \in 1 .. len /\ tx'[a][k] = tx[a][k]
      BY <2>3, <3>1 DEF OnceInv, Apart, len
    <3>2. CASE tx'[a][k].req = r
      BY <1>2, <2>1, <2>3, <3>2
    <3> QED
      BY <1>3, <2>3, <3>1, <3>2
  <2> QED
    BY <2>2, <2>3
<1> QED
  BY <1>4, <1>5, <1>6 DEF OnceInv

\* What a pass moves from a queue to a connection is in neither twice.
LEMMA PassOnce ==
    ASSUME TypeInv, OnceInv, NEW visited \in SUBSET Open, Pass(visited)
    PROVE  OnceInv'
<1>0. TypeOK /\ AddressInv
  BY DEF TypeInv
<1>1. /\ UNCHANGED at
      /\ \A c \in Conns : life'[c] = IF c \in visited \cap failed THEN "closed" ELSE life[c]
      /\ \A c \in Conns : c \notin visited => got'[c] = got[c]
      /\ \A a \in Addrs : \/ tx'[a] = <<>>
                          \/ tx'[a] = tx[a] /\ \A c \in visited : at[c] = a => stuck[a]
                          \/ tx'[a] = Rest(a) /\ \E c \in visited \ failed : at[c] = a
      /\ \A c \in visited \cap failed : tx'[at[c]] = <<>>
  BY PassEffect
<1>2. \A a \in Addrs : /\ tx[a] \in Seq(Chunk) /\ Len(tx[a]) \in Nat
                       /\ Len(Sendable(a)) \in Nat
                       /\ stuck[a] => Len(Sendable(a)) = 0
  <2> TAKE a \in Addrs
  <2>1. tx[a] \in Seq(Chunk) /\ Sendable(a) \in Seq(FullChunk)
    BY <1>0, SendableIsPrefix DEF TypeOK
  <2>2. Len(<<>>) = 0 /\ (stuck[a] => Sendable(a) = <<>>)
    BY DEF Sendable
  <2> QED
    BY <2>1, <2>2
<1>3. \A a \in Addrs : \A k \in 1 .. Len(tx'[a]) :
         \/ tx'[a] = tx[a] /\ \A c \in visited : at[c] = a => stuck[a]
         \/ /\ tx'[a][k] = tx[a][Len(Sendable(a)) + 1 + k]
            /\ Len(Sendable(a)) + 1 + k \in 1 .. Len(tx[a])
  <2> TAKE a \in Addrs
  <2> TAKE k \in 1 .. Len(tx'[a])
  <2>1. CASE tx'[a] = <<>>
    <3>1. Len(<<>>) = 0
      OBVIOUS
    <3> QED
      BY <2>1, <3>1
  <2>2. CASE tx'[a] = Rest(a)
    <3>1. /\ tx'[a][k] = tx[a][Len(Sendable(a)) + 1 + k]
          /\ Len(Sendable(a)) + 1 + k <= Len(tx[a])
      BY <1>0, <2>2, RestIsSuffix
    <3> QED
      BY <1>2, <3>1
  <2> QED
    BY <1>1, <2>1, <2>2
<1>4. \A c \in visited : \A k \in 1 .. Len(got'[c]) :
         IF k <= Len(got[c]) THEN k \in 1 .. Len(got[c]) /\ got'[c][k] = got[c][k]
         ELSE /\ k - Len(got[c]) \in 1 .. Len(Sendable(at[c]))
              /\ k - Len(got[c]) \in 1 .. Len(tx[at[c]])
              /\ got'[c][k] = tx[at[c]][k - Len(got[c])]
  <2> TAKE c \in visited
  <2>1. at[c] \in Addrs /\ c \in Conns
    BY Captured DEF Open
  <2>2. got[c] \in Seq(FullChunk) /\ Len(got[c]) \in Nat
    BY <1>0, <2>1, LenProperties DEF TypeOK, FullChunk
  <2>3. /\ Len(Sendable(at[c])) <= Len(tx[at[c]])
        /\ \A k \in 1 .. Len(got'[c]) :
                 IF k <= Len(got[c]) THEN got'[c][k] = got[c][k]
                 ELSE /\ k - Len(got[c]) \in 1 .. Len(Sendable(at[c]))
                      /\ got'[c][k] = tx[at[c]][k - Len(got[c])]
    BY PassGot
  <2> QED
    BY <1>2, <2>1, <2>2, <2>3
<1>5. TxOnce'
  <2> SUFFICES ASSUME NEW a \in Addrs, NEW j \in 1 .. Len(tx'[a]), NEW k \in 1 .. Len(tx'[a]),
                      tx'[a][j] = tx'[a][k]
               PROVE  j = k
    BY DEF TxOnce
  <2>1. CASE tx'[a] = tx[a]
    BY <2>1 DEF OnceInv, TxOnce
  <2>2. CASE /\ tx'[a][j] = tx[a][Len(Sendable(a)) + 1 + j]
             /\ Len(Sendable(a)) + 1 + j \in 1 .. Len(tx[a])
             /\ tx'[a][k] = tx[a][Len(Sendable(a)) + 1 + k]
             /\ Len(Sendable(a)) + 1 + k \in 1 .. Len(tx[a])
    <3>1. Len(Sendable(a)) + 1 + j = Len(Sendable(a)) + 1 + k
      BY <2>2 DEF OnceInv, TxOnce
    <3> QED
      BY <1>2, <3>1
  <2> QED
    BY <1>3, <2>1, <2>2
<1>6. GotOnce'
  <2> SUFFICES ASSUME NEW c \in Conns, NEW j \in 1 .. Len(got'[c]), NEW k \in 1 .. Len(got'[c]),
                      got'[c][j] = got'[c][k]
               PROVE  j = k
    BY DEF GotOnce
  <2>1. CASE c \notin visited
    BY <1>1, <2>1 DEF OnceInv, GotOnce
  <2>2. CASE c \in visited
    <3> DEFINE g == Len(got[c])
    <3>0. at[c] \in Addrs /\ c \in Open /\ g \in Nat
      BY <1>0, <2>2, Captured, LenProperties DEF Open, TypeOK
    <3>1. \A i \in 1 .. Len(got'[c]) :
             \/ i \in 1 .. g /\ got'[c][i] = got[c][i]
             \/ i - g \in 1 .. Len(tx[at[c]]) /\ got'[c][i] = tx[at[c]][i - g]
      BY <1>4, <2>2
    <3> HIDE DEF g
    <3>2. \A m \in 1 .. g, n \in 1 .. Len(tx[at[c]]) : got[c][m] # tx[at[c]][n]
      BY <3>0 DEF OnceInv, Apart, g
    <3>3. \A m, n \in 1 .. g : got[c][m] = got[c][n] => m = n
      BY DEF OnceInv, GotOnce, g
    <3>4. \A m, n \in 1 .. Len(tx[at[c]]) : tx[at[c]][m] = tx[at[c]][n] => m = n
      BY <3>0 DEF OnceInv, TxOnce
    <3>5. j - g = k - g => j = k
      BY <3>0
    <3> QED
      BY <3>1, <3>2, <3>3, <3>4, <3>5
  <2> QED
    BY <2>1, <2>2
<1>7. Apart'
  <2> SUFFICES ASSUME NEW c \in Open, c \notin visited \cap failed,
                      NEW j \in 1 .. Len(got'[c]), NEW k \in 1 .. Len(tx'[at[c]])
               PROVE  got'[c][j] # tx'[at[c]][k]
    <3>1. \A c \in Open' : c \in Open /\ c \notin visited \cap failed
      BY <1>1 DEF Open
    <3> QED
      BY <1>1, <3>1 DEF Apart
  <2>0. at[c] \in Addrs /\ c \in Conns
    BY Captured DEF Open
  <2>1. \A m \in 1 .. Len(got[c]), n \in 1 .. Len(tx[at[c]]) : got[c][m] # tx[at[c]][n]
    BY DEF OnceInv, Apart
  <2>2. \E n \in 1 .. Len(tx[at[c]]) :
           /\ tx'[at[c]][k] = tx[at[c]][n]
           /\ c \in visited => n > Len(Sendable(at[c]))
    <3>1. CASE tx'[at[c]] = tx[at[c]] /\ (c \in visited => stuck[at[c]])
      BY <1>2, <2>0, <3>1
    <3>2. CASE /\ tx'[at[c]][k] = tx[at[c]][Len(Sendable(at[c])) + 1 + k]
               /\ Len(Sendable(at[c])) + 1 + k \in 1 .. Len(tx[at[c]])
      BY <1>2, <2>0, <3>2
    <3> QED
      BY <1>3, <2>0, <3>1, <3>2
  <2>3. CASE c \notin visited
    BY <1>1, <2>0, <2>1, <2>2, <2>3, SMTT(20)
  <2>4. CASE c \in visited
    <3>1. CASE j \in 1 .. Len(got[c]) /\ got'[c][j] = got[c][j]
      BY <2>1, <2>2, <3>1
    <3>2. CASE /\ j - Len(got[c]) \in 1 .. Len(Sendable(at[c]))
               /\ j - Len(got[c]) \in 1 .. Len(tx[at[c]])
               /\ got'[c][j] = tx[at[c]][j - Len(got[c])]
      BY <1>2, <2>0, <2>2, <2>4, <3>2, SMTT(20) DEF OnceInv, TxOnce
    <3> QED
      BY <1>4, <2>4, <3>1, <3>2
  <2> QED
    BY <2>3, <2>4
<1> QED
  BY <1>5, <1>6, <1>7 DEF OnceInv

\* No step queues, or sends, a chunk for the second time.
LEMMA NextOnceInv ==
    TypeInv /\ DeletedClientIsLeftAlone /\ RouteInv /\ AnsweredInv /\ OnceInv /\ [Next]_vars
        => OnceInv'
<1> SUFFICES ASSUME TypeInv, DeletedClientIsLeftAlone, RouteInv, AnsweredInv, OnceInv,
                    [Next]_vars
             PROVE  OnceInv'
  OBVIOUS
<1>0. TypeOK /\ QueueInv /\ Len(<<>>) = 0
  BY DEF TypeInv, RouteInv
<1> USE DEF OnceInv, TxOnce, GotOnce, Apart
<1>1. ASSUME NEW c \in Conns, NEW a \in Addrs, Connect(c, a) PROVE OnceInv'
  <2>1. /\ tx[a] = <<>> /\ UNCHANGED <<tx, got>>
        /\ Open' = Open \cup {c} /\ at' = [at EXCEPT ![c] = a] /\ c \notin Open
    BY <1>0, <1>1 DEF Connect, Free, DeletedClientIsLeftAlone, Open, TypeOK, output
  <2>2. at'[c] = a /\ \A d \in Open : at'[d] = at[d]
    BY <1>0, <2>1 DEF TypeOK, Open
  <2> QED
    BY <1>0, <2>1, <2>2
<1>2. ASSUME NEW c \in Open, tx' = [tx EXCEPT ![at[c]] = <<>>], UNCHANGED <<got, at>>,
             life' = [life EXCEPT ![c] = "closed"]
      PROVE  OnceInv'
  <2>1. \A a \in Addrs : tx'[a] = tx[a] \/ tx'[a] = <<>>
    BY <1>0, <1>2 DEF TypeOK
  <2>2. Open' \subseteq Open /\ \A d \in Open : at[d] \in Addrs
    BY <1>0, <1>2, Captured DEF TypeOK, Open
  <2> QED
    BY <1>0, <1>2, <2>1, <2>2
<1>3. ASSUME tx' = [a \in Addrs |-> <<>>], UNCHANGED <<got, at>>, Open' \subseteq Open
      PROVE  OnceInv'
  <2>1. \A d \in Open : at[d] \in Addrs
    BY Captured
  <2> QED
    BY <1>0, <1>3, <2>1
<1>4. CASE UNCHANGED <<tx, got, life, at>>
  BY <1>4 DEF Open
<1>5. \/ \E c \in Conns, a \in Addrs : Connect(c, a)
      \/ UNCHANGED <<tx, got, life, at>>
      \/ \E a \in Addrs, r \in Requests :
            SendResponse(a, r) /\ NewTo(a, r) /\ UNCHANGED <<got, life, at>>
      \/ \E c \in Open : /\ tx' = [tx EXCEPT ![at[c]] = <<>>] /\ UNCHANGED <<got, at>>
                         /\ life' = [life EXCEPT ![c] = "closed"]
      \/ \E visited \in SUBSET Open : Pass(visited)
      \/ tx' = [a \in Addrs |-> <<>>] /\ UNCHANGED <<got, at>> /\ Open' \subseteq Open
  BY <1>0, QueueSteps
<1> QED
  BY <1>1, <1>2, <1>3, <1>4, <1>5, SendOnce, PassOnce

\* A response is sent to the connection that asked, or to the next one at its address,
\* and no buffer of it twice: the address a callback captured always leads there.
THEOREM ResponsesAreRouted == Spec => []ResponseToRequester
<1> DEFINE I == TypeInv /\ DeletedClientIsLeftAlone /\ RouteInv /\ AnsweredInv /\ OnceInv
<1>1. Init => I
  BY InitTypeInv, InitLeftAlone, InitRouteInv, InitOnceInv
<1>2. I /\ [Next]_vars => I'
  BY NextTypeInv, NextLeftAlone, NextRouteInv, NextAnsweredInv, NextOnceInv DEF RouteInv
<1>3. I => ResponseToRequester
  <2> SUFFICES ASSUME I, NEW c \in Conns
               PROVE  /\ \A chunk \in ToSet(got[c]) :
                            LET d == asker[chunk.req]
                            IN  d = c \/ (life[d] = "closed" /\ at[d] = at[c])
                      /\ IsInjective(got[c])
    BY DEF ResponseToRequester
  <2>1. DOMAIN got[c] = 1 .. Len(got[c])
    BY LenProperties DEF TypeInv, TypeOK
  <2>2. IsInjective(got[c])
    BY <2>1 DEF IsInjective, OnceInv, GotOnce
  <2>3. \A chunk \in ToSet(got[c]) : \E k \in 1 .. Len(got[c]) : chunk = got[c][k]
    BY <2>1 DEF ToSet
  <2> QED
    BY <2>2, <2>3 DEF RouteInv, RoutedInv, AskerOf
<1> QED
  BY <1>1, <1>2, <1>3, PTL DEF Spec

-----------------------------------------------------------------------------
(* The data among the buffers of a client                                 *)

\* A set of numbers that has 0 and, with a number, the next one has them all.
LEMMA SetInduction ==
    ASSUME NEW S, 0 \in S, \A n \in Nat : n \in S => n + 1 \in S
    PROVE  \A n \in Nat : n \in S
<1> SUFFICES ASSUME NEW n \in Nat, n \notin S PROVE FALSE
  OBVIOUS
<1> DEFINE T == {m \in Nat : m \notin S}
<1>1. T \subseteq Nat /\ T # {}
  OBVIOUS
<1>2. Min(T) \in T /\ \A m \in T : Min(T) <= m
  <2> HIDE DEF T
  <2> QED
    BY <1>1, LeastOfSet
<1>3. PICK m : m \in Nat /\ m \notin S /\ \A k \in Nat : k < m => k \in S
  <2>1. \A k \in Nat : k < Min(T) => k \in S
    BY <1>2
  <2> QED
    BY <1>2, <2>1
<1>4. m # 0 /\ m - 1 \in Nat /\ m - 1 < m /\ (m - 1) + 1 = m
  BY <1>3
<1> QED
  BY <1>3, <1>4

\* The data of the beginnings of s, by their length.
Kept(s) == CHOOSE f : f = [k \in 0 .. Len(s) |->
                              IF k = 0 THEN <<>>
                              ELSE IF IsEmpty(s[k]) THEN f[k - 1] ELSE Append(f[k - 1], s[k])]

\* f gives the data of the first n beginnings of s.
Keeps(s, n, f) ==
    f = [k \in 0 .. n |-> IF k = 0 THEN <<>>
                          ELSE IF IsEmpty(s[k]) THEN f[k - 1] ELSE Append(f[k - 1], s[k])]

\* A solution for some beginnings gives one for the next beginning as well.
LEMMA KeepsStep ==
    ASSUME NEW s, NEW n \in Nat, NEW f, Keeps(s, n, f)
    PROVE  \E g : Keeps(s, n + 1, g)
<1> DEFINE last == IF IsEmpty(s[n + 1]) THEN f[n] ELSE Append(f[n], s[n + 1])
           g == [k \in 0 .. n + 1 |-> IF k = n + 1 THEN last ELSE f[k]]
<1>1. \A k \in 0 .. n : f[k] = IF k = 0 THEN <<>>
                          ELSE IF IsEmpty(s[k]) THEN f[k - 1] ELSE Append(f[k - 1], s[k])
  BY DEF Keeps
<1>2. \A k \in 0 .. n : g[k] = f[k] /\ k # n + 1
  OBVIOUS
<1>3. g[n + 1] = last
  OBVIOUS
<1>4. \A k \in 0 .. n + 1 : g[k] = IF k = 0 THEN <<>>
                          ELSE IF IsEmpty(s[k]) THEN g[k - 1] ELSE Append(g[k - 1], s[k])
  <2> SUFFICES ASSUME NEW k \in 0 .. n + 1
               PROVE  g[k] = IF k = 0 THEN <<>>
                             ELSE IF IsEmpty(s[k]) THEN g[k - 1] ELSE Append(g[k - 1], s[k])
    OBVIOUS
  <2>1. CASE k \in 0 .. n
    <3>1. k # 0 => g[k - 1] = f[k - 1]
      BY <1>2, <2>1
    <3> HIDE DEF g
    <3> QED
      BY <1>1, <1>2, <2>1, <3>1
  <2>2. CASE k = n + 1
    <3>1. g[k] = last /\ k - 1 = n /\ k # 0 /\ g[n] = f[n]
      BY <1>2, <1>3, <2>2
    <3> HIDE DEF g
    <3> QED
      BY <2>2, <3>1
  <2> QED
    BY <2>1, <2>2
<1>5. g = [k \in 0 .. n + 1 |-> g[k]]
  OBVIOUS
<1> HIDE DEF g
<1>6. Keeps(s, n + 1, g)
  BY <1>4, <1>5 DEF Keeps
<1> QED
  BY <1>6

\* The recursion of Data has a solution, for sequences of any length.
LEMMA KeptExists ==
    ASSUME NEW s, NEW n \in Nat
    PROVE  \E f : Keeps(s, n, f)
<1> DEFINE S == {m \in Nat : \E f : Keeps(s, m, f)}
<1>1. 0 \in S
  <2> DEFINE f == [k \in 0 .. 0 |-> <<>>]
  <2>1. Keeps(s, 0, f)
    BY DEF Keeps
  <2> QED
    BY <2>1
<1>2. \A m \in Nat : m \in S => m + 1 \in S
  BY KeepsStep
<1> HIDE DEF S
<1>3. n \in S
  BY <1>1, <1>2, SetInduction
<1> QED
  BY <1>3 DEF S

\* What Data computes, one chunk after the other.
LEMMA DataSteps ==
    ASSUME NEW s \in Seq(Chunk)
    PROVE  \E f : /\ Data(s) = f[Len(s)]
                  /\ f \in [0 .. Len(s) -> Seq(FullChunk)]
                  /\ f[0] = <<>>
                  /\ \A k \in 1 .. Len(s) :
                        f[k] = IF IsEmpty(s[k]) THEN f[k - 1] ELSE Append(f[k - 1], s[k])
<1> DEFINE f == Kept(s)
<1>1. Data(s) = Kept(s)[Len(s)]
  BY DEF Data, Kept
<1>2. Len(s) \in Nat
  OBVIOUS
<1>3. Keeps(s, Len(s), Kept(s))
  BY <1>2, KeptExists DEF Kept, Keeps
<1> HIDE DEF f
<1>4. Keeps(s, Len(s), f)
  BY <1>3 DEF f
<1>5. \A k \in 0 .. Len(s) :
         f[k] = IF k = 0 THEN <<>>
                ELSE IF IsEmpty(s[k]) THEN f[k - 1] ELSE Append(f[k - 1], s[k])
  BY <1>4 DEF Keeps
<1>6. f = [k \in 0 .. Len(s) |-> f[k]]
  BY <1>4, Zenon DEF Keeps
<1>7. 0 \in 0 .. Len(s) /\ \A k \in 1 .. Len(s) : k \in 0 .. Len(s) /\ k # 0
  BY <1>2
<1>8. f[0] = <<>>
  BY <1>5, <1>7
<1>9. \A k \in 1 .. Len(s) :
         f[k] = IF IsEmpty(s[k]) THEN f[k - 1] ELSE Append(f[k - 1], s[k])
  BY <1>5, <1>7
<1>10. \A k \in 0 .. Len(s) : f[k] \in Seq(FullChunk)
  <2> DEFINE S == {m \in Nat : m <= Len(s) => f[m] \in Seq(FullChunk)}
  <2>1. 0 \in S
    BY <1>8, EmptySeq
  <2>2. \A m \in Nat : m \in S => m + 1 \in S
    <3> SUFFICES ASSUME NEW m \in Nat, m \in S, m + 1 <= Len(s)
                 PROVE  f[m + 1] \in Seq(FullChunk)
      OBVIOUS
    <3>1. f[m] \in Seq(FullChunk) /\ m + 1 \in 1 .. Len(s) /\ (m + 1) - 1 = m
      BY <1>2
    <3>2. s[m + 1] \in Chunk
      BY <3>1
    <3>3. f[m + 1] = IF IsEmpty(s[m + 1]) THEN f[m] ELSE Append(f[m], s[m + 1])
      BY <1>9, <3>1
    <3> QED
      BY <3>1, <3>2, <3>3 DEF FullChunk
  <2> HIDE DEF S
  <2>3. \A m \in Nat : m \in S
    BY <2>1, <2>2, SetInduction
  <2> QED
    BY <1>2, <2>3 DEF S
<1> QED
  <2>1. f \in [0 .. Len(s) -> Seq(FullChunk)]
    BY <1>6, <1>10
  <2> QED
    BY <1>1, <1>8, <1>9, <2>1 DEF f

\* f gives the data of every beginning of s.
Builds(f, s) ==
    /\ f \in [0 .. Len(s) -> Seq(FullChunk)]
    /\ f[0] = <<>>
    /\ \A k \in 1 .. Len(s) :
          f[k] = IF IsEmpty(s[k]) THEN f[k - 1] ELSE Append(f[k - 1], s[k])

\* Two sequences that begin alike begin with the same data.
LEMMA SameData ==
    ASSUME NEW s \in Seq(Chunk), NEW t \in Seq(Chunk), NEW f, NEW g,
           Builds(f, s), Builds(g, t),
           Len(s) <= Len(t), \A k \in 1 .. Len(s) : s[k] = t[k]
    PROVE  \A k \in 0 .. Len(s) : f[k] = g[k]
<1> DEFINE S == {m \in Nat : m <= Len(s) => f[m] = g[m]}
<1>0. Len(s) \in Nat /\ Len(t) \in Nat
  OBVIOUS
<1>1. 0 \in S
  BY DEF Builds
<1>2. \A m \in Nat : m \in S => m + 1 \in S
  <2> SUFFICES ASSUME NEW m \in Nat, m \in S, m + 1 <= Len(s)
               PROVE  f[m + 1] = g[m + 1]
    OBVIOUS
  <2>1. /\ f[m] = g[m] /\ m + 1 \in 1 .. Len(s) /\ m + 1 \in 1 .. Len(t) /\ (m + 1) - 1 = m
    BY <1>0
  <2>2. s[m + 1] = t[m + 1]
    BY <2>1
  <2>3. f[m + 1] = IF IsEmpty(s[m + 1]) THEN f[m] ELSE Append(f[m], s[m + 1])
    BY <2>1 DEF Builds
  <2>4. g[m + 1] = IF IsEmpty(t[m + 1]) THEN g[m] ELSE Append(g[m], t[m + 1])
    BY <2>1 DEF Builds
  <2> QED
    BY <2>1, <2>2, <2>3, <2>4
<1> HIDE DEF S
<1>3. \A m \in Nat : m \in S
  BY <1>1, <1>2, SetInduction
<1> QED
  BY <1>0, <1>3 DEF S

\* The data of two sequences put together is their data put together.
LEMMA DataConcat ==
    ASSUME NEW s \in Seq(Chunk), NEW t \in Seq(Chunk)
    PROVE  Data(s \o t) = Data(s) \o Data(t)
<1> DEFINE u == s \o t
<1>1. /\ u \in Seq(Chunk) /\ Len(u) = Len(s) + Len(t)
      /\ \A k \in 1 .. Len(s) : u[k] = s[k]
      /\ \A k \in 1 .. Len(t) : u[Len(s) + k] = t[k]
      /\ Len(s) \in Nat /\ Len(t) \in Nat
  BY ConcatProperties
<1>2. PICK f : Data(s) = f[Len(s)] /\ Builds(f, s)
  BY DataSteps DEF Builds
<1>3. PICK g : Data(t) = g[Len(t)] /\ Builds(g, t)
  BY DataSteps DEF Builds
<1> HIDE DEF u
<1>4. PICK h : Data(u) = h[Len(u)] /\ Builds(h, u)
  BY <1>1, DataSteps DEF Builds
<1>5. PICK n \in Nat : n = Len(s)
  BY <1>1
<1>6. PICK p \in Nat : p = Len(t)
  BY <1>1
<1>7. Len(u) = n + p /\ n \in 0 .. n
  BY <1>1, <1>5, <1>6
<1>8. \A k \in 0 .. Len(s) : f[k] = h[k]
  <2>1. Len(s) <= Len(u) /\ \A k \in 1 .. Len(s) : s[k] = u[k]
    BY <1>1, <1>5, <1>6, <1>7
  <2>2. Builds(f, s) /\ Builds(h, u) /\ u \in Seq(Chunk)
    BY <1>1, <1>2, <1>4
  <2> QED
    BY <2>1, <2>2, SameData, SMTT(20)
<1>9. PICK d \in Seq(FullChunk) : d = Data(s) /\ h[n] = d
  <2>1. f[n] \in Seq(FullChunk) /\ f[n] = h[n] /\ Data(s) = f[n]
    BY <1>2, <1>5, <1>7, <1>8 DEF Builds
  <2> QED
    BY <2>1
<1>14. \A x \in Seq(FullChunk), e \in FullChunk : Append(d \o x, e) = d \o Append(x, e)
  <2> SUFFICES ASSUME NEW x \in Seq(FullChunk), NEW e \in FullChunk
               PROVE  Append(d \o x, e) = d \o Append(x, e)
    OBVIOUS
  <2>1. d \o x \in Seq(FullChunk) /\ <<e>> \in Seq(FullChunk)
    BY ConcatProperties
  <2>2. Append(d \o x, e) = (d \o x) \o <<e>> /\ Append(x, e) = x \o <<e>>
    BY <2>1, AppendIsConcat
  <2>3. (d \o x) \o <<e>> = d \o (x \o <<e>>)
    BY <2>1, ConcatAssociative
  <2> QED
    BY <2>2, <2>3
<1> DEFINE S == {m \in Nat : m <= p => h[n + m] = d \o g[m]}
<1>10. 0 \in S
  <2>1. g[0] = <<>> /\ d \o <<>> = d
    BY <1>3, ConcatEmptySeq DEF Builds
  <2> QED
    BY <1>9, <2>1
<1>11. ASSUME NEW m \in Nat, m \in S PROVE m + 1 \in S
  <2> SUFFICES ASSUME m + 1 <= p PROVE h[n + (m + 1)] = d \o g[m + 1]
    OBVIOUS
  <2>1. PICK i \in Nat : i = n + (m + 1)
    OBVIOUS
  <2>2. /\ i \in 1 .. n + p /\ i - 1 = n + m /\ m \in 0 .. p
        /\ m + 1 \in 1 .. p /\ (m + 1) - 1 = m
    BY <2>1
  <2>3. h[i - 1] = d \o g[m]
    BY <1>11, <2>2
  <2>8. g[m] \in Seq(FullChunk)
    BY <1>3, <1>6, <2>2 DEF Builds
  <2>4. u[i] = t[m + 1] /\ t[m + 1] \in Chunk
    BY <1>1, <1>5, <1>6, <2>1, <2>2
  <2>5. h[i] = IF IsEmpty(u[i]) THEN h[i - 1] ELSE Append(h[i - 1], u[i])
    BY <1>4, <1>7, <2>2 DEF Builds
  <2>6. g[m + 1] = IF IsEmpty(t[m + 1]) THEN g[m] ELSE Append(g[m], t[m + 1])
    BY <1>3, <1>6, <2>2 DEF Builds
  <2>7. ASSUME ~IsEmpty(t[m + 1])
        PROVE  Append(d \o g[m], t[m + 1]) = d \o Append(g[m], t[m + 1])
    <3>1. t[m + 1] \in FullChunk
      BY <2>4, <2>7 DEF FullChunk
    <3> QED
      BY <1>14, <2>8, <3>1
  <2> QED
    BY <2>1, <2>3, <2>4, <2>5, <2>6, <2>7
<1> HIDE DEF S
<1>12. p \in S
  BY <1>10, <1>11, SetInduction
<1>13. h[n + p] = d \o g[p]
  BY <1>12 DEF S
<1> QED
  BY <1>3, <1>4, <1>6, <1>7, <1>9, <1>13 DEF u

\* The data of a sequence without an empty chunk is the sequence.
LEMMA FullData ==
    ASSUME NEW s \in Seq(FullChunk)
    PROVE  Data(s) = s
<1>1. s \in Seq(Chunk) /\ Len(s) \in Nat
  BY DEF FullChunk
<1>2. PICK f : Data(s) = f[Len(s)] /\ Builds(f, s)
  BY <1>1, DataSteps DEF Builds
<1> DEFINE S == {m \in Nat : m <= Len(s) => f[m] = SubSeq(s, 1, m)}
<1>3. 0 \in S
  BY <1>2, SubSeqEmpty DEF Builds
<1>4. \A m \in Nat : m \in S => m + 1 \in S
  <2> SUFFICES ASSUME NEW m \in Nat, m \in S, m + 1 <= Len(s)
               PROVE  f[m + 1] = SubSeq(s, 1, m + 1)
    OBVIOUS
  <2>1. PICK n \in Nat : n = m + 1
    OBVIOUS
  <2>2. n \in 1 .. Len(s) /\ 1 \in 1 .. Len(s) /\ n - 1 = m /\ s[n] \in FullChunk
    BY <1>1, <2>1
  <2>3. SubSeq(s, 1, n) = SubSeq(s, 1, n - 1) \o <<s[n]>>
    BY <2>2, SubSeqRecursiveSecond
  <2>4. f[n] = IF IsEmpty(s[n]) THEN f[n - 1] ELSE Append(f[n - 1], s[n])
    BY <1>2, <2>2 DEF Builds
  <2>5. f[m] \in Seq(FullChunk)
    BY <1>1, <1>2, <2>1, <2>2 DEF Builds
  <2>6. Append(f[m], s[n]) = f[m] \o <<s[n]>>
    BY <2>2, <2>5, AppendIsConcat
  <2> QED
    BY <2>1, <2>2, <2>3, <2>4, <2>6 DEF FullChunk
<1> HIDE DEF S
<1>5. Len(s) \in S
  BY <1>1, <1>3, <1>4, SetInduction
<1> QED
  BY <1>1, <1>2, <1>5, SubSeqFull DEF S

\* There is no data in a sequence of one empty chunk, nor in none.
LEMMA NoData ==
    /\ Data(<<>>) = <<>>
    /\ \A e \in Chunk : IsEmpty(e) => Data(<<e>>) = <<>>
<1>1. Data(<<>>) = <<>>
  BY FullData, EmptySeq
<1>2. ASSUME NEW e \in Chunk, IsEmpty(e) PROVE Data(<<e>>) = <<>>
  <2> DEFINE s == <<e>>
  <2>1. s \in Seq(Chunk) /\ Len(s) = 1 /\ s[1] = e
    OBVIOUS
  <2> HIDE DEF s
  <2>2. PICK f : Data(s) = f[Len(s)] /\ Builds(f, s)
    BY <2>1, DataSteps DEF Builds
  <2> QED
    BY <1>2, <2>1, <2>2 DEF Builds, s
<1> QED
  BY <1>1, <1>2

\* The data of a sequence is sequences of full chunks.
LEMMA DataType ==
    ASSUME NEW s \in Seq(Chunk)
    PROVE  Data(s) \in Seq(FullChunk)
<1>1. PICK f : Data(s) = f[Len(s)] /\ Builds(f, s)
  BY DataSteps DEF Builds
<1> QED
  BY <1>1 DEF Builds

\* What a pass takes from a txList is the first of its data, and what it leaves is the rest.
LEMMA PassData ==
    ASSUME TypeOK, NEW a \in Addrs
    PROVE  IF stuck[a] THEN Sendable(a) = <<>>
           ELSE Data(tx[a]) = Sendable(a) \o Data(Rest(a))
<1>0. /\ tx[a] \in Seq(Chunk) /\ Len(tx[a]) \in Nat
      /\ \A k \in 1 .. Len(tx[a]) : tx[a][k] \in Chunk
  BY DEF TypeOK
<1>1. /\ Sendable(a) \in Seq(FullChunk) /\ Sendable(a) \in Seq(Chunk)
      /\ Len(Sendable(a)) \in Nat
  <2>1. Sendable(a) \in Seq(FullChunk)
    BY SendableIsPrefix
  <2>2. \A s \in Seq(FullChunk) : s \in Seq(Chunk) /\ Len(s) \in Nat
    BY DEF FullChunk
  <2> QED
    BY <2>1, <2>2
<1>2. CASE stuck[a]
  BY <1>2 DEF Sendable
<1>3. CASE ~stuck[a] /\ Len(Sendable(a)) >= Len(tx[a])
  <2>1. Sendable(a) = tx[a]
    BY <1>0, <1>1, <1>3, SendableIsPrefix, SeqEqual
  <2>2. Rest(a) = <<>>
    BY <1>0, <1>1, <1>3, RestIsSuffix, EmptySeq
  <2>3. Data(Rest(a)) = <<>> /\ Sendable(a) \o <<>> = Sendable(a) /\ Data(Sendable(a)) = Sendable(a)
    BY <1>1, <2>2, NoData, FullData, ConcatEmptySeq
  <2> QED
    BY <1>3, <2>1, <2>3
<1>4. CASE ~stuck[a] /\ Len(Sendable(a)) < Len(tx[a])
  <2> DEFINE s == Sendable(a)
             t == Rest(a)
             e == tx[a][Len(s) + 1]
             u == <<e>> \o t
  <2>1. e \in Chunk /\ IsEmpty(e)
    BY <1>0, <1>1, <1>4, SendableIsPrefix
  <2>2. /\ s \in Seq(Chunk) /\ t \in Seq(Chunk) /\ <<e>> \in Seq(Chunk)
        /\ s \in Seq(FullChunk)
    BY <1>1, <2>1, RestIsSuffix
  <2>3. PICK n \in Nat : n = Len(s)
    BY <1>1
  <2>4. PICK p \in Nat : p = Len(tx[a])
    BY <1>0
  <2>5. /\ n < p /\ Len(t) = p - n - 1
        /\ \A k \in 1 .. n : s[k] = tx[a][k]
        /\ \A k \in 1 .. Len(t) : t[k] = tx[a][n + 1 + k]
        /\ e = tx[a][n + 1]
    BY <1>4, <2>3, <2>4, SendableIsPrefix, RestIsSuffix
  <2> HIDE DEF s, t, e
  <2>6. /\ u \in Seq(Chunk) /\ Len(u) = p - n
        /\ u[1] = e /\ \A k \in 2 .. Len(u) : u[k] = t[k - 1]
    <3>1. /\ u \in Seq(Chunk) /\ Len(u) = 1 + Len(t)
          /\ \A k \in 1 .. Len(u) : IF k <= 1 THEN u[k] = e
                                    ELSE k - 1 \in 1 .. Len(t) /\ u[k] = t[k - 1]
      BY <2>2, ConcatIndex
    <3> HIDE DEF u
    <3> QED
      BY <2>5, <3>1
  <2> HIDE DEF u
  <2>7. /\ s \o u \in Seq(Chunk) /\ Len(s \o u) = p
        /\ \A k \in 1 .. p : IF k <= n THEN (s \o u)[k] = s[k]
                             ELSE k - n \in 1 .. Len(u) /\ (s \o u)[k] = u[k - n]
    BY <2>2, <2>3, <2>4, <2>5, <2>6, ConcatIndex
  <2>8. \A k \in 1 .. p : (s \o u)[k] = tx[a][k]
    <3> SUFFICES ASSUME NEW k \in 1 .. p PROVE (s \o u)[k] = tx[a][k]
      OBVIOUS
    <3>1. CASE k <= n
      <4>1. (s \o u)[k] = s[k] /\ k \in 1 .. n
        BY <2>7, <3>1
      <4> QED
        BY <2>5, <4>1
    <3>2. CASE k = n + 1
      <4>1. k - n = 1 /\ ~(k <= n)
        BY <3>2
      <4> QED
        BY <2>5, <2>6, <2>7, <3>2, <4>1
    <3>3. CASE k > n + 1
      <4>1. PICK j \in Nat : j = k - n - 1
        BY <3>3
      <4>2. k - n \in 2 .. Len(u) /\ ~(k <= n) /\ (k - n) - 1 = j /\ j \in 1 .. Len(t)
            /\ n + 1 + j = k
        BY <2>5, <2>6, <3>3, <4>1
      <4>3. (s \o u)[k] = u[k - n] /\ u[k - n] = t[j]
        BY <2>6, <2>7, <4>2
      <4> QED
        BY <2>5, <4>2, <4>3
    <3>4. k <= n \/ k = n + 1 \/ k > n + 1
      OBVIOUS
    <3> QED
      BY <3>1, <3>2, <3>3, <3>4
  <2>9. s \o u = tx[a]
    BY <1>0, <2>4, <2>7, <2>8, SeqEqual
  <2>10. Data(s \o u) = Data(s) \o Data(u)
    BY <2>2, <2>6, DataConcat
  <2>11. Data(u) = Data(<<e>>) \o Data(t)
    BY <2>2, DataConcat DEF u
  <2>12. Data(<<e>>) = <<>> /\ Data(s) = s /\ Data(t) \in Seq(FullChunk)
    BY <2>1, <2>2, NoData, FullData, DataType DEF e
  <2>13. Data(u) = Data(t)
    BY <2>11, <2>12, ConcatEmptySeq
  <2> QED
    BY <1>4, <2>9, <2>10, <2>12, <2>13 DEF s, t
<1> QED
  BY <1>0, <1>1, <1>2, <1>3, <1>4

-----------------------------------------------------------------------------
(* A connection is a channel                                               *)

Closed(c) == life[c] = "closed"

\* What a step may do to a connection: put chunks behind those that wait, send it the
\* first of them, or end it after that.
ChannelStep(c) ==
    \/ /\ ~Closed(c) /\ ~Closed(c)' /\ UNCHANGED got[c]
       /\ \E more \in Seq(FullChunk) : Waiting(c)' = Waiting(c) \o more
    \/ /\ ~Closed(c) /\ ~Closed(c)'
       /\ \E first \in Seq(FullChunk) : /\ got'[c] = got[c] \o first
                                        /\ Waiting(c) = first \o Waiting(c)'
    \/ /\ ~Closed(c) /\ Closed(c)'
       /\ \E first, others \in Seq(FullChunk) : /\ got'[c] = got[c] \o first
                                                /\ Waiting(c) = first \o others
    \/ Closed(c) /\ Closed(c)' /\ UNCHANGED got[c]

\* What waits for a connection is full chunks, and there is none unless it is open.
LEMMA WaitingType ==
    ASSUME TypeInv, NEW c \in Conns
    PROVE  Waiting(c) \in Seq(FullChunk) /\ (c \notin Open => Waiting(c) = <<>>)
<1>1. CASE c \in Open
  <2>1. at[c] \in Addrs /\ tx[at[c]] \in Seq(Chunk)
    BY <1>1, Captured DEF TypeInv, TypeOK
  <2> QED
    BY <1>1, <2>1, DataType DEF Waiting
<1> QED
  BY <1>1, EmptySeq DEF Waiting

\* A step that changes neither what waits nor what was sent.
LEMMA SameChannel ==
    ASSUME TypeInv, NEW c \in Conns, UNCHANGED <<got[c], life[c]>>,
           c \in Open => UNCHANGED <<at[c], tx[at[c]]>>
    PROVE  ChannelStep(c)
<1>1. CASE ~Closed(c)
  <2>1. Waiting(c)' = Waiting(c)
    BY DEF Waiting, Open
  <2>2. Waiting(c) \o <<>> = Waiting(c) /\ <<>> \in Seq(FullChunk)
    BY WaitingType, ConcatEmptySeq
  <2> QED
    BY <1>1, <2>1, <2>2 DEF ChannelStep, Closed
<1>2. CASE Closed(c)
  BY <1>2 DEF ChannelStep, Closed
<1> QED
  BY <1>1, <1>2

\* A connection that is closed with nothing more being sent.
LEMMA CloseChannel ==
    ASSUME TypeInv, NEW c \in Conns, UNCHANGED got[c], c \in Open, life'[c] = "closed"
    PROVE  ChannelStep(c)
<1>1. got[c] \in Seq(FullChunk) /\ Waiting(c) \in Seq(FullChunk) /\ <<>> \in Seq(FullChunk)
  BY WaitingType DEF TypeInv, TypeOK, FullChunk
<1>2. got[c] \o <<>> = got[c] /\ <<>> \o Waiting(c) = Waiting(c)
  BY <1>1, ConcatEmptySeq
<1> QED
  BY <1>1, <1>2 DEF ChannelStep, Closed, Open

\* Queueing a response puts its data behind what waits.
LEMMA SendChannel ==
    ASSUME TypeInv, NEW a \in Addrs, NEW r \in Requests, SendResponse(a, r),
           UNCHANGED <<got, life, at>>, NEW c \in Conns
    PROVE  ChannelStep(c)
<1>0. TypeOK
  BY DEF TypeInv
<1>1. /\ tx[a] \in Seq(Chunk) /\ Chunks(r) \in Seq(Chunk)
      /\ tx' = [tx EXCEPT ![a] = tx[a] \o Chunks(r)] /\ tx \in [Addrs -> Seq(Chunk)]
  BY <1>0, SendTypes, ChunksAreChunks DEF TypeOK
<1>2. CASE c \in Open /\ at[c] = a
  <2>1. Waiting(c) = Data(tx[a]) /\ Waiting(c)' = Data(tx'[a])
    BY <1>2 DEF Waiting, Open
  <2>2. tx'[a] = tx[a] \o Chunks(r)
    BY <1>1
  <2>3. Data(tx[a] \o Chunks(r)) = Data(tx[a]) \o Data(Chunks(r))
    BY <1>1, DataConcat
  <2>4. Data(Chunks(r)) \in Seq(FullChunk)
    BY <1>1, DataType
  <2> QED
    BY <1>2, <2>1, <2>2, <2>3, <2>4 DEF ChannelStep, Closed, Open
<1>3. CASE ~(c \in Open /\ at[c] = a)
  <2>1. c \in Open => at[c] \in Addrs /\ at[c] # a
    BY <1>3, Captured
  <2>2. c \in Open => UNCHANGED <<at[c], tx[at[c]]>>
    BY <1>1, <2>1
  <2> QED
    BY <2>2, SameChannel
<1> QED
  BY <1>2, <1>3

\* A pass sends a connection the first of what waits, and may close it after that.
LEMMA PassChannel ==
    ASSUME TypeInv, NEW visited \in SUBSET Open, Pass(visited), NEW c \in Conns
    PROVE  ChannelStep(c)
<1>0. TypeOK /\ life[c] \in {"new", "open", "closed"}
  BY DEF TypeInv, TypeOK
<1>1. /\ UNCHANGED at
      /\ life'[c] = IF c \in visited \cap failed THEN "closed" ELSE life[c]
      /\ got'[c] = IF c \in visited THEN got[c] \o Sendable(at[c]) ELSE got[c]
  BY PassEffect
<1>2. ASSUME c \in Open
      PROVE  /\ at[c] \in Addrs /\ life[c] = "open"
             /\ c \notin visited \cap failed =>
                   tx'[at[c]] = IF stuck[at[c]] \/ c \notin visited THEN tx[at[c]] ELSE Rest(at[c])
  <2>1. at[c] \in Addrs /\ \A d \in Open : at[d] = at[c] => d = c
    BY <1>2, Captured DEF TypeInv, AddressInv
  <2>2. at[c] \in {at[d] : d \in visited} <=> c \in visited
    BY <2>1
  <2>3. at[c] \in {at[d] : d \in visited \cap failed} <=> c \in visited \cap failed
    BY <2>1
  <2>4. \A a \in Addrs :
           tx'[a] = IF a \in {at[d] : d \in visited \cap failed} THEN <<>>
                    ELSE IF stuck[a] \/ a \notin {at[d] : d \in visited} THEN tx[a]
                    ELSE Rest(a)
    BY DEF Pass, Rest
  <2> QED
    BY <1>2, <2>1, <2>2, <2>3, <2>4 DEF Open
<1>3. CASE c \notin Open \/ c \notin visited
  <2>1. got'[c] = got[c] /\ life'[c] = life[c]
    BY <1>1, <1>3
  <2>2. c \in Open => UNCHANGED <<at[c], tx[at[c]]>>
    BY <1>1, <1>2, <1>3
  <2> QED
    BY <2>1, <2>2, SameChannel
<1>4. CASE c \in Open /\ c \in visited
  <2> DEFINE a == at[c]
             left == IF stuck[a] THEN tx[a] ELSE Rest(a)
  <2>1. a \in Addrs /\ life[c] = "open" /\ got'[c] = got[c] \o Sendable(a)
        /\ (c \notin failed => tx'[a] = left /\ life'[c] = "open")
        /\ (c \in failed => life'[c] = "closed")
    BY <1>1, <1>2, <1>4
  <2>2. Sendable(a) \in Seq(FullChunk) /\ left \in Seq(Chunk)
    BY <1>0, <2>1, SendableIsPrefix, RestIsSuffix DEF TypeOK
  <2>3. Data(tx[a]) = Sendable(a) \o Data(left)
    <3>1. CASE stuck[a]
      <4>1. tx[a] \in Seq(Chunk) /\ Sendable(a) = <<>> /\ left = tx[a]
        BY <1>0, <2>1, <3>1, PassData DEF TypeOK
      <4>2. <<>> \o Data(tx[a]) = Data(tx[a])
        BY <4>1, DataType, ConcatEmptySeq
      <4> QED
        BY <4>1, <4>2
    <3>2. CASE ~stuck[a]
      BY <1>0, <2>1, <3>2, PassData
    <3> QED
      BY <3>1, <3>2
  <2>4. Data(left) \in Seq(FullChunk)
    BY <2>2, DataType
  <2>5. Waiting(c) = Data(tx[a])
    BY <1>4 DEF Waiting
  <2>6. c \notin failed => Waiting(c)' = Data(left)
    BY <1>1, <2>1 DEF Waiting, Open
  <2> HIDE DEF left
  <2>7. CASE c \notin failed
    BY <2>1, <2>2, <2>3, <2>5, <2>6, <2>7 DEF ChannelStep, Closed
  <2>8. CASE c \in failed
    BY <2>1, <2>2, <2>3, <2>4, <2>5, <2>8 DEF ChannelStep, Closed
  <2> QED
    BY <2>7, <2>8
<1> QED
  BY <1>3, <1>4

\* A new connection has nothing to be sent, whoever had its address before.
LEMMA ConnectChannel ==
    ASSUME TypeInv, DeletedClientIsLeftAlone, NEW d \in Conns, NEW a \in Addrs, Connect(d, a),
           NEW c \in Conns
    PROVE  ChannelStep(c)
<1>0. /\ life \in [Conns -> {"new", "open", "closed"}] /\ at \in [Conns -> Addrs \cup {NoAddr}]
      /\ life' = [life EXCEPT ![d] = "open"] /\ at' = [at EXCEPT ![d] = a]
      /\ life[d] = "new" /\ UNCHANGED <<tx, got>>
  BY DEF Connect, TypeInv, TypeOK, output
<1>1. tx[a] = <<>>
  BY DEF Connect, Free, DeletedClientIsLeftAlone, Open
<1>2. CASE c = d
  <2>1. Waiting(c) = <<>> /\ ~Closed(c) /\ ~Closed(c)'
    BY <1>0, <1>2 DEF Waiting, Open, Closed
  <2>2. Waiting(c)' = Data(tx'[a])
    BY <1>0, <1>2 DEF Waiting, Open
  <2>3. Data(tx'[a]) = <<>> /\ <<>> \o <<>> = <<>> /\ <<>> \in Seq(FullChunk)
    BY <1>0, <1>1, NoData, ConcatEmptySeq, EmptySeq
  <2> QED
    BY <1>0, <2>1, <2>2, <2>3 DEF ChannelStep
<1>3. CASE c # d
  <2>1. life'[c] = life[c] /\ at'[c] = at[c]
    BY <1>0, <1>3
  <2> QED
    BY <1>0, <2>1, SameChannel
<1> QED
  BY <1>2, <1>3

\* Every step is a step of each connection as a channel.
LEMMA NextChannel ==
    ASSUME TypeInv, DeletedClientIsLeftAlone, [Next]_vars, NEW c \in Conns
    PROVE  ChannelStep(c)
<1> USE DEF connection, output
<1>0. TypeOK /\ AddressInv
  BY DEF TypeInv
<1>1. ASSUME NEW d \in Conns, Disconnect(d) PROVE ChannelStep(c)
  <2>1. /\ life' = [life EXCEPT ![d] = "closed"] /\ life[d] = "open"
        /\ tx' = [tx EXCEPT ![at[d]] = <<>>] /\ UNCHANGED <<at, got>>
        /\ life \in [Conns -> {"new", "open", "closed"}] /\ tx \in [Addrs -> Seq(Chunk)]
    BY <1>0, <1>1 DEF Disconnect, TypeOK
  <2>2. CASE c = d
    BY <2>1, <2>2, CloseChannel DEF Open
  <2>3. CASE c # d
    <3>1. c \in Open => at[c] \in Addrs /\ at[c] # at[d]
      BY <1>0, <2>1, <2>3, Captured DEF AddressInv, Open
    <3>2. c \in Open => tx'[at[c]] = tx[at[c]]
      BY <2>1, <3>1
    <3>3. life'[c] = life[c]
      BY <2>1, <2>3
    <3> QED
      BY <2>1, <3>2, <3>3, SameChannel
  <2> QED
    BY <2>2, <2>3
<1>2. ASSUME NEW d \in Conns, NEW a \in Addrs, Connect(d, a) PROVE ChannelStep(c)
  BY <1>2, ConnectChannel
<1>3. ASSUME NEW d \in Conns, NEW r \in Requests, Message(d, r) \/ FramingError(d, r)
      PROVE  ChannelStep(c)
  <2>1. at[d] \in Addrs /\ UNCHANGED <<life, at, got>>
        /\ (SendResponse(at[d], r) \/ UNCHANGED tx)
    BY <1>3, MessageEffect
  <2> QED
    BY <2>1, SendChannel, SameChannel
<1>4. CASE Deliver
  <2>1. /\ UNCHANGED <<life, at, got>> /\ Head(queue) \in Response
        /\ UNCHANGED tx \/ SendResponse(Head(queue).addr, Head(queue).req)
    BY <1>4, DeliverEffect
  <2>2. Head(queue).addr \in Addrs /\ Head(queue).req \in Requests
    BY <2>1 DEF Response
  <2> QED
    BY <2>1, <2>2, SendChannel, SameChannel
<1>5. ASSUME NEW visited \in SUBSET Open, Pass(visited) PROVE ChannelStep(c)
  BY <1>5, PassChannel
<1>6. CASE Exit
  <2>1. life'[c] = (IF c \in Open THEN "closed" ELSE life[c]) /\ UNCHANGED got
    BY <1>6 DEF Exit
  <2>2. CASE c \in Open
    BY <2>1, <2>2, CloseChannel
  <2>3. CASE c \notin Open
    BY <2>1, <2>3, SameChannel
  <2> QED
    BY <2>2, <2>3
<1>7. CASE UNCHANGED <<connection, output>>
  BY <1>7, SameChannel
<1>8. ASSUME NEW r \in Requests, JobStep(r) PROVE ChannelStep(c)
  BY <1>7, <1>8, JobEffect
<1> QED
  BY <1>1, <1>2, <1>3, <1>4, <1>5, <1>6, <1>7, <1>8, Steps

-----------------------------------------------------------------------------
(* The steps of the channel                                                *)

\* The channel's prefix relation is the one of the sequences.
LEMMA SamePrefix ==
    \A s, t : Connection!IsPrefix(s, t) <=> IsPrefix(s, t)
BY DEF Connection!IsPrefix, IsPrefix

\* The channel's steps, with the queue and the end of a connection put in.
LEMMA CarryIs ==
    ASSUME NEW c \in Conns,
           ~Closed(c), ~Closed(c)',
           IsPrefix(got[c], got'[c]),
           IsPrefix(got[c] \o Waiting(c), got'[c] \o Waiting(c)')
    PROVE  Connection!Carry(c)
<1>1. ~[d \in Conns |-> life[d] = "closed"][c]
  BY Zenon DEF Closed
<1>2. ~([d \in Conns |-> life[d] = "closed"]')[c]
  BY Zenon DEF Closed
<1>3. [d \in Conns |-> Waiting(d)][c] = Waiting(c)
  BY Zenon
<1>4. ([d \in Conns |-> Waiting(d)]')[c] = Waiting(c)'
  BY Zenon
<1>5. Connection!IsPrefix(got[c], got'[c])
  BY SamePrefix
<1>6. Connection!IsPrefix(got[c] \o Waiting(c), got'[c] \o Waiting(c)')
  BY SamePrefix
<1>7. Connection!IsPrefix(got[c] \o [d \in Conns |-> Waiting(d)][c],
                          got'[c] \o ([d \in Conns |-> Waiting(d)]')[c])
  BY <1>3, <1>4, <1>6, Zenon
<1> QED
  BY <1>1, <1>2, <1>5, <1>7, Zenon DEF Connection!Carry

\* The same of the step that ends the connection.
LEMMA EndIs ==
    ASSUME NEW c \in Conns,
           ~Closed(c), Closed(c)', Waiting(c)' = <<>>,
           IsPrefix(got[c], got'[c]),
           IsPrefix(got'[c], got[c] \o Waiting(c))
    PROVE  Connection!End(c)
<1>1. ~[d \in Conns |-> life[d] = "closed"][c]
  BY Zenon DEF Closed
<1>2. ([d \in Conns |-> life[d] = "closed"]')[c]
  BY Zenon DEF Closed
<1>3. [d \in Conns |-> Waiting(d)][c] = Waiting(c)
  BY Zenon
<1>4. ([d \in Conns |-> Waiting(d)]')[c] = <<>>
  BY Zenon
<1>5. Connection!IsPrefix(got[c], got'[c])
  BY SamePrefix
<1>6. Connection!IsPrefix(got'[c], got[c] \o Waiting(c))
  BY SamePrefix
<1>7. Connection!IsPrefix(got'[c], got[c] \o [d \in Conns |-> Waiting(d)][c])
  BY <1>3, <1>6, Zenon
<1> QED
  BY <1>1, <1>2, <1>4, <1>5, <1>7, Zenon DEF Connection!End

\* A sequence begins with itself and with what others are put behind.
LEMMA BeginsWith ==
    ASSUME NEW S, NEW s \in Seq(S), NEW t \in Seq(S)
    PROVE  IsPrefix(s, s \o t) /\ s \o t \in Seq(S)
<1> DEFINE u == s \o t
           n == Len(s)
<1>1. /\ u \in Seq(S) /\ Len(u) = n + Len(t)
      /\ \A k \in 1 .. n : u[k] = s[k]
      /\ n \in Nat /\ Len(t) \in Nat /\ n <= Len(s)
  BY ConcatProperties
<1>2. \A k \in 1 .. n : s[k] \in S /\ u[k] \in S
  BY <1>1, ElementOfSeq
<1> HIDE DEF u, n
<1>3. n <= Len(u)
  BY <1>1
<1>4. /\ SubSeq(s, 1, n) \in Seq(S) /\ Len(SubSeq(s, 1, n)) = n
      /\ \A k \in 1 .. n : SubSeq(s, 1, n)[k] = s[k]
  BY <1>1, <1>2, SubSeqProperties
<1>5. /\ SubSeq(u, 1, n) \in Seq(S) /\ Len(SubSeq(u, 1, n)) = n
      /\ \A k \in 1 .. n : SubSeq(u, 1, n)[k] = u[k]
  BY <1>1, <1>2, <1>3, SubSeqProperties
<1>6. SubSeq(s, 1, n) = SubSeq(u, 1, n)
  BY <1>1, <1>4, <1>5, SeqEqual
<1> QED
  BY <1>1, <1>3, <1>6 DEF IsPrefix, u, n

\* Three sequences put together, and what they begin with.
LEMMA Together ==
    ASSUME NEW s \in Seq(FullChunk), NEW t \in Seq(FullChunk), NEW u \in Seq(FullChunk)
    PROVE  /\ (s \o t) \o u = s \o (t \o u)
           /\ IsPrefix(s, s \o t) /\ IsPrefix(s \o t, (s \o t) \o u)
<1>1. (s \o t) \o u = s \o (t \o u)
  BY ConcatAssociative
<1>2. s \o t \in Seq(FullChunk) /\ IsPrefix(s, s \o t)
  BY BeginsWith
<1>3. IsPrefix(s \o t, (s \o t) \o u)
  BY <1>2, BeginsWith
<1> QED
  BY <1>1, <1>2, <1>3

\* What a connection does as a channel is what a channel may do.
LEMMA StepRefines ==
    ASSUME TypeInv, TypeInv', NEW c \in Conns, ChannelStep(c)
    PROVE  Connection!Carry(c) \/ Connection!End(c) \/ Connection!Ended(c)
<1> PICK g \in Seq(FullChunk) : g = got[c]
  BY DEF TypeInv, TypeOK, FullChunk
<1> PICK w \in Seq(FullChunk) : w = Waiting(c)
  BY WaitingType
<1>1. Waiting(c)' \in Seq(FullChunk)
  <2>1. (c \in Open /\ at[c] \in Addrs /\ tx[at[c]] \in Seq(Chunk))' \/ c \notin Open'
    BY DEF TypeInv, TypeOK, AddressInv, Open
  <2>2. Waiting(c)' = IF c \in Open' THEN Data(tx'[at'[c]]) ELSE <<>>
    BY DEF Waiting
  <2> QED
    BY <2>1, <2>2, DataType, EmptySeq
<1> PICK v \in Seq(FullChunk) : v = Waiting(c)'
  BY <1>1
<1>2. g \o w \in Seq(FullChunk) /\ g \o <<>> = g /\ (g \o w) \o <<>> = g \o w
  BY ConcatProperties, ConcatEmptySeq
<1>8. \A x, y \in Seq(FullChunk) :
         /\ (g \o x) \o y = g \o (x \o y)
         /\ IsPrefix(g, g \o x) /\ IsPrefix(g \o x, (g \o x) \o y)
  BY Together, Zenon
<1>3. IsPrefix(g, g) /\ IsPrefix(g \o w, g \o w)
  BY <1>2, BeginsWith, EmptySeq
<1>4. CASE /\ ~Closed(c) /\ ~Closed(c)' /\ UNCHANGED got[c]
           /\ \E more \in Seq(FullChunk) : Waiting(c)' = Waiting(c) \o more
  <2>1. PICK more \in Seq(FullChunk) : v = w \o more
    BY <1>4
  <2>2. (g \o w) \o more = g \o (w \o more) /\ IsPrefix(g \o w, (g \o w) \o more)
    BY <1>8, Zenon
  <2>3. IsPrefix(g \o w, g \o v)
    BY <2>1, <2>2, Zenon
  <2> QED
    BY <1>3, <1>4, <2>3, CarryIs
<1>5. CASE /\ ~Closed(c) /\ ~Closed(c)'
           /\ \E first \in Seq(FullChunk) : /\ got'[c] = got[c] \o first
                                            /\ Waiting(c) = first \o Waiting(c)'
  <2>1. PICK first \in Seq(FullChunk) : got'[c] = g \o first /\ w = first \o v
    BY <1>5
  <2>2. (g \o first) \o v = g \o w
    BY <1>8, <2>1, Zenon
  <2>3. IsPrefix(g, g \o first)
    BY <1>8
  <2> QED
    BY <1>3, <1>5, <2>1, <2>2, <2>3, CarryIs
<1>6. CASE /\ ~Closed(c) /\ Closed(c)'
           /\ \E first, others \in Seq(FullChunk) : /\ got'[c] = got[c] \o first
                                                    /\ Waiting(c) = first \o others
  <2>1. PICK first, others \in Seq(FullChunk) : got'[c] = g \o first /\ w = first \o others
    BY <1>6
  <2>2. /\ (g \o first) \o others = g \o (first \o others)
        /\ IsPrefix(g, g \o first) /\ IsPrefix(g \o first, (g \o first) \o others)
    BY <1>8, Zenon
  <2>3. IsPrefix(g, g \o first) /\ IsPrefix(g \o first, g \o w)
    BY <2>1, <2>2, Zenon
  <2>4. Waiting(c)' = <<>>
    BY <1>6 DEF Waiting, Closed, Open
  <2> QED
    BY <1>6, <2>1, <2>3, <2>4, EndIs
<1>7. CASE Closed(c) /\ Closed(c)' /\ UNCHANGED got[c]
  <2>1. Waiting(c) = <<>> /\ Waiting(c)' = <<>>
    BY <1>7 DEF Waiting, Closed, Open
  <2>2. [d \in Conns |-> Waiting(d)][c] = <<>> /\ ([d \in Conns |-> Waiting(d)]')[c] = <<>>
    BY <2>1, Zenon
  <2>3. /\ [d \in Conns |-> life[d] = "closed"][c]
        /\ ([d \in Conns |-> life[d] = "closed"]')[c]
    BY <1>7, Zenon DEF Closed
  <2> QED
    BY <1>7, <2>2, <2>3, Zenon DEF Connection!Ended
<1> QED
  BY <1>4, <1>5, <1>6, <1>7 DEF ChannelStep

\* Without a chunk each connection is an empty channel.
LEMMA InitRefines == Init => Connection!Init
<1> SUFFICES ASSUME Init PROVE Connection!Init
  OBVIOUS
<1>1. \A c \in Conns : Waiting(c) = <<>> /\ ~(life[c] = "closed")
  BY DEF Init, Waiting, Open
<1>2. [c \in Conns |-> Waiting(c)] = [c \in Conns |-> <<>>]
  BY <1>1
<1>3. [c \in Conns |-> life[c] = "closed"] = [c \in Conns |-> FALSE]
  <2>1. \A c \in Conns : (life[c] = "closed") = FALSE
    BY <1>1
  <2> QED
    BY <2>1, Zenon
<1>4. got = [c \in Conns |-> <<>>]
  BY DEF Init
<1> QED
  BY <1>2, <1>3, <1>4 DEF Connection!Init

\* Each connection is a channel: it is sent what was queued for it, in that order and
\* once, whoever answers, whatever fails, and for responses of any length.
THEOREM ServerIsChannel == Spec => ImplementsChannel
<1> DEFINE I == TypeInv /\ DeletedClientIsLeftAlone
<1>1. I /\ I' /\ [Next]_vars => Connection!Next
  <2> SUFFICES ASSUME I, I', [Next]_vars PROVE Connection!Next
    OBVIOUS
  <2>1. \A c \in Conns : Connection!Carry(c) \/ Connection!End(c) \/ Connection!Ended(c)
    BY NextChannel, StepRefines
  <2> QED
    BY <2>1 DEF Connection!Next
<1>2. Init => I
  BY InitTypeInv, InitLeftAlone
<1>3. I /\ [Next]_vars => I'
  BY NextTypeInv, NextLeftAlone
<1> QED
  BY <1>1, <1>2, <1>3, InitRefines, PTL DEF Spec, ImplementsChannel, Connection!Spec
=============================================================================
