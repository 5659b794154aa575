----------------------------- MODULE HTTPFraming -----------------------------
(***************************************************************************)
(* webserver/HTTPFramingStrategy.cpp in the loop of TcpClient::onReceive:  *)
(* the requests of one client, cut by the network in pieces that need not  *)
(* agree with them, put together again.  A request is the length of its    *)
(* header, which ends with the blank line, what the header says of the     *)
(* body, and the length of the body; a Content-Length line is seen when    *)
(* the header it is in is there up to its end.  Positions are counted from *)
(* the first byte of the connection.                                       *)
(***************************************************************************)
EXTENDS Integers, FiniteSets, Sequences, SequencesExt, FiniteSetsExt

CONSTANTS Requests,     \* what the client may send
          MaxRequests,  \* bound: requests the client sends
          RecvSize,     \* size of processReceive's buffer
          HeaderLimit,  \* the 2k of a header that is not complete
          Leftover      \* the memory behind the buffer may hold a blank line

\* declares is FALSE for a request without a Content-Length line
RequestType == [header : Nat \ {0}, declares : BOOLEAN, chunked : BOOLEAN, body : Nat]

ASSUME RequestsAssumption == Requests \subseteq RequestType
ASSUME UndeclaredAssumption == \A r \in Requests : r.declares \/ r.body = 0
ASSUME BoundsAssumption ==
    MaxRequests \in Nat /\ RecvSize \in Nat \ {0} /\ HeaderLimit \in Nat /\ Leftover \in BOOLEAN

VARIABLES sent,       \* requests the client has sent
          ends,       \* the last position of each
          wire,       \* bytes of them not yet received
          pc,         \* "idle", in the loop of onReceive, or "failed": mFailed
          size,       \* bytes onReceive has still to look at
          base,       \* where the message in the buffer begins
          held,       \* info.size
          delivered   \* the first and last position of each message delivered

vars == <<sent, ends, wire, pc, size, base, held, delivered>>

LengthOf(r) == r.header + r.body

\* Where the k-th request, and its header, end.
EndOf(k) == IF k = 0 THEN 0 ELSE ends[k]
HeaderEnd(k) == EndOf(k - 1) + sent[k].header

TypeOK ==
    /\ sent \in Seq(Requests) /\ Len(sent) <= MaxRequests
    /\ ends \in Seq(Nat) /\ Len(ends) = Len(sent)
    /\ wire \in 0 .. EndOf(Len(sent))
    /\ pc \in {"idle", "loop", "failed"}
    /\ size \in 0 .. RecvSize
    /\ base \in 0 .. EndOf(Len(sent))
    /\ held \in 0 .. EndOf(Len(sent)) - base
    /\ delivered \in Seq((1 .. EndOf(Len(sent))) \X (1 .. EndOf(Len(sent))))

Init ==
    /\ sent = <<>>
    /\ ends = <<>>
    /\ wire = 0
    /\ pc = "idle"
    /\ size = 0
    /\ base = 0
    /\ held = 0
    /\ delivered = <<>>

-----------------------------------------------------------------------------

ClientSends(r) ==
    /\ Len(sent) < MaxRequests
    /\ sent' = Append(sent, r)
    /\ ends' = Append(ends, EndOf(Len(sent)) + LengthOf(r))
    /\ wire' = wire + LengthOf(r)
    /\ UNCHANGED <<pc, size, base, held, delivered>>

\* onReceive() is given the n bytes read() returned; after a framing error it
\* returns at once.
Receive(n) ==
    /\ pc = "idle"
    /\ n <= wire
    /\ wire' = wire - n
    /\ size' = n
    /\ pc' = "loop"
    /\ UNCHANGED <<sent, ends, base, held, delivered>>

EndLoop ==
    /\ pc = "loop"
    /\ size = 0
    /\ pc' = "idle"
    /\ UNCHANGED <<sent, ends, wire, size, base, held, delivered>>

-----------------------------------------------------------------------------
(* processData()                                                           *)

\* The last position in the buffer, with the bytes given.
BufferEnd == base + held + size

\* The requests of which the buffer holds the end of the header, though perhaps
\* not the beginning.
HeadersSeen == {k \in DOMAIN sent : HeaderEnd(k) > base /\ HeaderEnd(k) <= BufferEnd}

\* eoh + 4: the first blank line.
EndOfHeader == HeaderEnd(Min(HeadersSeen)) - base

\* Mutant of ContentLength: the last line that matches.
LastLength ==
    LET lines == {k \in HeadersSeen : sent[k].declares}
    IN  IF lines = {} THEN 0 ELSE sent[Max(lines)].body

\* The first Content-Length line in the buffer, whatever request it belongs to.
ContentLength ==
    LET lines == {k \in HeadersSeen : sent[k].declares}
    IN  IF lines = {} THEN 0 ELSE sent[Min(lines)].body

Keep ==
    /\ held' = held + size
    /\ size' = 0
    /\ UNCHANGED <<sent, ends, wire, base, delivered>>

\* Mutant of NoHeader: the limit is looked at before the bytes are counted in.
NoHeaderBytes ==
    /\ pc = "loop" /\ size > 0
    /\ HeadersSeen = {}
    /\ pc' = IF held + RecvSize > HeaderLimit THEN "failed" ELSE pc
    /\ Keep

\* No blank line yet, and too much without one is a framing error.
NoHeader ==
    /\ pc = "loop" /\ size > 0
    /\ HeadersSeen = {}
    /\ pc' = IF held + size > HeaderLimit THEN "failed" ELSE pc
    /\ Keep

\* The buffer is read as a string that nothing ends: the search runs into what
\* an earlier request left behind it.  A blank line found there is beyond the
\* bytes received, so more are waited for.
NoHeaderButLeftover ==
    /\ Leftover
    /\ pc = "loop" /\ size > 0
    /\ HeadersSeen = {}
    /\ UNCHANGED pc
    /\ Keep

\* One chunked request anywhere in the buffer is an error.
Chunked ==
    /\ pc = "loop" /\ size > 0
    /\ \E k \in HeadersSeen : sent[k].chunked
    /\ pc' = "failed"
    /\ UNCHANGED <<sent, ends, wire, size, base, held, delivered>>

HeaderSeen ==
    /\ pc = "loop" /\ size > 0
    /\ HeadersSeen # {}
    /\ \A k \in HeadersSeen : ~sent[k].chunked

NoBody ==
    /\ HeaderSeen
    /\ held + size < EndOfHeader + ContentLength
    /\ UNCHANGED pc
    /\ Keep

\* delta: how much of the bytes given belongs to the message.
Delta == EndOfHeader + ContentLength - held

\* Mutant of Consumed: all of the bytes given.
ConsumedAll == size

Consumed == Delta

\* The message is complete and delivered, and the rest is looked at again.  A
\* negative value would be taken for a framing error.
Complete ==
    /\ HeaderSeen
    /\ held + size >= EndOfHeader + ContentLength
    /\ Delta >= 0
    /\ delivered' = Append(delivered, <<base + 1, base + held + Delta>>)
    /\ size' = size - Consumed
    /\ base' = base + held + Consumed
    /\ held' = 0
    /\ UNCHANGED <<sent, ends, wire, pc>>

Process == NoHeader \/ NoHeaderButLeftover \/ Chunked \/ NoBody \/ Complete

-----------------------------------------------------------------------------

Next ==
    \/ \E r \in Requests : ClientSends(r)
    \/ \E n \in 1 .. RecvSize : Receive(n)
    \/ Process \/ EndLoop

Spec == Init /\ [][Next]_vars

\* What has arrived is read, and onReceive runs to its end.
FairSpec ==
    Spec /\ WF_vars(Process \/ EndLoop) /\ WF_vars(\E n \in 1 .. RecvSize : Receive(n))

-----------------------------------------------------------------------------
(* Properties                                                              *)

\* Content-Length is looked for in all that was received: a request that does not
\* have it takes the length of the one behind it, and nothing below holds.
AllDeclare == \A k \in DOMAIN sent : sent[k].declares

\* However the network cuts them, the messages delivered are the requests sent,
\* each from its first to its last byte, if each says how long it is.
DeliveredAsSent ==
    AllDeclare => \A k \in DOMAIN delivered :
        k \in DOMAIN sent /\ delivered[k] = <<EndOf(k - 1) + 1, EndOf(k)>>

\* Only a client that sends a chunked request, or a header that is longer than
\* the limit, meets a framing error.
ErrorsHaveACause ==
    pc = "failed" /\ AllDeclare =>
        \E k \in DOMAIN sent : sent[k].chunked \/ sent[k].header > HeaderLimit

\* Every request that was sent is delivered, unless there is a framing error or one
\* does not say how long it is.
RequestIsDelivered ==
    \A k \in 1 .. MaxRequests :
        k \in DOMAIN sent ~> (k <= Len(delivered) \/ pc = "failed" \/ ~AllDeclare)

=============================================================================
