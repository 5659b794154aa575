-------------------------- MODULE HTTPFraming_proofs --------------------------
(***************************************************************************)
(* What the framing delivers, for every set of requests, every size of the *)
(* pieces they come in and every limit.                                    *)
(***************************************************************************)
EXTENDS HTTPFraming, SequenceTheorems, WellFoundedInduction, TLAPS

-----------------------------------------------------------------------------
(* The inductive invariant                                                 *)

\* The requests stand one behind the other.
EndsInv ==
    /\ \A k \in 1 .. Len(sent) : EndOf(k) = EndOf(k - 1) + LengthOf(sent[k])
    /\ \A j, k \in 0 .. Len(sent) : j <= k => EndOf(j) <= EndOf(k)

\* No byte is lost or counted twice: each is behind the buffer's beginning, in it,
\* in the hands of onReceive, or on the wire.
BytesInv == base + held + size + wire = EndOf(Len(sent))

\* The buffer begins where the last message delivered ends, if each says how long it is.
PlaceInv == AllDeclare => Len(delivered) <= Len(sent) /\ base = EndOf(Len(delivered))

\* onReceive looks at all the bytes it is given.
IdleInv == pc = "idle" => size = 0

IInv == TypeOK /\ EndsInv /\ BytesInv /\ IdleInv /\ PlaceInv /\ DeliveredAsSent /\ ErrorsHaveACause

-----------------------------------------------------------------------------
(* Positions                                                               *)

\* What the constants are.
LEMMA Lengths ==
    /\ \A r \in Requests : r.header \in Nat /\ r.header > 0 /\ r.body \in Nat /\ LengthOf(r) \in Nat
    /\ MaxRequests \in Nat /\ RecvSize \in Nat /\ RecvSize > 0 /\ HeaderLimit \in Nat
BY RequestsAssumption, BoundsAssumption DEF RequestType, LengthOf

\* A header ends behind the request before it, and not behind its own.
LEMMA Positions ==
    ASSUME TypeOK, EndsInv
    PROVE  /\ Len(sent) \in Nat /\ DOMAIN sent = 1 .. Len(sent)
           /\ \A k \in 1 .. Len(sent) : sent[k] \in Requests
           /\ \A k \in 0 .. Len(sent) : EndOf(k) \in Nat
           /\ \A k \in 1 .. Len(sent) :
                 /\ HeaderEnd(k) \in Nat
                 /\ EndOf(k - 1) < HeaderEnd(k)
                 /\ HeaderEnd(k) + sent[k].body = EndOf(k)
<1>1. Len(sent) \in Nat /\ DOMAIN sent = 1 .. Len(sent) /\ Len(ends) = Len(sent)
  BY LenProperties DEF TypeOK
<1>2. \A k \in 1 .. Len(sent) : sent[k] \in Requests /\ ends[k] \in Nat
  BY <1>1, ElementOfSeq DEF TypeOK
<1>3. \A k \in 0 .. Len(sent) : EndOf(k) \in Nat
  BY <1>1, <1>2 DEF EndOf
<1>4. ASSUME NEW k \in 1 .. Len(sent)
      PROVE  /\ HeaderEnd(k) \in Nat
             /\ EndOf(k - 1) < HeaderEnd(k)
             /\ HeaderEnd(k) + sent[k].body = EndOf(k)
  <2>1. k - 1 \in 0 .. Len(sent) /\ k \in 0 .. Len(sent)
    BY <1>1
  <2>2. EndOf(k) \in Nat /\ EndOf(k - 1) \in Nat
    BY <1>3, <2>1
  <2>3. sent[k].header \in Nat /\ sent[k].header > 0 /\ sent[k].body \in Nat
    BY <1>2, Lengths
  <2>4. EndOf(k) = EndOf(k - 1) + (sent[k].header + sent[k].body)
    BY DEF EndsInv, LengthOf
  <2> QED
    BY <2>2, <2>3, <2>4 DEF HeaderEnd
<1> QED
  BY <1>1, <1>2, <1>3, <1>4

\* Every non-empty set of numbers has a least element: Min is what it says.
LEMMA LeastNumber ==
    ASSUME NEW T, T \subseteq Nat, T # {}
    PROVE  Min(T) \in T /\ \A n \in T : Min(T) <= n
<1> DEFINE Below == OpToRel(<, Nat)
<1>1. IsWellFoundedOn(Below, Nat)
  BY NatLessThanWellFounded
<1>2. \A m, n \in Nat : m < n => <<m, n>> \in Below
  BY DEF OpToRel
<1> HIDE DEF Below
<1>3. PICK x \in T : \A y \in T : <<y, x>> \notin Below
  BY <1>1, WFMin
<1>4. \A y \in T : x <= y
  <2> SUFFICES ASSUME NEW y \in T PROVE x <= y
    OBVIOUS
  <2>1. ~(y < x) /\ x \in Nat /\ y \in Nat
    BY <1>2, <1>3
  <2> QED
    BY <2>1
<1> QED
  BY <1>4 DEF Min

\* Whatever headers the buffer holds, the first blank line is in it, and a length is
\* read that is some request's, or none.
LEMMA LengthsRead ==
    ASSUME TypeOK, EndsInv, HeadersSeen # {}
    PROVE  /\ EndOfHeader \in Nat /\ EndOfHeader > 0
           /\ ContentLength \in Nat
<1>1. HeadersSeen \subseteq Nat /\ HeadersSeen \subseteq 1 .. Len(sent)
  BY Positions DEF HeadersSeen
<1>2. Min(HeadersSeen) \in HeadersSeen
  BY <1>1, LeastNumber
<1>3. HeaderEnd(Min(HeadersSeen)) \in Nat /\ HeaderEnd(Min(HeadersSeen)) > base
  BY <1>1, <1>2, Positions DEF HeadersSeen
<1>4. base \in Nat
  BY Positions DEF TypeOK
<1>5. EndOfHeader \in Nat /\ EndOfHeader > 0
  BY <1>3, <1>4 DEF EndOfHeader
<1> DEFINE lines == {k \in HeadersSeen : sent[k].declares}
<1>6. ASSUME lines # {} PROVE sent[Min(lines)].body \in Nat
  <2>1. Min(lines) \in lines
    BY <1>1, <1>6, LeastNumber
  <2> QED
    BY <2>1, <1>1, Positions, Lengths
<1> QED
  BY <1>5, <1>6 DEF ContentLength

\* The message in the buffer is the first request that was not delivered: its header is
\* the first that ends in the buffer, and its length the one that is read.
LEMMA FirstInBuffer ==
    ASSUME IInv, AllDeclare, HeadersSeen # {},
           NEW j, j = Len(delivered) + 1
    PROVE  /\ j \in 1 .. Len(sent)
           /\ base + EndOfHeader = HeaderEnd(j)
           /\ ContentLength = sent[j].body
<1>1. /\ Len(delivered) \in Nat /\ Len(delivered) <= Len(sent) /\ base = EndOf(j - 1)
      /\ base \in Nat
  BY Positions, LenProperties DEF IInv, TypeOK, PlaceInv
<1>2. HeadersSeen \subseteq 1 .. Len(sent) /\ HeadersSeen \subseteq Nat
  BY Positions DEF HeadersSeen, IInv
<1>3. ASSUME NEW k \in HeadersSeen PROVE k >= j
  <2>1. SUFFICES ASSUME k < j PROVE FALSE
    BY <1>1, <1>2
  <2>2. k \in 1 .. Len(sent) /\ k <= j - 1 /\ k \in 0 .. Len(sent) /\ j - 1 \in 0 .. Len(sent)
    BY <1>1, <1>2, <2>1, Positions DEF IInv
  <2>3. EndOf(k) <= EndOf(j - 1)
    BY <2>2 DEF IInv, EndsInv
  <2>4. HeaderEnd(k) \in Nat /\ HeaderEnd(k) + sent[k].body = EndOf(k) /\ sent[k].body \in Nat
    BY <2>2, Positions, Lengths DEF IInv
  <2>5. HeaderEnd(k) > base
    BY DEF HeadersSeen
  <2> QED
    BY <1>1, <2>2, <2>3, <2>4, <2>5, Positions DEF IInv
<1>4. PICK k \in HeadersSeen : TRUE
  OBVIOUS
<1>5. k \in 1 .. Len(sent) /\ k >= j /\ j \in 1 .. Len(sent)
  BY <1>1, <1>2, <1>3, Positions DEF IInv
<1>6. HeaderEnd(j) <= HeaderEnd(k)
  <2>1. CASE k = j
    BY <2>1, <1>5, Positions DEF IInv
  <2>2. CASE k > j
    <3>1. EndOf(j) <= EndOf(k - 1)
      <4>1. j \in 0 .. Len(sent) /\ k - 1 \in 0 .. Len(sent) /\ j <= k - 1
        BY <1>5, <2>2, Positions DEF IInv
      <4> QED
        BY <4>1 DEF IInv, EndsInv
    <3>2. /\ HeaderEnd(j) \in Nat /\ HeaderEnd(j) + sent[j].body = EndOf(j)
          /\ HeaderEnd(k) \in Nat /\ EndOf(k - 1) < HeaderEnd(k)
          /\ sent[j].body \in Nat
      BY <1>5, Positions, Lengths DEF IInv
    <3>3. EndOf(j) \in Nat /\ EndOf(k - 1) \in Nat
      BY <1>5, Positions DEF IInv
    <3> QED
      BY <3>1, <3>2, <3>3
  <2> QED
    BY <1>1, <1>5, <2>1, <2>2
<1>7. base < HeaderEnd(j) /\ HeaderEnd(j) \in Nat /\ HeaderEnd(k) \in Nat
  BY <1>1, <1>5, Positions DEF IInv
<1>8. BufferEnd \in Nat /\ HeaderEnd(k) <= BufferEnd
  BY Positions DEF HeadersSeen, BufferEnd, IInv, TypeOK
<1>9. j \in HeadersSeen
  BY <1>5, <1>6, <1>7, <1>8, Positions DEF HeadersSeen, IInv
<1>10. j \in Nat /\ Min(HeadersSeen) \in HeadersSeen /\ Min(HeadersSeen) <= j
  BY <1>2, <1>9, LeastNumber
<1>11. Min(HeadersSeen) = j
  <2>1. Min(HeadersSeen) \in Nat /\ Min(HeadersSeen) >= j
    BY <1>2, <1>3, <1>10
  <2> QED
    BY <1>10, <2>1
<1>12. base + EndOfHeader = HeaderEnd(j)
  BY <1>1, <1>7, <1>11 DEF EndOfHeader
<1>13. {i \in HeadersSeen : sent[i].declares} = HeadersSeen
  BY <1>2, Positions DEF AllDeclare, IInv
<1>14. ContentLength = sent[j].body
  BY <1>11, <1>13, <1>9 DEF ContentLength
<1> QED
  BY <1>5, <1>12, <1>14

-----------------------------------------------------------------------------
(* Steps                                                                   *)

\* Nothing was sent or received yet.
LEMMA InitIInv == Init => IInv
<1> SUFFICES ASSUME Init PROVE IInv
  OBVIOUS
<1>1. Len(sent) = 0 /\ Len(ends) = 0 /\ Len(delivered) = 0 /\ DOMAIN delivered = {}
  BY EmptySeq DEF Init
<1>2. EndOf(0) = 0
  BY DEF EndOf
<1>3. TypeOK
  BY <1>1, <1>2, EmptySeq, Lengths DEF Init, TypeOK
<1>4. EndsInv
  BY <1>1, <1>2 DEF EndsInv
<1> QED
  BY <1>1, <1>2, <1>3, <1>4
  DEF Init, IInv, BytesInv, IdleInv, PlaceInv, DeliveredAsSent, ErrorsHaveACause

\* What is in the hands of onReceive is a number, and there is room for it.
LEMMA Bytes ==
    ASSUME IInv
    PROVE  /\ base \in Nat /\ wire \in Nat /\ size \in Nat /\ held \in Nat
           /\ size <= RecvSize
           /\ base + held + size + wire = EndOf(Len(sent)) /\ EndOf(Len(sent)) \in Nat
<1>1. EndOf(Len(sent)) \in Nat
  BY Positions DEF IInv
<1> QED
  BY <1>1, Lengths DEF IInv, TypeOK, BytesInv

\* The same bytes, at other places.
BytesKept ==
    /\ wire' \in Nat /\ size' \in 0 .. RecvSize /\ held' \in Nat
    /\ wire' + size' + held' = wire + size + held

\* What a step does that neither sends nor delivers: the bytes stay where they are told.
LEMMA BytesMove ==
    ASSUME IInv, UNCHANGED <<sent, ends, base, delivered>>,
           BytesKept,
           pc' \in {"idle", "loop", "failed"}, pc' = "idle" => size' = 0,
           pc' = "failed" /\ AllDeclare =>
               \E k \in DOMAIN sent : sent[k].chunked \/ sent[k].header > HeaderLimit
    PROVE  IInv'
<1>1. \A k \in 0 .. Len(sent) : EndOf(k)' = EndOf(k)
  BY DEF EndOf
<1>2. Len(sent) \in Nat /\ Len(delivered) \in Nat /\ DOMAIN delivered = 1 .. Len(delivered)
  BY Positions, LenProperties DEF IInv, TypeOK
<1>3. EndOf(Len(sent))' = EndOf(Len(sent)) /\ EndOf(Len(sent)) \in Nat
  BY <1>1, <1>2, Positions DEF IInv
<1>4. PICK b \in Nat, w \in Nat, z \in Nat, h \in Nat, v \in Nat, y \in Nat, g \in Nat :
         /\ b = base' /\ w = wire /\ z = size /\ h = held
         /\ v = wire' /\ y = size' /\ g = held' /\ base = base'
  <2>1. base \in Nat /\ wire \in Nat /\ size \in Nat /\ held \in Nat /\ base' = base
    BY Bytes
  <2>2. wire' \in Nat /\ size' \in Nat /\ held' \in Nat
    BY Lengths DEF BytesKept
  <2> QED
    BY <2>1, <2>2
<1>12. PICK e \in Nat : e = EndOf(Len(sent)) /\ e = EndOf(Len(sent))'
  BY <1>3
<1>13. b + h + z + w = e
  BY <1>4, <1>12, Bytes
<1>14. v + y + g = w + z + h
  BY <1>4 DEF BytesKept
<1>15. b + g + y + v = e
  BY <1>13, <1>14
<1>5. BytesInv' /\ IdleInv'
  BY <1>4, <1>12, <1>15 DEF BytesInv, IdleInv
<1>6. TypeOK'
  <2>1. b \in 0 .. e /\ v \in 0 .. e /\ g \in 0 .. e - b
    BY <1>15
  <2>2. base' \in 0 .. EndOf(Len(sent))' /\ wire' \in 0 .. EndOf(Len(sent))'
        /\ held' \in 0 .. EndOf(Len(sent))' - base'
    BY <1>4, <1>12, <2>1
  <2>3. EndOf(Len(sent))' = EndOf(Len(sent)) /\ Len(sent)' = Len(sent)
    BY <1>3
  <2> QED
    BY <2>2, <2>3 DEF IInv, TypeOK, BytesKept
<1>7. EndsInv'
  <2>1. sent' = sent
    OBVIOUS
  <2>2. ASSUME NEW k \in 1 .. Len(sent)
        PROVE  EndOf(k)' = EndOf(k - 1)' + LengthOf(sent[k])
    <3>1. k \in 0 .. Len(sent) /\ k - 1 \in 0 .. Len(sent)
      BY <1>2
    <3>2. EndOf(k) = EndOf(k - 1) + LengthOf(sent[k])
      BY DEF IInv, EndsInv
    <3> QED
      BY <1>1, <3>1, <3>2
  <2>3. ASSUME NEW j \in 0 .. Len(sent), NEW k \in 0 .. Len(sent), j <= k
        PROVE  EndOf(j)' <= EndOf(k)'
    BY <1>1, <2>3 DEF IInv, EndsInv
  <2> QED
    BY <2>1, <2>2, <2>3 DEF EndsInv
<1>8. AllDeclare' = AllDeclare
  BY DEF AllDeclare
<1>9. PlaceInv'
  BY <1>1, <1>2, <1>8 DEF IInv, PlaceInv
<1>10. DeliveredAsSent'
  <2> SUFFICES ASSUME AllDeclare, NEW k \in DOMAIN delivered
               PROVE  k \in DOMAIN sent /\ delivered[k] = <<EndOf(k - 1)' + 1, EndOf(k)'>>
    BY <1>8 DEF DeliveredAsSent
  <2>1. k \in DOMAIN sent /\ delivered[k] = <<EndOf(k - 1) + 1, EndOf(k)>>
    BY DEF IInv, DeliveredAsSent
  <2>2. k \in 0 .. Len(sent) /\ k - 1 \in 0 .. Len(sent)
    <3>1. k \in 1 .. Len(sent)
      BY <2>1, Positions DEF IInv
    <3> QED
      BY <1>2, <3>1
  <2> QED
    BY <1>1, <2>1, <2>2
<1>11. ErrorsHaveACause'
  BY <1>8 DEF ErrorsHaveACause
<1> QED
  BY <1>5, <1>6, <1>7, <1>9, <1>10, <1>11 DEF IInv

\* A request more stands behind the others.
LEMMA SendKeeps ==
    ASSUME IInv, NEW r \in Requests, ClientSends(r)
    PROVE  IInv'
<1> PICK n : n = Len(sent)
  OBVIOUS
<1>1. /\ n \in Nat /\ Len(ends) = n /\ sent \in Seq(Requests) /\ ends \in Seq(Nat)
      /\ n < MaxRequests
  BY Positions DEF IInv, TypeOK, ClientSends
<1>2. LengthOf(r) \in Nat /\ EndOf(n) \in Nat /\ \A k \in 0 .. n : EndOf(k) \in Nat
  BY <1>1, Lengths, Positions DEF IInv
<1>3. /\ sent' \in Seq(Requests) /\ Len(sent') = n + 1 /\ sent'[n + 1] = r
      /\ \A k \in 1 .. n : sent'[k] = sent[k]
      /\ ends' \in Seq(Nat) /\ Len(ends') = n + 1 /\ ends'[n + 1] = EndOf(n) + LengthOf(r)
      /\ \A k \in 1 .. n : ends'[k] = ends[k]
  BY <1>1, <1>2, AppendProperties DEF ClientSends
<1>4. DOMAIN sent = 1 .. n /\ DOMAIN sent' = 1 .. n + 1
  BY <1>1, <1>3, LenProperties
<1>5. \A k \in 0 .. n : EndOf(k)' = EndOf(k)
  BY <1>3 DEF EndOf
<1>6. EndOf(n + 1)' = EndOf(n) + LengthOf(r)
  BY <1>1, <1>3 DEF EndOf
<1>7. UNCHANGED <<pc, size, base, held, delivered>> /\ wire' = wire + LengthOf(r)
  BY DEF ClientSends
<1>8. base \in Nat /\ wire \in Nat /\ size \in Nat /\ held \in Nat /\ base + held + size + wire = EndOf(n)
  BY <1>2, Lengths DEF IInv, TypeOK, BytesInv
<1>9. EndOf(Len(sent))' = EndOf(n) + LengthOf(r)
  BY <1>3, <1>6
<1>10. BytesInv' /\ IdleInv'
  BY <1>2, <1>7, <1>8, <1>9 DEF BytesInv, IInv, IdleInv
<1>11. TypeOK'
  <2>1. delivered' \in Seq((1 .. EndOf(Len(sent))') \X (1 .. EndOf(Len(sent))'))
    <3>1. 1 .. EndOf(Len(sent)) \subseteq 1 .. EndOf(Len(sent))'
      BY <1>2, <1>9
    <3>2. (1 .. EndOf(Len(sent))) \X (1 .. EndOf(Len(sent))) \subseteq
             (1 .. EndOf(Len(sent))') \X (1 .. EndOf(Len(sent))')
      BY <3>1
    <3> QED
      BY <1>7, <3>2, SeqMonotonic DEF IInv, TypeOK
  <2>2. Len(sent') <= MaxRequests
    BY <1>1, <1>3, Lengths
  <2> QED
    <3>1. base' \in 0 .. EndOf(Len(sent))' /\ wire' \in 0 .. EndOf(Len(sent))'
          /\ held' \in 0 .. EndOf(Len(sent))' - base'
      BY <1>2, <1>7, <1>8, <1>9, SMTT(20)
    <3>2. pc' \in {"idle", "loop", "failed"} /\ size' \in 0 .. RecvSize
      BY <1>7 DEF IInv, TypeOK
    <3> QED
      BY <1>3, <2>1, <2>2, <3>1, <3>2 DEF TypeOK
<1>12. EndsInv'
  <2>1. ASSUME NEW k \in 1 .. n + 1
        PROVE  EndOf(k)' = EndOf(k - 1)' + LengthOf(sent'[k])
    <3>1. CASE k = n + 1
      <4>1. k - 1 = n /\ n \in 0 .. n
        BY <1>1, <3>1
      <4> QED
        BY <1>3, <1>5, <1>6, <3>1, <4>1
    <3>2. CASE k # n + 1
      <4>1. k \in 1 .. n /\ k \in 0 .. n /\ k - 1 \in 0 .. n
        BY <1>1, <3>2
      <4>2. EndOf(k) = EndOf(k - 1) + LengthOf(sent[k])
        BY <4>1 DEF IInv, EndsInv
      <4> QED
        BY <1>3, <1>5, <4>1, <4>2
    <3> QED
      BY <3>1, <3>2
  <2>2. ASSUME NEW j \in 0 .. n + 1, NEW k \in 0 .. n + 1, j <= k
        PROVE  EndOf(j)' <= EndOf(k)'
    <3>1. CASE k # n + 1
      <4>1. j \in 0 .. n /\ k \in 0 .. n
        BY <1>1, <2>2, <3>1
      <4>2. EndOf(j) <= EndOf(k)
        BY <2>2, <4>1 DEF IInv, EndsInv
      <4> QED
        BY <1>5, <4>1, <4>2
    <3>2. CASE k = n + 1 /\ j # n + 1
      <4>1. j \in 0 .. n /\ n \in 0 .. n /\ j <= n
        BY <1>1, <2>2, <3>2
      <4>2. EndOf(j) <= EndOf(n)
        BY <4>1 DEF IInv, EndsInv
      <4> QED
        BY <1>2, <1>5, <1>6, <3>2, <4>1, <4>2
    <3>3. CASE k = n + 1 /\ j = n + 1
      BY <1>2, <1>6, <3>3
    <3> QED
      BY <3>1, <3>2, <3>3
  <2> QED
    BY <1>3, <2>1, <2>2 DEF EndsInv
<1>13. AllDeclare' => AllDeclare
  BY <1>3, <1>4, <1>1 DEF AllDeclare
<1>14. Len(delivered) \in Nat /\ DOMAIN delivered = 1 .. Len(delivered)
  BY LenProperties DEF IInv, TypeOK
<1>15. PlaceInv'
  <2> SUFFICES ASSUME AllDeclare'
               PROVE  Len(delivered') <= n + 1 /\ base' = EndOf(Len(delivered))'
    BY <1>3, <1>7 DEF PlaceInv
  <2>1. Len(delivered) <= n /\ base = EndOf(Len(delivered))
    BY <1>13 DEF IInv, PlaceInv
  <2> QED
    BY <1>1, <1>5, <1>7, <1>14, <2>1
<1>16. DeliveredAsSent'
  <2> SUFFICES ASSUME AllDeclare', NEW k \in DOMAIN delivered
               PROVE  k \in 1 .. n + 1 /\ delivered[k] = <<EndOf(k - 1)' + 1, EndOf(k)'>>
    BY <1>4, <1>7 DEF DeliveredAsSent
  <2>1. k \in 1 .. n /\ delivered[k] = <<EndOf(k - 1) + 1, EndOf(k)>>
    BY <1>4, <1>13 DEF IInv, DeliveredAsSent
  <2>2. k \in 0 .. n /\ k - 1 \in 0 .. n /\ k \in 1 .. n + 1
    BY <1>1, <2>1
  <2> QED
    BY <1>5, <2>1, <2>2
<1>17. ErrorsHaveACause'
  <2> SUFFICES ASSUME pc = "failed", AllDeclare'
               PROVE  \E k \in 1 .. n + 1 : sent'[k].chunked \/ sent'[k].header > HeaderLimit
    BY <1>4, <1>7 DEF ErrorsHaveACause
  <2>1. PICK k \in 1 .. n : sent[k].chunked \/ sent[k].header > HeaderLimit
    BY <1>4, <1>13 DEF IInv, ErrorsHaveACause
  <2>2. k \in 1 .. n + 1
    BY <1>1
  <2> QED
    BY <1>3, <2>1, <2>2
<1> QED
  BY <1>10, <1>11, <1>12, <1>15, <1>16, <1>17 DEF IInv

\* A header that is not there yet belongs to a request that was not delivered, and what
\* is held of it is less than it.
LEMMA NoHeaderKeeps ==
    ASSUME IInv, NoHeader \/ NoHeaderButLeftover
    PROVE  IInv'
<1>1. /\ size > 0 /\ HeadersSeen = {} /\ held' = held + size /\ size' = 0
      /\ UNCHANGED <<sent, ends, wire, base, delivered>>
      /\ pc' \in {"failed", "loop"}
      /\ pc' = "failed" => held + size > HeaderLimit
  BY DEF NoHeader, NoHeaderButLeftover, Keep
<1>2. ASSUME pc' = "failed", AllDeclare
      PROVE  \E k \in DOMAIN sent : sent[k].header > HeaderLimit
  <2> DEFINE j == Len(delivered) + 1
  <2>1. /\ Len(delivered) \in Nat /\ Len(delivered) <= Len(sent)
        /\ base = EndOf(Len(delivered)) /\ Len(sent) \in Nat
    BY <1>2, Positions, LenProperties DEF IInv, TypeOK, PlaceInv
  <2>2. Len(delivered) # Len(sent)
    BY <1>1, <2>1, Bytes
  <2>3. j \in 1 .. Len(sent) /\ j \in DOMAIN sent /\ j - 1 = Len(delivered)
    BY <2>1, <2>2, Positions DEF IInv
  <2> HIDE DEF j
  <2>4. /\ HeaderEnd(j) = base + sent[j].header /\ sent[j].header \in Nat
        /\ HeaderEnd(j) > base
    BY <2>1, <2>3, Positions, Lengths DEF IInv, HeaderEnd
  <2>5. ~(HeaderEnd(j) <= base + held + size)
    BY <1>1, <2>3, <2>4 DEF HeadersSeen, BufferEnd
  <2>6. sent[j].header > HeaderLimit
    BY <1>1, <1>2, <2>4, <2>5, Bytes, Lengths, SMTT(20)
  <2> QED
    BY <2>3, <2>6
<1>3. BytesKept
  BY <1>1, Bytes, Lengths DEF BytesKept
<1> QED
  BY <1>1, <1>2, <1>3, BytesMove

\* A message that is delivered is the whole of the first request that was not.
LEMMA CompleteKeeps ==
    ASSUME IInv, Complete
    PROVE  IInv'
<1> PICK d : d = Delta
  OBVIOUS
<1> PICK n : n = Len(delivered)
  OBVIOUS
<1>1. /\ HeadersSeen # {} /\ held + size >= EndOfHeader + ContentLength /\ d >= 0
      /\ delivered' = Append(delivered, <<base + 1, base + held + d>>)
      /\ size' = size - d /\ base' = base + held + d /\ held' = 0
      /\ UNCHANGED <<sent, ends, wire, pc>>
  BY DEF Complete, HeaderSeen, Consumed
<1>2. /\ EndOfHeader \in Nat /\ EndOfHeader > 0 /\ ContentLength \in Nat
      /\ d = EndOfHeader + ContentLength - held
  BY <1>1, LengthsRead DEF Delta, IInv
<1>3. /\ d \in Nat /\ d <= size /\ size' \in 0 .. RecvSize
      /\ base + held + d = base + EndOfHeader + ContentLength
      /\ base + held + d \in 1 .. EndOf(Len(sent)) /\ base + 1 \in 1 .. EndOf(Len(sent))
      /\ base' + held' + size' + wire' = EndOf(Len(sent))
  <2>1. /\ base \in Nat /\ wire \in Nat /\ size \in Nat /\ held \in Nat /\ size <= RecvSize
        /\ base + held + size + wire = EndOf(Len(sent)) /\ EndOf(Len(sent)) \in Nat
        /\ wire' = wire /\ RecvSize \in Nat
    BY <1>1, Bytes, Lengths
  <2>2. PICK h, c : h = EndOfHeader /\ c = ContentLength
    OBVIOUS
  <2>3. h \in Nat /\ h > 0 /\ c \in Nat /\ d = h + c - held /\ held + size >= h + c
    BY <1>1, <1>2, <2>2
  <2>4. d \in Nat /\ d <= size /\ base + held + d = base + h + c
    BY <1>1, <2>1, <2>3
  <2>5. base + held + d <= EndOf(Len(sent)) /\ base + held + d > base
    BY <2>1, <2>3, <2>4
  <2>6. base + held + d \in 1 .. EndOf(Len(sent)) /\ base + 1 \in 1 .. EndOf(Len(sent))
    BY <2>1, <2>4, <2>5
  <2>7. size' \in 0 .. RecvSize
    BY <1>1, <2>1, <2>4
  <2>8. base' + held' + size' + wire' = EndOf(Len(sent))
    BY <1>1, <2>1, <2>4
  <2> QED
    BY <2>2, <2>4, <2>6, <2>7, <2>8
<1>4. \A k \in 0 .. Len(sent) : EndOf(k)' = EndOf(k)
  BY <1>1 DEF EndOf
<1>5. Len(sent) \in Nat /\ EndOf(Len(sent))' = EndOf(Len(sent)) /\ DOMAIN sent = 1 .. Len(sent)
  <2>1. Len(sent) \in Nat /\ DOMAIN sent = 1 .. Len(sent)
    BY Positions DEF IInv
  <2>2. Len(sent) \in 0 .. Len(sent)
    BY <2>1
  <2> QED
    BY <1>1, <1>4, <2>1, <2>2
<1> DEFINE P == (1 .. EndOf(Len(sent))) \X (1 .. EndOf(Len(sent)))
<1>6. delivered \in Seq(P) /\ <<base + 1, base + held + d>> \in P
  BY <1>3 DEF IInv, TypeOK
<1> HIDE DEF P
<1>7. /\ n \in Nat /\ DOMAIN delivered = 1 .. n
      /\ delivered' \in Seq(P) /\ Len(delivered') = n + 1 /\ DOMAIN delivered' = 1 .. n + 1
      /\ delivered'[n + 1] = <<base + 1, base + held + d>>
      /\ \A k \in 1 .. n : delivered'[k] = delivered[k]
  BY <1>1, <1>6, LenProperties, AppendProperties
<1>8. AllDeclare' = AllDeclare
  BY <1>1 DEF AllDeclare
<1>9. TypeOK'
  BY <1>1, <1>3, <1>5, <1>7, Bytes, SMTT(20) DEF IInv, TypeOK, P
<1>10. EndsInv'
  BY <1>1, <1>4, <1>5 DEF IInv, EndsInv
<1>11. BytesInv' /\ IdleInv'
  BY <1>1, <1>3, <1>5 DEF BytesInv, IdleInv, Complete, HeaderSeen
<1>12. ASSUME AllDeclare
       PROVE  n + 1 \in 1 .. Len(sent) /\ base = EndOf(n) /\ base + held + d = EndOf(n + 1)
  <2>1. /\ n + 1 \in 1 .. Len(sent) /\ base + EndOfHeader = HeaderEnd(n + 1)
        /\ ContentLength = sent[n + 1].body
    BY <1>1, <1>12, FirstInBuffer
  <2>2. HeaderEnd(n + 1) + sent[n + 1].body = EndOf(n + 1)
    BY <2>1, Positions DEF IInv
  <2>3. base = EndOf(n)
    BY <1>12 DEF IInv, PlaceInv
  <2> QED
    BY <1>3, <2>1, <2>2, <2>3
<1>13. PlaceInv'
  <2> SUFFICES ASSUME AllDeclare
               PROVE  n + 1 <= Len(sent) /\ base' = EndOf(n + 1)'
    BY <1>1, <1>7, <1>8 DEF PlaceInv
  <2>1. n + 1 \in 1 .. Len(sent) /\ n + 1 \in 0 .. Len(sent)
    BY <1>5, <1>7, <1>12
  <2> QED
    BY <1>1, <1>4, <1>5, <1>7, <1>12, <2>1
<1>14. DeliveredAsSent'
  <2> SUFFICES ASSUME AllDeclare, NEW k \in 1 .. n + 1
               PROVE  k \in DOMAIN sent /\ delivered'[k] = <<EndOf(k - 1)' + 1, EndOf(k)'>>
    BY <1>1, <1>7, <1>8 DEF DeliveredAsSent
  <2>1. CASE k = n + 1
    <3>1. k - 1 = n /\ n \in 0 .. Len(sent) /\ k \in 0 .. Len(sent) /\ k \in 1 .. Len(sent)
      BY <1>5, <1>7, <1>12, <2>1
    <3> QED
      BY <1>4, <1>5, <1>7, <1>12, <2>1, <3>1
  <2>2. CASE k # n + 1
    <3>1. k \in 1 .. n
      BY <1>7, <2>2
    <3>2. k \in DOMAIN sent /\ delivered[k] = <<EndOf(k - 1) + 1, EndOf(k)>>
      BY <1>7, <3>1 DEF IInv, DeliveredAsSent
    <3>3. k \in 0 .. Len(sent) /\ k - 1 \in 0 .. Len(sent)
      BY <1>5, <3>2
    <3> QED
      BY <1>4, <1>7, <3>1, <3>2, <3>3
  <2> QED
    BY <2>1, <2>2
<1>15. ErrorsHaveACause'
  BY <1>1, <1>8 DEF IInv, ErrorsHaveACause
<1> QED
  BY <1>9, <1>10, <1>11, <1>13, <1>14, <1>15 DEF IInv

\* Every step keeps the invariant.
LEMMA NextIInv == IInv /\ [Next]_vars => IInv'
<1> SUFFICES ASSUME IInv, [Next]_vars PROVE IInv'
  OBVIOUS
<1>1. ASSUME NEW r \in Requests, ClientSends(r) PROVE IInv'
  BY <1>1, SendKeeps
<1>2. ASSUME NEW k \in 1 .. RecvSize, Receive(k) PROVE IInv'
  <2>1. /\ wire' = wire - k /\ size' = k /\ k <= wire /\ pc' = "loop"
        /\ UNCHANGED <<sent, ends, base, held, delivered>>
    BY <1>2 DEF Receive
  <2>0. size = 0
    BY <1>2 DEF Receive, IInv, IdleInv
  <2>2. BytesKept
    BY <2>0, <2>1, Bytes, Lengths DEF BytesKept
  <2> QED
    BY <2>1, <2>2, BytesMove
<1>3. CASE EndLoop
  <2>1. UNCHANGED <<sent, ends, wire, size, base, held, delivered>> /\ pc' = "idle" /\ size = 0
    BY <1>3 DEF EndLoop
  <2> QED
    BY <2>1, Bytes, BytesMove DEF IInv, TypeOK, BytesKept
<1>4. CASE NoHeader \/ NoHeaderButLeftover
  BY <1>4, NoHeaderKeeps
<1>5. CASE Chunked
  <2>1. /\ UNCHANGED <<sent, ends, wire, size, base, held, delivered>> /\ pc' = "failed"
        /\ \E k \in HeadersSeen : sent[k].chunked
    BY <1>5 DEF Chunked
  <2>2. \E k \in DOMAIN sent : sent[k].chunked
    BY <2>1 DEF HeadersSeen
  <2> QED
    BY <2>1, <2>2, Bytes, BytesMove DEF IInv, TypeOK, BytesKept
<1>6. CASE NoBody
  <2>1. /\ UNCHANGED <<sent, ends, wire, base, delivered>> /\ held' = held + size /\ size' = 0
        /\ pc' = "loop"
    BY <1>6 DEF NoBody, Keep, HeaderSeen
  <2>2. BytesKept
    BY <2>1, Bytes, Lengths DEF BytesKept
  <2> QED
    BY <2>1, <2>2, BytesMove
<1>7. CASE Complete
  BY <1>7, CompleteKeeps
<1>8. CASE UNCHANGED vars
  <2>1. UNCHANGED <<sent, ends, wire, pc, size, base, held, delivered>>
    BY <1>8 DEF vars
  <2> QED
    BY <2>1, Bytes, BytesMove DEF IInv, IdleInv, TypeOK, BytesKept, ErrorsHaveACause
<1> QED
  BY <1>1, <1>2, <1>3, <1>4, <1>5, <1>6, <1>7, <1>8 DEF Next, Process

-----------------------------------------------------------------------------
(* Theorems                                                                *)


\* Every byte has its place, in every state.
THEOREM Invariance == Spec => []IInv
<1> QED
  BY InitIInv, NextIInv, PTL DEF Spec

\* Every variable keeps its type: the buffer never takes a byte that did not come, and
\* a message delivered lies in what was sent, whatever its client says of its length.
THEOREM TypeCorrect == Spec => []TypeOK
<1>1. IInv => TypeOK
  BY DEF IInv
<1> QED
  BY <1>1, Invariance, PTL

\* The messages delivered are the requests sent, in pieces of any size, if each request
\* says how long it is.
THEOREM MessagesAreRequests == Spec => []DeliveredAsSent
<1>1. IInv => DeliveredAsSent
  BY DEF IInv
<1> QED
  BY <1>1, Invariance, PTL

\* A client whose headers stay within the limit, and that sends nothing chunked, meets
\* no framing error, in pieces of any size.
THEOREM NoErrorWithoutCause == Spec => []ErrorsHaveACause
<1>1. IInv => ErrorsHaveACause
  BY DEF IInv
<1> QED
  BY <1>1, Invariance, PTL

=============================================================================
