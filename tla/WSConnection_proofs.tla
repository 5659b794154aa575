------------------------- MODULE WSConnection_proofs -------------------------
(***************************************************************************)
(* The parser of frames, for every set of frames a client may send, masked *)
(* or not, read wrong or not, every size of the pieces they come in, and   *)
(* every buffer and size_t that are large enough; alone, and behind the    *)
(* requests of a connection.  And those requests, for every list of        *)
(* protocols, every limit on the data kept, and every cut of the text.     *)
(***************************************************************************)
EXTENDS WSConnection, SequenceTheorems, FiniteSetTheorems, TLAPS

-----------------------------------------------------------------------------
(* The inductive invariant                                                 *)

\* The frames stand one behind the other.
EndsInv == \A k \in 1 .. Len(sent) : EndOf(k) = EndOf(k - 1) + FrameLength(sent[k])

Header == HeaderSize(sent[frame])

\* A masked frame has begun.
Begun == frame <= Len(sent) /\ sent[frame].masked

\* Where the parser is in a frame: in the two bytes that every header has; in the rest
\* of the header; in the payload, of which it expects what the client meant; or before a
\* payload that it takes for shorter than nothing, where it can do nothing but overrun.
AtStart == expectedLength = BaseHeader /\ dataIndex <= BaseHeader
InHeader == Begun /\ expectedLength = Header /\ dataIndex \in BaseHeader .. Header
InPayload == Begun /\ expectedLength = FrameLength(sent[frame]) /\ dataIndex \in Header .. expectedLength
Misread == Begun /\ expectedLength < Header /\ dataIndex = Header

PhaseInv == pc # "crashed" => AtStart \/ InHeader \/ InPayload \/ Misread

BufferInv == BufferHolds /\ (pc # "crashed" => expectedLength <= bufferSize)

\* A connection that an error closes stays at the frame that was in error.
ErrorInv ==
    pc # "crashed" /\ state = "closing" =>
        /\ frame <= Len(sent) /\ dataIndex = expectedLength
        /\ \/ AtStart /\ ~sent[frame].masked
           \/ InPayload /\ sent[frame].opcode = "other" /\ expectedLength > Header

\* processData looks at all the bytes it is given.
IdleInv == pc = "idle" => size = 0

IInv == TypeOK /\ EndsInv /\ IdleInv /\ PhaseInv /\ BufferInv /\ ErrorInv /\ InStep

-----------------------------------------------------------------------------
(* Lengths                                                                 *)

\* What the constants are.
LEMMA Sizes ==
    /\ RecvSize \in Nat /\ MaxFrames \in Nat /\ DefaultSize \in Nat /\ Modulus \in Nat
    /\ DefaultSize >= 14 /\ Modulus >= 4 * 256 * 256 /\ RecvSize < Modulus - 14
    /\ BaseHeader = 2 /\ LongestHeader = 14
BY SizesAssumption, MaxFramesAssumption DEF BaseHeader, LongestHeader

\* The lengths of a frame.
LEMMA FrameSizes ==
    ASSUME NEW f \in Frames
    PROVE  /\ HeaderSize(f) \in 2 .. 14 /\ (f.masked => HeaderSize(f) >= 6)
           /\ f.high \in 0 .. 255 /\ f.low \in 0 .. 255 /\ f.masked \in BOOLEAN
           /\ f.extra = 0 => f.high = 0 /\ f.low < 126
           /\ PayloadLength(f) \in Nat /\ PayloadLength(f) < 256 * 256
           /\ FrameLength(f) = HeaderSize(f) + PayloadLength(f)
<1>1. /\ f.high \in 0 .. 255 /\ f.low \in 0 .. 255 /\ f.masked \in BOOLEAN
      /\ f.extra \in {0, 2, 8} /\ (f.extra = 0 => f.high = 0 /\ f.low < 126)
  BY FramesAssumption DEF FrameType
<1>2. HeaderSize(f) \in 2 .. 14 /\ (f.masked => HeaderSize(f) >= 6)
  BY <1>1 DEF HeaderSize, BaseHeader
<1>3. PayloadLength(f) \in Nat /\ PayloadLength(f) < 256 * 256
  <2>1. PICK h \in 0 .. 255, l \in 0 .. 255 : h = f.high /\ l = f.low
    BY <1>1
  <2>2. 256 * h + l \in Nat /\ 256 * h + l < 256 * 256
    OBVIOUS
  <2>3. PayloadLength(f) = 256 * h + l
    BY <2>1 DEF PayloadLength
  <2> QED
    BY <2>2, <2>3, SMTT(20)
<1>4. FrameLength(f) = HeaderSize(f) + PayloadLength(f)
  BY DEF FrameLength
<1> QED
  BY <1>1, <1>2, <1>3, <1>4

\* A size_t that is not beyond its largest value is what it is, and one that is goes
\* round once.
LEMMA Wraps ==
    ASSUME NEW k \in Nat, k < Modulus
    PROVE  k % Modulus = k /\ (k + Modulus) % Modulus = k
<1> Modulus \in Nat /\ Modulus > 0
  BY Sizes
<1> QED
  OBVIOUS

\* The length a header is read as is the one that the client meant, or so large that
\* the program ends, or less than the header's own.
LEMMA LengthRead ==
    ASSUME NEW f \in Frames,
           NEW e, e = (HeaderSize(f) + DecodedLength(f)) % Modulus
    PROVE  /\ e \in 0 .. Modulus - 1
           /\ e >= Modulus \div 2 \/ e = FrameLength(f) \/ e < HeaderSize(f)
<1> DEFINE h == HeaderSize(f)
<1>1. /\ h \in 2 .. 14 /\ f.high \in 0 .. 255 /\ f.low \in 0 .. 255
      /\ f.extra = 0 => f.high = 0 /\ f.low < 126
      /\ Modulus \in Nat /\ Modulus >= 4 * 256 * 256
  BY FrameSizes, Sizes
<1>2. CASE f.extra = 0 \/ (f.low < 128 /\ f.high < 128)
  <2>1. DecodedLength(f) = PayloadLength(f)
    BY <1>1, <1>2 DEF DecodedLength, WidenedLength, Shifted, PayloadLength
  <2>2. FrameLength(f) \in Nat /\ FrameLength(f) < Modulus
    <3>1. PayloadLength(f) \in Nat /\ PayloadLength(f) < 256 * 256 /\ FrameLength(f) = h + PayloadLength(f)
      BY FrameSizes
    <3>2. PICK p \in Nat, g \in Nat : p = PayloadLength(f) /\ g = h /\ p < 256 * 256 /\ g < 15
      BY <1>1, <3>1
    <3>3. Modulus \in Nat /\ g + p \in Nat /\ g + p < Modulus
      BY <1>1, <3>2
    <3> QED
      BY <3>1, <3>2, <3>3
  <2>3. e = FrameLength(f)
    BY <2>1, <2>2, Wraps DEF FrameLength
  <2> QED
    BY <1>1, <2>2, <2>3
<1>3. CASE f.extra # 0 /\ f.low < 128 /\ f.high >= 128
  <2> DEFINE x == h + (Modulus - 256 * (256 - f.high) + f.low)
  <2>1. DecodedLength(f) = Modulus - 256 * (256 - f.high) + f.low
    BY <1>1, <1>3 DEF DecodedLength, WidenedLength, Shifted
  <2>2. x \in Nat /\ x < Modulus /\ x >= Modulus \div 2
    <3>1. PICK a \in 128 .. 255, b \in 0 .. 127 : a = f.high /\ b = f.low
      <4>1. f.high \in 0 .. 255 /\ f.high >= 128 /\ f.low \in 0 .. 255 /\ f.low < 128
        BY <1>1, <1>3
      <4>2. f.high \in 128 .. 255 /\ f.low \in 0 .. 127
        BY <4>1, SMTT(20)
      <4> QED
        BY <4>2
    <3>2. PICK c \in Nat : c = 256 * (256 - a) /\ c >= 256 /\ c <= 128 * 256
      <4>1. 256 * (256 - a) \in Nat /\ 256 * (256 - a) >= 256 /\ 256 * (256 - a) <= 128 * 256
        OBVIOUS
      <4> QED
        BY <4>1
    <3>3. PICK g \in 2 .. 14, m \in Nat : g = h /\ m = Modulus /\ m >= 4 * 256 * 256
      BY <1>1
    <3>4. /\ g + (m - c + b) \in Nat /\ g + (m - c + b) < m
          /\ g + (m - c + b) >= m \div 2
      BY <3>2, <3>3, SMTT(20)
    <3>5. x = g + (m - c + b)
      BY <3>1, <3>2, <3>3, SMTT(20)
    <3> QED
      BY <3>3, <3>4, <3>5
  <2>3. e = x % Modulus
    BY <2>1
  <2> HIDE DEF x
  <2>4. e = x
    BY <2>2, <2>3, Wraps
  <2> QED
    BY <1>1, <2>2, <2>4
<1>4. CASE f.extra # 0 /\ f.low >= 128
  <2> DEFINE x == h + (Modulus - 256 + f.low)
  <2>1. DecodedLength(f) = Modulus - 256 + f.low
    BY <1>1, <1>4 DEF DecodedLength, WidenedLength, Widened
  <2>2. e = x % Modulus
    BY <2>1
  <2>3. CASE h + f.low < 256
    <3>1. x \in Nat /\ x < Modulus /\ x >= Modulus \div 2
      <4>1. PICK g \in 2 .. 14, b \in 128 .. 255, m \in Nat :
                g = h /\ b = f.low /\ m = Modulus /\ m >= 4 * 256 * 256 /\ g + b < 256
        BY <1>1, <1>4, <2>3, SMTT(20)
      <4>2. /\ g + (m - 256 + b) \in Nat /\ g + (m - 256 + b) < m
            /\ g + (m - 256 + b) >= m \div 2
        BY <4>1, SMTT(20)
      <4> QED
        BY <4>1, <4>2, SMTT(20)
    <3> HIDE DEF x
    <3>2. e = x
      BY <2>2, <3>1, Wraps
    <3> QED
      BY <1>1, <3>1, <3>2
  <2>4. CASE h + f.low >= 256
    <3> DEFINE y == h + f.low - 256
    <3>1. y \in Nat /\ y < h /\ x = y + Modulus /\ y < Modulus
      BY <1>1, <2>4
    <3> HIDE DEF x, y
    <3>2. e = y
      BY <2>2, <3>1, Wraps
    <3> QED
      BY <1>1, <3>1, <3>2
  <2> QED
    BY <1>1, <2>3, <2>4
<1> QED
  BY <1>1, <1>2, <1>3, <1>4

-----------------------------------------------------------------------------
(* The bytes that are there                                                *)

\* The variables that count bytes are numbers.
LEMMA Numbers ==
    ASSUME TypeOK
    PROVE  /\ Len(sent) \in Nat /\ DOMAIN sent = 1 .. Len(sent) /\ Len(sent) <= MaxFrames
           /\ \A k \in 1 .. Len(sent) : sent[k] \in Frames
           /\ \A k \in 0 .. Len(sent) : EndOf(k) \in Nat
           /\ wire \in Nat /\ size \in Nat /\ size <= RecvSize /\ frame \in Nat /\ frame >= 1
           /\ dataIndex \in Nat /\ expectedLength \in Nat /\ bufferSize \in Nat
           /\ dataIndex < Modulus /\ expectedLength < Modulus
<1>1. Len(sent) \in Nat /\ DOMAIN sent = 1 .. Len(sent) /\ Len(ends) = Len(sent)
  BY LenProperties DEF TypeOK
<1>2. \A k \in 1 .. Len(sent) : sent[k] \in Frames /\ ends[k] \in Nat
  BY <1>1, ElementOfSeq DEF TypeOK
<1>3. \A k \in 0 .. Len(sent) : EndOf(k) \in Nat
  BY <1>1, <1>2 DEF EndOf
<1>4. EndOf(Len(sent)) \in Nat
  BY <1>1, <1>3
<1> QED
  BY <1>1, <1>2, <1>3, <1>4, Sizes DEF TypeOK

\* Bytes that were received belong to a frame that was sent.
LEMMA FrameIsThere ==
    ASSUME IInv, pc = "parse", size > 0
    PROVE  frame \in 1 .. Len(sent) /\ sent[frame] \in Frames
<1>1. frame <= Len(sent) + 1 /\ frame \in Nat /\ frame >= 1 /\ Len(sent) \in Nat
  BY Numbers DEF IInv, InStep
<1>2. CASE state = "closing"
  BY <1>1, <1>2, Numbers DEF IInv, ErrorInv
<1>3. CASE state # "closing"
  <2>1. EndOf(frame - 1) + dataIndex + size + wire = EndOf(Len(sent))
    BY <1>3 DEF IInv, InStep
  <2>2. frame - 1 # Len(sent)
    <3> SUFFICES ASSUME frame - 1 = Len(sent) PROVE FALSE
      OBVIOUS
    <3>1. PICK e \in Nat, d \in Nat, z \in Nat, w \in Nat :
              e = EndOf(Len(sent)) /\ d = dataIndex /\ z = size /\ w = wire
      BY <1>1, Numbers DEF IInv
    <3>2. e + d + z + w = e /\ z > 0
      BY <2>1, <3>1
    <3> QED
      BY <3>2
  <2> QED
    BY <1>1, <2>2, Numbers DEF IInv
<1> QED
  BY <1>2, <1>3

\* What memcpy takes is there, and does not go beyond what is expected.
LEMMA TakenBytes ==
    ASSUME IInv, pc = "parse", size > 0, ToRead <= size
    PROVE  /\ ToRead \in Nat /\ dataIndex + ToRead <= expectedLength
           /\ dataIndex <= expectedLength
           /\ ~Misread
<1>1. /\ size \in Nat /\ size <= RecvSize /\ dataIndex \in Nat /\ expectedLength \in Nat
      /\ expectedLength < Modulus
      /\ RecvSize \in Nat /\ Modulus \in Nat /\ RecvSize < Modulus - 14 /\ BaseHeader = 2
  BY Numbers, Sizes DEF IInv
<1>2. Header \in 2 .. 14
  BY FrameIsThere, FrameSizes DEF Header
<1>3. dataIndex <= expectedLength \/ Misread
  <2>1. CASE AtStart
    BY <2>1 DEF AtStart
  <2>2. CASE InHeader
    BY <1>2, <2>2 DEF InHeader
  <2>3. CASE InPayload
    BY <1>1, <1>2, <2>3 DEF InPayload
  <2> QED
    BY <2>1, <2>2, <2>3 DEF IInv, PhaseInv
<1>4. ~(expectedLength < dataIndex /\ dataIndex <= 14)
  <2> SUFFICES ASSUME expectedLength < dataIndex, dataIndex <= 14 PROVE FALSE
    OBVIOUS
  <2> DEFINE x == expectedLength + Modulus - dataIndex
  <2>1. x \in Nat /\ x < Modulus /\ x > RecvSize
    BY <1>1
  <2>2. ToRead = x % Modulus
    BY <1>1 DEF ToRead
  <2> HIDE DEF x
  <2>3. ToRead = x
    BY <2>1, <2>2, Wraps
  <2> QED
    BY <1>1, <2>1, <2>3
<1>5. dataIndex <= expectedLength /\ ~Misread
  BY <1>1, <1>2, <1>3, <1>4 DEF Misread
<1>6. CASE dataIndex + size > expectedLength
  <2> DEFINE y == expectedLength - dataIndex
  <2>1. y \in Nat /\ y < Modulus /\ expectedLength + Modulus - dataIndex = y + Modulus
    BY <1>1, <1>5
  <2>2. ToRead = (y + Modulus) % Modulus
    BY <1>6, <2>1 DEF ToRead
  <2> HIDE DEF y
  <2>3. ToRead = y
    BY <2>1, <2>2, Wraps
  <2> QED
    BY <1>1, <1>5, <2>1, <2>3 DEF y
<1>7. CASE ~(dataIndex + size > expectedLength)
  BY <1>1, <1>5, <1>7 DEF ToRead
<1> QED
  BY <1>5, <1>6, <1>7

-----------------------------------------------------------------------------
(* Steps                                                                   *)

\* Nothing was sent yet, and the first two bytes are expected.
LEMMA InitIInv == Init => IInv
<1> SUFFICES ASSUME Init PROVE IInv
  OBVIOUS
<1>1. /\ Len(sent) = 0 /\ Len(ends) = 0 /\ DOMAIN delivered = {} /\ EndOf(0) = 0
      /\ sent \in Seq(Frames) /\ ends \in Seq(Nat)
  BY EmptySeq DEF Init, EndOf
<1>2. TypeOK
  BY <1>1, Sizes DEF Init, TypeOK
<1>3. EndsInv /\ IdleInv /\ PhaseInv /\ ErrorInv
  BY <1>1, Sizes DEF Init, EndsInv, IdleInv, PhaseInv, AtStart, ErrorInv
<1>4. BufferInv
  BY Sizes DEF Init, BufferInv, BufferHolds
<1>5. delivered = [k \in 1 .. frame - 1 |-> k]
  BY DEF Init
<1>6. InStep
  BY <1>1, <1>5 DEF Init, InStep
<1> QED
  BY <1>2, <1>3, <1>4, <1>6 DEF IInv

\* The bytes that are not lost: in the buffer, in the hands of processData, on the wire.
BytesKept == dataIndex' + size' + wire' = dataIndex + size + wire

\* A step within a frame.
LEMMA WithinFrame ==
    ASSUME IInv, UNCHANGED <<sent, ends, frame, delivered>>,
           wire' \in Nat, wire' <= wire, size' \in 0 .. RecvSize,
           pc' \in {"idle", "parse", "crashed"},
           state' \in {"connected", "closing", "closed"},
           dataIndex' \in 0 .. Modulus - 1, expectedLength' \in 0 .. Modulus - 1,
           bufferSize' \in Nat, bufferSize' >= DefaultSize,
           IdleInv', PhaseInv', BufferInv', ErrorInv',
           pc' # "crashed" /\ state' # "closing" =>
               BytesKept /\ pc # "crashed" /\ state # "closing"
    PROVE  IInv'
<1>1. /\ Len(sent) \in Nat /\ frame \in Nat /\ frame >= 1 /\ frame <= Len(sent) + 1
      /\ wire \in Nat /\ size \in Nat /\ dataIndex \in Nat
  BY Numbers DEF IInv, InStep
<1>2. \A k \in 0 .. Len(sent) : EndOf(k)' = EndOf(k) /\ EndOf(k) \in Nat
  BY Numbers DEF EndOf, IInv
<1>3. Len(sent) \in 0 .. Len(sent) /\ frame - 1 \in 0 .. Len(sent)
  BY <1>1
<1>4. PICK e \in Nat, a \in Nat :
          /\ e = EndOf(Len(sent)) /\ e = EndOf(Len(sent))'
          /\ a = EndOf(frame - 1) /\ a = EndOf(frame - 1)'
  BY <1>2, <1>3
<1>5. wire' \in 0 .. e
  <2>1. wire \in 0 .. e
    BY <1>4 DEF IInv, TypeOK
  <2> QED
    BY <1>1, <2>1
<1>6. TypeOK'
  BY <1>4, <1>5 DEF IInv, TypeOK
<1>7. EndsInv'
  <2>1. ASSUME NEW k \in 1 .. Len(sent)
        PROVE  EndOf(k)' = EndOf(k - 1)' + FrameLength(sent[k])
    <3>1. k \in 0 .. Len(sent) /\ k - 1 \in 0 .. Len(sent)
      BY <1>1
    <3>2. EndOf(k) = EndOf(k - 1) + FrameLength(sent[k])
      BY DEF IInv, EndsInv
    <3> QED
      BY <1>2, <3>1, <3>2
  <2>2. sent' = sent
    OBVIOUS
  <2> QED
    BY <2>1, <2>2 DEF EndsInv
<1>8. ASSUME pc' # "crashed", state' # "closing"
      PROVE  a + dataIndex' + size' + wire' = e
  <2>1. PICK d \in Nat, z \in Nat, w \in Nat, d1 \in Nat, z1 \in Nat, w1 \in Nat :
            /\ d = dataIndex /\ z = size /\ w = wire
            /\ d1 = dataIndex' /\ z1 = size' /\ w1 = wire'
    BY <1>1, Sizes
  <2>2. d1 + z1 + w1 = d + z + w
    BY <1>8, <2>1 DEF BytesKept
  <2>3. a + d + z + w = e
    BY <1>4, <1>8, <2>1 DEF IInv, InStep
  <2>4. a + d1 + z1 + w1 = e
    BY <2>2, <2>3
  <2> QED
    BY <2>1, <2>4
<1>9. delivered' = [k \in 1 .. frame - 1 |-> k]
  BY DEF IInv, InStep
<1>10. InStep'
  <2>1. /\ frame' = frame /\ Len(sent)' = Len(sent)
        /\ EndOf(frame - 1)' = a /\ EndOf(Len(sent))' = e
    BY <1>4
  <2> QED
    BY <1>1, <1>8, <1>9, <2>1 DEF InStep
<1> QED
  BY <1>6, <1>7, <1>10 DEF IInv

\* A frame more is sent.
LEMMA SendKeeps ==
    ASSUME IInv, NEW f \in Frames, ClientSends(f)
    PROVE  IInv'
<1> PICK n : n = Len(sent)
  OBVIOUS
<1>1. /\ n \in Nat /\ Len(ends) = n /\ sent \in Seq(Frames) /\ ends \in Seq(Nat)
      /\ n < MaxFrames /\ MaxFrames \in Nat
  BY Numbers, Sizes DEF IInv, TypeOK, ClientSends
<1>2. FrameLength(f) \in Nat /\ EndOf(n) \in Nat /\ \A k \in 0 .. n : EndOf(k) \in Nat
  <2>1. FrameLength(f) \in Nat
    BY FrameSizes
  <2> QED
    BY <1>1, <2>1, Numbers DEF IInv
<1>3. /\ sent' \in Seq(Frames) /\ Len(sent') = n + 1 /\ sent'[n + 1] = f
      /\ \A k \in 1 .. n : sent'[k] = sent[k]
      /\ ends' \in Seq(Nat) /\ Len(ends') = n + 1 /\ ends'[n + 1] = EndOf(n) + FrameLength(f)
      /\ \A k \in 1 .. n : ends'[k] = ends[k]
  BY <1>1, <1>2, AppendProperties DEF ClientSends
<1>4. DOMAIN sent = 1 .. n /\ DOMAIN sent' = 1 .. n + 1
  BY <1>1, <1>3, LenProperties
<1>5. \A k \in 0 .. n : EndOf(k)' = EndOf(k)
  BY <1>3 DEF EndOf
<1>6. EndOf(n + 1)' = EndOf(n) + FrameLength(f) /\ EndOf(Len(sent))' = EndOf(n) + FrameLength(f)
  BY <1>1, <1>3 DEF EndOf
<1>7. /\ UNCHANGED <<dataIndex, expectedLength, bufferSize, pc, size, frame, delivered, state>>
      /\ wire' = wire + FrameLength(f)
  BY DEF ClientSends, parser
<1>8. frame \in Nat /\ frame >= 1 /\ frame <= n + 1 /\ wire \in Nat /\ size \in Nat /\ dataIndex \in Nat
  BY <1>1, Numbers DEF IInv, InStep
<1>9. TypeOK'
  <2>1. wire' \in 0 .. EndOf(Len(sent))'
    <3>1. wire <= EndOf(n)
      BY <1>1 DEF IInv, TypeOK
    <3> QED
      BY <1>2, <1>6, <1>7, <1>8, <3>1
  <2>2. Len(sent') <= MaxFrames
    BY <1>1, <1>3
  <2>3. \A k \in DOMAIN delivered : delivered[k] \in DOMAIN sent'
    <3>1. DOMAIN sent \subseteq DOMAIN sent'
      BY <1>1, <1>4
    <3> QED
      BY <3>1 DEF IInv, TypeOK
  <2> QED
    BY <1>3, <1>7, <2>1, <2>2, <2>3 DEF IInv, TypeOK
<1>10. EndsInv'
  <2>1. ASSUME NEW k \in 1 .. n + 1
        PROVE  EndOf(k)' = EndOf(k - 1)' + FrameLength(sent'[k])
    <3>1. CASE k = n + 1
      <4>1. k - 1 = n /\ n \in 0 .. n
        BY <1>1, <3>1
      <4> QED
        BY <1>3, <1>5, <1>6, <3>1, <4>1
    <3>2. CASE k # n + 1
      <4>1. k \in 1 .. n /\ k \in 0 .. n /\ k - 1 \in 0 .. n
        BY <1>1, <3>2
      <4>2. EndOf(k) = EndOf(k - 1) + FrameLength(sent[k])
        BY <4>1 DEF IInv, EndsInv
      <4> QED
        BY <1>3, <1>5, <4>1, <4>2
    <3> QED
      BY <3>1, <3>2
  <2> QED
    BY <1>3, <2>1 DEF EndsInv
<1>11. ASSUME frame <= n PROVE frame' <= Len(sent') /\ sent'[frame'] = sent[frame]
  BY <1>1, <1>3, <1>7, <1>8, <1>11
<1>12. /\ Begun => Begun' /\ sent'[frame'] = sent[frame] /\ Header' = Header
       /\ AtStart => AtStart'
  BY <1>7, <1>11 DEF Begun, Header, AtStart
<1>13. PhaseInv' /\ (InPayload => InPayload')
  BY <1>7, <1>12 DEF IInv, PhaseInv, InHeader, InPayload, Misread
<1>14. BufferInv' /\ IdleInv'
  BY <1>7 DEF IInv, BufferInv, BufferHolds, IdleInv
<1>15. ErrorInv'
  <2> SUFFICES ASSUME pc # "crashed", state = "closing"
               PROVE  /\ frame' <= Len(sent') /\ dataIndex' = expectedLength'
                      /\ \/ AtStart' /\ ~sent'[frame'].masked
                         \/ InPayload' /\ sent'[frame'].opcode = "other" /\ expectedLength' > Header'
    BY <1>7 DEF ErrorInv
  <2>1. /\ frame <= n /\ dataIndex = expectedLength
        /\ \/ AtStart /\ ~sent[frame].masked
           \/ InPayload /\ sent[frame].opcode = "other" /\ expectedLength > Header
    BY DEF IInv, ErrorInv
  <2> QED
    BY <1>7, <1>11, <1>12, <1>13, <2>1 DEF InPayload
<1>16. InStep'
  <2>1. delivered' = [k \in 1 .. frame' - 1 |-> k] /\ frame' <= Len(sent') + 1
    BY <1>1, <1>3, <1>7, <1>8 DEF IInv, InStep
  <2>2. ASSUME pc # "crashed", state # "closing"
        PROVE  EndOf(frame - 1) + dataIndex + size + (wire + FrameLength(f)) = EndOf(n) + FrameLength(f)
    <3>1. frame - 1 \in 0 .. n
      BY <1>1, <1>8
    <3>2. PICK a \in Nat, d \in Nat, z \in Nat, w \in Nat, g \in Nat, e \in Nat :
              /\ a = EndOf(frame - 1) /\ d = dataIndex /\ z = size /\ w = wire
              /\ g = FrameLength(f) /\ e = EndOf(n)
      BY <1>2, <1>8, <3>1
    <3>3. a + d + z + w = e
      BY <2>2, <3>2 DEF IInv, InStep
    <3>4. a + d + z + (w + g) = e + g
      BY <3>3
    <3> QED
      BY <3>2, <3>4
  <2>3. EndOf(frame - 1)' = EndOf(frame - 1)
    <3>1. \A k : frame' = frame /\ (k = frame - 1 => k \in 0 .. n)
      BY <1>1, <1>7, <1>8
    <3>2. PICK k : k = frame - 1
      OBVIOUS
    <3> QED
      BY <1>5, <1>7, <3>1, <3>2
  <2> QED
    BY <1>6, <1>7, <2>1, <2>2, <2>3 DEF InStep
<1> QED
  BY <1>9, <1>10, <1>13, <1>14, <1>15, <1>16 DEF IInv

\* A step that leaves the parser where it is.
LEMMA ParserStays ==
    ASSUME IInv, UNCHANGED <<sent, ends, parser, frame, delivered, state>>,
           wire' \in Nat, wire' <= wire, size' \in 0 .. RecvSize,
           pc' \in {"idle", "parse", "crashed"}, pc # "crashed", IdleInv',
           pc' # "crashed" => BytesKept
    PROVE  IInv'
<1>1. UNCHANGED <<sent, ends, dataIndex, expectedLength, bufferSize, frame, delivered, state>>
  BY DEF parser
<1>2. PhaseInv' /\ BufferInv' /\ ErrorInv'
  BY <1>1 DEF IInv, PhaseInv, BufferInv, ErrorInv, BufferHolds, AtStart, InHeader, InPayload, Misread,
              Begun, Header
<1>3. /\ dataIndex' \in 0 .. Modulus - 1 /\ expectedLength' \in 0 .. Modulus - 1
      /\ bufferSize' \in Nat /\ bufferSize' >= DefaultSize
      /\ state' \in {"connected", "closing", "closed"}
  BY <1>1 DEF IInv, TypeOK
<1> QED
  BY <1>1, <1>2, <1>3, WithinFrame

\* Bytes are copied as far as the parser expects them.
LEMMA CopyEffect ==
    ASSUME IInv, Copy
    PROVE  /\ frame \in 1 .. Len(sent) /\ sent[frame] \in Frames
           /\ Header \in 2 .. 14 /\ (sent[frame].masked => Header >= 6)
           /\ pc = "parse" /\ size \in Nat /\ dataIndex \in Nat /\ expectedLength \in Nat
           /\ ToRead \in Nat /\ dataIndex' = dataIndex + ToRead
           /\ dataIndex' \in 0 .. Modulus - 1 /\ expectedLength \in 0 .. Modulus - 1
           /\ dataIndex' <= expectedLength /\ dataIndex' <= bufferSize
           /\ size - ToRead \in 0 .. RecvSize /\ wire \in Nat /\ wire <= wire
           /\ AtStart \/ InHeader \/ InPayload
           /\ bufferSize \in Nat /\ bufferSize >= DefaultSize /\ expectedLength <= bufferSize
<1>1. pc = "parse" /\ size > 0 /\ ToRead <= size /\ dataIndex' = dataIndex + ToRead
  BY DEF Copy
<1>2. /\ size \in Nat /\ size <= RecvSize /\ dataIndex \in Nat /\ expectedLength \in Nat
      /\ expectedLength < Modulus /\ bufferSize \in Nat /\ wire \in Nat
      /\ RecvSize \in Nat /\ Modulus \in Nat
  BY Numbers, Sizes DEF IInv
<1>3. ToRead \in Nat /\ dataIndex + ToRead <= expectedLength /\ ~Misread
  BY <1>1, TakenBytes
<1>4. frame \in 1 .. Len(sent) /\ sent[frame] \in Frames
  BY <1>1, FrameIsThere
<1>5. Header \in 2 .. 14 /\ (sent[frame].masked => Header >= 6)
  BY <1>4, FrameSizes DEF Header
<1>6. AtStart \/ InHeader \/ InPayload
  BY <1>1, <1>3 DEF IInv, PhaseInv
<1>7. expectedLength <= bufferSize /\ bufferSize >= DefaultSize
  BY <1>1 DEF IInv, BufferInv, TypeOK
<1>8. /\ dataIndex' \in 0 .. Modulus - 1 /\ expectedLength \in 0 .. Modulus - 1
      /\ dataIndex' <= bufferSize /\ size - ToRead \in 0 .. RecvSize
  BY <1>1, <1>2, <1>3, <1>7
<1> QED
  BY <1>1, <1>2, <1>3, <1>4, <1>5, <1>6, <1>7, <1>8

\* The numbers of a copy.
LEMMA CopyNumbers ==
    ASSUME IInv, Copy
    PROVE  /\ dataIndex \in Nat /\ dataIndex' \in Nat /\ expectedLength \in Nat
           /\ dataIndex <= dataIndex' /\ dataIndex' <= expectedLength
           /\ Header \in 2 .. 14 /\ BaseHeader = 2
<1>1. /\ dataIndex \in Nat /\ ToRead \in Nat /\ dataIndex' = dataIndex + ToRead
      /\ expectedLength \in Nat /\ dataIndex' <= expectedLength /\ Header \in 2 .. 14
  BY CopyEffect
<1>2. dataIndex' \in Nat /\ dataIndex <= dataIndex'
  BY <1>1
<1> QED
  BY <1>1, <1>2, Sizes

\* What is taken is in the buffer then.
LEMMA TakeEffect ==
    ASSUME IInv, Take, UNCHANGED wire
    PROVE  BytesKept /\ size' \in 0 .. RecvSize
<1>1. Copy /\ size' = size - ToRead
  BY DEF Take
<1>2. PICK d \in Nat, t \in Nat, z \in Nat, w \in Nat :
          d = dataIndex /\ t = ToRead /\ z = size /\ w = wire
  BY <1>1, CopyEffect
<1>3. d + t + (z - t) + w = d + z + w
  BY <1>2
<1>4. dataIndex' = d + t /\ size' = z - t /\ wire' = w
  BY <1>1, <1>2, CopyEffect
<1>5. BytesKept
  BY <1>2, <1>3, <1>4 DEF BytesKept
<1> QED
  BY <1>1, <1>5, CopyEffect

\* A part of what is expected.
LEMMA PartKeeps ==
    ASSUME IInv, ParsePart
    PROVE  IInv'
<1>1. /\ Take /\ Copy /\ pc = "parse" /\ dataIndex' = dataIndex + ToRead
      /\ UNCHANGED <<sent, ends, wire, expectedLength, bufferSize, pc, frame, delivered, state>>
  BY CopyEffect DEF ParsePart, Take
<1>2. ~Whole
  <2> SUFFICES ASSUME Whole PROVE FALSE
    OBVIOUS
  <2>1. sent[frame].masked /\ expectedLength # BaseHeader /\ expectedLength < Header
    BY DEF ParsePart, Header
  <2>2. CASE AtStart
    BY <2>1, <2>2 DEF AtStart
  <2>3. CASE InHeader
    BY <1>1, <2>1, <2>3, CopyNumbers DEF InHeader
  <2>4. CASE InPayload
    BY <1>1, <2>1, <2>4, CopyNumbers DEF InPayload
  <2> QED
    BY <1>1, <2>2, <2>3, <2>4, CopyEffect
<1>3. dataIndex' < expectedLength
  BY <1>1, <1>2, CopyEffect DEF Whole
<1>4. PhaseInv'
  <2>0. Begun' = Begun /\ Header' = Header /\ sent'[frame'] = sent[frame]
    BY <1>1 DEF Begun, Header
  <2>1. CASE AtStart
    BY <1>1, <1>3, <2>1, CopyEffect DEF AtStart, PhaseInv
  <2>2. CASE InHeader
    <3>1. dataIndex' \in BaseHeader .. Header
      BY <1>1, <1>3, <2>2, CopyNumbers DEF InHeader
    <3> QED
      BY <1>1, <2>0, <2>2, <3>1 DEF InHeader, PhaseInv
  <2>3. CASE InPayload
    <3>1. dataIndex' \in Header .. expectedLength
      BY <1>1, <2>3, CopyNumbers DEF InPayload
    <3> QED
      BY <1>1, <2>0, <2>3, <3>1 DEF InPayload, PhaseInv
  <2> QED
    BY <1>1, <2>1, <2>2, <2>3, CopyEffect
<1>5. BufferInv'
  BY <1>1, CopyEffect DEF BufferInv, BufferHolds
<1>6. state # "closing"
  BY <1>1, <1>3, CopyEffect DEF IInv, ErrorInv
<1>7. ErrorInv' /\ IdleInv'
  BY <1>1, <1>6 DEF ErrorInv, IdleInv
<1>8. BytesKept /\ size' \in 0 .. RecvSize
  BY <1>1, TakeEffect
<1>9. state' \in {"connected", "closing", "closed"}
  BY <1>1 DEF IInv, TypeOK
<1> QED
  BY <1>1, <1>4, <1>5, <1>6, <1>7, <1>8, <1>9, CopyEffect, WithinFrame

\* A frame that is not masked is left where it is, in error.
LEMMA UnmaskedKeeps ==
    ASSUME IInv, ParseUnmasked
    PROVE  IInv'
<1>1. /\ Copy /\ pc = "parse" /\ dataIndex' = expectedLength /\ ~sent[frame].masked
      /\ state' = "closing" /\ size' = 0
      /\ UNCHANGED <<sent, ends, wire, expectedLength, bufferSize, pc, frame, delivered>>
  BY CopyEffect DEF ParseUnmasked, Whole, CloseWebSocket
<1>2. AtStart
  BY <1>1, CopyEffect DEF InHeader, InPayload, Begun
<1>3. AtStart' /\ PhaseInv'
  BY <1>1, <1>2, Sizes DEF AtStart, PhaseInv
<1>4. frame <= Len(sent) /\ frame' = frame /\ sent' = sent
  BY <1>1, CopyEffect
<1>5. ErrorInv'
  BY <1>1, <1>3, <1>4 DEF ErrorInv
<1>6. BufferInv' /\ IdleInv'
  BY <1>1, CopyEffect DEF BufferInv, BufferHolds, IdleInv
<1>7. 0 \in 0 .. RecvSize
  BY Sizes
<1> QED
  BY <1>1, <1>3, <1>5, <1>6, <1>7, CopyEffect, WithinFrame

\* The rest of the header is expected.
LEMMA HeaderStartKeeps ==
    ASSUME IInv, ParseHeaderStart
    PROVE  IInv'
<1>1. /\ Take /\ Copy /\ pc = "parse" /\ dataIndex' = expectedLength /\ sent[frame].masked
      /\ expectedLength = 2 /\ expectedLength' = Header
      /\ UNCHANGED <<sent, ends, wire, bufferSize, pc, frame, delivered, state>>
  BY CopyEffect, Sizes DEF ParseHeaderStart, Take, Whole, Header
<1>2. Begun' /\ Header' = Header
  BY <1>1, CopyEffect DEF Begun, Header
<1>3. InHeader' /\ PhaseInv'
  <2>1. dataIndex' = 2 /\ 2 \in BaseHeader .. Header
    BY <1>1, CopyNumbers
  <2>2. BaseHeader' = BaseHeader
    BY DEF BaseHeader
  <2> QED
    BY <1>1, <1>2, <2>1, <2>2 DEF InHeader, PhaseInv
<1>4. BufferInv' /\ expectedLength' \in 0 .. Modulus - 1
  <2>1. Header \in Nat /\ Header <= 14 /\ 14 <= bufferSize /\ bufferSize \in Nat
    <3>1. bufferSize \in Nat /\ bufferSize >= DefaultSize
      BY DEF IInv, TypeOK
    <3> QED
      BY <1>1, <3>1, CopyNumbers, Sizes
  <2>2. Header \in 0 .. Modulus - 1
    BY <2>1, Sizes
  <2>3. dataIndex' <= bufferSize
    BY <1>1, CopyEffect
  <2>4. BufferHolds' /\ expectedLength' <= bufferSize'
    BY <1>1, <2>1, <2>3 DEF BufferHolds
  <2> QED
    BY <1>1, <2>2, <2>4 DEF BufferInv
<1>5. state # "closing"
  <2>1. ErrorInv
    BY DEF IInv
  <2>2. ~(expectedLength > Header)
    BY <1>1, CopyNumbers
  <2> QED
    BY <1>1, <2>1, <2>2 DEF ErrorInv
<1>6. ErrorInv' /\ IdleInv'
  BY <1>1, <1>5 DEF ErrorInv, IdleInv
<1>7. BytesKept /\ size' \in 0 .. RecvSize
  BY <1>1, TakeEffect
<1>8. state' \in {"connected", "closing", "closed"}
  BY <1>1 DEF IInv, TypeOK
<1> QED
  BY <1>1, <1>3, <1>4, <1>5, <1>6, <1>7, <1>8, CopyEffect, WithinFrame

\* The payload is expected, or less than the header, or the program ends.
LEMMA HeaderKeeps ==
    ASSUME IInv, ParseHeader
    PROVE  IInv'
<1> DEFINE f == sent[frame]
<1>1. /\ Take /\ Copy /\ pc = "parse" /\ dataIndex' = expectedLength /\ f.masked
      /\ dataIndex' = Header /\ expectedLength' = (HeaderSize(f) + DecodedLength(f)) % Modulus
      /\ UNCHANGED <<sent, ends, wire, frame, delivered, state>>
  BY CopyEffect DEF ParseHeader, Take, Whole, Header
<1>2. \/ expectedLength' >= Modulus \div 2 /\ pc' = "crashed" /\ bufferSize' = bufferSize
      \/ ~(expectedLength' >= Modulus \div 2) /\ bufferSize' = Grown(expectedLength') /\ pc' = pc
  BY DEF ParseHeader
<1>3. /\ f \in Frames /\ Header = HeaderSize(f) /\ FrameLength(f) = Header + PayloadLength(f)
      /\ PayloadLength(f) \in Nat /\ Header \in 2 .. 14
  BY <1>1, CopyEffect, FrameSizes DEF Header
<1>4. /\ expectedLength' \in 0 .. Modulus - 1
      /\ \/ expectedLength' >= Modulus \div 2 \/ expectedLength' = FrameLength(f)
         \/ expectedLength' < Header
  BY <1>1, <1>3, LengthRead
<1>5. Begun' /\ Header' = Header /\ sent'[frame'] = sent[frame]
  BY <1>1, CopyEffect DEF Begun, Header
<1>6. PhaseInv'
  <2>1. CASE pc' = "crashed"
    BY <2>1 DEF PhaseInv
  <2>2. CASE expectedLength' = FrameLength(f)
    BY <1>1, <1>3, <1>5, <2>2 DEF InPayload, PhaseInv
  <2>3. CASE expectedLength' < Header
    BY <1>1, <1>5, <2>3 DEF Misread, PhaseInv
  <2> QED
    BY <1>1, <1>2, <1>4, <2>1, <2>2, <2>3
<1>7. BufferInv' /\ bufferSize' \in Nat /\ bufferSize' >= DefaultSize
  <2>1. /\ dataIndex' \in Nat /\ dataIndex' <= bufferSize /\ bufferSize \in Nat
        /\ bufferSize >= DefaultSize /\ DefaultSize \in Nat /\ expectedLength' \in Nat
    BY <1>1, <1>4, CopyEffect, Sizes
  <2> QED
    BY <1>1, <1>2, <2>1 DEF BufferInv, BufferHolds, Grown
<1>8. state # "closing"
  BY <1>1, CopyEffect DEF IInv, ErrorInv
<1>9. ErrorInv' /\ IdleInv' /\ pc' \in {"idle", "parse", "crashed"}
  BY <1>1, <1>2, <1>8 DEF ErrorInv, IdleInv
<1>10. BytesKept /\ size' \in 0 .. RecvSize
  BY <1>1, TakeEffect
<1>11. state' \in {"connected", "closing", "closed"}
  BY <1>1 DEF IInv, TypeOK
<1>12. dataIndex' \in 0 .. Modulus - 1 /\ wire' \in Nat /\ wire' <= wire
  BY <1>1, CopyEffect
<1> QED
  BY <1>1, <1>4, <1>6, <1>7, <1>8, <1>9, <1>10, <1>11, <1>12, WithinFrame

\* A frame that is whole: everything the client meant by it, and nothing else.
LEMMA ReadyEffect ==
    ASSUME IInv, Ready, dataIndex' = dataIndex + ToRead
    PROVE  /\ Copy /\ Begun /\ InPayload
           /\ dataIndex' = expectedLength /\ expectedLength > Header
<1>1. /\ Copy /\ dataIndex' = expectedLength /\ sent[frame].masked
      /\ expectedLength > Header
  BY DEF Ready, Copy, Header
<1>2. ~AtStart /\ ~InHeader
  BY <1>1, CopyNumbers DEF AtStart, InHeader
<1> QED
  BY <1>1, <1>2, CopyEffect DEF InPayload

\* A frame with another opcode stays in the buffer, in error.
LEMMA OtherKeeps ==
    ASSUME IInv, ParseOther
    PROVE  IInv'
<1>1. /\ Ready /\ sent[frame].opcode = "other" /\ size' = size - ToRead
      /\ dataIndex' = dataIndex + ToRead /\ state' = "closing"
      /\ UNCHANGED <<sent, ends, wire, expectedLength, bufferSize, pc, frame, delivered>>
  BY DEF ParseOther, CloseWebSocket
<1>2. Copy /\ InPayload /\ dataIndex' = expectedLength /\ expectedLength > Header
  BY <1>1, ReadyEffect
<1>3. Begun' /\ Header' = Header /\ sent'[frame'] = sent[frame] /\ frame' <= Len(sent')
  BY <1>1, <1>2, CopyEffect DEF Begun, Header, InPayload
<1>4. InPayload' /\ PhaseInv'
  <2>1. dataIndex' \in Header .. expectedLength
    BY <1>2, CopyNumbers
  <2> QED
    BY <1>1, <1>2, <1>3, <2>1 DEF InPayload, PhaseInv
<1>5. ErrorInv'
  BY <1>1, <1>2, <1>3, <1>4 DEF ErrorInv
<1>6. BufferInv' /\ IdleInv' /\ pc' \in {"idle", "parse", "crashed"}
  BY <1>1, <1>2, CopyEffect DEF BufferInv, BufferHolds, IdleInv
<1> QED
  BY <1>1, <1>2, <1>4, <1>5, <1>6, CopyEffect, WithinFrame

\* A frame processed in full is the one that was next, and the parser begins anew where
\* the frame ends.
LEMMA FrameKeeps ==
    ASSUME IInv, ParseFrame
    PROVE  IInv'
<1> PICK n : n = frame
  OBVIOUS
<1>1. /\ Ready /\ sent[n].opcode # "other" /\ size' = size - ToRead
      /\ delivered' = Append(delivered, n) /\ frame' = n + 1
      /\ state' = (IF sent[n].opcode = "close" THEN "closed" ELSE state)
      /\ dataIndex' = 0 /\ expectedLength' = BaseHeader
      /\ bufferSize' = (IF bufferSize > DefaultSize THEN DefaultSize ELSE bufferSize)
      /\ UNCHANGED <<sent, ends, wire, pc>>
  BY DEF ParseFrame, Reset
<1>2. /\ pc = "parse" /\ size > 0 /\ ToRead <= size /\ dataIndex + ToRead = expectedLength
      /\ sent[n].masked /\ expectedLength > Header
  BY <1>1 DEF Ready, Header
<1>3. n \in 1 .. Len(sent) /\ sent[n] \in Frames
  BY <1>2, FrameIsThere
<1>4. ToRead \in Nat /\ ~Misread
  BY <1>2, TakenBytes
<1>5. /\ Len(sent) \in Nat /\ DOMAIN sent = 1 .. Len(sent) /\ Len(sent) <= MaxFrames
      /\ MaxFrames \in Nat /\ DefaultSize \in Nat /\ DefaultSize >= 14 /\ BaseHeader = 2
      /\ dataIndex \in Nat /\ expectedLength \in Nat /\ size \in Nat /\ size <= RecvSize
      /\ RecvSize \in Nat /\ wire \in Nat /\ bufferSize \in Nat
      /\ Modulus \in Nat /\ Modulus >= 4 * 256 * 256
  BY Numbers, Sizes DEF IInv
<1>6. expectedLength = FrameLength(sent[n])
  <2>1. Header \in 2 .. 14 /\ (sent[n].masked => Header >= 6)
    BY <1>3, FrameSizes DEF Header
  <2>2. ~AtStart /\ ~InHeader
    BY <1>2, <1>5, <2>1 DEF AtStart, InHeader
  <2>3. InPayload
    BY <1>2, <1>4, <2>2 DEF IInv, PhaseInv
  <2> QED
    BY <2>3 DEF InPayload
<1>7. state # "closing"
  BY <1>1, <1>2 DEF IInv, ErrorInv
<1>8. delivered' = [k \in 1 .. n |-> k]
  <2>1. delivered = [k \in 1 .. n - 1 |-> k] /\ n \in Nat /\ n >= 1
    BY <1>3, <1>5 DEF IInv, InStep
  <2>2. delivered \in Seq(Nat) /\ Len(delivered) = n - 1
    BY <2>1
  <2>3. /\ delivered' \in Seq(Nat) /\ Len(delivered') = n
        /\ \A k \in 1 .. n - 1 : delivered'[k] = delivered[k]
        /\ delivered'[n] = n
    BY <1>1, <2>1, <2>2, AppendProperties
  <2>4. DOMAIN delivered' = 1 .. n /\ delivered' = [k \in 1 .. n |-> delivered'[k]]
    BY <2>3, LenProperties
  <2>5. \A k \in 1 .. n : delivered'[k] = k
    BY <2>1, <2>3
  <2> QED
    BY <2>4, <2>5
<1>9. \A k \in 0 .. Len(sent) : EndOf(k)' = EndOf(k) /\ EndOf(k) \in Nat
  BY <1>1, Numbers DEF EndOf, IInv
<1>10. PICK a \in Nat, b \in Nat, e \in Nat :
          a = EndOf(n - 1) /\ b = EndOf(n) /\ b = EndOf(n)' /\ e = EndOf(Len(sent)) /\ e = EndOf(Len(sent))'
  <2>1. n - 1 \in 0 .. Len(sent) /\ n \in 0 .. Len(sent) /\ Len(sent) \in 0 .. Len(sent)
    BY <1>3, <1>5
  <2>2. Len(sent)' = Len(sent)
    BY <1>1
  <2> QED
    BY <1>9, <2>1, <2>2
<1>11. b + size' + wire' = e /\ size' \in 0 .. RecvSize
  <2>1. PICK d \in Nat, t \in Nat, z \in Nat, w \in Nat, g \in Nat :
            d = dataIndex /\ t = ToRead /\ z = size /\ w = wire /\ g = FrameLength(sent[n])
    BY <1>4, <1>5, <1>6
  <2>2. b = a + g
    BY <1>3, <1>10, <2>1 DEF IInv, EndsInv
  <2>3. a + d + z + w = e
    BY <1>2, <1>7, <1>10, <2>1 DEF IInv, InStep
  <2>4. d + t = g /\ t <= z
    BY <1>2, <1>6, <2>1
  <2>5. b + (z - t) + w = e /\ z - t \in Nat /\ z - t <= z
    BY <2>2, <2>3, <2>4
  <2>6. size' = z - t /\ wire' = w
    BY <1>1, <2>1
  <2> QED
    BY <1>5, <2>1, <2>5, <2>6
<1>12. TypeOK'
  <2>1. sent' \in Seq(Frames) /\ Len(sent') <= MaxFrames /\ ends' \in Seq(Nat) /\ Len(ends') = Len(sent')
    BY <1>1 DEF IInv, TypeOK
  <2>2. wire' \in 0 .. EndOf(Len(sent))'
    <3>1. wire \in 0 .. e
      BY <1>10 DEF IInv, TypeOK
    <3> QED
      BY <1>1, <1>10, <3>1
  <2>3. dataIndex' \in 0 .. Modulus - 1 /\ expectedLength' \in 0 .. Modulus - 1
    BY <1>1, <1>5
  <2>4. bufferSize' \in Nat /\ bufferSize' >= DefaultSize
    BY <1>1, <1>5 DEF IInv, TypeOK
  <2>5. pc' \in {"idle", "parse", "crashed"} /\ state' \in {"connected", "closing", "closed"}
    BY <1>1 DEF IInv, TypeOK
  <2>6. frame' \in 1 .. MaxFrames + 1
    BY <1>1, <1>3, <1>5
  <2>7. \A k \in DOMAIN delivered' : delivered'[k] \in DOMAIN sent'
    BY <1>1, <1>3, <1>5, <1>8
  <2> QED
    BY <1>11, <2>1, <2>2, <2>3, <2>4, <2>5, <2>6, <2>7 DEF TypeOK
<1>13. EndsInv'
  <2>1. ASSUME NEW k \in 1 .. Len(sent)
        PROVE  EndOf(k)' = EndOf(k - 1)' + FrameLength(sent[k])
    <3>1. k \in 0 .. Len(sent) /\ k - 1 \in 0 .. Len(sent)
      BY <1>5
    <3>2. EndOf(k) = EndOf(k - 1) + FrameLength(sent[k])
      BY DEF IInv, EndsInv
    <3> QED
      BY <1>9, <3>1, <3>2
  <2> QED
    BY <1>1, <2>1 DEF EndsInv
<1>14. AtStart'
  BY <1>1, <1>5 DEF AtStart, BaseHeader
<1>15. PhaseInv' /\ BufferInv' /\ IdleInv' /\ ErrorInv'
  <2>1. PhaseInv'
    BY <1>14 DEF PhaseInv
  <2>2. BufferInv'
    <3>1. bufferSize >= DefaultSize
      BY DEF IInv, TypeOK
    <3>2. bufferSize' = DefaultSize
      BY <1>1, <1>5, <3>1
    <3> QED
      BY <1>1, <1>5, <3>2 DEF BufferInv, BufferHolds
  <2>3. IdleInv'
    BY <1>1, <1>2 DEF IdleInv
  <2>4. ErrorInv'
    BY <1>1, <1>7 DEF ErrorInv
  <2> QED
    BY <2>1, <2>2, <2>3, <2>4
<1>16. InStep'
  <2>1. frame' - 1 = n /\ frame' <= Len(sent') + 1 /\ delivered' = [k \in 1 .. frame' - 1 |-> k]
    BY <1>1, <1>3, <1>5, <1>8
  <2>2. EndOf(frame - 1)' = b
    <3>1. PICK k : k = frame' - 1
      OBVIOUS
    <3>2. EndOf(frame - 1)' = EndOf(n)'
      BY <1>1, <2>1, <3>1 DEF EndOf
    <3> QED
      BY <1>10, <3>2
  <2>3. b + 0 + size' + wire' = e
    BY <1>1, <1>5, <1>11
  <2> QED
    BY <1>1, <1>10, <2>1, <2>2, <2>3 DEF InStep
<1> QED
  BY <1>12, <1>13, <1>15, <1>16 DEF IInv

\* Every byte has its place after a step.
LEMMA NextIInv == IInv /\ [Next]_vars => IInv'
<1> SUFFICES ASSUME IInv, [Next]_vars PROVE IInv'
  OBVIOUS
<1>1. /\ wire \in Nat /\ size \in Nat /\ size \in 0 .. RecvSize /\ wire <= wire
      /\ pc \in {"idle", "parse", "crashed"} /\ RecvSize \in Nat
  BY Numbers, Sizes DEF IInv, TypeOK
<1>2. ASSUME NEW f \in Frames, ClientSends(f) PROVE IInv'
  BY <1>2, SendKeeps
<1>3. ASSUME NEW k \in 1 .. RecvSize, Receive(k) PROVE IInv'
  <2>1. /\ pc = "idle" /\ size = 0 /\ k <= wire /\ wire' = wire - k /\ size' = k /\ pc' = "parse"
        /\ UNCHANGED <<sent, ends, parser, frame, delivered, state>>
    BY <1>3 DEF Receive, IInv, IdleInv
  <2>2. PICK d \in Nat, w \in Nat : d = dataIndex /\ w = wire
    BY Numbers DEF IInv
  <2>3. d + k + (w - k) = d + 0 + w /\ w - k \in Nat /\ w - k <= w
    BY <1>1, <2>1, <2>2
  <2>4. BytesKept
    BY <2>1, <2>2, <2>3 DEF BytesKept, parser
  <2>5. wire' \in Nat /\ wire' <= wire /\ size' \in 0 .. RecvSize /\ IdleInv'
    BY <1>1, <2>1, <2>2, <2>3 DEF IdleInv
  <2> QED
    BY <2>1, <2>4, <2>5, ParserStays
<1>4. CASE ParseOverrun
  <2>1. /\ pc = "parse" /\ pc' = "crashed"
        /\ UNCHANGED <<sent, ends, wire, parser, size, frame, delivered, state>>
    BY <1>4 DEF ParseOverrun
  <2> QED
    BY <1>1, <2>1, ParserStays DEF IdleInv
<1>5. CASE EndLoop
  <2>1. /\ pc = "parse" /\ size = 0 /\ pc' = "idle"
        /\ UNCHANGED <<sent, ends, wire, parser, size, frame, delivered, state>>
    BY <1>5 DEF EndLoop
  <2>2. BytesKept /\ IdleInv'
    BY <2>1 DEF BytesKept, IdleInv, parser
  <2> QED
    BY <1>1, <2>1, <2>2, ParserStays
<1>6. CASE UNCHANGED vars
  <2>1. CASE pc # "crashed"
    <3>1. UNCHANGED <<sent, ends, wire, parser, size, frame, delivered, state, pc>>
      BY <1>6 DEF vars
    <3>2. BytesKept /\ IdleInv'
      BY <3>1 DEF BytesKept, IInv, IdleInv, parser
    <3> QED
      BY <1>1, <2>1, <3>1, <3>2, ParserStays
  <2>2. CASE pc = "crashed"
    <3>1. UNCHANGED <<sent, ends, wire, dataIndex, expectedLength, bufferSize, size, frame,
                      delivered, state, pc>>
      BY <1>6 DEF vars, parser
    <3>2. /\ dataIndex' \in 0 .. Modulus - 1 /\ expectedLength' \in 0 .. Modulus - 1
          /\ bufferSize' \in Nat /\ bufferSize' >= DefaultSize
          /\ state' \in {"connected", "closing", "closed"}
      BY <3>1 DEF IInv, TypeOK
    <3>3. PhaseInv' /\ BufferInv' /\ ErrorInv' /\ IdleInv'
      BY <2>2, <3>1 DEF IInv, PhaseInv, BufferInv, BufferHolds, ErrorInv, IdleInv
    <3> QED
      BY <1>1, <2>2, <3>1, <3>2, <3>3, WithinFrame
  <2> QED
    BY <2>1, <2>2
<1> QED
  BY <1>2, <1>3, <1>4, <1>5, <1>6, PartKeeps, UnmaskedKeeps, HeaderStartKeeps, HeaderKeeps,
     FrameKeeps, OtherKeeps DEF Next, Parse

-----------------------------------------------------------------------------
(* Theorems                                                                *)

\* Every byte has its place, in every state of the parser.
THEOREM Invariance == Spec => []IInv
<1> QED
  BY InitIInv, NextIInv, PTL DEF Spec

\* The variables of the parser keep their types: no count of bytes leaves its size_t.
THEOREM TypeCorrect == Spec => []TypeOK
<1>1. IInv => TypeOK
  BY DEF IInv
<1> QED
  BY <1>1, Invariance, PTL

\* A connection that was switched runs the parser and nothing else of its state.
THEOREM ConnectionRunsParser == ConnectionSpec => Spec
<1>1. ConnectionInit => Init
  BY DEF ConnectionInit
<1>2. [ConnectionNext]_allVars => [Next]_vars
  <2> SUFFICES ASSUME [ConnectionNext]_allVars PROVE [Next]_vars
    OBVIOUS
  <2>1. CASE \E r \in Requests : ClientAsks(r)
    BY <2>1 DEF ClientAsks
  <2>2. CASE ClientReadsAnswer
    BY <2>2 DEF ClientReadsAnswer
  <2>3. CASE \E k \in DOMAIN unread : CheckHTTPBuffer(k)
    BY <2>3 DEF CheckHTTPBuffer
  <2>4. CASE \E f \in Frames : Speak(ClientSends(f))
    BY <2>4 DEF Speak, Next
  <2>5. CASE \E k \in 1 .. RecvSize : Speak(Receive(k))
    BY <2>5 DEF Speak, Next
  <2>6. CASE Speak(Parse)
    BY <2>6 DEF Speak, Next
  <2>7. CASE UNCHANGED allVars
    BY <2>7 DEF allVars
  <2> QED
    BY <2>1, <2>2, <2>3, <2>4, <2>5, <2>6, <2>7 DEF ConnectionNext
<1> QED
  BY <1>1, <1>2, PTL DEF ConnectionSpec, Spec

\* However the network cuts the frames of a connection, each is processed once, in order
\* and with its own bytes, until one is in error.
THEOREM FramesStayInStep == ConnectionSpec => []InStep
<1>1. IInv => InStep
  BY DEF IInv
<1> QED
  BY <1>1, Invariance, ConnectionRunsParser, PTL

\* The parser copies nothing behind its buffer, whatever length a frame claims.
THEOREM BufferIsLargeEnough == ConnectionSpec => []BufferHolds
<1>1. IInv => BufferHolds
  BY DEF IInv, BufferInv
<1> QED
  BY <1>1, Invariance, ConnectionRunsParser, PTL

-----------------------------------------------------------------------------
(* The text of a request                                                   *)

\* What a request is made of, and what a client may write in the value of a header.
Tokens ==
    STRING \cup {Colon, NewLine, Space, Comma, "GET", "POST", "/chat", "HTTP/1.1", "Cookie", "c",
                 "Sec-WebSocket-Key", "key", "Sec-WebSocket-Protocol", "X-Empty"}
Words == Tokens \ {Colon, NewLine}
Protocols == STRING \ {Space, Colon, Comma, NewLine}

\* A header, with a colon behind its name, or nothing.
IsLine(l) ==
    /\ l \in Seq(Tokens)
    /\ \/ l = <<>>
       \/ /\ Len(l) >= 3
          /\ \A k \in 1 .. Len(l) : (l[k] = NewLine <=> k = Len(l)) /\ (l[k] = Colon <=> k = 2)

\* A text behind another.
LEMMA Behind ==
    ASSUME NEW S, NEW s \in Seq(S), NEW l \in Seq(S), NEW t, t = s \o l
    PROVE  /\ t \in Seq(S) /\ Len(s) \in Nat /\ Len(l) \in Nat /\ Len(t) = Len(s) + Len(l)
           /\ \A j \in 1 .. Len(s) : t[j] = s[j]
           /\ \A k \in 1 .. Len(l) : t[Len(s) + k] = l[k]
<1>1. /\ s \o l \in Seq(S) /\ Len(s \o l) = Len(s) + Len(l)
      /\ \A j \in 1 .. Len(s) + Len(l) :
             (s \o l)[j] = IF j <= Len(s) THEN s[j] ELSE l[j - Len(s)]
  BY ConcatProperties
<1>2. Len(s) \in Nat /\ Len(l) \in Nat
  BY LenProperties
<1>3. ASSUME NEW j \in 1 .. Len(s)
      PROVE  t[j] = s[j]
  <2>1. j \in 1 .. Len(s) + Len(l) /\ j <= Len(s)
    BY <1>2
  <2> QED
    BY <1>1, <2>1
<1>4. ASSUME NEW k \in 1 .. Len(l)
      PROVE  t[Len(s) + k] = l[k]
  <2>1. /\ Len(s) + k \in 1 .. Len(s) + Len(l) /\ ~(Len(s) + k <= Len(s))
        /\ Len(s) + k - Len(s) = k
    BY <1>2
  <2> QED
    BY <1>1, <2>1
<1> QED
  BY <1>1, <1>2, <1>3, <1>4

\* A function on 1 .. n is a sequence.
LEMMA IsSequence ==
    ASSUME NEW S, NEW n \in Nat, NEW f \in [1 .. n -> S]
    PROVE  f \in Seq(S) /\ Len(f) = n
OBVIOUS

\* A header is a name, a colon, a value and the end of the line.
LEMMA LineIs ==
    ASSUME NEW name \in Words, NEW value \in Seq(Words), NEW l, l = Line(name, value)
    PROVE  /\ IsLine(l) /\ Len(value) \in Nat /\ Len(l) = Len(value) + 3
           /\ l[1] = name
           /\ \A k \in 1 .. Len(value) : l[k + 2] = value[k]
<1> DEFINE n == Len(value)
           s == <<name, Colon>> \o value
<1>1. n \in Nat /\ \A k \in 1 .. n : value[k] \in Words
  BY LenProperties, ElementOfSeq
<1>2. value \in Seq(Tokens)
  BY <1>1 DEF Words
<1>3. <<name, Colon>> \in Seq(Tokens) /\ Len(<<name, Colon>>) = 2
  <2>1. name \in Tokens
    BY DEF Words
  <2>2. Colon \in Tokens
    BY DEF Tokens
  <2> QED
    BY <2>1, <2>2
<1>4. /\ s \in Seq(Tokens) /\ Len(s) = 2 + n
      /\ \A j \in 1 .. 2 : s[j] = <<name, Colon>>[j]
      /\ \A k \in 1 .. n : s[2 + k] = value[k]
  BY <1>2, <1>3, Behind
<1>5. <<NewLine>> \in Seq(Tokens) /\ Len(<<NewLine>>) = 1
  BY DEF Tokens
<1>6. l = s \o <<NewLine>>
  BY DEF Line
<1> HIDE DEF s, n
<1>7. /\ l \in Seq(Tokens) /\ Len(l) = 2 + n + 1
      /\ \A j \in 1 .. 2 + n : l[j] = s[j]
      /\ \A k \in 1 .. 1 : l[2 + n + k] = <<NewLine>>[k]
  BY <1>4, <1>5, <1>6, Behind
<1>8. /\ l[1] = name /\ l[2] = Colon /\ l[n + 3] = NewLine
      /\ \A k \in 1 .. n : l[k + 2] = value[k]
  <2>1. 1 \in 1 .. 2 + n /\ 2 \in 1 .. 2 + n /\ 2 + n + 1 = n + 3 /\ 1 \in 1 .. 1
    BY <1>1
  <2>2. l[1] = name /\ l[2] = Colon
    BY <1>4, <1>7, <2>1
  <2>3. l[n + 3] = NewLine
    BY <1>7, <2>1
  <2>4. ASSUME NEW k \in 1 .. n PROVE l[k + 2] = value[k]
    <3>1. k + 2 \in 1 .. 2 + n /\ 2 + k = k + 2
      BY <1>1
    <3> QED
      BY <1>4, <1>7, <3>1
  <2> QED
    BY <2>2, <2>3, <2>4
<1>9. ASSUME NEW k \in 1 .. Len(l)
      PROVE  (l[k] = NewLine <=> k = Len(l)) /\ (l[k] = Colon <=> k = 2)
  <2>0. Colon # NewLine /\ name # NewLine /\ name # Colon
    BY DEF NewLine, Colon, Words
  <2>1. CASE k = 1
    BY <1>1, <1>7, <1>8, <2>0, <2>1
  <2>2. CASE k = 2
    BY <1>1, <1>7, <1>8, <2>0, <2>2
  <2>3. CASE k = Len(l)
    BY <1>1, <1>7, <1>8, <2>0, <2>3
  <2>4. CASE k \in 3 .. 2 + n
    <3>1. k - 2 \in 1 .. n /\ k - 2 + 2 = k
      BY <1>1, <2>4
    <3>2. l[k] = value[k - 2]
      BY <1>8, <3>1
    <3>3. l[k] # NewLine /\ l[k] # Colon
      BY <1>1, <3>1, <3>2 DEF Words
    <3> QED
      BY <1>1, <1>7, <2>4, <3>3
  <2> QED
    BY <1>1, <1>7, <2>1, <2>2, <2>3, <2>4
<1> QED
  BY <1>1, <1>7, <1>8, <1>9 DEF IsLine, n

\* A client may leave a header out.
LEMMA NoLine == IsLine(<<>>)
BY DEF IsLine

\* The lines end, and the names do, where they did, and where one more line does.
Lengthened(s, l, t) ==
    /\ t \in Seq(Tokens) /\ Len(s) \in Nat /\ Len(l) \in Nat
    /\ Len(t) = Len(s) + Len(l)
    /\ \A j \in 1 .. Len(s) : t[j] = s[j]
    /\ \A k \in 1 .. Len(l) : t[Len(s) + k] = l[k]
    /\ l # <<>> => Len(l) >= 3
    /\ \A j \in Len(s) + 1 .. Len(t) :
          (t[j] = NewLine <=> j = Len(t)) /\ (t[j] = Colon <=> j = Len(s) + 2)

\* A text stays what it is, and ends with the line, when one is added to it.
LEMMA OneMore ==
    ASSUME NEW s \in Seq(Tokens), NEW l, IsLine(l), NEW t, t = s \o l
    PROVE  Lengthened(s, l, t)
<1>1. /\ t \in Seq(Tokens) /\ Len(s) \in Nat /\ Len(l) \in Nat
      /\ Len(t) = Len(s) + Len(l)
      /\ \A j \in 1 .. Len(s) : t[j] = s[j]
      /\ \A k \in 1 .. Len(l) : t[Len(s) + k] = l[k]
  BY Behind DEF IsLine
<1>2. l # <<>> =>
          /\ Len(l) >= 3
          /\ \A k \in 1 .. Len(l) : (l[k] = NewLine <=> k = Len(l)) /\ (l[k] = Colon <=> k = 2)
  BY DEF IsLine
<1>3. l = <<>> => Len(l) = 0
  OBVIOUS
<1>4. ASSUME NEW j \in Len(s) + 1 .. Len(t)
      PROVE  (t[j] = NewLine <=> j = Len(t)) /\ (t[j] = Colon <=> j = Len(s) + 2)
  <2> DEFINE k == j - Len(s)
  <2>1. k \in 1 .. Len(l) /\ Len(s) + k = j
    BY <1>1
  <2>2. l # <<>>
    BY <1>3, <2>1
  <2>3. t[j] = l[k]
    BY <1>1, <2>1
  <2>4. (k = Len(l) <=> j = Len(t)) /\ (k = 2 <=> j = Len(s) + 2)
    BY <1>1
  <2> HIDE DEF k
  <2> QED
    BY <1>2, <2>1, <2>2, <2>3, <2>4
<1> QED
  BY <1>1, <1>2, <1>4 DEF Lengthened

\* The headers a client may write.
KeyLine(r) == IF r.hasKey THEN Line("Sec-WebSocket-Key", <<Space, "key">>) ELSE <<>>

ProtocolLine(r) ==
    IF r.protocols = <<>> THEN <<>>
    ELSE Line("Sec-WebSocket-Protocol", <<Space>> \o Listed(r.protocols))

FirstLine(r) == <<r.type, Space, "/chat", Space, "HTTP/1.1", NewLine>>

\* What a request holds.
LEMMA RequestFields ==
    ASSUME NEW r \in RequestType
    PROVE  /\ r.type \in {"GET", "POST"} /\ r.before \in {"nothing", "empty", "long"}
           /\ r.hasKey \in BOOLEAN /\ r.after \in {"nothing", "empty"}
           /\ r.protocols \in Seq(Protocols)
BY DEF RequestType, Protocols

\* The words of a request, and the characters that stand alone.
LEMMA Literals ==
    /\ \A w \in {Space, Comma, "c", "key", "Sec-WebSocket-Key", "Sec-WebSocket-Protocol", "X-Empty",
                  "Cookie", "GET", "POST", "/chat", "HTTP/1.1"} : w \in Words /\ w \in Tokens
    /\ Space # Colon /\ Space # Comma /\ Colon # Comma
    /\ Space # NewLine /\ Colon # NewLine /\ Comma # NewLine
BY DEF Words, Tokens, NewLine, Colon, Comma, Space

\* Numbers modulo 3.
LEMMA Thirds ==
    ASSUME NEW m \in Nat, m >= 1, NEW k \in Nat
    PROVE  /\ k = 3 * m - 2 => k % 3 = 1 /\ (k + 2) \div 3 = m
           /\ k = 3 * m - 1 => k % 3 = 2
           /\ k = 3 * m => k % 3 = 0
<1>1. k = 3 * m - 2 => k % 3 = 1
  OBVIOUS
<1>2. k = 3 * m - 2 => (k + 2) \div 3 = m
  OBVIOUS
<1>3. k = 3 * m - 1 => k % 3 = 2
  OBVIOUS
<1>4. k = 3 * m => k % 3 = 0
  OBVIOUS
<1> QED
  BY <1>1, <1>2, <1>3, <1>4

\* Every number has one of the three remainders.
LEMMA InThirds ==
    ASSUME NEW j \in Nat, j >= 1
    PROVE  \E m \in Nat : m >= 1 /\ (j = 3 * m - 2 \/ j = 3 * m - 1 \/ j = 3 * m)
<1>1. PICK m \in Int : m = (j + 2) \div 3
  OBVIOUS
<1>2. j = 3 * m - 2 \/ j = 3 * m - 1 \/ j = 3 * m
  BY <1>1
<1>3. m >= 1
  BY <1>2
<1> QED
  BY <1>2, <1>3

\* Where the protocols, the commas and the spaces of a list stand.
ListStands(ps, v, n) ==
    /\ n \in Nat /\ n >= 1 /\ v \in Seq(Words) /\ Len(v) = 3 * n - 2
    /\ \A m \in 1 .. n : v[3 * m - 2] = ps[m]
    /\ \A m \in 1 .. n - 1 : v[3 * m - 1] = Comma /\ v[3 * m] = Space
    /\ \A j \in 1 .. 3 * n - 2 :
          \/ \E m \in 1 .. n : j = 3 * m - 2
          \/ \E m \in 1 .. n - 1 : j = 3 * m - 1 \/ j = 3 * m

\* The list of the protocols: each, with a comma and a space before all but the first.
LEMMA ListedIs ==
    ASSUME NEW ps \in Seq(Protocols), ps # <<>>, NEW v, v = Listed(ps),
           NEW n, n = Len(ps)
    PROVE  ListStands(ps, v, n)
<1>1. n \in Nat /\ n >= 1
  <2>1. Len(ps) \in Nat /\ Len(ps) # 0
    BY EmptySeq, LenProperties
  <2> QED
    BY <2>1
<1>2. \A m \in 1 .. n : ps[m] \in Protocols
  BY ElementOfSeq
<1>3. v = [k \in 1 .. 3 * n - 2 |->
              IF k % 3 = 1 THEN ps[(k + 2) \div 3] ELSE IF k % 3 = 2 THEN Comma ELSE Space]
  BY DEF Listed
<1>4. ASSUME NEW j \in 1 .. 3 * n - 2
      PROVE  \/ \E m \in 1 .. n : j = 3 * m - 2
             \/ \E m \in 1 .. n - 1 : j = 3 * m - 1 \/ j = 3 * m
  <2>1. j \in Nat /\ j >= 1 /\ j <= 3 * n - 2
    BY <1>1
  <2>2. PICK m \in Nat : m >= 1 /\ (j = 3 * m - 2 \/ j = 3 * m - 1 \/ j = 3 * m)
    BY <2>1, InThirds
  <2>3. j = 3 * m - 2 => m \in 1 .. n
    BY <1>1, <2>1, <2>2
  <2>4. j = 3 * m - 1 \/ j = 3 * m => m \in 1 .. n - 1
    BY <1>1, <2>1, <2>2
  <2> QED
    BY <2>2, <2>3, <2>4
<1> DEFINE At(k) == IF k % 3 = 1 THEN ps[(k + 2) \div 3] ELSE IF k % 3 = 2 THEN Comma ELSE Space
<1>5. /\ \A k \in 1 .. 3 * n - 2 : v[k] = At(k)
      /\ DOMAIN v = 1 .. 3 * n - 2 /\ v = [k \in DOMAIN v |-> v[k]]
  BY <1>3
<1> HIDE DEF At
<1>6. \A m \in 1 .. n : v[3 * m - 2] = ps[m]
  <2> SUFFICES ASSUME NEW m \in 1 .. n PROVE v[3 * m - 2] = ps[m]
    OBVIOUS
  <2>1. m \in Nat /\ m >= 1 /\ 3 * m - 2 \in 1 .. 3 * n - 2
    BY <1>1
  <2>2. PICK k \in Nat : k = 3 * m - 2
    BY <2>1
  <2>3. k % 3 = 1 /\ (k + 2) \div 3 = m
    BY <2>1, <2>2, Thirds
  <2>4. At(k) = ps[m]
    BY <2>3 DEF At
  <2> QED
    BY <1>5, <2>1, <2>2, <2>4
<1>7. \A m \in 1 .. n - 1 : v[3 * m - 1] = Comma /\ v[3 * m] = Space
  <2> SUFFICES ASSUME NEW m \in 1 .. n - 1 PROVE v[3 * m - 1] = Comma /\ v[3 * m] = Space
    OBVIOUS
  <2>1. m \in Nat /\ m >= 1 /\ 3 * m - 1 \in 1 .. 3 * n - 2 /\ 3 * m \in 1 .. 3 * n - 2
    BY <1>1
  <2>2. PICK k \in Nat, i \in Nat : k = 3 * m - 1 /\ i = 3 * m
    BY <2>1
  <2>3. k % 3 = 2 /\ i % 3 = 0
    BY <2>1, <2>2, Thirds
  <2>4. k % 3 # 1 /\ i % 3 # 1 /\ i % 3 # 2
    BY <2>3
  <2>5. At(k) = Comma /\ At(i) = Space
    BY <2>3, <2>4, Zenon DEF At
  <2> QED
    BY <1>5, <2>1, <2>2, <2>5
<1>8. v \in Seq(Words) /\ Len(v) = 3 * n - 2
  <2>1. ASSUME NEW j \in 1 .. 3 * n - 2 PROVE v[j] \in Words
    <3>1. \A m \in 1 .. n : ps[m] \in Words
      BY <1>2 DEF Protocols, Words, Tokens
    <3>2. Comma \in Words /\ Space \in Words
      BY Literals
    <3>3. CASE \E m \in 1 .. n : j = 3 * m - 2
      BY <1>6, <3>1, <3>3
    <3>4. CASE \E m \in 1 .. n - 1 : j = 3 * m - 1 \/ j = 3 * m
      BY <1>7, <3>2, <3>4
    <3> QED
      BY <1>4, <3>3, <3>4
  <2>2. v \in [1 .. 3 * n - 2 -> Words]
    BY <1>5, <2>1
  <2>3. 3 * n - 2 \in Nat
    BY <1>1
  <2> QED
    BY <2>2, <2>3, IsSequence
<1> QED
  BY <1>1, <1>4, <1>6, <1>7, <1>8 DEF ListStands

\* A value is written behind a space.
LEMMA SpaceBefore ==
    ASSUME NEW v \in Seq(Words), NEW value, value = <<Space>> \o v
    PROVE  /\ value \in Seq(Words) /\ Len(v) \in Nat /\ Len(value) = Len(v) + 1
           /\ value[1] = Space /\ \A k \in 1 .. Len(v) : value[k + 1] = v[k]
<1>1. <<Space>> \in Seq(Words) /\ Len(<<Space>>) = 1 /\ <<Space>>[1] = Space
  BY Literals
<1>2. /\ value \in Seq(Words) /\ Len(value) = Len(<<Space>>) + Len(v) /\ Len(v) \in Nat
      /\ \A j \in 1 .. Len(<<Space>>) : value[j] = <<Space>>[j]
      /\ \A k \in 1 .. Len(v) : value[Len(<<Space>>) + k] = v[k]
  BY <1>1, Behind
<1>3. value[1] = Space
  BY <1>1, <1>2
<1>4. \A k \in 1 .. Len(v) : Len(<<Space>>) + k = k + 1
  BY <1>1, <1>2
<1> QED
  BY <1>1, <1>2, <1>3, <1>4

\* What the headers of a request are, and how long.
LEMMA ExtraIs ==
    ASSUME NEW what \in {"nothing", "empty", "long"}, NEW l, l = Extra(what)
    PROVE  /\ IsLine(l)
           /\ what = "nothing" => l = <<>> /\ Len(l) = 0
           /\ what = "empty" => Len(l) = 3
           /\ what = "long" => Len(l) = 12 /\ l[1] = "Cookie" /\ l[3] = Space /\ l[4] = "c"
<1>1. CASE what = "nothing"
  BY <1>1, NoLine DEF Extra
<1>2. CASE what = "empty"
  <2>1. l = Line("X-Empty", <<>>)
    BY <1>2 DEF Extra
  <2>2. "X-Empty" \in Words /\ <<>> \in Seq(Words) /\ Len(<<>>) = 0
    BY Literals
  <2>3. IsLine(l) /\ Len(l) = Len(<<>>) + 3
    BY <2>1, <2>2, LineIs
  <2> QED
    BY <1>2, <2>2, <2>3
<1>3. CASE what = "long"
  <2> DEFINE cs == [k \in 1 .. 8 |-> "c"]
             value == <<Space>> \o cs
  <2>1. l = Line("Cookie", value)
    BY <1>3 DEF Extra
  <2>2. "Cookie" \in Words /\ Space \in Words /\ "c" \in Words
    BY Literals
  <2>3. cs \in Seq(Words) /\ Len(cs) = 8 /\ cs[1] = "c"
    <3>1. cs \in [1 .. 8 -> Words] /\ cs[1] = "c"
      BY <2>2
    <3> QED
      BY <3>1, IsSequence
  <2>5. /\ value \in Seq(Words) /\ Len(value) = 9
        /\ value[1] = Space /\ value[2] = "c"
    <3> HIDE DEF cs
    <3>1. /\ value \in Seq(Words) /\ Len(value) = Len(cs) + 1 /\ value[1] = Space
          /\ \A k \in 1 .. Len(cs) : value[k + 1] = cs[k]
      BY <2>3, SpaceBefore
    <3>2. value[1 + 1] = cs[1]
      BY <2>3, <3>1
    <3> QED
      BY <2>3, <3>1, <3>2
  <2> HIDE DEF value
  <2>6. /\ IsLine(l) /\ Len(l) = Len(value) + 3 /\ l[1] = "Cookie"
        /\ \A k \in 1 .. Len(value) : l[k + 2] = value[k]
    <3>1. PICK name \in Words : name = "Cookie"
      BY <2>2
    <3>2. value \in Seq(Words)
      BY <2>5
    <3> QED
      BY <2>1, <3>1, <3>2, LineIs
  <2>7. l[1 + 2] = value[1] /\ l[2 + 2] = value[2]
    BY <2>5, <2>6
  <2> QED
    BY <1>3, <2>5, <2>6, <2>7
<1> QED
  BY <1>1, <1>2, <1>3

\* The header of the key: it has a value.
LEMMA KeyLineIs ==
    ASSUME NEW r \in RequestType, NEW l, l = KeyLine(r)
    PROVE  /\ IsLine(l)
           /\ ~r.hasKey => Len(l) = 0
           /\ r.hasKey => Len(l) = 5 /\ l[1] = "Sec-WebSocket-Key" /\ l[3] = Space /\ l[4] = "key"
<1>1. CASE ~r.hasKey
  BY <1>1, NoLine DEF KeyLine
<1>2. CASE r.hasKey
  <2> DEFINE value == <<Space, "key">>
  <2>1. l = Line("Sec-WebSocket-Key", value)
    BY <1>2 DEF KeyLine
  <2>2. "Sec-WebSocket-Key" \in Words /\ Space \in Words /\ "key" \in Words
    BY Literals
  <2>3. value \in Seq(Words) /\ Len(value) = 2 /\ value[1] = Space /\ value[2] = "key"
    BY <2>2
  <2> HIDE DEF value
  <2>4. /\ IsLine(l) /\ Len(l) = Len(value) + 3 /\ l[1] = "Sec-WebSocket-Key"
        /\ \A k \in 1 .. Len(value) : l[k + 2] = value[k]
    <3>1. PICK name \in Words : name = "Sec-WebSocket-Key"
      BY <2>2
    <3>2. value \in Seq(Words)
      BY <2>3
    <3> QED
      BY <2>1, <3>1, <3>2, LineIs
  <2>5. l[1 + 2] = value[1] /\ l[2 + 2] = value[2]
    BY <2>3, <2>4
  <2> QED
    BY <1>2, <2>3, <2>4, <2>5
<1> QED
  BY <1>1, <1>2

\* The header of the protocols: its value is the list.
LEMMA ProtocolLineIs ==
    ASSUME NEW r \in RequestType, NEW l, l = ProtocolLine(r)
    PROVE  /\ IsLine(l)
           /\ r.protocols = <<>> => Len(l) = 0
           /\ r.protocols # <<>> =>
                  /\ Len(r.protocols) \in Nat /\ Len(r.protocols) >= 1
                  /\ Len(l) = 3 * Len(r.protocols) + 2
                  /\ l[1] = "Sec-WebSocket-Protocol" /\ l[3] = Space
                  /\ \A k \in 1 .. 3 * Len(r.protocols) - 2 : l[k + 3] = Listed(r.protocols)[k]
<1>0. PICK v, n : v = Listed(r.protocols) /\ n = Len(r.protocols)
  OBVIOUS
<1>1. CASE r.protocols = <<>>
  BY <1>1, NoLine DEF ProtocolLine
<1>2. CASE r.protocols # <<>>
  <2> DEFINE value == <<Space>> \o v
  <2>1. l = Line("Sec-WebSocket-Protocol", value)
    BY <1>0, <1>2 DEF ProtocolLine
  <2>2. "Sec-WebSocket-Protocol" \in Words /\ Space \in Words
    BY Literals
  <2>3. n \in Nat /\ n >= 1 /\ v \in Seq(Words) /\ Len(v) = 3 * n - 2
    <3>1. r.protocols \in Seq(Protocols)
      BY RequestFields
    <3>2. ListStands(r.protocols, v, n)
      BY <1>0, <1>2, <3>1, ListedIs
    <3> QED
      BY <3>2 DEF ListStands
  <2>5. /\ value \in Seq(Words) /\ Len(v) \in Nat /\ Len(value) = Len(v) + 1
        /\ value[1] = Space /\ \A k \in 1 .. Len(v) : value[k + 1] = v[k]
    BY <2>3, SpaceBefore
  <2> HIDE DEF value
  <2>6. /\ IsLine(l) /\ Len(l) = Len(value) + 3 /\ l[1] = "Sec-WebSocket-Protocol"
        /\ \A k \in 1 .. Len(value) : l[k + 2] = value[k]
    BY <2>1, <2>2, <2>5, LineIs
  <2>7. l[1 + 2] = value[1]
    BY <2>5, <2>6
  <2>8. ASSUME NEW k \in 1 .. Len(v) PROVE l[k + 3] = v[k]
    <3>1. k + 1 \in 1 .. Len(value) /\ k + 1 + 2 = k + 3
      BY <2>5
    <3>2. l[k + 1 + 2] = value[k + 1]
      BY <2>6, <3>1
    <3> QED
      BY <2>5, <3>1, <3>2
  <2> QED
    <3>1. Len(l) = 3 * n + 2
      BY <2>3, <2>5, <2>6
    <3>2. \A k \in 1 .. 3 * n - 2 : l[k + 3] = v[k]
      BY <2>3, <2>8
    <3> QED
      BY <1>0, <1>2, <2>3, <2>5, <2>6, <2>7, <3>1, <3>2
<1> QED
  BY <1>1, <1>2

\* Where the lines of a text end, and where the names do: behind the first line, that of
\* b, c, d and e end four headers, of which some may be left out.
LinesEnd(t, b, c, d, e) ==
    /\ t \in Seq(Tokens) /\ Len(t) = e + 1
    /\ {b, c, d, e} \subseteq Nat
    /\ b = 6 \/ b >= 9
    /\ c = b \/ c >= b + 3
    /\ d = c \/ d >= c + 3
    /\ e = d \/ e >= d + 3
    /\ \A j \in 1 .. e + 1 : t[j] = NewLine <=> j \in {6, b, c, d, e, e + 1}
    /\ \A j \in 1 .. e + 1 :
          t[j] = Colon <=> \/ j = 8 /\ b > 6
                           \/ j = b + 2 /\ c > b
                           \/ j = c + 2 /\ d > c
                           \/ j = d + 2 /\ e > d

\* What a request has in the first line, before the key, in the key, in the protocols and
\* behind them.
FirstIs(t, r) == t[1] = r.type /\ t[2] = Space /\ t[3] = "/chat" /\ t[4] = Space

BeforeIs(t, r, b) ==
    /\ r.before = "nothing" => b = 6
    /\ r.before = "long" => b = 18 /\ t[7] = "Cookie" /\ t[9] = Space /\ t[10] = "c"

KeyIs(t, r, b, c) ==
    /\ ~r.hasKey => c = b
    /\ r.hasKey => /\ c = b + 5 /\ t[b + 1] = "Sec-WebSocket-Key"
                   /\ t[b + 3] = Space /\ t[b + 4] = "key"

ProtocolsAre(t, r, c, d) ==
    /\ r.protocols = <<>> => d = c
    /\ r.protocols # <<>> =>
          /\ Len(r.protocols) \in Nat /\ Len(r.protocols) >= 1
          /\ d = c + 3 * Len(r.protocols) + 2 /\ t[c + 1] = "Sec-WebSocket-Protocol"
          /\ t[c + 3] = Space
          /\ \A k \in 1 .. 3 * Len(r.protocols) - 2 : t[c + 3 + k] = Listed(r.protocols)[k]

AfterIs(r, d, e) == (r.after = "nothing" => e = d) /\ (r.after = "empty" => e = d + 3)

\* A request has that shape.
LEMMA Shape ==
    ASSUME NEW r \in RequestType, NEW t, t = Text(r)
    PROVE  \E b, c, d, e \in Nat :
              /\ LinesEnd(t, b, c, d, e)
              /\ FirstIs(t, r) /\ BeforeIs(t, r, b) /\ KeyIs(t, r, b, c)
              /\ ProtocolsAre(t, r, c, d) /\ AfterIs(r, d, e)
<1>1. PICK s0, l1, l2, l3, l4 :
         /\ s0 = FirstLine(r) /\ l1 = Extra(r.before) /\ l2 = KeyLine(r)
         /\ l3 = ProtocolLine(r) /\ l4 = Extra(r.after)
  OBVIOUS
<1>a. PICK s1 : s1 = s0 \o l1
  OBVIOUS
<1>b. PICK s2 : s2 = s1 \o l2
  OBVIOUS
<1>c. PICK s3 : s3 = s2 \o l3
  OBVIOUS
<1>d. PICK s4 : s4 = s3 \o l4
  OBVIOUS
<1>t. t = s4 \o <<NewLine>>
  BY <1>1, <1>a, <1>b, <1>c, <1>d DEF Text, FirstLine, KeyLine, ProtocolLine
<1> DEFINE b == Len(s1)
           c == Len(s2)
           d == Len(s3)
           e == Len(s4)
           n == Len(r.protocols)
<1>2. /\ r.type \in {"GET", "POST"} /\ r.before \in {"nothing", "empty", "long"}
      /\ r.after \in {"nothing", "empty"} /\ r.protocols \in Seq(Protocols)
      /\ r.hasKey \in BOOLEAN
  BY RequestFields
<1>3. /\ s0 \in Seq(Tokens) /\ Len(s0) = 6 /\ s0[1] = r.type /\ s0[2] = Space
      /\ s0[3] = "/chat" /\ s0[4] = Space
      /\ \A j \in 1 .. 6 : (s0[j] = NewLine <=> j = 6) /\ s0[j] # Colon
  <2>1. PICK a \in Tokens, chat \in Tokens, http \in Tokens :
          a = r.type /\ chat = "/chat" /\ http = "HTTP/1.1"
    BY <1>2, Literals
  <2>2. a \in Words /\ chat \in Words /\ http \in Words
    BY <1>2, <2>1, Literals
  <2>3. /\ a # NewLine /\ chat # NewLine /\ http # NewLine
        /\ a # Colon /\ chat # Colon /\ http # Colon
    BY <2>2 DEF Words
  <2>4. Space \in Tokens /\ NewLine \in Tokens
    BY DEF Tokens
  <2>5. s0 = <<a, Space, chat, Space, http, NewLine>>
    BY <1>1, <2>1 DEF FirstLine
  <2>6. s0 \in Seq(Tokens) /\ Len(s0) = 6
    BY <2>4, <2>5
  <2>7. s0[1] = a /\ s0[2] = Space /\ s0[3] = chat /\ s0[4] = Space /\ s0[5] = http /\ s0[6] = NewLine
    BY <2>5
  <2>8. \A j \in 1 .. 6 : (s0[j] = NewLine <=> j = 6) /\ s0[j] # Colon
    BY <2>3, <2>7, Literals
  <2> QED
    BY <2>1, <2>6, <2>7, <2>8
<1>4. /\ IsLine(l1)
      /\ r.before = "nothing" => l1 = <<>> /\ Len(l1) = 0
      /\ r.before = "empty" => Len(l1) = 3
      /\ r.before = "long" => Len(l1) = 12 /\ l1[1] = "Cookie" /\ l1[3] = Space /\ l1[4] = "c"
  BY <1>1, <1>2, ExtraIs
<1>5. /\ IsLine(l2)
      /\ ~r.hasKey => Len(l2) = 0
      /\ r.hasKey => Len(l2) = 5 /\ l2[1] = "Sec-WebSocket-Key" /\ l2[3] = Space /\ l2[4] = "key"
  BY <1>1, KeyLineIs
<1>6. /\ IsLine(l3)
      /\ r.protocols = <<>> => Len(l3) = 0
      /\ r.protocols # <<>> =>
             /\ n \in Nat /\ n >= 1 /\ Len(l3) = 3 * n + 2
             /\ l3[1] = "Sec-WebSocket-Protocol" /\ l3[3] = Space
             /\ \A k \in 1 .. 3 * n - 2 : l3[k + 3] = Listed(r.protocols)[k]
  BY <1>1, ProtocolLineIs
<1>7. /\ IsLine(l4)
      /\ r.after = "nothing" => Len(l4) = 0
      /\ r.after = "empty" => Len(l4) = 3
  BY <1>1, <1>2, ExtraIs
<1> HIDE DEF n
<1>8. /\ s1 \in Seq(Tokens) /\ Len(l1) \in Nat /\ b = 6 + Len(l1)
      /\ \A j \in 1 .. 6 : s1[j] = s0[j]
      /\ \A k \in 1 .. Len(l1) : s1[6 + k] = l1[k]
      /\ l1 # <<>> => Len(l1) >= 3
      /\ \A j \in 6 + 1 .. b : (s1[j] = NewLine <=> j = b) /\ (s1[j] = Colon <=> j = 6 + 2)
  <2>1. IsLine(l1) /\ s0 \in Seq(Tokens) /\ Len(s0) = 6
    BY <1>3, <1>4
  <2>2. Lengthened(s0, l1, s1)
    BY <1>a, <2>1, OneMore
  <2> QED
    BY <2>1, <2>2 DEF Lengthened
<1>9. /\ s2 \in Seq(Tokens) /\ b \in Nat /\ Len(l2) \in Nat /\ c = b + Len(l2)
      /\ \A j \in 1 .. b : s2[j] = s1[j]
      /\ \A k \in 1 .. Len(l2) : s2[b + k] = l2[k]
      /\ l2 # <<>> => Len(l2) >= 3
      /\ \A j \in b + 1 .. c : (s2[j] = NewLine <=> j = c) /\ (s2[j] = Colon <=> j = b + 2)
  <2>1. IsLine(l2) /\ s1 \in Seq(Tokens)
    BY <1>5, <1>8
  <2>2. Lengthened(s1, l2, s2)
    BY <1>b, <2>1, OneMore
  <2> QED
    BY <2>2 DEF Lengthened
<1>10. /\ s3 \in Seq(Tokens) /\ c \in Nat /\ Len(l3) \in Nat /\ d = c + Len(l3)
       /\ \A j \in 1 .. c : s3[j] = s2[j]
       /\ \A k \in 1 .. Len(l3) : s3[c + k] = l3[k]
       /\ l3 # <<>> => Len(l3) >= 3
       /\ \A j \in c + 1 .. d : (s3[j] = NewLine <=> j = d) /\ (s3[j] = Colon <=> j = c + 2)
  <2>1. IsLine(l3) /\ s2 \in Seq(Tokens)
    BY <1>6, <1>9
  <2>2. Lengthened(s2, l3, s3)
    BY <1>c, <2>1, OneMore
  <2> QED
    BY <2>2 DEF Lengthened
<1>11. /\ s4 \in Seq(Tokens) /\ d \in Nat /\ Len(l4) \in Nat /\ e = d + Len(l4)
       /\ \A j \in 1 .. d : s4[j] = s3[j]
       /\ l4 # <<>> => Len(l4) >= 3
       /\ \A j \in d + 1 .. e : (s4[j] = NewLine <=> j = e) /\ (s4[j] = Colon <=> j = d + 2)
  <2>1. IsLine(l4) /\ s3 \in Seq(Tokens)
    BY <1>7, <1>10
  <2>2. Lengthened(s3, l4, s4)
    BY <1>d, <2>1, OneMore
  <2> QED
    BY <2>2 DEF Lengthened
<1>12. /\ t \in Seq(Tokens) /\ e \in Nat /\ Len(t) = e + 1
       /\ \A j \in 1 .. e : t[j] = s4[j]
       /\ t[e + 1] = NewLine
  <2>1. <<NewLine>> \in Seq(Tokens) /\ Len(<<NewLine>>) = 1 /\ <<NewLine>>[1] = NewLine
    <3>1. NewLine \in Tokens
      BY DEF Tokens
    <3> QED
      BY <3>1
  <2>2. /\ t \in Seq(Tokens) /\ Len(s4) \in Nat /\ Len(t) = Len(s4) + Len(<<NewLine>>)
        /\ \A j \in 1 .. Len(s4) : t[j] = s4[j]
        /\ \A k \in 1 .. Len(<<NewLine>>) : t[Len(s4) + k] = <<NewLine>>[k]
    <3>1. s4 \in Seq(Tokens) /\ <<NewLine>> \in Seq(Tokens)
      BY <1>11, <2>1
    <3> QED
      BY <1>t, <3>1, Behind
  <2>3. t[e + 1] = NewLine
    BY <2>1, <2>2
  <2> QED
    BY <2>1, <2>2, <2>3
<1> HIDE DEF b, c, d, e
<1>13. /\ b \in Nat /\ c \in Nat /\ d \in Nat /\ e \in Nat
       /\ b = 6 \/ b >= 9
       /\ c = b \/ c >= b + 3
       /\ d = c \/ d >= c + 3
       /\ e = d \/ e >= d + 3
  <2>1. Len(<<>>) = 0
    OBVIOUS
  <2>2. l1 = <<>> => Len(l1) = 0
    BY <2>1
  <2>3. l2 = <<>> => Len(l2) = 0
    BY <2>1
  <2>4. l3 = <<>> => Len(l3) = 0
    BY <2>1
  <2>5. l4 = <<>> => Len(l4) = 0
    BY <2>1
  <2>6. b \in Nat /\ c \in Nat /\ d \in Nat /\ e \in Nat
    BY <1>8, <1>9, <1>10, <1>11, <1>12
  <2>7. b = 6 \/ b >= 9
    BY <1>8, <2>2, <2>6
  <2>8. c = b \/ c >= b + 3
    BY <1>9, <2>3, <2>6
  <2>9. d = c \/ d >= c + 3
    BY <1>10, <2>4, <2>6
  <2>10. e = d \/ e >= d + 3
    BY <1>11, <2>5, <2>6
  <2> QED
    BY <2>6, <2>7, <2>8, <2>9, <2>10
<1>14. \A j \in 1 .. d : t[j] = s3[j]
  BY <1>11, <1>12, <1>13
<1>15. \A j \in 1 .. c : t[j] = s2[j]
  BY <1>10, <1>13, <1>14
<1>16. \A j \in 1 .. b : t[j] = s1[j]
  BY <1>9, <1>13, <1>15
<1>17. \A j \in 1 .. 6 : t[j] = s0[j]
  <2>1. \A j \in 1 .. 6 : j \in 1 .. b
    BY <1>13
  <2>2. \A j \in 1 .. 6 : s1[j] = s0[j]
    BY <1>8
  <2> QED
    BY <1>16, <2>1, <2>2
<1>18. ASSUME NEW j \in 1 .. e + 1
       PROVE  /\ t[j] = NewLine <=> j \in {6, b, c, d, e, e + 1}
              /\ t[j] = Colon <=> \/ j = 8 /\ b > 6
                                  \/ j = b + 2 /\ c > b
                                  \/ j = c + 2 /\ d > c
                                  \/ j = d + 2 /\ e > d
  <2>1. CASE j \in 1 .. 6
    <3>1. (t[j] = NewLine <=> j = 6) /\ t[j] # Colon
      BY <1>3, <1>17, <2>1
    <3> QED
      BY <1>13, <2>1, <3>1
  <2>2. CASE j \in 7 .. b
    <3>1. (t[j] = NewLine <=> j = b) /\ (t[j] = Colon <=> j = 8)
      BY <1>8, <1>13, <1>16, <2>2
    <3> QED
      BY <1>13, <2>2, <3>1
  <2>3. CASE j \in b + 1 .. c
    <3>1. (t[j] = NewLine <=> j = c) /\ (t[j] = Colon <=> j = b + 2)
      BY <1>9, <1>13, <1>15, <2>3
    <3> QED
      BY <1>13, <2>3, <3>1
  <2>4. CASE j \in c + 1 .. d
    <3>1. (t[j] = NewLine <=> j = d) /\ (t[j] = Colon <=> j = c + 2)
      BY <1>10, <1>13, <1>14, <2>4
    <3> QED
      BY <1>13, <2>4, <3>1
  <2>5. CASE j \in d + 1 .. e
    <3>1. (t[j] = NewLine <=> j = e) /\ (t[j] = Colon <=> j = d + 2)
      BY <1>11, <1>12, <1>13, <2>5
    <3> QED
      BY <1>13, <2>5, <3>1
  <2>6. CASE j = e + 1
    <3>1. t[j] = NewLine /\ t[j] # Colon
      BY <1>12, <2>6, Literals
    <3> QED
      BY <1>13, <2>6, <3>1
  <2> QED
    BY <1>13, <2>1, <2>2, <2>3, <2>4, <2>5, <2>6
<1>19. LinesEnd(t, b, c, d, e)
  <2> HIDE DEF b, c, d, e
  <2>1. {b, c, d, e} \subseteq Nat
    BY <1>13
  <2>2. \A j \in 1 .. e + 1 : t[j] = NewLine <=> j \in {6, b, c, d, e, e + 1}
    BY <1>18
  <2>3. \A j \in 1 .. e + 1 :
           t[j] = Colon <=> \/ j = 8 /\ b > 6
                            \/ j = b + 2 /\ c > b
                            \/ j = c + 2 /\ d > c
                            \/ j = d + 2 /\ e > d
    <3> TAKE j \in 1 .. e + 1
    <3> QED
      BY <1>18
  <2> QED
    BY <1>12, <1>13, <2>1, <2>2, <2>3 DEF LinesEnd
<1>20. FirstIs(t, r)
  BY <1>3, <1>17 DEF FirstIs
<1>21. BeforeIs(t, r, b)
  <2>1. CASE r.before = "long"
    <3>1. Len(l1) = 12 /\ l1[1] = "Cookie" /\ l1[3] = Space /\ l1[4] = "c"
      BY <1>4, <2>1
    <3>2. 1 \in 1 .. Len(l1) /\ 3 \in 1 .. Len(l1) /\ 4 \in 1 .. Len(l1) /\ b = 18
      BY <1>8, <3>1
    <3>3. s1[6 + 1] = l1[1] /\ s1[6 + 3] = l1[3] /\ s1[6 + 4] = l1[4]
      BY <1>8, <3>2
    <3>4. t[7] = l1[1] /\ t[9] = l1[3] /\ t[10] = l1[4]
      BY <1>16, <3>2, <3>3
    <3> QED
      BY <2>1, <3>1, <3>2, <3>4 DEF BeforeIs
  <2> QED
    BY <1>4, <1>8, <2>1 DEF BeforeIs
<1>22. KeyIs(t, r, b, c)
  <2>1. CASE r.hasKey
    <3>1. Len(l2) = 5 /\ l2[1] = "Sec-WebSocket-Key" /\ l2[3] = Space /\ l2[4] = "key"
      BY <1>5, <2>1
    <3>2. 1 \in 1 .. Len(l2) /\ 3 \in 1 .. Len(l2) /\ 4 \in 1 .. Len(l2) /\ c = b + 5
      BY <1>9, <3>1
    <3>3. s2[b + 1] = l2[1] /\ s2[b + 3] = l2[3] /\ s2[b + 4] = l2[4]
      BY <1>9, <3>2
    <3>4. b + 1 \in 1 .. c /\ b + 3 \in 1 .. c /\ b + 4 \in 1 .. c
      BY <1>13, <3>2
    <3>5. t[b + 1] = l2[1] /\ t[b + 3] = l2[3] /\ t[b + 4] = l2[4]
      BY <1>15, <3>3, <3>4
    <3> QED
      BY <2>1, <3>1, <3>2, <3>5 DEF KeyIs
  <2> QED
    BY <1>5, <1>9, <1>13, <2>1 DEF KeyIs
<1>23. ProtocolsAre(t, r, c, d)
  <2>1. CASE r.protocols # <<>>
    <3>1. /\ n \in Nat /\ n >= 1 /\ Len(l3) = 3 * n + 2
          /\ l3[1] = "Sec-WebSocket-Protocol" /\ l3[3] = Space
          /\ \A k \in 1 .. 3 * n - 2 : l3[k + 3] = Listed(r.protocols)[k]
      BY <1>6, <2>1
    <3>2. d = c + 3 * n + 2
      BY <1>10, <1>13, <3>1
    <3>3. \A k \in 1 .. 3 * n + 2 : t[c + k] = l3[k]
      <4> SUFFICES ASSUME NEW k \in 1 .. 3 * n + 2 PROVE t[c + k] = l3[k]
        OBVIOUS
      <4>1. c + k \in 1 .. d /\ k \in 1 .. Len(l3)
        BY <1>13, <3>1, <3>2
      <4> QED
        BY <1>10, <1>14, <4>1
    <3>4. t[c + 1] = l3[1] /\ t[c + 3] = l3[3]
      <4>1. 1 \in 1 .. 3 * n + 2 /\ 3 \in 1 .. 3 * n + 2
        BY <3>1
      <4> QED
        BY <3>3, <4>1
    <3>5. ASSUME NEW k \in 1 .. 3 * n - 2 PROVE t[c + 3 + k] = Listed(r.protocols)[k]
      <4>1. k + 3 \in 1 .. 3 * n + 2 /\ c + (k + 3) = c + 3 + k
        BY <1>13, <3>1
      <4>2. t[c + (k + 3)] = l3[k + 3]
        BY <3>3, <4>1
      <4> QED
        BY <3>1, <4>1, <4>2
    <3> QED
      BY <2>1, <3>1, <3>2, <3>4, <3>5 DEF ProtocolsAre, n
  <2>2. CASE r.protocols = <<>>
    BY <1>6, <1>10, <1>13, <2>2 DEF ProtocolsAre
  <2> QED
    BY <2>1, <2>2
<1>24. AfterIs(r, d, e)
  <2>1. r.after = "nothing" => e = d
    BY <1>7, <1>11, <1>13
  <2>2. r.after = "empty" => e = d + 3
    BY <1>7, <1>11, <1>13
  <2> QED
    BY <2>1, <2>2 DEF AfterIs
<1> QED
  BY <1>13, <1>19, <1>20, <1>21, <1>22, <1>23, <1>24

-----------------------------------------------------------------------------
(* What the parser looks for                                               *)

\* The least of some numbers.
LEMMA MinIs ==
    ASSUME NEW T, T \subseteq Nat, NEW x \in T, \A y \in T : x <= y
    PROVE  Min(T) = x
<1> DEFINE m == CHOOSE z \in T : \A y \in T : z <= y
<1>1. m \in T /\ \A y \in T : m <= y
  OBVIOUS
<1>2. Min(T) = m
  BY DEF Min
<1> HIDE DEF m
<1>3. m <= x /\ x <= m /\ m \in Nat /\ x \in Nat
  BY <1>1
<1> QED
  BY <1>2, <1>3

\* The greatest of some numbers.
LEMMA MaxIs ==
    ASSUME NEW T, T \subseteq Nat, NEW x \in T, \A y \in T : x >= y
    PROVE  Max(T) = x
<1> DEFINE m == CHOOSE z \in T : \A y \in T : z >= y
<1>1. m \in T /\ \A y \in T : m >= y
  OBVIOUS
<1>2. Max(T) = m
  BY DEF Max
<1> HIDE DEF m
<1>3. m <= x /\ x <= m /\ m \in Nat /\ x \in Nat
  BY <1>1
<1> QED
  BY <1>2, <1>3

\* A line ends at the first end of a line.
LEMMA LineEndIs ==
    ASSUME NEW t \in Seq(Tokens), NEW j \in Nat, NEW x \in 1 .. Len(t), t[x] = NewLine, j <= x,
           \A k \in 1 .. Len(t) : j <= k /\ k < x => t[k] # NewLine
    PROVE  LineEnd(t, j) = x
<1> DEFINE T == {k \in TokenPlaces(t, NewLine) : k >= j}
<1>1. DOMAIN t = 1 .. Len(t) /\ Len(t) \in Nat
  BY LenProperties
<1>2. \A k \in T : k \in 1 .. Len(t) /\ t[k] = NewLine /\ k >= j
  BY <1>1 DEF TokenPlaces
<1>3. x \in T
  BY <1>1 DEF TokenPlaces
<1>4. LineEnd(t, j) = Min(T)
  BY DEF LineEnd
<1> HIDE DEF T
<1>5. \A y \in T : x <= y
  <2> SUFFICES ASSUME NEW y \in T, ~(x <= y) PROVE FALSE
    OBVIOUS
  <2>1. y \in 1 .. Len(t) /\ t[y] = NewLine /\ y >= j
    BY <1>2
  <2>2. j <= y /\ y < x
    BY <1>1, <2>1
  <2> QED
    BY <2>1, <2>2
<1>6. T \subseteq Nat
  BY <1>1, <1>2
<1> QED
  BY <1>3, <1>4, <1>5, <1>6, MinIs

\* A value begins behind the spaces, and ends where the line does.
LEMMA ValueIs ==
    ASSUME NEW t \in Seq(Tokens), NEW j \in Nat, NEW x \in Nat, NEW y \in Nat, LineEnd(t, j) = y,
           j < x, x <= y, t[x] # Space, \A k \in j + 1 .. x - 1 : t[k] = Space
    PROVE  ValueAt(t, j) = SubSeq(t, x, y - 1)
<1> DEFINE T == {k \in j + 1 .. LineEnd(t, j) : t[k] # Space}
<1>1. ValueAt(t, j) = SubSeq(t, Min(T), LineEnd(t, j) - 1)
  BY DEF ValueAt
<1>2. x \in T
  OBVIOUS
<1>3. \A k \in T : k \in j + 1 .. y /\ t[k] # Space
  OBVIOUS
<1> HIDE DEF T
<1>4. \A k \in T : x <= k
  <2> SUFFICES ASSUME NEW k \in T, ~(x <= k) PROVE FALSE
    OBVIOUS
  <2>1. k \in j + 1 .. y /\ t[k] # Space
    BY <1>3
  <2>2. k \in j + 1 .. x - 1
    BY <2>1
  <2> QED
    BY <2>1, <2>2
<1>5. T \subseteq Nat
  BY <1>3
<1>6. Min(T) = x
  BY <1>2, <1>4, <1>5, MinIs
<1> QED
  BY <1>1, <1>6

\* A part of a text.
LEMMA PartIs ==
    ASSUME NEW t \in Seq(Tokens), NEW x \in Nat, NEW y \in Nat, 1 <= x, y <= Len(t)
    PROVE  LET p == SubSeq(t, x, y)
           IN  /\ p \in Seq(Tokens)
               /\ Len(p) = IF x <= y THEN y - x + 1 ELSE 0
               /\ \A i \in 1 .. y - x + 1 : p[i] = t[x + i - 1]
               /\ x <= y => p # <<>>
<1>1. Len(t) \in Nat /\ \A i \in 1 .. Len(t) : t[i] \in Tokens
  BY LenProperties, ElementOfSeq
<1>2. \A i \in x .. y : t[i] \in Tokens
  BY <1>1
<1>3. x \in Int /\ y \in Int
  OBVIOUS
<1>4. /\ SubSeq(t, x, y) \in Seq(Tokens)
      /\ Len(SubSeq(t, x, y)) = IF x <= y THEN y - x + 1 ELSE 0
      /\ \A i \in 1 .. y - x + 1 : SubSeq(t, x, y)[i] = t[x + i - 1]
  BY <1>2, <1>3, SubSeqProperties
<1>5. x <= y => SubSeq(t, x, y) # <<>>
  <2>1. Len(<<>>) = 0
    OBVIOUS
  <2>2. x <= y => y - x + 1 # 0
    OBVIOUS
  <2> QED
    BY <1>4, <2>1, <2>2
<1> QED
  BY <1>4, <1>5

\* What is kept of two tokens of which the first is left out.
LEMMA SecondIsKept ==
    ASSUME NEW t, Len(t) = 2, NEW X, t[1] \in X, t[2] \notin X
    PROVE  Without(t, X) = <<t[2]>>
<1> DEFINE Kept(f, k) ==
               IF k = 0 THEN <<>>
               ELSE IF t[k] \in X THEN f[k - 1] ELSE Append(f[k - 1], t[k])
           f == CHOOSE g : g = [k \in 0 .. Len(t) |-> Kept(g, k)]
           h == [k \in 0 .. 2 |-> IF k = 2 THEN <<t[2]>> ELSE <<>>]
<1>1. Without(t, X) = f[2]
  BY DEF Without
<1>2. h = [k \in 0 .. Len(t) |-> Kept(h, k)]
  <2>1. h[0] = <<>> /\ h[1] = <<>> /\ h[2] = <<t[2]>>
    OBVIOUS
  <2>2. h = [k \in 0 .. 2 |-> h[k]]
    OBVIOUS
  <2>3. Append(<<>>, t[2]) = <<t[2]>>
    OBVIOUS
  <2> HIDE DEF h
  <2>4. Kept(h, 0) = <<>> /\ Kept(h, 1) = <<>> /\ Kept(h, 2) = <<t[2]>>
    <3>1. Kept(h, 0) = <<>>
      OBVIOUS
    <3>2. Kept(h, 1) = h[0]
      OBVIOUS
    <3>3. Kept(h, 2) = Append(h[1], t[2])
      OBVIOUS
    <3> QED
      BY <2>1, <2>3, <3>1, <3>2, <3>3
  <2> HIDE DEF Kept
  <2>5. \A k \in 0 .. 2 : h[k] = Kept(h, k)
    BY <2>1, <2>4
  <2> QED
    BY <2>2, <2>5
<1>3. f = [k \in 0 .. Len(t) |-> Kept(f, k)]
  BY <1>2
<1> HIDE DEF f, h
<1>4. f[0] = Kept(f, 0) /\ f[1] = Kept(f, 1) /\ f[2] = Kept(f, 2)
  <2> HIDE DEF Kept
  <2> QED
    BY <1>3
<1>5. f[0] = <<>> /\ f[1] = <<>>
  BY <1>4
<1>6. f[2] = <<t[2]>>
  <2>1. f[2] = Append(f[1], t[2])
    BY <1>4
  <2>2. Append(<<>>, t[2]) = <<t[2]>>
    OBVIOUS
  <2> QED
    BY <1>5, <2>1, <2>2
<1> QED
  BY <1>1, <1>6

\* What is kept of one token.
LEMMA OneIsKept ==
    ASSUME NEW t, Len(t) = 1, NEW X, t[1] \notin X
    PROVE  Without(t, X) = <<t[1]>>
<1> DEFINE Kept(f, k) ==
               IF k = 0 THEN <<>>
               ELSE IF t[k] \in X THEN f[k - 1] ELSE Append(f[k - 1], t[k])
           f == CHOOSE g : g = [k \in 0 .. Len(t) |-> Kept(g, k)]
           h == [k \in 0 .. 1 |-> IF k = 1 THEN <<t[1]>> ELSE <<>>]
<1>1. Without(t, X) = f[1]
  BY DEF Without
<1>2. h = [k \in 0 .. Len(t) |-> Kept(h, k)]
  <2>1. h[0] = <<>> /\ h[1] = <<t[1]>>
    OBVIOUS
  <2>2. h = [k \in 0 .. 1 |-> h[k]]
    OBVIOUS
  <2>3. Append(<<>>, t[1]) = <<t[1]>>
    OBVIOUS
  <2> HIDE DEF h
  <2>4. Kept(h, 0) = <<>> /\ Kept(h, 1) = <<t[1]>>
    <3>1. Kept(h, 0) = <<>>
      OBVIOUS
    <3>2. Kept(h, 1) = Append(h[0], t[1])
      OBVIOUS
    <3> QED
      BY <2>1, <2>3, <3>1, <3>2
  <2> HIDE DEF Kept
  <2>5. \A k \in 0 .. 1 : h[k] = Kept(h, k)
    BY <2>1, <2>4
  <2> QED
    BY <2>2, <2>5
<1>3. f = [k \in 0 .. Len(t) |-> Kept(f, k)]
  BY <1>2
<1> HIDE DEF f, h
<1>4. f[0] = Kept(f, 0) /\ f[1] = Kept(f, 1)
  <2> HIDE DEF Kept
  <2> QED
    BY <1>3
<1>5. f[0] = <<>>
  BY <1>4
<1>6. f[1] = <<t[1]>>
  <2>1. f[1] = Append(f[0], t[1])
    <3>1. Kept(f, 1) = Append(f[0], t[1])
      OBVIOUS
    <3> QED
      BY <1>4, <3>1
  <2>2. Append(<<>>, t[1]) = <<t[1]>>
    OBVIOUS
  <2> QED
    BY <1>5, <2>1, <2>2
<1> QED
  BY <1>1, <1>6

-----------------------------------------------------------------------------
(* Where the lines, the values and the names of a request stand            *)

\* The only blank line of a request is its last.
LEMMA EndsOnce ==
    ASSUME NEW t, NEW b \in Nat, NEW c \in Nat, NEW d \in Nat, NEW e \in Nat,
           LinesEnd(t, b, c, d, e)
    PROVE  /\ HeaderEnds(t) = {e + 1}
           /\ \A m \in 0 .. e : HeaderEnds(SubSeq(t, 1, m)) = {}
<1>1. /\ t \in Seq(Tokens) /\ Len(t) = e + 1
      /\ b = 6 \/ b >= 9
      /\ c = b \/ c >= b + 3
      /\ d = c \/ d >= c + 3
      /\ e = d \/ e >= d + 3
      /\ \A j \in 1 .. e + 1 : t[j] = NewLine <=> j \in {6, b, c, d, e, e + 1}
  BY DEF LinesEnd
<1>2. DOMAIN t = 1 .. e + 1
  BY <1>1, LenProperties
<1>3. \A j \in 1 .. e : ~(j > 1 /\ t[j] = NewLine /\ t[j - 1] = NewLine)
  <2> SUFFICES ASSUME NEW j \in 1 .. e, j > 1, t[j] = NewLine, t[j - 1] = NewLine
               PROVE  FALSE
    OBVIOUS
  <2>1. j \in 1 .. e + 1 /\ j - 1 \in 1 .. e + 1
    OBVIOUS
  <2>2. j \in {6, b, c, d, e, e + 1} /\ j - 1 \in {6, b, c, d, e, e + 1}
    BY <1>1, <2>1
  <2> QED
    BY <1>1, <2>2
<1>4. HeaderEnds(t) = {e + 1}
  <2>1. t[e + 1] = NewLine /\ t[e] = NewLine /\ e >= 6
    <3>1. e >= 6
      BY <1>1
    <3>2. e + 1 \in 1 .. e + 1 /\ e \in 1 .. e + 1
      BY <3>1
    <3> QED
      BY <1>1, <3>1, <3>2
  <2>2. e + 1 \in HeaderEnds(t)
    <3>1. e + 1 - 1 = e /\ e + 1 > 1 /\ e + 1 \in 1 .. e + 1
      BY <2>1
    <3> QED
      BY <1>2, <2>1, <3>1 DEF HeaderEnds
  <2>3. \A j \in HeaderEnds(t) : j \in 1 .. e + 1 /\ j > 1 /\ t[j] = NewLine /\ t[j - 1] = NewLine
    BY <1>2 DEF HeaderEnds
  <2>4. \A j \in HeaderEnds(t) : j = e + 1
    <3> SUFFICES ASSUME NEW j \in HeaderEnds(t) PROVE j = e + 1
      OBVIOUS
    <3>1. j \in 1 .. e + 1 /\ j > 1 /\ t[j] = NewLine /\ t[j - 1] = NewLine
      BY <2>3
    <3>2. ~(j \in 1 .. e)
      BY <1>3, <3>1
    <3> QED
      BY <3>1, <3>2
  <2> QED
    BY <2>2, <2>4
<1>5. ASSUME NEW m \in 0 .. e
      PROVE  HeaderEnds(SubSeq(t, 1, m)) = {}
  <2>1. PICK p : p = SubSeq(t, 1, m)
    OBVIOUS
  <2>2. p \in Seq(Tokens) /\ Len(p) = m /\ \A i \in 1 .. m : p[i] = t[i]
    <3>1. m \in Nat /\ 1 \in Nat /\ 1 <= 1 /\ m <= Len(t)
      BY <1>1
    <3>2. /\ SubSeq(t, 1, m) \in Seq(Tokens)
          /\ Len(SubSeq(t, 1, m)) = IF 1 <= m THEN m - 1 + 1 ELSE 0
          /\ \A i \in 1 .. m - 1 + 1 : SubSeq(t, 1, m)[i] = t[1 + i - 1]
      BY <1>1, <3>1, PartIs
    <3>3. m - 1 + 1 = m /\ (~(1 <= m) => m = 0) /\ \A i \in 1 .. m : 1 + i - 1 = i
      BY <3>1
    <3> QED
      BY <2>1, <3>2, <3>3
  <2>3. DOMAIN p = 1 .. m
    BY <2>2, LenProperties
  <2>4. ASSUME NEW j \in HeaderEnds(p) PROVE FALSE
    <3>1. j \in 1 .. m /\ j > 1 /\ p[j] = NewLine /\ p[j - 1] = NewLine
      BY <2>3 DEF HeaderEnds
    <3>2. j - 1 \in 1 .. m /\ j \in 1 .. e
      BY <3>1
    <3>3. t[j] = NewLine /\ t[j - 1] = NewLine
      BY <2>2, <3>1, <3>2
    <3> QED
      BY <1>3, <3>1, <3>2, <3>3
  <2> QED
    BY <2>1, <2>4
<1> QED
  BY <1>4, <1>5

\* Every line ends at the end of its header.
HeadersEnd(t, b, c, d, e) ==
    /\ LineEnd(t, 1) = 6
    /\ b > 6 => LineEnd(t, 8) = b
    /\ c > b => LineEnd(t, b + 2) = c
    /\ d > c => LineEnd(t, c + 2) = d
    /\ e > d => LineEnd(t, d + 2) = e

\* Where the lines end that hold the colons.
LEMMA LinesAre ==
    ASSUME NEW t, NEW b \in Nat, NEW c \in Nat, NEW d \in Nat, NEW e \in Nat,
           LinesEnd(t, b, c, d, e)
    PROVE  HeadersEnd(t, b, c, d, e)
<1>1. /\ t \in Seq(Tokens) /\ Len(t) = e + 1
      /\ b = 6 \/ b >= 9
      /\ c = b \/ c >= b + 3
      /\ d = c \/ d >= c + 3
      /\ e = d \/ e >= d + 3
      /\ \A j \in 1 .. e + 1 : t[j] = NewLine <=> j \in {6, b, c, d, e, e + 1}
  BY DEF LinesEnd
<1>2. ASSUME NEW j \in Nat, NEW x \in {6, b, c, d, e}, j <= x,
             \A y \in {6, b, c, d, e} : y < x => y < j
      PROVE  LineEnd(t, j) = x
  <2>1. x \in 1 .. Len(t) /\ x \in 1 .. e + 1 /\ e + 1 > x
    BY <1>1
  <2>2. t[x] = NewLine
    BY <1>1, <2>1
  <2>3. \A k \in 1 .. Len(t) : j <= k /\ k < x => t[k] # NewLine
    <3> SUFFICES ASSUME NEW k \in 1 .. Len(t), j <= k, k < x, t[k] = NewLine PROVE FALSE
      OBVIOUS
    <3>1. k \in {6, b, c, d, e, e + 1}
      BY <1>1
    <3>2. k # e + 1
      BY <2>1
    <3>3. k < j
      BY <1>2, <3>1, <3>2
    <3> QED
      BY <3>3, <1>1
  <2> QED
    BY <1>1, <1>2, <2>1, <2>2, <2>3, LineEndIs
<1>3. LineEnd(t, 1) = 6
  <2>1. 6 \in {6, b, c, d, e} /\ 1 \in Nat /\ 1 <= 6
    OBVIOUS
  <2>2. \A y \in {6, b, c, d, e} : y < 6 => y < 1
    BY <1>1
  <2> QED
    BY <1>2, <2>1, <2>2
<1>4. ASSUME b > 6 PROVE LineEnd(t, 8) = b
  <2>1. b \in {6, b, c, d, e} /\ 8 \in Nat /\ 8 <= b
    BY <1>1, <1>4
  <2>2. \A y \in {6, b, c, d, e} : y < b => y < 8
    BY <1>1
  <2> QED
    BY <1>2, <2>1, <2>2
<1>5. ASSUME c > b PROVE LineEnd(t, b + 2) = c
  <2>1. c \in {6, b, c, d, e} /\ b + 2 \in Nat /\ b + 2 <= c
    BY <1>1, <1>5
  <2>2. \A y \in {6, b, c, d, e} : y < c => y < b + 2
    BY <1>1
  <2> QED
    BY <1>2, <2>1, <2>2
<1>6. ASSUME d > c PROVE LineEnd(t, c + 2) = d
  <2>1. d \in {6, b, c, d, e} /\ c + 2 \in Nat /\ c + 2 <= d
    BY <1>1, <1>6
  <2>2. \A y \in {6, b, c, d, e} : y < d => y < c + 2
    BY <1>1
  <2> QED
    BY <1>2, <2>1, <2>2
<1>7. ASSUME e > d PROVE LineEnd(t, d + 2) = e
  <2>1. e \in {6, b, c, d, e} /\ d + 2 \in Nat /\ d + 2 <= e
    BY <1>1, <1>7
  <2>2. \A y \in {6, b, c, d, e} : y < e => y < d + 2
    BY <1>1
  <2> QED
    BY <1>2, <2>1, <2>2
<1> QED
  BY <1>3, <1>4, <1>5, <1>6, <1>7 DEF HeadersEnd

\* A value behind one space.
LEMMA ValueBehindSpace ==
    ASSUME NEW t \in Seq(Tokens), NEW j \in Nat, NEW x \in Nat, NEW y \in Nat, x = j + 2,
           LineEnd(t, j) = y, t[x - 1] = Space, t[x] # Space, x < y, y <= Len(t)
    PROVE  ValueAt(t, j) = SubSeq(t, x, y - 1) /\ ValueAt(t, j) # <<>>
<1>1. j < x /\ x <= y /\ \A k \in j + 1 .. x - 1 : k = x - 1
  OBVIOUS
<1>2. \A k \in j + 1 .. x - 1 : t[k] = Space
  BY <1>1
<1>3. ValueAt(t, j) = SubSeq(t, x, y - 1)
  BY <1>1, <1>2, ValueIs
<1>4. PICK z \in Nat : z = y - 1
  OBVIOUS
<1>5. 1 <= x /\ z <= Len(t) /\ x <= z
  <2>1. Len(t) \in Nat
    BY LenProperties
  <2> QED
    BY <1>4, <2>1
<1>6. SubSeq(t, x, z) # <<>>
  BY <1>5, PartIs
<1> QED
  BY <1>3, <1>4, <1>6

\* The values behind the colons.  A request that can be read has none without a value
\* but the last.
LEMMA ValuesAre ==
    ASSUME NEW r \in RequestType, r.before # "empty", NEW t,
           NEW b \in Nat, NEW c \in Nat, NEW d \in Nat, NEW e \in Nat, LinesEnd(t, b, c, d, e),
           BeforeIs(t, r, b), KeyIs(t, r, b, c), ProtocolsAre(t, r, c, d), AfterIs(r, d, e)
    PROVE  /\ b > 6 => ValueAt(t, 8) # <<>>
           /\ c > b => ValueAt(t, b + 2) # <<>>
           /\ d > c => ValueAt(t, c + 2) # <<>> /\ ValueAt(t, c + 2) = Listed(r.protocols)
           /\ e > d => ValueAt(t, d + 2) = <<>>
<1>1. /\ t \in Seq(Tokens) /\ Len(t) = e + 1
      /\ b = 6 \/ b >= 9
      /\ c = b \/ c >= b + 3
      /\ d = c \/ d >= c + 3
      /\ e = d \/ e >= d + 3
      /\ \A j \in 1 .. e + 1 : t[j] = NewLine <=> j \in {6, b, c, d, e, e + 1}
  BY DEF LinesEnd
<1>2. /\ r.before \in {"nothing", "long"} /\ r.hasKey \in BOOLEAN
      /\ r.after \in {"nothing", "empty"} /\ r.protocols \in Seq(Protocols)
  BY RequestFields
<1>7. /\ b > 6 => LineEnd(t, 8) = b
      /\ c > b => LineEnd(t, b + 2) = c
      /\ d > c => LineEnd(t, c + 2) = d
      /\ e > d => LineEnd(t, d + 2) = e
  <2>1. HeadersEnd(t, b, c, d, e)
    BY LinesAre
  <2> QED
    BY <2>1 DEF HeadersEnd
<1>3. ASSUME b > 6 PROVE ValueAt(t, 8) # <<>>
  <2>1. b = 18 /\ t[9] = Space /\ t[10] = "c"
    BY <1>2, <1>3 DEF BeforeIs
  <2>2. "c" # Space
    BY DEF Space
  <2>3. LineEnd(t, 8) = b
    BY <1>3, <1>7
  <2>4. PICK j \in Nat, x \in Nat : j = 8 /\ x = 10
    OBVIOUS
  <2>5. LineEnd(t, j) = b /\ x = j + 2 /\ x - 1 = 9 /\ x < b /\ b <= Len(t)
    BY <1>1, <2>1, <2>3, <2>4
  <2>6. t[x - 1] = Space /\ t[x] # Space
    BY <2>1, <2>2, <2>4, <2>5
  <2>7. ValueAt(t, j) # <<>>
    BY <1>1, <2>5, <2>6, ValueBehindSpace
  <2> QED
    BY <2>4, <2>7
<1>4. ASSUME c > b PROVE ValueAt(t, b + 2) # <<>>
  <2>1. c = b + 5 /\ t[b + 3] = Space /\ t[b + 4] = "key"
    BY <1>2, <1>4 DEF KeyIs
  <2>2. "key" # Space
    BY DEF Space
  <2>3. LineEnd(t, b + 2) = c
    BY <1>4, <1>7
  <2>4. PICK j \in Nat, x \in Nat : j = b + 2 /\ x = b + 4
    OBVIOUS
  <2>5. LineEnd(t, j) = c /\ x = j + 2 /\ x - 1 = b + 3 /\ x < c /\ c <= Len(t)
    BY <1>1, <2>1, <2>3, <2>4
  <2>6. t[x - 1] = Space /\ t[x] # Space
    BY <2>1, <2>2, <2>4, <2>5
  <2>7. ValueAt(t, j) # <<>>
    BY <1>1, <2>5, <2>6, ValueBehindSpace
  <2> QED
    BY <2>4, <2>7
<1>5. ASSUME d > c
      PROVE  ValueAt(t, c + 2) # <<>> /\ ValueAt(t, c + 2) = Listed(r.protocols)
  <2>1. PICK v, n : v = Listed(r.protocols) /\ n = Len(r.protocols)
    OBVIOUS
  <2>2. r.protocols # <<>>
    BY <1>5 DEF ProtocolsAre
  <2>3. /\ n \in Nat /\ n >= 1 /\ d = c + 3 * n + 2 /\ t[c + 3] = Space
        /\ \A k \in 1 .. 3 * n - 2 : t[c + 3 + k] = v[k]
    BY <2>1, <2>2 DEF ProtocolsAre
  <2>4. /\ v \in Seq(Words) /\ Len(v) = 3 * n - 2
        /\ \A m \in 1 .. n : v[3 * m - 2] = r.protocols[m]
    <3>1. PICK ps \in Seq(Protocols) : ps = r.protocols
      BY <1>2
    <3>2. ps # <<>> /\ v = Listed(ps) /\ n = Len(ps)
      BY <2>1, <2>2, <3>1
    <3>3. ListStands(ps, v, n)
      BY <3>2, ListedIs
    <3> QED
      BY <3>1, <3>3 DEF ListStands
  <2>5. t[c + 4] # Space
    <3>1. 1 \in 1 .. n /\ 1 \in 1 .. 3 * n - 2 /\ 3 * 1 - 2 = 1 /\ c + 3 + 1 = c + 4
      BY <2>3
    <3>2. t[c + 3 + 1] = v[1] /\ v[1] = r.protocols[1]
      BY <2>3, <2>4, <3>1
    <3>3. r.protocols[1] \in Protocols
      BY <1>2, <2>1, <3>1, ElementOfSeq
    <3> QED
      BY <3>1, <3>2, <3>3 DEF Protocols
  <2>6. LineEnd(t, c + 2) = d
    BY <1>5, <1>7
  <2>7. PICK j \in Nat, x \in Nat, z \in Nat : j = c + 2 /\ x = c + 4 /\ z = d - 1
    <3>1. c + 2 \in Nat /\ c + 4 \in Nat /\ d - 1 \in Nat
      BY <1>5
    <3> QED
      BY <3>1
  <2>8. PICK p : p = SubSeq(t, x, z)
    OBVIOUS
  <2>a. ValueAt(t, j) = p /\ p # <<>>
    <3>1. LineEnd(t, j) = d /\ x = j + 2 /\ x - 1 = c + 3 /\ x < d /\ d <= Len(t)
      <4>1. LineEnd(t, j) = d
        BY <2>6, <2>7
      <4>2. d >= c + 5
        BY <2>3
      <4> QED
        BY <1>1, <2>7, <4>1, <4>2
    <3>2. t[x - 1] = Space /\ t[x] # Space
      BY <2>3, <2>5, <2>7, <3>1
    <3>3. ValueAt(t, j) = SubSeq(t, x, d - 1) /\ ValueAt(t, j) # <<>>
      BY <1>1, <3>1, <3>2, ValueBehindSpace
    <3> QED
      BY <2>7, <2>8, <3>3
  <2>9. /\ p \in Seq(Tokens) /\ Len(p) = 3 * n - 2
        /\ \A i \in 1 .. 3 * n - 2 : p[i] = t[x + i - 1]
    <3>1. 1 <= x /\ z <= Len(t) /\ x <= z /\ z - x + 1 = 3 * n - 2
      BY <1>1, <2>3, <2>7
    <3>2. /\ SubSeq(t, x, z) \in Seq(Tokens)
          /\ Len(SubSeq(t, x, z)) = IF x <= z THEN z - x + 1 ELSE 0
          /\ \A i \in 1 .. z - x + 1 : SubSeq(t, x, z)[i] = t[x + i - 1]
      BY <1>1, <3>1, PartIs
    <3> QED
      BY <2>8, <3>1, <3>2
  <2>10. \A i \in 1 .. 3 * n - 2 : p[i] = v[i]
    <3> SUFFICES ASSUME NEW i \in 1 .. 3 * n - 2 PROVE p[i] = v[i]
      OBVIOUS
    <3>1. x + i - 1 = c + 3 + i
      BY <2>7
    <3>2. p[i] = t[c + 3 + i]
      BY <2>9, <3>1
    <3> QED
      BY <2>3, <3>2
  <2>11. v \in Seq(Tokens)
    BY <2>4 DEF Words
  <2>12. p = v
    BY <2>4, <2>9, <2>10, <2>11, SeqEqual
  <2> QED
    BY <2>1, <2>7, <2>a, <2>12
<1>6. ASSUME e > d PROVE ValueAt(t, d + 2) = <<>>
  <2>1. e = d + 3 /\ LineEnd(t, d + 2) = e
    <3>1. r.after # "nothing"
      BY <1>6 DEF AfterIs
    <3>2. e = d + 3
      BY <1>2, <3>1 DEF AfterIs
    <3> QED
      BY <1>6, <1>7, <3>2
  <2>2. t[d + 3] = NewLine /\ t[d + 3] # Space
    <3>1. d + 3 \in 1 .. e + 1 /\ d + 3 \in {6, b, c, d, e, e + 1}
      BY <2>1
    <3> QED
      BY <1>1, <3>1, Literals
  <2>3. ValueAt(t, d + 2) = SubSeq(t, d + 3, e - 1)
    <3>1. d + 2 \in Nat /\ d + 3 \in Nat /\ d + 2 < d + 3 /\ d + 3 <= e
      BY <2>1
    <3>2. \A k \in d + 2 + 1 .. d + 3 - 1 : t[k] = Space
      OBVIOUS
    <3> QED
      BY <1>1, <2>1, <2>2, <3>1, <3>2, ValueIs
  <2>4. d + 3 \in Int /\ e - 1 \in Int /\ e - 1 < d + 3
    BY <2>1
  <2> QED
    BY <2>3, <2>4, SubSeqEmpty
<1> QED
  BY <1>3, <1>4, <1>5, <1>6

\* All that is known of where the parts of a request stand.
Stands(t, r, b, c, d, e) ==
    /\ LinesEnd(t, b, c, d, e)
    /\ FirstIs(t, r) /\ BeforeIs(t, r, b) /\ KeyIs(t, r, b, c)
    /\ ProtocolsAre(t, r, c, d) /\ AfterIs(r, d, e)

\* Where the colons stand that have a value behind them.
HeaderColons(b, c, d) ==
    {j \in {8} : b > 6} \cup {j \in {b + 2} : c > b} \cup {j \in {c + 2} : d > c}

\* The colons that count are those of the headers with a value.
LEMMA ColonsAre ==
    ASSUME NEW r \in RequestType, r.before # "empty", NEW t,
           NEW b \in Nat, NEW c \in Nat, NEW d \in Nat, NEW e \in Nat, Stands(t, r, b, c, d, e)
    PROVE  Colons(t) = HeaderColons(b, c, d)
<1>1. /\ t \in Seq(Tokens) /\ Len(t) = e + 1
      /\ b = 6 \/ b >= 9
      /\ c = b \/ c >= b + 3
      /\ d = c \/ d >= c + 3
      /\ e = d \/ e >= d + 3
  BY DEF Stands, LinesEnd
<1>2. \A j \in 1 .. e + 1 :
         t[j] = Colon <=> \/ j = 8 /\ b > 6
                          \/ j = b + 2 /\ c > b
                          \/ j = c + 2 /\ d > c
                          \/ j = d + 2 /\ e > d
  BY DEF Stands, LinesEnd
<1>3. DOMAIN t = 1 .. e + 1
  BY <1>1, LenProperties
<1>4. LinesEnd(t, b, c, d, e)
  BY DEF Stands
<1>5. /\ LineEnd(t, 1) = 6
      /\ b > 6 => LineEnd(t, 8) = b
      /\ c > b => LineEnd(t, b + 2) = c
      /\ d > c => LineEnd(t, c + 2) = d
      /\ e > d => LineEnd(t, d + 2) = e
  <2>1. HeadersEnd(t, b, c, d, e)
    BY <1>4, LinesAre
  <2> QED
    BY <2>1 DEF HeadersEnd
<1>6. HeaderEnds(t) = {e + 1}
  BY <1>4, EndsOnce
<1>7. Min(HeaderEnds(t)) = e + 1
  <2>1. {e + 1} \subseteq Nat /\ e + 1 \in {e + 1} /\ \A y \in {e + 1} : e + 1 <= y
    OBVIOUS
  <2> QED
    BY <1>6, <2>1, MinIs
<1>8. /\ b > 6 => ValueAt(t, 8) # <<>>
      /\ c > b => ValueAt(t, b + 2) # <<>>
      /\ d > c => ValueAt(t, c + 2) # <<>>
      /\ e > d => ValueAt(t, d + 2) = <<>>
  BY ValuesAre DEF Stands
<1> DEFINE At(j) == \/ j = 8 /\ b > 6
                    \/ j = b + 2 /\ c > b
                    \/ j = c + 2 /\ d > c
                    \/ j = d + 2 /\ e > d
<1>9. \A j : j \in TokenPlaces(t, Colon) <=> j \in 1 .. e + 1 /\ At(j)
  <2>1. \A j : j \in TokenPlaces(t, Colon) <=> j \in 1 .. e + 1 /\ t[j] = Colon
    BY <1>3 DEF TokenPlaces
  <2> QED
    BY <1>2, <2>1
<1>10. \A j : j \in Colons(t) <=>
                 /\ j \in TokenPlaces(t, Colon)
                 /\ 6 < j /\ j < e + 1
                 /\ \A k \in TokenPlaces(t, Colon) : k < j => LineEnd(t, k) < j
                 /\ ValueAt(t, j) # <<>>
  BY <1>5, <1>7 DEF Colons
<1>11. ASSUME NEW j, j \in Colons(t) PROVE j \in HeaderColons(b, c, d)
  <2>1. j \in 1 .. e + 1 /\ At(j) /\ ValueAt(t, j) # <<>>
    BY <1>9, <1>10, <1>11
  <2>2. ~(j = d + 2 /\ e > d)
    BY <1>8, <2>1
  <2> QED
    BY <2>1, <2>2 DEF HeaderColons
<1>12. ASSUME NEW j, j \in HeaderColons(b, c, d) PROVE j \in Colons(t)
  <2>1. \/ j = 8 /\ b > 6
        \/ j = b + 2 /\ c > b
        \/ j = c + 2 /\ d > c
    BY <1>12 DEF HeaderColons
  <2>2. j \in TokenPlaces(t, Colon) /\ 6 < j /\ j < e + 1 /\ j \in Nat
    <3>1. j \in 1 .. e + 1 /\ 6 < j /\ j < e + 1 /\ j \in Nat
      BY <1>1, <2>1
    <3> QED
      BY <1>9, <2>1, <3>1
  <2>3. ValueAt(t, j) # <<>>
    BY <1>8, <2>1
  <2>4. ASSUME NEW k \in TokenPlaces(t, Colon), k < j PROVE LineEnd(t, k) < j
    <3>1. k \in 1 .. e + 1 /\ At(k)
      BY <1>9
    <3>2. CASE k = 8 /\ b > 6
      BY <1>1, <1>5, <2>1, <2>4, <3>2
    <3>3. CASE k = b + 2 /\ c > b
      BY <1>1, <1>5, <2>1, <2>4, <3>3
    <3>4. CASE k = c + 2 /\ d > c
      BY <1>1, <1>5, <2>1, <2>4, <3>4
    <3>5. CASE k = d + 2 /\ e > d
      BY <1>1, <2>1, <2>4, <3>5
    <3> QED
      BY <3>1, <3>2, <3>3, <3>4, <3>5
  <2> QED
    BY <1>10, <2>2, <2>3, <2>4
<1> QED
  BY <1>11, <1>12

\* A name between the end of the line before it and its colon.
LEMMA NameIs ==
    ASSUME NEW t \in Seq(Tokens), NEW o \in Nat, NEW j \in Nat, 1 <= o, j = o + 2, j <= Len(t),
           t[o] = NewLine, t[o + 1] \notin {Colon, Space, NewLine},
           LineEnd(t, Max({k \in Colons(t) : k < j} \cup {1})) = o
    PROVE  NameAt(t, j) = <<Lower(t[o + 1])>>
<1>1. PICK p : p = SubSeq(t, o, j - 1)
  OBVIOUS
<1>2. Len(p) = 2 /\ p[1] = t[o] /\ p[2] = t[o + 1]
  <2>1. PICK y \in Nat : y = j - 1
    OBVIOUS
  <2>2. Len(t) \in Nat
    BY LenProperties
  <2>3. y <= Len(t) /\ o <= y /\ y - o + 1 = 2
    BY <2>1, <2>2
  <2>4. /\ Len(SubSeq(t, o, y)) = IF o <= y THEN y - o + 1 ELSE 0
        /\ \A i \in 1 .. y - o + 1 : SubSeq(t, o, y)[i] = t[o + i - 1]
    BY <2>3, PartIs
  <2>5. p = SubSeq(t, o, y)
    BY <1>1, <2>1
  <2>6. Len(p) = 2 /\ \A i \in 1 .. 2 : p[i] = t[o + i - 1]
    BY <2>3, <2>4, <2>5
  <2>7. p[1] = t[o + 1 - 1] /\ p[2] = t[o + 2 - 1]
    BY <2>6
  <2>8. o + 1 - 1 = o /\ o + 2 - 1 = o + 1
    OBVIOUS
  <2> QED
    BY <2>6, <2>7, <2>8
<1>3. PICK X : X = {Colon, Space, NewLine}
  OBVIOUS
<1>4. Without(p, X) = <<t[o + 1]>>
  BY <1>2, <1>3, SecondIsKept
<1>5. NameAt(t, j) = [k \in DOMAIN Without(p, X) |-> Lower(Without(p, X)[k])]
  BY <1>1, <1>3 DEF NameAt
<1>6. PICK w : w = t[o + 1]
  OBVIOUS
<1>7. NameAt(t, j) = [k \in DOMAIN <<w>> |-> Lower(<<w>>[k])]
  BY <1>4, <1>5, <1>6
<1>8. [k \in DOMAIN <<w>> |-> Lower(<<w>>[k])] = <<Lower(w)>>
  OBVIOUS
<1> QED
  BY <1>6, <1>7, <1>8

\* The names a header with a value may have.
Names == {"Cookie", "Sec-WebSocket-Key", "Sec-WebSocket-Protocol"}

\* The name of a header, when the one before it stands at m, or m is 1.
LEMMA HeaderNameIs ==
    ASSUME NEW t \in Seq(Tokens), NEW o \in Nat, NEW m \in Nat, NEW w,
           w \in Names,
           1 <= o, o + 2 <= Len(t), t[o] = NewLine, t[o + 1] = w,
           Colons(t) \subseteq Nat, m = 1 \/ m \in Colons(t), m < o + 2, 1 <= m,
           \A k \in Colons(t) : k < o + 2 => k <= m,
           LineEnd(t, m) = o
    PROVE  NameAt(t, o + 2) = <<Lower(w)>>
<1>1. PICK j \in Nat : j = o + 2
  OBVIOUS
<1> DEFINE T == {k \in Colons(t) : k < j} \cup {1}
<1>2. T \subseteq Nat /\ m \in T /\ \A k \in T : m >= k
  BY <1>1
<1>3. Max(T) = m
  <2> HIDE DEF T
  <2> QED
    BY <1>2, MaxIs
<1>4. w \notin {Colon, Space, NewLine}
  BY DEF Names, Colon, Space, NewLine
<1>5. NameAt(t, j) = <<Lower(t[o + 1])>>
  <2>1. 1 <= o /\ j = o + 2 /\ j <= Len(t) /\ t[o] = NewLine
    BY <1>1
  <2>2. t[o + 1] \notin {Colon, Space, NewLine}
    BY <1>4
  <2>3. LineEnd(t, Max({k \in Colons(t) : k < j} \cup {1})) = o
    BY <1>3
  <2> QED
    BY <2>1, <2>2, <2>3, NameIs
<1> QED
  BY <1>1, <1>5

\* The headers have their own names: none is mixed up with the one before.
NamesStand(t, b, c, d) ==
    /\ b > 6 => NameAt(t, 8) = <<Lower("Cookie")>>
    /\ c > b => NameAt(t, b + 2) = <<Lower("Sec-WebSocket-Key")>>
    /\ d > c => NameAt(t, c + 2) = <<Lower("Sec-WebSocket-Protocol")>>

\* The name in front of each of those colons is the name of its header.
LEMMA NamesAre ==
    ASSUME NEW r \in RequestType, r.before # "empty", NEW t,
           NEW b \in Nat, NEW c \in Nat, NEW d \in Nat, NEW e \in Nat, Stands(t, r, b, c, d, e)
    PROVE  NamesStand(t, b, c, d)
<1>1. /\ t \in Seq(Tokens) /\ Len(t) = e + 1
      /\ b = 6 \/ b >= 9
      /\ c = b \/ c >= b + 3
      /\ d = c \/ d >= c + 3
      /\ e = d \/ e >= d + 3
      /\ \A j \in 1 .. e + 1 : t[j] = NewLine <=> j \in {6, b, c, d, e, e + 1}
  BY DEF Stands, LinesEnd
<1>2. /\ LineEnd(t, 1) = 6
      /\ b > 6 => LineEnd(t, 8) = b
      /\ c > b => LineEnd(t, b + 2) = c
  <2>1. LinesEnd(t, b, c, d, e)
    BY DEF Stands
  <2>2. HeadersEnd(t, b, c, d, e)
    BY <2>1, LinesAre
  <2> QED
    BY <2>2 DEF HeadersEnd
<1>3. /\ b > 6 => t[7] = "Cookie"
      /\ c > b => t[b + 1] = "Sec-WebSocket-Key"
      /\ d > c => t[c + 1] = "Sec-WebSocket-Protocol"
  <2>1. r.before \in {"nothing", "long"} /\ r.hasKey \in BOOLEAN
    BY RequestFields
  <2>2. b > 6 => t[7] = "Cookie"
    BY <2>1 DEF Stands, BeforeIs
  <2>3. c > b => t[b + 1] = "Sec-WebSocket-Key"
    BY <2>1 DEF Stands, KeyIs
  <2>4. d > c => t[c + 1] = "Sec-WebSocket-Protocol"
    BY DEF Stands, ProtocolsAre
  <2> QED
    BY <2>2, <2>3, <2>4
<1>4. \A k : k \in Colons(t) <=> \/ k = 8 /\ b > 6
                                 \/ k = b + 2 /\ c > b
                                 \/ k = c + 2 /\ d > c
  <2>1. Colons(t) = HeaderColons(b, c, d)
    BY ColonsAre
  <2> QED
    BY <2>1 DEF HeaderColons
<1>5. Colons(t) \subseteq Nat
  BY <1>4
<1>6. /\ t[6] = NewLine /\ t[b] = NewLine /\ t[c] = NewLine
  <2>1. 6 \in 1 .. e + 1 /\ b \in 1 .. e + 1 /\ c \in 1 .. e + 1
    BY <1>1
  <2> QED
    BY <1>1, <2>1
<1>7. ASSUME b > 6 PROVE NameAt(t, 8) = <<Lower("Cookie")>>
  <2>1. PICK o \in Nat, m \in Nat, w \in Names :
          o = 6 /\ m = 1 /\ w = "Cookie"
    BY DEF Names
  <2>2. /\ 1 <= o /\ o + 2 <= Len(t) /\ o + 2 = 8 /\ o + 1 = 7 /\ m < o + 2 /\ 1 <= m
        /\ \A k \in Colons(t) : k < o + 2 => k <= m
    BY <1>1, <1>4, <1>7, <2>1
  <2>3. t[o] = NewLine /\ t[o + 1] = w /\ LineEnd(t, m) = o
    BY <1>2, <1>3, <1>6, <1>7, <2>1
  <2>4. w \in Names
    BY <2>1
  <2>5. NameAt(t, o + 2) = <<Lower(w)>>
    BY <1>1, <1>5, <2>1, <2>2, <2>3, <2>4, HeaderNameIs
  <2> QED
    BY <2>1, <2>2, <2>5
<1>8. ASSUME c > b PROVE NameAt(t, b + 2) = <<Lower("Sec-WebSocket-Key")>>
  <2>1. PICK o \in Nat, m \in Nat, w \in Names :
          o = b /\ m = (IF b > 6 THEN 8 ELSE 1) /\ w = "Sec-WebSocket-Key"
    BY DEF Names
  <2>2. /\ 1 <= o /\ o + 2 <= Len(t) /\ m < o + 2 /\ 1 <= m
        /\ \A k \in Colons(t) : k < o + 2 => k <= m
    BY <1>1, <1>4, <1>8, <2>1
  <2>3. t[o] = NewLine /\ t[o + 1] = w /\ LineEnd(t, m) = o /\ (m = 1 \/ m \in Colons(t))
    BY <1>1, <1>2, <1>3, <1>4, <1>6, <1>8, <2>1
  <2>4. w \in Names
    BY <2>1
  <2>5. NameAt(t, o + 2) = <<Lower(w)>>
    BY <1>1, <1>5, <2>2, <2>3, <2>4, HeaderNameIs
  <2> QED
    BY <2>1, <2>5
<1>9. ASSUME d > c PROVE NameAt(t, c + 2) = <<Lower("Sec-WebSocket-Protocol")>>
  <2>1. PICK o \in Nat, m \in Nat, w \in Names :
          /\ o = c /\ w = "Sec-WebSocket-Protocol"
          /\ m = IF c > b THEN b + 2 ELSE IF b > 6 THEN 8 ELSE 1
    BY DEF Names
  <2>2. /\ 1 <= o /\ o + 2 <= Len(t) /\ m < o + 2 /\ 1 <= m
        /\ \A k \in Colons(t) : k < o + 2 => k <= m
    BY <1>1, <1>4, <1>9, <2>1
  <2>3. t[o] = NewLine /\ t[o + 1] = w /\ LineEnd(t, m) = o /\ (m = 1 \/ m \in Colons(t))
    BY <1>1, <1>2, <1>3, <1>4, <1>6, <1>9, <2>1
  <2>4. w \in Names
    BY <2>1
  <2>5. NameAt(t, o + 2) = <<Lower(w)>>
    BY <1>1, <1>5, <2>2, <2>3, <2>4, HeaderNameIs
  <2> QED
    BY <2>1, <2>5
<1> QED
  BY <1>7, <1>8, <1>9 DEF NamesStand

\* The headers of each name.
LEMMA NamedAre ==
    ASSUME NEW r \in RequestType, r.before # "empty", NEW t,
           NEW b \in Nat, NEW c \in Nat, NEW d \in Nat, NEW e \in Nat, Stands(t, r, b, c, d, e)
    PROVE  /\ Named(t, "sec-websocket-key") # {} <=> c > b
           /\ Named(t, "sec-websocket-protocol") = {j \in {c + 2} : d > c}
<1>1. /\ b = 6 \/ b >= 9
      /\ c = b \/ c >= b + 3
      /\ d = c \/ d >= c + 3
  BY DEF Stands, LinesEnd
<1>2. \A k : k \in Colons(t) <=> \/ k = 8 /\ b > 6
                                 \/ k = b + 2 /\ c > b
                                 \/ k = c + 2 /\ d > c
  <2>1. Colons(t) = HeaderColons(b, c, d)
    BY ColonsAre
  <2> QED
    BY <2>1 DEF HeaderColons
<1>3. /\ b > 6 => NameAt(t, 8) = <<"cookie">>
      /\ c > b => NameAt(t, b + 2) = <<"sec-websocket-key">>
      /\ d > c => NameAt(t, c + 2) = <<"sec-websocket-protocol">>
  <2>1. NamesStand(t, b, c, d)
    BY NamesAre
  <2> QED
    BY <2>1, NamesAssumption DEF NamesStand
<1>4. \A x, y : <<x>> = <<y>> => x = y
  OBVIOUS
<1>5. \A k, name : k \in Named(t, name) <=> k \in Colons(t) /\ NameAt(t, k) = <<name>>
  BY DEF Named
<1>6. \A k : k \in Named(t, "sec-websocket-key") <=> k = b + 2 /\ c > b
  <2> SUFFICES ASSUME NEW k PROVE k \in Named(t, "sec-websocket-key") <=> k = b + 2 /\ c > b
    OBVIOUS
  <2>1. CASE k = 8 /\ b > 6
    <3>1. NameAt(t, k) # <<"sec-websocket-key">>
      BY <1>3, <1>4, <2>1
    <3>2. k # b + 2
      BY <1>1, <2>1
    <3> QED
      BY <1>5, <3>1, <3>2
  <2>2. CASE k = b + 2 /\ c > b
    BY <1>2, <1>3, <1>5, <2>2
  <2>3. CASE k = c + 2 /\ d > c
    <3>1. NameAt(t, k) # <<"sec-websocket-key">>
      BY <1>3, <1>4, <2>3
    <3>2. ~(k = b + 2 /\ c > b)
      BY <2>3
    <3> QED
      BY <1>5, <3>1, <3>2
  <2> QED
    BY <1>2, <1>5, <2>1, <2>2, <2>3
<1>7. \A k : k \in Named(t, "sec-websocket-protocol") <=> k = c + 2 /\ d > c
  <2> SUFFICES ASSUME NEW k
               PROVE  k \in Named(t, "sec-websocket-protocol") <=> k = c + 2 /\ d > c
    OBVIOUS
  <2>1. CASE k = 8 /\ b > 6
    <3>1. NameAt(t, k) # <<"sec-websocket-protocol">>
      BY <1>3, <1>4, <2>1
    <3>2. k # c + 2
      BY <1>1, <2>1
    <3> QED
      BY <1>5, <3>1, <3>2
  <2>2. CASE k = b + 2 /\ c > b
    <3>1. NameAt(t, k) # <<"sec-websocket-protocol">>
      BY <1>3, <1>4, <2>2
    <3>2. k # c + 2
      BY <1>1, <2>2
    <3> QED
      BY <1>5, <3>1, <3>2
  <2>3. CASE k = c + 2 /\ d > c
    BY <1>2, <1>3, <1>5, <2>3
  <2> QED
    BY <1>2, <1>5, <2>1, <2>2, <2>3
<1> QED
  BY <1>6, <1>7

-----------------------------------------------------------------------------
(* The list of the protocols                                               *)

\* Where a part of the list begins: behind the m-th comma.
CutAt(m) == IF m = 0 THEN 0 ELSE 3 * m - 1

CutsStand(v, n) ==
    \A j : j \in TokenPlaces(v, Comma) \cup {0, Len(v) + 1} <=> \E m \in 0 .. n : j = CutAt(m)

\* The parts of the list are cut at the commas, and each is one protocol.
LEMMA CutsAre ==
    ASSUME NEW ps \in Seq(Protocols), ps # <<>>, NEW v, v = Listed(ps), NEW n, n = Len(ps)
    PROVE  CutsStand(v, n)
<1>1. /\ n \in Nat /\ n >= 1 /\ v \in Seq(Words) /\ Len(v) = 3 * n - 2
      /\ \A m \in 1 .. n : v[3 * m - 2] = ps[m]
      /\ \A m \in 1 .. n - 1 : v[3 * m - 1] = Comma /\ v[3 * m] = Space
      /\ \A j \in 1 .. 3 * n - 2 :
             \/ \E m \in 1 .. n : j = 3 * m - 2
             \/ \E m \in 1 .. n - 1 : j = 3 * m - 1 \/ j = 3 * m
  <2>1. ListStands(ps, v, n)
    BY ListedIs
  <2> QED
    BY <2>1 DEF ListStands
<1>2. DOMAIN v = 1 .. 3 * n - 2
  BY <1>1, LenProperties
<1>3. \A m \in 1 .. n : v[3 * m - 2] # Comma
  <2>1. \A m \in 1 .. n : ps[m] \in Protocols
    BY ElementOfSeq
  <2> QED
    BY <1>1, <2>1 DEF Protocols
<1>4. ASSUME NEW j \in TokenPlaces(v, Comma) PROVE \E m \in 0 .. n : j = CutAt(m)
  <2>1. j \in 1 .. 3 * n - 2 /\ v[j] = Comma
    BY <1>2 DEF TokenPlaces
  <2>2. ~\E m \in 1 .. n : j = 3 * m - 2
    BY <1>3, <2>1
  <2>3. PICK m \in 1 .. n - 1 : j = 3 * m - 1 \/ j = 3 * m
    BY <1>1, <2>1, <2>2
  <2>4. v[3 * m] # Comma
    BY <1>1, Literals
  <2>5. j = 3 * m - 1
    BY <2>1, <2>3, <2>4
  <2>6. m \in 0 .. n /\ m # 0
    BY <1>1
  <2> QED
    BY <2>5, <2>6 DEF CutAt
<1>5. ASSUME NEW m \in 0 .. n
      PROVE  CutAt(m) \in TokenPlaces(v, Comma) \cup {0, Len(v) + 1}
  <2>1. CASE m = 0
    BY <2>1 DEF CutAt
  <2>2. CASE m = n
    BY <1>1, <2>2 DEF CutAt
  <2>3. CASE m \in 1 .. n - 1
    <3>1. 3 * m - 1 \in 1 .. 3 * n - 2 /\ m # 0
      BY <1>1, <2>3
    <3>2. v[3 * m - 1] = Comma
      BY <1>1, <2>3
    <3>3. CutAt(m) = 3 * m - 1
      BY <3>1 DEF CutAt
    <3> QED
      BY <1>2, <3>1, <3>2, <3>3 DEF TokenPlaces
  <2> QED
    BY <1>1, <2>1, <2>2, <2>3
<1>6. \A j \in {0, Len(v) + 1} : \E m \in 0 .. n : j = CutAt(m)
  <2>1. 0 \in 0 .. n /\ n \in 0 .. n /\ CutAt(0) = 0 /\ CutAt(n) = Len(v) + 1
    BY <1>1 DEF CutAt
  <2> QED
    BY <2>1
<1> QED
  BY <1>4, <1>5, <1>6 DEF CutsStand

\* Between two cuts stands one protocol, behind a space or not.
LEMMA PartsAre ==
    ASSUME NEW ps \in Seq(Protocols), ps # <<>>, NEW v, v = Listed(ps), NEW n, n = Len(ps),
           NEW m \in 0 .. n - 1
    PROVE  Without(SubSeq(v, CutAt(m) + 1, CutAt(m + 1) - 1), {Space}) = <<ps[m + 1]>>
<1>1. /\ n \in Nat /\ n >= 1 /\ v \in Seq(Words) /\ Len(v) = 3 * n - 2
      /\ \A i \in 1 .. n : v[3 * i - 2] = ps[i]
      /\ \A i \in 1 .. n - 1 : v[3 * i - 1] = Comma /\ v[3 * i] = Space
  <2>1. ListStands(ps, v, n)
    BY ListedIs
  <2> QED
    BY <2>1 DEF ListStands
<1>2. v \in Seq(Tokens)
  BY <1>1 DEF Words
<1>3. PICK x \in Nat, y \in Nat : x = CutAt(m) + 1 /\ y = CutAt(m + 1) - 1
  <2>1. m = 0 => CutAt(m) + 1 = 1 /\ CutAt(m + 1) - 1 = 1
    BY DEF CutAt
  <2>2. m # 0 => CutAt(m) + 1 = 3 * m /\ CutAt(m + 1) - 1 = 3 * m + 1
    BY DEF CutAt
  <2>3. CutAt(m) + 1 \in Nat /\ CutAt(m + 1) - 1 \in Nat
    BY <1>1, <2>1, <2>2
  <2> QED
    BY <2>3
<1>4. (m = 0 => x = 1 /\ y = 1) /\ (m # 0 => x = 3 * m /\ y = 3 * m + 1)
  BY <1>1, <1>3 DEF CutAt
<1>5. PICK p : p = SubSeq(v, x, y)
  OBVIOUS
<1>6. /\ Len(p) = y - x + 1
      /\ \A i \in 1 .. y - x + 1 : p[i] = v[x + i - 1]
  <2>1. 1 <= x /\ y <= Len(v) /\ x <= y
    BY <1>1, <1>4
  <2>2. /\ Len(SubSeq(v, x, y)) = IF x <= y THEN y - x + 1 ELSE 0
        /\ \A i \in 1 .. y - x + 1 : SubSeq(v, x, y)[i] = v[x + i - 1]
    BY <1>2, <2>1, PartIs
  <2> QED
    BY <1>5, <2>1, <2>2
<1>7. m + 1 \in 1 .. n /\ ps[m + 1] \in Protocols
  <2>1. m + 1 \in 1 .. n
    BY <1>1
  <2> QED
    BY <2>1, ElementOfSeq
<1>8. PICK q : q = ps[m + 1]
  OBVIOUS
<1>9. q # Space
  BY <1>7, <1>8 DEF Protocols
<1>10. v[3 * (m + 1) - 2] = q
  BY <1>1, <1>7, <1>8
<1>11. Without(p, {Space}) = <<q>>
  <2>1. CASE m = 0
    <3>1. Len(p) = 1 /\ p[1] = v[1]
      <4>1. y - x + 1 = 1 /\ x + 1 - 1 = 1 /\ 1 \in 1 .. y - x + 1
        BY <1>4, <2>1
      <4>2. p[1] = v[x + 1 - 1]
        BY <1>6, <4>1
      <4> QED
        BY <1>6, <4>1, <4>2
    <3>2. v[1] = q
      <4>1. 3 * (m + 1) - 2 = 1
        BY <2>1
      <4> QED
        BY <1>10, <4>1
    <3> QED
      BY <1>9, <3>1, <3>2, OneIsKept
  <2>2. CASE m # 0
    <3>1. Len(p) = 2 /\ p[1] = v[3 * m] /\ p[2] = v[3 * m + 1]
      <4>1. /\ y - x + 1 = 2 /\ 1 \in 1 .. y - x + 1 /\ 2 \in 1 .. y - x + 1
            /\ x + 1 - 1 = 3 * m /\ x + 2 - 1 = 3 * m + 1
        BY <1>4, <2>2
      <4>2. p[1] = v[x + 1 - 1] /\ p[2] = v[x + 2 - 1]
        BY <1>6, <4>1
      <4> QED
        BY <1>6, <4>1, <4>2
    <3>2. v[3 * m] = Space
      <4>1. m \in 1 .. n - 1
        BY <1>1, <2>2
      <4> QED
        BY <1>1, <4>1
    <3>3. v[3 * m + 1] = q
      <4>1. 3 * (m + 1) - 2 = 3 * m + 1
        OBVIOUS
      <4> QED
        BY <1>10, <4>1
    <3>4. Len(p) = 2 /\ p[1] \in {Space} /\ p[2] \notin {Space} /\ p[2] = q
      BY <1>9, <3>1, <3>2, <3>3
    <3> QED
      BY <3>4, SecondIsKept
  <2> QED
    BY <2>1, <2>2
<1> QED
  BY <1>3, <1>5, <1>8, <1>11

\* tokenize() finds the protocols that were listed.
LEMMA ListIsRead ==
    ASSUME NEW ps \in Seq(Protocols), ps # <<>>
    PROVE  Tokenize(Listed(ps)) = {<<p>> : p \in ToSet(ps)}
<1>1. PICK v, n : v = Listed(ps) /\ n = Len(ps)
  OBVIOUS
<1>2. n \in Nat /\ n >= 1 /\ Len(v) = 3 * n - 2
  <2>1. ListStands(ps, v, n)
    BY <1>1, ListedIs
  <2> QED
    BY <2>1 DEF ListStands
<1> DEFINE cuts == TokenPlaces(v, Comma) \cup {0, Len(v) + 1}
           After(i) == Min({j \in cuts : j > i})
           Part(i, j) == Without(SubSeq(v, i + 1, j - 1), {Space})
<1>3. Tokenize(v) = {Part(i, After(i)) : i \in cuts \ {Len(v) + 1}}
  BY DEF Tokenize
<1>4. \A j : j \in cuts <=> \E m \in 0 .. n : j = CutAt(m)
  <2>1. CutsStand(v, n)
    BY <1>1, CutsAre
  <2> QED
    BY <2>1 DEF CutsStand
<1> HIDE DEF cuts
<1>5. \A k, m \in 0 .. n : /\ CutAt(m) \in Nat
                           /\ k < m => CutAt(k) < CutAt(m)
                           /\ k > m => CutAt(k) >= CutAt(m + 1)
  BY <1>2 DEF CutAt
<1>6. CutAt(n) = Len(v) + 1
  BY <1>2 DEF CutAt
<1>7. \A i : i \in cuts \ {Len(v) + 1} <=> \E m \in 0 .. n - 1 : i = CutAt(m)
  <2>1. ASSUME NEW i \in cuts, i # Len(v) + 1 PROVE \E m \in 0 .. n - 1 : i = CutAt(m)
    <3>1. PICK m \in 0 .. n : i = CutAt(m)
      BY <1>4
    <3>2. m # n
      BY <1>6, <2>1, <3>1
    <3>3. m \in 0 .. n - 1
      BY <1>2, <3>2
    <3> QED
      BY <3>1, <3>3
  <2>2. ASSUME NEW m \in 0 .. n - 1 PROVE CutAt(m) \in cuts /\ CutAt(m) # Len(v) + 1
    <3>1. m \in 0 .. n /\ n \in 0 .. n /\ m < n
      BY <1>2
    <3>2. CutAt(m) < CutAt(n) /\ CutAt(m) \in Nat /\ CutAt(n) \in Nat
      BY <1>5, <3>1
    <3> QED
      BY <1>4, <1>6, <3>1, <3>2
  <2> QED
    BY <2>1, <2>2
<1>8. ASSUME NEW m \in 0 .. n - 1 PROVE After(CutAt(m)) = CutAt(m + 1)
  <2> DEFINE T == {j \in cuts : j > CutAt(m)}
  <2>1. m \in 0 .. n /\ m + 1 \in 0 .. n /\ m < m + 1
    BY <1>2
  <2>2. CutAt(m + 1) \in T
    BY <1>4, <1>5, <2>1
  <2>3. ASSUME NEW j \in T PROVE j \in Nat /\ CutAt(m + 1) <= j
    <3>1. PICK k \in 0 .. n : j = CutAt(k)
      BY <1>4
    <3>2. j > CutAt(m) /\ CutAt(m) \in Nat /\ CutAt(k) \in Nat
      BY <1>5, <2>1
    <3>3. ~(k < m) /\ k # m
      BY <1>5, <2>1, <3>1, <3>2
    <3>4. k > m
      BY <1>2, <3>3
    <3>5. CutAt(k) >= CutAt(m + 1) /\ CutAt(m + 1) \in Nat
      BY <1>5, <2>1, <3>4
    <3> QED
      BY <3>1, <3>2, <3>5
  <2> HIDE DEF T
  <2>4. T \subseteq Nat
    BY <2>3
  <2>5. Min(T) = CutAt(m + 1)
    BY <2>2, <2>3, <2>4, MinIs
  <2> QED
    BY <2>5 DEF T
<1>9. \A m \in 0 .. n - 1 : Part(CutAt(m), After(CutAt(m))) = <<ps[m + 1]>>
  <2> SUFFICES ASSUME NEW m \in 0 .. n - 1
               PROVE  Part(CutAt(m), After(CutAt(m))) = <<ps[m + 1]>>
    OBVIOUS
  <2>1. Without(SubSeq(v, CutAt(m) + 1, CutAt(m + 1) - 1), {Space}) = <<ps[m + 1]>>
    BY <1>1, PartsAre
  <2>2. Part(CutAt(m), CutAt(m + 1)) = <<ps[m + 1]>>
    BY <2>1
  <2> HIDE DEF Part, After
  <2> QED
    BY <1>8, <2>2
<1> HIDE DEF Part, After
<1>10. Tokenize(v) = {<<ps[m + 1]>> : m \in 0 .. n - 1}
  <2>1. ASSUME NEW x \in Tokenize(v) PROVE \E m \in 0 .. n - 1 : x = <<ps[m + 1]>>
    <3>1. PICK i \in cuts \ {Len(v) + 1} : x = Part(i, After(i))
      BY <1>3
    <3>2. PICK m \in 0 .. n - 1 : i = CutAt(m)
      BY <1>7
    <3> QED
      BY <1>9, <3>1, <3>2
  <2>2. ASSUME NEW m \in 0 .. n - 1 PROVE <<ps[m + 1]>> \in Tokenize(v)
    <3>1. CutAt(m) \in cuts \ {Len(v) + 1}
      BY <1>7
    <3>2. Part(CutAt(m), After(CutAt(m))) \in Tokenize(v)
      BY <1>3, <3>1
    <3> QED
      BY <1>9, <3>2
  <2> QED
    BY <2>1, <2>2
<1>11. DOMAIN ps = 1 .. n
  BY <1>1, LenProperties
<1>12. \A q : q \in ToSet(ps) <=> \E m \in 0 .. n - 1 : q = ps[m + 1]
  <2>1. \A q : q \in ToSet(ps) <=> \E i \in 1 .. n : q = ps[i]
    BY <1>11 DEF ToSet
  <2>2. ASSUME NEW q, NEW i \in 1 .. n, q = ps[i] PROVE \E m \in 0 .. n - 1 : q = ps[m + 1]
    <3>1. PICK m \in Nat : m = i - 1
      OBVIOUS
    <3>2. m \in 0 .. n - 1 /\ m + 1 = i
      BY <1>2, <3>1
    <3> QED
      BY <2>2, <3>2
  <2>3. ASSUME NEW m \in 0 .. n - 1 PROVE m + 1 \in 1 .. n
    BY <1>2
  <2> QED
    BY <2>1, <2>2, <2>3
<1> QED
  BY <1>1, <1>10, <1>12

-----------------------------------------------------------------------------
(* What is read of a request                                               *)

\* The first line of a request is cut at its two spaces.
LEMMA SpacesAre ==
    ASSUME NEW r \in RequestType, NEW t \in Seq(Tokens), FirstIs(t, r), Len(t) >= 6,
           NEW S, S = TokenPlaces(t, Space)
    PROVE  Min(S) = 2 /\ Min(S \ {2}) = 4 /\ ~(Cardinality(S) < 2)
<1>1. Len(t) \in Nat /\ DOMAIN t = 1 .. Len(t)
  BY LenProperties
<1>2. t[1] # Space /\ t[2] = Space /\ t[3] # Space /\ t[4] = Space
  <2>1. r.type \in {"GET", "POST"}
    BY RequestFields
  <2>2. r.type # Space /\ "/chat" # Space
    BY <2>1 DEF Space
  <2> QED
    BY <2>2 DEF FirstIs
<1>3. S = {j \in 1 .. Len(t) : t[j] = Space}
  BY <1>1 DEF TokenPlaces
<1>4. 2 \in S /\ 4 \in S /\ S \subseteq Nat /\ 1 \notin S /\ 3 \notin S
  BY <1>1, <1>2, <1>3
<1>5. \A j \in S : j >= 1 /\ j \in Nat
  BY <1>3
<1>6. \A j \in S : 2 <= j
  BY <1>4, <1>5
<1>7. Min(S) = 2
  BY <1>4, <1>6, MinIs
<1>8. Min(S \ {2}) = 4
  <2>1. PICK T : T = S \ {2}
    OBVIOUS
  <2>2. T \subseteq Nat /\ 4 \in T /\ \A j \in T : 4 <= j
    BY <1>4, <1>6, <2>1
  <2>3. Min(T) = 4
    BY <2>2, MinIs
  <2> QED
    BY <2>1, <2>3
<1>9. IsFiniteSet(S)
  <2>1. \A j \in S : j <= Len(t)
    BY <1>1, <1>3
  <2> QED
    BY <1>1, <1>4, <2>1, FS_BoundedSetOfNaturals
<1>10. Cardinality(S) \in Nat
  BY <1>9, FS_CardinalityType
<1>11. Cardinality(S) # 0
  BY <1>4, <1>9, FS_EmptySet
<1>12. Cardinality(S) # 1
  <2>1. ASSUME Cardinality(S) = 1 PROVE FALSE
    <3>1. \E x : S = {x}
      BY <1>9, <2>1, FS_Singleton
    <3> QED
      BY <1>4, <3>1
  <2> QED
    BY <2>1
<1> QED
  BY <1>7, <1>8, <1>10, <1>11, <1>12

\* A part of one token.
LEMMA OnePart ==
    ASSUME NEW t \in Seq(Tokens), Len(t) >= 6, NEW x \in 1 .. 6
    PROVE  SubSeq(t, x, x) = <<t[x]>>
<1>1. x \in Nat /\ 1 <= x /\ x <= Len(t) /\ x - x + 1 = 1 /\ x + 1 - 1 = x
  BY LenProperties
<1>2. PICK p : p = SubSeq(t, x, x)
  OBVIOUS
<1>3. p \in Seq(Tokens) /\ Len(p) = 1 /\ p[1] = t[x]
  <2>1. /\ p \in Seq(Tokens) /\ Len(p) = IF x <= x THEN x - x + 1 ELSE 0
        /\ \A i \in 1 .. x - x + 1 : p[i] = t[x + i - 1]
    BY <1>1, <1>2, PartIs
  <2>2. p[1] = t[x + 1 - 1]
    BY <1>1, <2>1
  <2> QED
    BY <1>1, <2>1, <2>2
<1>4. PICK q : q = <<t[x]>>
  OBVIOUS
<1>5. t[x] \in Tokens
  BY <1>1, LenProperties, ElementOfSeq
<1>6. q \in Seq(Tokens) /\ Len(q) = 1 /\ q[1] = t[x]
  BY <1>4, <1>5
<1>7. p = q
  <2>1. Len(p) = Len(q) /\ \A i \in 1 .. Len(p) : p[i] = q[i]
    BY <1>3, <1>6
  <2> QED
    BY <1>3, <1>6, <2>1, SeqEqual
<1> QED
  BY <1>2, <1>4, <1>7

\* What is read of a request that was received: its first line, and two of its headers.
Read(t, r) ==
    LET protocols == Named(t, "sec-websocket-protocol")
    IN  [status |-> "ready", type |-> <<r.type>>, resource |-> <<"/chat">>,
         hasKey |-> Named(t, "sec-websocket-key") # {},
         protocols |-> IF protocols = {} THEN {}
                       ELSE Tokenize(ValueAt(t, Max(protocols)))]

\* A request is read when all of it is there, and not before.
LEMMA ReadAtTheEnd ==
    ASSUME NEW r \in RequestType, NEW t,
           NEW b \in Nat, NEW c \in Nat, NEW d \in Nat, NEW e \in Nat, Stands(t, r, b, c, d, e)
    PROVE  /\ ParseIncoming(t) = Read(t, r)
           /\ \A m \in 0 .. e : ParseIncoming(SubSeq(t, 1, m)) = [status |-> "incomplete"]
<1>1. LinesEnd(t, b, c, d, e) /\ FirstIs(t, r)
  BY DEF Stands
<1>2. t \in Seq(Tokens) /\ Len(t) = e + 1 /\ e >= 6
  BY <1>1 DEF LinesEnd
<1>3. /\ HeaderEnds(t) = {e + 1}
      /\ \A m \in 0 .. e : HeaderEnds(SubSeq(t, 1, m)) = {}
  BY <1>1, EndsOnce
<1>4. PICK S : S = TokenPlaces(t, Space)
  OBVIOUS
<1>5. Min(S) = 2 /\ Min(S \ {2}) = 4 /\ ~(Cardinality(S) < 2)
  <2>1. Len(t) >= 6
    BY <1>2
  <2> QED
    BY <1>1, <1>2, <1>4, <2>1, SpacesAre
<1>6. SubSeq(t, 1, 2 - 1) = <<r.type>> /\ SubSeq(t, 2 + 1, 4 - 1) = <<"/chat">>
  <2>1. t[1] = r.type /\ t[3] = "/chat"
    BY <1>1 DEF FirstIs
  <2>2. SubSeq(t, 1, 1) = <<t[1]>> /\ SubSeq(t, 3, 3) = <<t[3]>>
    BY <1>2, OnePart
  <2> QED
    BY <2>1, <2>2
<1>7. ParseIncoming(t) =
          [status |-> "ready", type |-> SubSeq(t, 1, 2 - 1), resource |-> SubSeq(t, 2 + 1, 4 - 1),
           hasKey |-> Named(t, "sec-websocket-key") # {},
           protocols |-> IF Named(t, "sec-websocket-protocol") = {} THEN {}
                         ELSE Tokenize(ValueAt(t, Max(Named(t, "sec-websocket-protocol"))))]
  <2>1. HeaderEnds(t) # {}
    BY <1>3
  <2> QED
    BY <1>4, <1>5, <2>1, Zenon DEF ParseIncoming
<1>8. ParseIncoming(t) = Read(t, r)
  BY <1>6, <1>7, Zenon DEF Read
<1>9. \A m \in 0 .. e : ParseIncoming(SubSeq(t, 1, m)) = [status |-> "incomplete"]
  BY <1>3, Zenon DEF ParseIncoming
<1> QED
  BY <1>8, <1>9

\* And it is read as it was meant.
LEMMA ReadAsMeant ==
    ASSUME NEW r \in RequestType, IsReadable(r), NEW t,
           NEW b \in Nat, NEW c \in Nat, NEW d \in Nat, NEW e \in Nat, Stands(t, r, b, c, d, e)
    PROVE  Read(t, r) = Meaning(r)
<1>1. r.before # "empty"
  BY DEF IsReadable
<1>2. /\ LinesEnd(t, b, c, d, e) /\ BeforeIs(t, r, b) /\ KeyIs(t, r, b, c)
      /\ ProtocolsAre(t, r, c, d) /\ AfterIs(r, d, e)
  BY DEF Stands
<1>3. PICK keys, protocols : /\ keys = Named(t, "sec-websocket-key")
                             /\ protocols = Named(t, "sec-websocket-protocol")
  OBVIOUS
<1>4. (keys # {} <=> c > b) /\ protocols = {j \in {c + 2} : d > c}
  BY <1>1, <1>3, NamedAre
<1>5. r.hasKey \in BOOLEAN /\ r.protocols \in Seq(Protocols)
  BY RequestFields
<1>6. (keys # {}) = r.hasKey
  BY <1>2, <1>4, <1>5 DEF KeyIs
<1>7. (IF protocols = {} THEN {} ELSE Tokenize(ValueAt(t, Max(protocols))))
          = {<<p>> : p \in ToSet(r.protocols)}
  <2>1. CASE r.protocols = <<>>
    <3>1. d = c
      BY <1>2, <2>1 DEF ProtocolsAre
    <3>2. protocols = {}
      BY <1>4, <3>1
    <3>3. ToSet(r.protocols) = {}
      BY <2>1 DEF ToSet
    <3> QED
      BY <3>2, <3>3
  <2>2. CASE r.protocols # <<>>
    <3>1. d > c
      BY <1>2, <2>2 DEF ProtocolsAre
    <3>2. protocols = {c + 2} /\ c + 2 \in protocols /\ protocols # {}
      BY <1>4, <3>1
    <3>3. Max(protocols) = c + 2
      <4>1. protocols \subseteq Nat /\ \A y \in protocols : c + 2 >= y
        BY <3>2
      <4>2. PICK x \in protocols : x = c + 2
        BY <3>2
      <4>3. \A y \in protocols : x >= y
        BY <4>1, <4>2
      <4>4. Max(protocols) = x
        BY <4>1, <4>3, MaxIs
      <4> QED
        BY <4>2, <4>4
    <3>4. ValueAt(t, c + 2) = Listed(r.protocols)
      BY <1>1, <1>2, <3>1, ValuesAre
    <3>5. Tokenize(Listed(r.protocols)) = {<<p>> : p \in ToSet(r.protocols)}
      <4>1. PICK ps \in Seq(Protocols) : ps = r.protocols
        BY <1>5
      <4>2. ps # <<>>
        BY <2>2, <4>1
      <4>3. Tokenize(Listed(ps)) = {<<p>> : p \in ToSet(ps)}
        BY <4>2, ListIsRead
      <4> QED
        BY <4>1, <4>3
    <3> QED
      BY <3>2, <3>3, <3>4, <3>5, Zenon
  <2> QED
    BY <2>1, <2>2
<1> QED
  BY <1>3, <1>6, <1>7, Zenon DEF Read, Meaning, IsReadable

-----------------------------------------------------------------------------
(* The request of a connection: the inductive invariant                    *)

\* p is the part of w tokens of t behind the first n.
IsPart(p, t, n, w) ==
    p \in Seq(Tokens) /\ Len(p) = w /\ \A i \in 1 .. w : p[i] = t[n + i]

\* Nothing is asked.
Idle ==
    /\ request = NoRequest /\ asked = NoRequest /\ answer = NoAnswer
    /\ data = <<>> /\ unread = <<>>

\* What was received of the request, and what was not yet, make its text.
Asking ==
    /\ request \in Requests /\ asked = NoRequest /\ answer = NoAnswer
    /\ \E n \in Nat, w \in Nat \ {0} :
          /\ Len(Text(request)) = n + w
          /\ IsPart(data, Text(request), 0, n) /\ IsPart(unread, Text(request), n, w)

\* All of it was received, and the handler was asked for what was read, or not at all.
Asked ==
    /\ request \in Requests /\ data = <<>> /\ unread = <<>>
    /\ asked \in {NoRequest, ParseIncoming(Text(request))}

\* What is read from is the request, as long as nothing was left out.
ReadInv ==
    /\ data \in Seq(Tokens) /\ unread \in Seq(Tokens)
    /\ ~left => Idle \/ Asking \/ Asked

\* The text of a request is read when all of it is there, and not before.
LEMMA TextIs ==
    ASSUME NEW r \in RequestType, NEW t, t = Text(r)
    PROVE  /\ t \in Seq(Tokens) /\ Len(t) \in Nat /\ Len(t) >= 1
           /\ ParseIncoming(t).status = "ready"
           /\ \A m \in 0 .. Len(t) - 1 : ParseIncoming(SubSeq(t, 1, m)).status = "incomplete"
           /\ IsReadable(r) => ParseIncoming(t) = Meaning(r)
<1>1. PICK b \in Nat, c \in Nat, d \in Nat, e \in Nat :
         /\ LinesEnd(t, b, c, d, e)
         /\ FirstIs(t, r) /\ BeforeIs(t, r, b) /\ KeyIs(t, r, b, c)
         /\ ProtocolsAre(t, r, c, d) /\ AfterIs(r, d, e)
  BY Shape
<1>2. Stands(t, r, b, c, d, e)
  BY <1>1, Zenon DEF Stands
<1>3. t \in Seq(Tokens) /\ Len(t) = e + 1
  BY <1>1 DEF LinesEnd
<1>4. /\ ParseIncoming(t) = Read(t, r)
      /\ \A m \in 0 .. e : ParseIncoming(SubSeq(t, 1, m)) = [status |-> "incomplete"]
  BY <1>2, ReadAtTheEnd
<1>5. Read(t, r).status = "ready"
  BY DEF Read
<1>6. IsReadable(r) => Read(t, r) = Meaning(r)
  BY <1>2, ReadAsMeant
<1>7. ASSUME NEW m \in 0 .. Len(t) - 1 PROVE ParseIncoming(SubSeq(t, 1, m)).status = "incomplete"
  <2>1. m \in 0 .. e
    BY <1>3
  <2>2. [status |-> "incomplete"].status = "incomplete"
    OBVIOUS
  <2> QED
    BY <1>4, <2>1, <2>2, Zenon
<1> QED
  BY <1>3, <1>4, <1>5, <1>6, <1>7

\* SubSeq gives a part.
LEMMA PartOf ==
    ASSUME NEW t \in Seq(Tokens), NEW n \in Nat, NEW w \in Nat, n + w <= Len(t),
           NEW x \in Nat, NEW y \in Nat, x = n + 1, y = n + w
    PROVE  IsPart(SubSeq(t, x, y), t, n, w)
<1>1. \A i \in x .. y : t[i] \in Tokens
  BY LenProperties, ElementOfSeq
<1>2. /\ SubSeq(t, x, y) \in Seq(Tokens)
      /\ Len(SubSeq(t, x, y)) = IF x <= y THEN y - x + 1 ELSE 0
      /\ \A i \in 1 .. y - x + 1 : SubSeq(t, x, y)[i] = t[x + i - 1]
  BY <1>1, SubSeqProperties
<1>3. y - x + 1 = w /\ (~(x <= y) => w = 0) /\ \A i \in 1 .. w : x + i - 1 = n + i
  OBVIOUS
<1> QED
  BY <1>2, <1>3 DEF IsPart

\* A text has one part at a place.
LEMMA PartsEqual ==
    ASSUME NEW t, NEW n, NEW w, NEW p, NEW q, IsPart(p, t, n, w), IsPart(q, t, n, w)
    PROVE  p = q
<1>1. /\ p \in Seq(Tokens) /\ q \in Seq(Tokens) /\ Len(p) = Len(q)
      /\ \A i \in 1 .. Len(p) : p[i] = q[i]
  BY DEF IsPart
<1> QED
  BY <1>1, SeqEqual

\* A part of a part.
LEMMA PartOfPart ==
    ASSUME NEW t, NEW u, NEW p, NEW n \in Nat, NEW w \in Nat, NEW k \in Nat, NEW v \in Nat,
           NEW m \in Nat, m = n + k, k + v <= w, IsPart(u, t, n, w), IsPart(p, u, k, v)
    PROVE  IsPart(p, t, m, v)
<1>1. p \in Seq(Tokens) /\ Len(p) = v
  BY DEF IsPart
<1>2. (\A i \in 1 .. v : p[i] = u[k + i]) /\ (\A i \in 1 .. w : u[i] = t[n + i])
  BY DEF IsPart
<1>3. ASSUME NEW i \in 1 .. v PROVE p[i] = t[m + i]
  <2>1. PICK j \in Nat : j = k + i
    OBVIOUS
  <2>2. j \in 1 .. w /\ n + j = m + i
    BY <2>1
  <2> QED
    BY <1>2, <2>1, <2>2
<1> QED
  BY <1>1, <1>3 DEF IsPart

\* Two parts that follow each other make one.
LEMMA PartsJoined ==
    ASSUME NEW t, NEW d, NEW p, NEW w \in Nat, NEW v \in Nat, NEW m \in Nat, m = w + v,
           IsPart(d, t, 0, w), IsPart(p, t, w, v)
    PROVE  IsPart(d \o p, t, 0, m)
<1>1. /\ d \in Seq(Tokens) /\ Len(d) = w /\ \A i \in 1 .. w : d[i] = t[i]
  <2>1. \A i \in 1 .. w : d[i] = t[0 + i] /\ 0 + i = i
    BY DEF IsPart
  <2> QED
    BY <2>1 DEF IsPart
<1>2. /\ p \in Seq(Tokens) /\ Len(p) = v /\ \A i \in 1 .. v : p[i] = t[w + i]
  BY DEF IsPart
<1>3. PICK s : s = d \o p
  OBVIOUS
<1>4. /\ s \in Seq(Tokens) /\ Len(s) = m
      /\ \A i \in 1 .. w : s[i] = d[i]
      /\ \A i \in 1 .. v : s[w + i] = p[i]
  <2>1. d \in Seq(Tokens) /\ p \in Seq(Tokens)
    BY <1>1, <1>2
  <2>2. /\ s \in Seq(Tokens) /\ Len(d) \in Nat /\ Len(p) \in Nat /\ Len(s) = Len(d) + Len(p)
        /\ \A j \in 1 .. Len(d) : s[j] = d[j]
        /\ \A k \in 1 .. Len(p) : s[Len(d) + k] = p[k]
    BY <1>3, <2>1, Behind
  <2>3. Len(d) = w /\ Len(p) = v
    BY <1>1, <1>2
  <2> QED
    BY <2>2, <2>3
<1>5. ASSUME NEW i \in 1 .. m PROVE s[i] = t[0 + i]
  <2>1. CASE i \in 1 .. w
    <3>1. 0 + i = i
      OBVIOUS
    <3> QED
      BY <1>1, <1>4, <2>1, <3>1
  <2>2. CASE i \notin 1 .. w
    <3>1. PICK j \in Nat : j = i - w
      BY <2>2
    <3>2. j \in 1 .. v /\ w + j = 0 + i /\ w + j = i
      BY <2>2, <3>1
    <3> QED
      BY <1>2, <1>4, <3>2
  <2> QED
    BY <2>1, <2>2
<1> QED
  BY <1>3, <1>4, <1>5 DEF IsPart

\* Nothing is asked at first.
LEMMA ReadInit == ConnectionInit => ReadInv
<1>1. <<>> \in Seq(Tokens)
  OBVIOUS
<1> QED
  BY <1>1 DEF ConnectionInit, ReadInv, Idle

\* The frames leave it alone.
LEMMA ReadStays == ReadInv /\ UNCHANGED upgrade => ReadInv'
BY DEF ReadInv, upgrade, Idle, Asking, Asked

\* A client asks when all it has sent was received: nothing of it is kept.
LEMMA AskKeeps ==
    ASSUME ReadInv, NEW r \in Requests, ClientAsks(r)
    PROVE  ReadInv'
<1>1. r \in RequestType /\ NoRequest \notin RequestType
  BY RequestsAssumption, UpgradeAssumption
<1>2. PICK t : t = Text(r)
  OBVIOUS
<1>3. t \in Seq(Tokens) /\ Len(t) \in Nat /\ Len(t) >= 1
  BY <1>1, <1>2, TextIs
<1>4. /\ request = NoRequest /\ request' = r /\ unread' = t /\ data' = data
      /\ asked' = asked /\ answer' = answer /\ left' = left
  BY <1>2 DEF ClientAsks
<1>5. data' \in Seq(Tokens) /\ unread' \in Seq(Tokens)
  BY <1>3, <1>4 DEF ReadInv
<1>6. ASSUME ~left'
      PROVE  Asking'
  <2>1. Idle
    <3>1. NoRequest \notin Requests
      BY <1>1, RequestsAssumption
    <3> QED
      BY <1>4, <1>6, <3>1 DEF ReadInv, Asking, Asked
  <2>2. PICK n \in Nat, w \in Nat \ {0} : n = 0 /\ w = Len(t)
    <3>1. 0 \in Nat /\ Len(t) \in Nat \ {0}
      BY <1>3
    <3> QED
      BY <3>1
  <2>3. IsPart(<<>>, t, 0, n)
    <3>1. <<>> \in Seq(Tokens) /\ Len(<<>>) = 0
      OBVIOUS
    <3> QED
      BY <2>2, <3>1 DEF IsPart
  <2>4. IsPart(t, t, n, w)
    <3>1. \A i \in 1 .. w : n + i = i
      BY <2>2
    <3> QED
      BY <1>3, <2>2, <3>1 DEF IsPart
  <2>5. Len(t) = n + w
    BY <2>2
  <2>6. /\ request' = r /\ asked' = NoRequest /\ answer' = NoAnswer
        /\ data' = <<>> /\ unread' = t
    BY <1>4, <2>1 DEF Idle
  <2>7. /\ request' \in Requests /\ Text(request') = t
    BY <1>2, <2>6
  <2> QED
    BY <2>3, <2>4, <2>5, <2>6, <2>7 DEF Asking
<1> QED
  BY <1>5, <1>6 DEF ReadInv

\* What was left out is of no consequence once nothing of it is left.
LEMMA AnswerKeeps ==
    ASSUME ReadInv, ClientReadsAnswer
    PROVE  ReadInv'
<1>1. /\ answer # NoAnswer /\ request' = NoRequest /\ asked' = NoRequest /\ answer' = NoAnswer
      /\ left' = (left /\ data \o unread # <<>>) /\ data' = data /\ unread' = unread
  BY DEF ClientReadsAnswer
<1>2. data \in Seq(Tokens) /\ unread \in Seq(Tokens)
  BY DEF ReadInv
<1>3. ASSUME ~left' PROVE Idle'
  <2>1. CASE left
    <3>1. data \o unread = <<>>
      BY <1>1, <1>3, <2>1
    <3>2. data = <<>> /\ unread = <<>>
      BY <1>2, <3>1, ConcatEqualIffEmpty
    <3> QED
      BY <1>1, <3>2 DEF Idle
  <2>2. CASE ~left
    BY <1>1, <2>2 DEF ReadInv, Idle, Asking, Asked
  <2> QED
    BY <2>1, <2>2
<1> QED
  BY <1>1, <1>2, <1>3 DEF ReadInv

\* A piece of a request is read behind what is kept of it, and all is dropped when the
\* request is complete.
LEMMA CheckKeeps ==
    ASSUME ReadInv, NEW k \in DOMAIN unread, CheckHTTPBuffer(k)
    PROVE  ReadInv'
<1>1. PICK p, q, text : /\ p = SubSeq(unread, 1, k) /\ q = SubSeq(unread, k + 1, Len(unread))
                        /\ text = data \o p
  OBVIOUS
<1>2. data \in Seq(Tokens) /\ unread \in Seq(Tokens)
  BY DEF ReadInv
<1>3. PICK w \in Nat, v \in Nat : w = Len(unread) /\ k \in 1 .. w /\ w = k + v
  <2>1. Len(unread) \in Nat /\ k \in 1 .. Len(unread)
    BY <1>2, LenProperties
  <2>2. Len(unread) - k \in Nat /\ Len(unread) = k + (Len(unread) - k)
    BY <2>1
  <2> QED
    BY <2>1, <2>2
<1>4. k \in Nat /\ 0 \in Nat /\ 0 + k <= Len(unread) /\ k + v <= Len(unread)
      /\ 1 \in Nat /\ 1 = 0 + 1 /\ k = 0 + k
  BY <1>3
<1>5. IsPart(p, unread, 0, k)
  BY <1>1, <1>2, <1>4, PartOf
<1>6. IsPart(q, unread, k, v)
  <2>1. PICK x \in Nat : x = k + 1
    BY <1>4
  <2>2. Len(unread) = k + v /\ Len(unread) \in Nat
    BY <1>3
  <2>3. IsPart(SubSeq(unread, x, Len(unread)), unread, k, v)
    BY <1>2, <1>4, <2>1, <2>2, PartOf
  <2> QED
    BY <1>1, <2>1, <2>3
<1>7. p \in Seq(Tokens) /\ q \in Seq(Tokens)
  BY <1>5, <1>6 DEF IsPart
<1>8. text \in Seq(Tokens)
  BY <1>1, <1>2, <1>7, ConcatProperties
<1>9. unread' = q /\ request' = request
  BY <1>1 DEF CheckHTTPBuffer
<1>10. \/ left' = TRUE /\ data' = data
       \/ /\ ~(Len(text) >= MaxData) /\ left' = left
          /\ data' = IF ParseIncoming(text).status = "ready" THEN <<>> ELSE text
          /\ \/ ParseIncoming(text).status = "ready" /\ asked' = ParseIncoming(text)
             \/ asked' = asked /\ answer' = answer
  BY <1>1, Zenon DEF CheckHTTPBuffer, Joined, Dropped, AskHandler
<1>11. data' \in Seq(Tokens) /\ unread' \in Seq(Tokens)
  <2>1. <<>> \in Seq(Tokens)
    OBVIOUS
  <2> QED
    BY <1>2, <1>7, <1>8, <1>9, <1>10, <2>1
<1>12. ASSUME ~left' PROVE Asking' \/ Asked'
  <2>1. ~left /\ data' = (IF ParseIncoming(text).status = "ready" THEN <<>> ELSE text)
    BY <1>10, <1>12
  <2>2. \/ ParseIncoming(text).status = "ready" /\ asked' = ParseIncoming(text)
        \/ asked' = asked /\ answer' = answer
    BY <1>10, <1>12
  <2>3. Asking
    <3>1. unread # <<>>
      <4>1. Len(<<>>) = 0
        OBVIOUS
      <4> QED
        BY <1>3, <4>1
    <3> QED
      BY <2>1, <3>1 DEF ReadInv, Idle, Asked
  <2>4. PICK t : t = Text(request)
    OBVIOUS
  <2>5. PICK n \in Nat, o \in Nat \ {0} :
          Len(t) = n + o /\ IsPart(data, t, 0, n) /\ IsPart(unread, t, n, o)
    BY <2>3, <2>4 DEF Asking
  <2>6. request \in Requests /\ asked = NoRequest /\ answer = NoAnswer
    BY <2>3 DEF Asking
  <2>7. request \in RequestType
    BY <2>6, RequestsAssumption
  <2>8. /\ t \in Seq(Tokens) /\ ParseIncoming(t).status = "ready"
        /\ \A i \in 0 .. Len(t) - 1 : ParseIncoming(SubSeq(t, 1, i)).status = "incomplete"
    BY <2>4, <2>7, TextIs
  <2>9. o = w
    BY <1>3, <2>5 DEF IsPart
  <2>10. PICK m \in Nat : m = n + k
    BY <1>4
  <2>11. Len(t) = m + v
    BY <1>3, <2>5, <2>9, <2>10
  <2>12. IsPart(p, t, n, k)
    <3>1. n \in Nat /\ w \in Nat /\ k \in Nat /\ 0 \in Nat /\ n = n + 0 /\ 0 + k <= w
      BY <1>3, <1>4
    <3>2. IsPart(unread, t, n, w)
      BY <2>5, <2>9
    <3> QED
      BY <1>5, <3>1, <3>2, PartOfPart
  <2>13. IsPart(q, t, m, v)
    <3>1. k + v <= w
      BY <1>3
    <3>2. IsPart(unread, t, n, w)
      BY <2>5, <2>9
    <3> QED
      BY <1>4, <1>6, <2>10, <3>1, <3>2, PartOfPart
  <2>14. IsPart(text, t, 0, m)
    <3>1. IsPart(data, t, 0, n)
      BY <2>5
    <3>2. IsPart(data \o p, t, 0, m)
      BY <1>4, <2>10, <2>12, <3>1, PartsJoined
    <3> QED
      BY <1>1, <3>2
  <2>15. text = SubSeq(t, 1, m)
    <3>1. 0 + m <= Len(t) /\ 1 = 0 + 1 /\ m = 0 + m /\ 0 \in Nat /\ 1 \in Nat
      BY <2>11
    <3>2. IsPart(SubSeq(t, 1, m), t, 0, m)
      BY <2>8, <3>1, PartOf
    <3> QED
      BY <2>14, <3>2, PartsEqual
  <2>16. CASE v = 0
    <3>1. m = Len(t)
      BY <2>11, <2>16
    <3>2. text = t
      <4>1. IsPart(t, t, 0, m)
        <5>1. \A i \in 1 .. m : 0 + i = i
          OBVIOUS
        <5> QED
          BY <2>8, <3>1, <5>1 DEF IsPart
      <4> QED
        BY <2>14, <4>1, PartsEqual
    <3>3. data' = <<>> /\ unread' = <<>>
      <4>1. Len(q) = 0
        BY <2>13, <2>16 DEF IsPart
      <4>2. q = <<>>
        BY <1>7, <4>1, EmptySeq
      <4> QED
        BY <1>9, <2>1, <2>8, <3>2, <4>2
    <3>4. asked' \in {NoRequest, ParseIncoming(Text(request'))}
      BY <1>9, <2>2, <2>4, <2>6, <3>2
    <3> QED
      BY <1>9, <2>6, <3>3, <3>4 DEF Asked
  <2>17. CASE v # 0
    <3>1. m \in 0 .. Len(t) - 1
      BY <2>11, <2>17
    <3>2. ParseIncoming(text).status = "incomplete"
      BY <2>8, <2>15, <3>1
    <3>3. data' = text /\ asked' = asked /\ answer' = answer
      BY <2>1, <2>2, <3>2
    <3>4. v \in Nat \ {0}
      BY <2>17
    <3>5. /\ Len(Text(request')) = m + v
          /\ IsPart(data', Text(request'), 0, m) /\ IsPart(unread', Text(request'), m, v)
      BY <1>9, <2>4, <2>11, <2>13, <2>14, <3>3
    <3> QED
      BY <1>9, <2>6, <3>3, <3>4, <3>5 DEF Asking
  <2> QED
    BY <2>16, <2>17
<1> QED
  BY <1>11, <1>12 DEF ReadInv

\* Each step of the connection keeps it.
LEMMA ReadNext == ReadInv /\ [ConnectionNext]_allVars => ReadInv'
<1> SUFFICES ASSUME ReadInv, [ConnectionNext]_allVars PROVE ReadInv'
  OBVIOUS
<1>1. CASE \E r \in Requests : ClientAsks(r)
  BY <1>1, AskKeeps
<1>2. CASE ClientReadsAnswer
  BY <1>2, AnswerKeeps
<1>3. CASE \E k \in DOMAIN unread : CheckHTTPBuffer(k)
  BY <1>3, CheckKeeps
<1>4. CASE UNCHANGED upgrade
  BY <1>4, ReadStays
<1>5. CASE \E f \in Frames : Speak(ClientSends(f))
  BY <1>4, <1>5 DEF Speak
<1>6. CASE \E k \in 1 .. RecvSize : Speak(Receive(k))
  BY <1>4, <1>6 DEF Speak
<1>7. CASE Speak(Parse)
  BY <1>4, <1>7 DEF Speak
<1>8. CASE UNCHANGED allVars
  BY <1>4, <1>8 DEF allVars
<1> QED
  BY <1>1, <1>2, <1>3, <1>5, <1>6, <1>7, <1>8 DEF ConnectionNext

\* However the network cuts a request, and whatever was refused on the connection before,
\* the handler is asked for what the client means.
THEOREM UpgradesAreRead == ConnectionSpec => []UpgradeIsRead
<1>1. ReadInv => UpgradeIsRead
  <2> SUFFICES ASSUME ReadInv, asked # NoRequest, ~left, IsReadable(request)
               PROVE  asked = Meaning(request)
    BY DEF UpgradeIsRead
  <2>1. request \in Requests /\ asked = ParseIncoming(Text(request))
    BY DEF ReadInv, Idle, Asking, Asked
  <2>2. request \in RequestType
    BY <2>1, RequestsAssumption
  <2> QED
    BY <2>1, <2>2, TextIs
<1> QED
  BY <1>1, ReadInit, ReadNext, PTL DEF ConnectionSpec

=============================================================================
