--------------------------- MODULE WSProtocolParser ---------------------------
(***************************************************************************)
(* websocket/WSProtocolParser.cpp with the loop that drives it,            *)
(* WebSocket::processData: the frames of one client, cut by the network in *)
(* pieces that need not agree with them, put together again by counting    *)
(* bytes.  The content of a payload is left out; its length, and every     *)
(* byte of the header the parser looks at, are there.                      *)
(*                                                                         *)
(* A size_t has Width bits.  char is signed, as it is on x86.              *)
(***************************************************************************)
EXTENDS Naturals, Sequences, SequencesExt

CONSTANTS Frames,       \* what the client may send
          MaxFrames,    \* bound: frames the client sends
          RecvSize,     \* size of processReceive's buffer
          DefaultSize,  \* DEFAULT_DATA_SIZE
          Width         \* bits of a size_t

Opcodes == {"text", "ping", "close", "other"}

\* A frame as it is on the wire: the payload size field is 7 bits and less than
\* 126, or says that 2 or 8 bytes follow, of which all but the last two are 0 here.
FrameType ==
    {f \in [opcode : Opcodes, masked : BOOLEAN, extra : {0, 2, 8},
            high : 0 .. 255, low : 0 .. 255] : f.extra = 0 => f.high = 0 /\ f.low < 126}

BaseHeader == 2
LongestHeader == 14
Modulus == 2 ^ Width

ASSUME FramesAssumption == Frames \subseteq FrameType

\* A buffer of the default size holds any header, and a size_t is large.
ASSUME SizesAssumption ==
    /\ RecvSize \in Nat \ {0} /\ DefaultSize \in Nat /\ DefaultSize >= LongestHeader
    /\ Modulus \in Nat /\ Modulus >= 4 * 256 * 256 /\ RecvSize < Modulus - LongestHeader
ASSUME MaxFramesAssumption == MaxFrames \in Nat

VARIABLES sent,            \* frames the client has sent
          ends,            \* where each of them ends, in the bytes of all
          wire,            \* bytes of them not yet received
          dataIndex,       \* bytes of the frame in the buffer
          expectedLength,  \* bytes to wait for
          bufferSize,      \* currentBufferSize
          pc,              \* "idle", in the loop of processData, or crashed
          size,            \* bytes processData has still to look at
          frame,           \* the frame the bytes in the buffer belong to
          delivered,       \* frames processed, in order
          state            \* WebSocket::connectionState

parser == <<dataIndex, expectedLength, bufferSize>>
vars == <<sent, ends, wire, parser, pc, size, frame, delivered, state>>

HeaderSize(f) == BaseHeader + (IF f.masked THEN 4 ELSE 0) + f.extra

\* The length the client meant.
PayloadLength(f) == 256 * f.high + f.low

FrameLength(f) == HeaderSize(f) + PayloadLength(f)

EndOf(k) == IF k = 0 THEN 0 ELSE ends[k]

TypeOK ==
    /\ sent \in Seq(Frames) /\ Len(sent) <= MaxFrames
    /\ ends \in Seq(Nat) /\ Len(ends) = Len(sent)
    /\ wire \in 0 .. EndOf(Len(sent))
    /\ dataIndex \in 0 .. Modulus - 1
    /\ expectedLength \in 0 .. Modulus - 1
    /\ bufferSize \in Nat /\ bufferSize >= DefaultSize
    /\ pc \in {"idle", "parse", "crashed"}
    /\ size \in 0 .. RecvSize
    /\ frame \in 1 .. MaxFrames + 1
    /\ \A k \in DOMAIN delivered : delivered[k] \in DOMAIN sent
    /\ state \in {"connected", "closing", "closed"}

Init ==
    /\ sent = <<>>
    /\ ends = <<>>
    /\ wire = 0
    /\ dataIndex = 0
    /\ expectedLength = BaseHeader
    /\ bufferSize = DefaultSize
    /\ pc = "idle"
    /\ size = 0
    /\ frame = 1
    /\ delivered = <<>>
    /\ state = "connected"

-----------------------------------------------------------------------------

ClientSends(f) ==
    /\ Len(sent) < MaxFrames
    /\ sent' = Append(sent, f)
    /\ ends' = Append(ends, EndOf(Len(sent)) + FrameLength(f))
    /\ wire' = wire + FrameLength(f)
    /\ UNCHANGED <<parser, pc, size, frame, delivered, state>>

\* recv() returns n bytes, and processData loops over them.  A connection that
\* is closed is not read from any more.
Receive(n) ==
    /\ pc = "idle"
    /\ state # "closed"
    /\ n <= wire
    /\ wire' = wire - n
    /\ size' = n
    /\ pc' = "parse"
    /\ UNCHANGED <<sent, ends, parser, frame, delivered, state>>

-----------------------------------------------------------------------------
(* parseWSMessage()                                                        *)

\* (size_t) of a char
Widened(byte) == IF byte < 128 THEN byte ELSE Modulus - 256 + byte

\* A widened byte << 8: the bits its sign has set above it stay set.
Shifted(byte) == IF byte < 128 THEN 256 * byte ELSE Modulus - 256 * (256 - byte)

\* The two last bytes of the length, widened one by one and or-ed together: a
\* low byte of 128 or more has set every bit above it.
WidenedLength(high, low) == IF low < 128 THEN Shifted(high) + low ELSE Widened(low)

\* payloadSize as the parser computes it
DecodedLength(f) == IF f.extra = 0 THEN f.low ELSE WidenedLength(f.high, f.low)

\* toRead: the bytes still expected, in size_t arithmetic, or all there are.
ToRead ==
    IF dataIndex + size > expectedLength
    THEN (expectedLength + Modulus - dataIndex) % Modulus
    ELSE size

\* memcpy of more bytes than there are
ParseOverrun ==
    /\ pc = "parse" /\ size > 0
    /\ ToRead > size
    /\ pc' = "crashed"
    /\ UNCHANGED <<sent, ends, wire, parser, size, frame, delivered, state>>

\* The bytes taken are copied behind those of the frame that are there.
Copy ==
    /\ pc = "parse" /\ size > 0
    /\ ToRead <= size
    /\ dataIndex' = dataIndex + ToRead

Take == Copy /\ size' = size - ToRead

Whole == dataIndex' = expectedLength

\* The frame is still shorter than expected, or, after a length that wrapped,
\* what was expected is less than a header.
ParsePart ==
    /\ Take
    /\ Whole => /\ sent[frame].masked
                /\ expectedLength # BaseHeader
                /\ expectedLength < HeaderSize(sent[frame])
    /\ UNCHANGED <<sent, ends, wire, expectedLength, bufferSize, pc, frame, delivered, state>>

\* closeWebSocket(): the state, whatever it was, becomes Closing.
CloseWebSocket == state' = "closing"

\* An unmasked frame is an error: the rest of the bytes received is dropped, and
\* the parser is left as it is.
ParseUnmasked ==
    /\ Copy
    /\ Whole
    /\ ~sent[frame].masked
    /\ CloseWebSocket
    /\ size' = 0
    /\ UNCHANGED <<sent, ends, wire, expectedLength, bufferSize, pc, frame, delivered>>

\* The two bytes every header has are there: the rest of it is expected.
ParseHeaderStart ==
    /\ Take
    /\ Whole
    /\ sent[frame].masked
    /\ expectedLength = BaseHeader
    /\ expectedLength' = HeaderSize(sent[frame])
    /\ UNCHANGED <<sent, ends, wire, bufferSize, pc, frame, delivered, state>>

\* Mutant of Grown: the buffer keeps its size.
NotGrown(n) == bufferSize

\* The buffer is made as large as what is expected.
Grown(n) == IF n > bufferSize THEN n ELSE bufferSize

\* The header is there: the payload is expected.  A length beyond any memory is
\* refused by the allocator, which ends the program.
ParseHeader ==
    /\ Take
    /\ Whole
    /\ sent[frame].masked
    /\ expectedLength # BaseHeader
    /\ dataIndex' = HeaderSize(sent[frame])
    /\ expectedLength' = (HeaderSize(sent[frame]) + DecodedLength(sent[frame])) % Modulus
    /\ IF expectedLength' >= Modulus \div 2
       THEN pc' = "crashed" /\ UNCHANGED bufferSize
       ELSE bufferSize' = Grown(expectedLength') /\ UNCHANGED pc
    /\ UNCHANGED <<sent, ends, wire, frame, delivered, state>>

\* Mutant of Reset: the length of the last frame is still expected.
ResetIndexOnly == dataIndex' = 0 /\ UNCHANGED <<expectedLength, bufferSize>>

\* resetMessageBuffer
Reset ==
    /\ dataIndex' = 0
    /\ expectedLength' = BaseHeader
    /\ bufferSize' = IF bufferSize > DefaultSize THEN DefaultSize ELSE bufferSize

Ready ==
    /\ pc = "parse" /\ size > 0
    /\ ToRead <= size
    /\ dataIndex + ToRead = expectedLength
    /\ sent[frame].masked
    /\ expectedLength > HeaderSize(sent[frame])

\* Mutant of ParseFrame: the loop ends with the first frame that is whole.
ParseOneFrame ==
    /\ Ready
    /\ sent[frame].opcode # "other"
    /\ size' = 0
    /\ delivered' = Append(delivered, frame)
    /\ frame' = frame + 1
    /\ state' = IF sent[frame].opcode = "close" THEN "closed" ELSE state
    /\ Reset
    /\ UNCHANGED <<sent, ends, wire, pc>>

\* A whole frame: processWholeWSPacket.  A Close is answered and the connection
\* closed, whichever side began; the loop goes on with what is left.
ParseFrame ==
    /\ Ready
    /\ sent[frame].opcode # "other"
    /\ size' = size - ToRead
    /\ delivered' = Append(delivered, frame)
    /\ frame' = frame + 1
    /\ state' = IF sent[frame].opcode = "close" THEN "closed" ELSE state
    /\ Reset
    /\ UNCHANGED <<sent, ends, wire, pc>>

\* A frame with another opcode: the parser is not reset.
ParseOther ==
    /\ Ready
    /\ sent[frame].opcode = "other"
    /\ size' = size - ToRead
    /\ dataIndex' = dataIndex + ToRead
    /\ CloseWebSocket
    /\ UNCHANGED <<sent, ends, wire, expectedLength, bufferSize, pc, frame, delivered>>

\* Mutant of EndLoop: the loop waits for the rest of the frame.
EndLoopWhole ==
    /\ pc = "parse"
    /\ size = 0
    /\ dataIndex = 0
    /\ pc' = "idle"
    /\ UNCHANGED <<sent, ends, wire, parser, size, frame, delivered, state>>

EndLoop ==
    /\ pc = "parse"
    /\ size = 0
    /\ pc' = "idle"
    /\ UNCHANGED <<sent, ends, wire, parser, size, frame, delivered, state>>

Parse ==
    \/ ParseOverrun \/ ParsePart \/ ParseUnmasked \/ ParseHeaderStart \/ ParseHeader
    \/ ParseFrame \/ ParseOther \/ EndLoop

-----------------------------------------------------------------------------

Next ==
    \/ \E f \in Frames : ClientSends(f)
    \/ \E n \in 1 .. RecvSize : Receive(n)
    \/ Parse

Spec == Init /\ [][Next]_vars

-----------------------------------------------------------------------------
(* Properties                                                              *)

\* However the network cuts the frames, each is processed once, in order, and
\* with the bytes that are its own: the parser never loses track of where a
\* frame begins, as long as no frame was in error.
InStep ==
    /\ delivered = [k \in 1 .. frame - 1 |-> k]
    /\ frame <= Len(sent) + 1
    /\ pc # "crashed" /\ state # "closing" =>
           EndOf(frame - 1) + dataIndex + size + wire = EndOf(Len(sent))

\* The bytes the parser copies stay inside its buffer.
BufferHolds == dataIndex <= bufferSize

\* The code goes astray after a frame with another opcode, which leaves the parser
\* as it is, and after one with a length it reads wrong.
Astray == state = "closing" \/ pc = "crashed"

\* Every frame that was sent is processed, unless the connection closes.
FrameIsProcessed ==
    \A k \in 1 .. MaxFrames :
        k \in DOMAIN sent ~> (k \in ToSet(delivered) \/ state = "closed" \/ Astray)

=============================================================================
