--------------------------- MODULE MCWSConnection ---------------------------
(* A client for a connection.  A length is small, so that a frame fits in a  *)
(* few pieces; one is over the sign bit of its byte, and the parser reads it *)
(* in another way than the client wrote it.                                  *)
EXTENDS WSConnection

Frame(opcode, extra, low) ==
    [opcode |-> opcode, masked |-> TRUE, extra |-> extra, high |-> 0, low |-> low]

\* What a client that respects the protocol, and never sends an empty frame,
\* sends; and a frame with an opcode the server does not know, an unmasked one, and
\* two with a length whose low byte is 128 or more.
TheFrames ==
    {Frame("text", 0, 1), Frame("text", 2, 12), Frame("ping", 8, 3), Frame("close", 0, 2),
     Frame("other", 0, 1), [Frame("text", 0, 1) EXCEPT !.masked = FALSE],
     Frame("text", 2, 200), Frame("text", 2, 250)}

\* The longest request that fits has one token less than MaxData.
Request(before, protocols, after) ==
    [type |-> "GET", before |-> before, hasKey |-> TRUE, protocols |-> protocols,
     after |-> after]

TheRequests ==
    {Request("nothing", <<"chat", "echo">>, "nothing"), Request("nothing", <<"echo">>, "empty"),
     Request("empty", <<"echo">>, "nothing"), Request("long", <<"echo">>, "nothing"),
     [Request("nothing", <<>>, "nothing") EXCEPT !.hasKey = FALSE],
     [Request("nothing", <<>>, "nothing") EXCEPT !.type = "POST"]}

TheLowerCase ==
    [name \in {"Sec-WebSocket-Key", "Sec-WebSocket-Protocol", "Cookie", "X-Empty"} |->
        CASE name = "Sec-WebSocket-Key" -> "sec-websocket-key"
          [] name = "Sec-WebSocket-Protocol" -> "sec-websocket-protocol"
          [] name = "Cookie" -> "cookie"
          [] name = "X-Empty" -> "x-empty"]
=============================================================================
