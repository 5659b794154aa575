------------------------------- MODULE Channel -------------------------------
(***************************************************************************)
(* What a connection promises to those that send on it: messages arrive in *)
(* the order in which they were queued, each once, and none that was not   *)
(* queued; when the connection ends those that wait are dropped, and none  *)
(* arrives any more.  WebServer and WebSocketServer implement it.          *)
(***************************************************************************)
EXTENDS Sequences, SequencesExt

CONSTANT Ends  \* the connections

VARIABLES queue,  \* messages that wait
          sent,   \* messages that have arrived
          ended

vars == <<queue, sent, ended>>

Init ==
    /\ queue = [c \in Ends |-> <<>>]
    /\ sent = [c \in Ends |-> <<>>]
    /\ ended = [c \in Ends |-> FALSE]

\* Messages are put at the end, and arrive from the beginning, any number at once.
Carry(c) ==
    /\ ~ended[c] /\ ~ended'[c]
    /\ IsPrefix(sent[c], sent'[c])
    /\ IsPrefix(sent[c] \o queue[c], sent'[c] \o queue'[c])

\* The connection ends; what was sent in the same step has arrived.
End(c) ==
    /\ ~ended[c] /\ ended'[c]
    /\ queue'[c] = <<>>
    /\ IsPrefix(sent[c], sent'[c])
    /\ IsPrefix(sent'[c], sent[c] \o queue[c])

Ended(c) == ended[c] /\ ended'[c] /\ UNCHANGED <<queue[c], sent[c]>>

Next == \A c \in Ends : Carry(c) \/ End(c) \/ Ended(c)

Spec == Init /\ [][Next]_vars

=============================================================================
