----------------------- MODULE MPSCRingBufferRefinement -----------------------
(***************************************************************************)
(* The ring as an implementation of MPSCQueue, for callers that never fill *)
(* it: the queue is what lies between head and tail.                       *)
(***************************************************************************)
EXTENDS MPSCRingBuffer, Sequences

CONSTANT Nobody

ASSUME NobodyAssumption == Nobody \notin Producers

Owner(s) == IF \E p \in Owners : oldTail[p] = s
            THEN CHOOSE p \in Owners : oldTail[p] = s
            ELSE Nobody

\* A place that is not filled yet will hold its owner's argument.
PlaceAt(s) ==
    [item  |-> IF Owner(s) = Nobody THEN items[s] ELSE item[Owner(s)],
     owner |-> Owner(s)]

queue == [k \in 1 .. Dist(head, tail) |-> PlaceAt((head + k - 1) % Size)]

status == [p \in Producers |-> CASE pc[p] = "idle" -> "idle"
                                 [] pc[p] \in Unreserved -> "calling"
                                 [] pc[p] \in Reserved -> "filling"]

Queue == INSTANCE MPSCQueue WITH Capacity <- Size - 1

\* Every put() and get() of the ring is a step of a queue: items come out once,
\* in the order the slots were reserved, with the value that was put, and a
\* put() that returned false has left the queue as it was.
ImplementsQueue == Queue!Spec

=============================================================================
