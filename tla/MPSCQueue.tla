------------------------------ MODULE MPSCQueue ------------------------------
(***************************************************************************)
(* What a multi-producer, single-consumer queue promises.  A producer that *)
(* is let in takes its place in the queue first and fills it later; the    *)
(* consumer reads the first place once it is filled; a producer may be     *)
(* turned away, and then leaves nothing behind.                            *)
(***************************************************************************)
EXTENDS Naturals, Sequences

CONSTANTS Producers, Items, Capacity, NoItem, Nobody

VARIABLES queue,     \* the places taken, in order: an item, and who is still filling it
          status,    \* what each producer is doing
          result,    \* what its last call answered
          received   \* the last item read

vars == <<queue, status, result, received>>

Filled(place) == place.owner = Nobody

Init ==
    /\ queue = <<>>
    /\ status = [p \in Producers |-> "idle"]
    /\ result = [p \in Producers |-> "none"]
    /\ received = NoItem

Return(p, answer) ==
    /\ status' = [status EXCEPT ![p] = "idle"]
    /\ result' = [result EXCEPT ![p] = answer]

Call(p) ==
    /\ status[p] = "idle"
    /\ status' = [status EXCEPT ![p] = "calling"]
    /\ result' = [result EXCEPT ![p] = "none"]
    /\ UNCHANGED <<queue, received>>

Reserve(p, i) ==
    /\ status[p] = "calling"
    /\ Len(queue) < Capacity
    /\ queue' = Append(queue, [item |-> i, owner |-> p])
    /\ status' = [status EXCEPT ![p] = "filling"]
    /\ UNCHANGED <<result, received>>

Fill(p, k) ==
    /\ status[p] = "filling"
    /\ queue[k].owner = p
    /\ queue' = [queue EXCEPT ![k].owner = Nobody]
    /\ Return(p, "true")
    /\ UNCHANGED received

Refuse(p) ==
    /\ status[p] = "calling"
    /\ Return(p, "false")
    /\ UNCHANGED <<queue, received>>

Read ==
    /\ queue # <<>>
    /\ Filled(Head(queue))
    /\ received' = Head(queue).item
    /\ queue' = Tail(queue)
    /\ UNCHANGED <<status, result>>

Next ==
    \/ \E p \in Producers :
           \/ Call(p) \/ Refuse(p)
           \/ \E i \in Items : Reserve(p, i)
           \/ \E k \in DOMAIN queue : Fill(p, k)
    \/ Read

Spec == Init /\ [][Next]_vars

=============================================================================
