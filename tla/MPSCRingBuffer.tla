--------------------------- MODULE MPSCRingBuffer ---------------------------
(***************************************************************************)
(* The multi-producer, single-consumer ring of utils/MPSCRingBuffer.h.     *)
(* Any number of threads call put(), one thread calls get(), and nothing   *)
(* but a compare-and-swap on tail protects them.  Every access to a shared *)
(* word is a step of its own, so that two calls interleave between any two *)
(* accesses.                                                               *)
(*                                                                         *)
(* The class does not say who keeps the ring from filling up.  Callers are *)
(* modelled with a limit MaxOutstanding on the items they have in flight   *)
(* (reserved in the ring, or in a put() that has not reserved its slot):   *)
(* Size - 1 or less is a caller that never fills the ring, anything above  *)
(* Size + |Producers| is a caller that does not care.                      *)
(***************************************************************************)
EXTENDS Naturals, FiniteSets

CONSTANTS Producers,       \* the threads that call put()
          Items,           \* what they put
          Size,            \* the constructor's argument
          MaxOutstanding,  \* limit on the items in flight
          NoItem           \* the content of a slot never written

ASSUME ProducersAssumption == IsFiniteSet(Producers)
ASSUME SizeAssumption == Size \in Nat /\ Size >= 2
ASSUME MaxOutstandingAssumption == MaxOutstanding \in Nat
ASSUME NoItemAssumption == NoItem \notin Items

VARIABLES head,      \* the next slot to read
          tail,      \* the next slot to reserve
          items,     \* items[s].item
          valid,     \* items[s].valid
          pc,        \* where each producer is in put()
          oldTail,   \* put()'s local of that name
          item,      \* put()'s argument
          result,    \* what the last put() of each producer returned
          cpc,       \* where the consumer is in get()
          got,       \* get()'s out parameter
          received   \* what the last get() that returned true delivered

shared == <<head, tail, items, valid>>
producer == <<pc, oldTail, item, result>>
consumer == <<cpc, got, received>>
vars == <<shared, producer, consumer>>

Slots == 0 .. Size - 1

\* Mutant of NextSlot: the index runs off the ring.
NextSlotNoWrap(s) == s + 1

\* (i + 1) % size
NextSlot(s) == (s + 1) % Size

\* The slots from one index to another, going round the ring.
Dist(from, to) == IF to >= from THEN to - from ELSE to - from + Size

newTail(p) == NextSlot(oldTail[p])

\* Where a producer can be in put(), before and after it has its slot.
Unreserved == {"cas", "reload", "recheck"}
Reserved == {"check", "storeItem", "storeValid"}

Reserving == {p \in Producers : pc[p] \in Unreserved}
Owners == {p \in Producers : pc[p] \in Reserved}

Outstanding == Dist(head, tail) + Cardinality(Reserving)

\* The slots get() has still to read.
Occupied == {s \in Slots : Dist(head, s) < Dist(head, tail)}

TypeOK ==
    /\ head \in Slots
    /\ tail \in Slots
    /\ items \in [Slots -> Items \cup {NoItem}]
    /\ valid \in [Slots -> BOOLEAN]
    /\ pc \in [Producers -> {"idle"} \cup Unreserved \cup Reserved]
    /\ oldTail \in [Producers -> Slots]
    /\ item \in [Producers -> Items \cup {NoItem}]
    /\ result \in [Producers -> {"none", "true", "false"}]
    /\ cpc \in {"idle", "valid", "load", "clear", "advance"}
    /\ got \in Items \cup {NoItem}
    /\ received \in Items \cup {NoItem}

Init ==
    /\ head = 0
    /\ tail = 0
    /\ items = [s \in Slots |-> NoItem]
    /\ valid = [s \in Slots |-> FALSE]
    /\ pc = [p \in Producers |-> "idle"]
    /\ oldTail = [p \in Producers |-> 0]
    /\ item = [p \in Producers |-> NoItem]
    /\ result = [p \in Producers |-> "none"]
    /\ cpc = "idle"
    /\ got = NoItem
    /\ received = NoItem

-----------------------------------------------------------------------------
(* put()                                                                   *)

Goto(p, label) == pc' = [pc EXCEPT ![p] = label]

\* The locals of put() die with the call.
Return(p, value) ==
    /\ Goto(p, "idle")
    /\ result' = [result EXCEPT ![p] = value]
    /\ oldTail' = [oldTail EXCEPT ![p] = 0]
    /\ item' = [item EXCEPT ![p] = NoItem]

Continue(p, label) ==
    /\ Goto(p, label)
    /\ UNCHANGED <<result, oldTail, item>>

\* put(i) is called and loads tail.
BeginPut(p, i) ==
    /\ pc[p] = "idle"
    /\ Outstanding < MaxOutstanding
    /\ item' = [item EXCEPT ![p] = i]
    /\ oldTail' = [oldTail EXCEPT ![p] = tail]
    /\ result' = [result EXCEPT ![p] = "none"]
    /\ Goto(p, "cas")
    /\ UNCHANGED <<shared, consumer>>

\* Mutant of CasSucceeds: tail is stored without being compared.
StoreTailBlindly(p) ==
    /\ pc[p] = "cas"
    /\ tail' = newTail(p)
    /\ Continue(p, "check")
    /\ UNCHANGED <<head, items, valid, consumer>>

\* The compare-and-swap finds the tail that was loaded: the slot is reserved.
CasSucceeds(p) ==
    /\ pc[p] = "cas"
    /\ tail = oldTail[p]
    /\ tail' = newTail(p)
    /\ Continue(p, "check")
    /\ UNCHANGED <<head, items, valid, consumer>>

\* Another producer moved tail first.
CasFails(p) ==
    /\ pc[p] = "cas"
    /\ tail # oldTail[p]
    /\ Continue(p, "reload")
    /\ UNCHANGED <<shared, consumer>>

\* Mutant of Reload: the loop goes on with the tail of the first attempt.
ReloadNothing(p) ==
    /\ pc[p] = "reload"
    /\ Goto(p, "recheck")
    /\ UNCHANGED <<shared, oldTail, item, result, consumer>>

Reload(p) ==
    /\ pc[p] = "reload"
    /\ oldTail' = [oldTail EXCEPT ![p] = tail]
    /\ Goto(p, "recheck")
    /\ UNCHANGED <<shared, item, result, consumer>>

\* The overflow test inside the loop, made before a slot is reserved.
Recheck(p) ==
    /\ pc[p] = "recheck"
    /\ IF newTail(p) = head
       THEN Return(p, "false")
       ELSE Continue(p, "cas")
    /\ UNCHANGED <<shared, consumer>>

\* Mutant of Check: the test keeps one more slot in reserve.
CheckEarly(p) ==
    /\ pc[p] = "check"
    /\ IF NextSlot(newTail(p)) = head
       THEN Return(p, "false")
       ELSE Continue(p, "storeItem")
    /\ UNCHANGED <<shared, consumer>>

\* The overflow test after the loop, made with the slot already reserved.
Check(p) ==
    /\ pc[p] = "check"
    /\ IF newTail(p) = head
       THEN Return(p, "false")
       ELSE Continue(p, "storeItem")
    /\ UNCHANGED <<shared, consumer>>

StoreItem(p) ==
    /\ pc[p] = "storeItem"
    /\ items' = [items EXCEPT ![oldTail[p]] = item[p]]
    /\ Continue(p, "storeValid")
    /\ UNCHANGED <<head, tail, valid, consumer>>

StoreValid(p) ==
    /\ pc[p] = "storeValid"
    /\ valid' = [valid EXCEPT ![oldTail[p]] = TRUE]
    /\ Return(p, "true")
    /\ UNCHANGED <<head, tail, items, consumer>>

PutStep(p) ==
    \/ CasSucceeds(p) \/ CasFails(p)
    \/ Reload(p) \/ Recheck(p)
    \/ Check(p) \/ StoreItem(p) \/ StoreValid(p)

-----------------------------------------------------------------------------
(* get()                                                                   *)

\* get() is called and compares head with tail.
CheckEmpty ==
    /\ cpc = "idle"
    /\ head # tail
    /\ cpc' = "valid"
    /\ UNCHANGED <<shared, producer, got, received>>

\* Mutant of CheckValid: a reserved slot is taken for a filled one.
TrustTail ==
    /\ cpc = "valid"
    /\ cpc' = "load"
    /\ UNCHANGED <<shared, producer, got, received>>

\* The slot may be reserved and not yet filled: get() then returns false.
CheckValid ==
    /\ cpc = "valid"
    /\ cpc' = IF valid[head] THEN "load" ELSE "idle"
    /\ UNCHANGED <<shared, producer, got, received>>

LoadItem ==
    /\ cpc = "load"
    /\ got' = items[head]
    /\ cpc' = "clear"
    /\ UNCHANGED <<shared, producer, received>>

\* Mutant of ClearValid: the slot is left valid.
LeaveValid ==
    /\ cpc = "clear"
    /\ cpc' = "advance"
    /\ UNCHANGED <<shared, producer, got, received>>

ClearValid ==
    /\ cpc = "clear"
    /\ valid' = [valid EXCEPT ![head] = FALSE]
    /\ cpc' = "advance"
    /\ UNCHANGED <<head, tail, items, producer, got, received>>

\* get() moves head and returns true.
AdvanceHead ==
    /\ cpc = "advance"
    /\ head' = NextSlot(head)
    /\ received' = got
    /\ cpc' = "idle"
    /\ UNCHANGED <<tail, items, valid, producer, got>>

GetStep == CheckEmpty \/ CheckValid \/ LoadItem \/ ClearValid \/ AdvanceHead

-----------------------------------------------------------------------------

Next ==
    \/ \E p \in Producers : PutStep(p) \/ (\E i \in Items : BeginPut(p, i))
    \/ GetStep

\* A thread inside put() keeps running, and the consumer keeps calling get().
\* Nothing makes anybody call put().
Fairness ==
    /\ \A p \in Producers : WF_vars(PutStep(p))
    /\ WF_vars(GetStep)

Spec == Init /\ [][Next]_vars

FairSpec == Spec /\ Fairness

-----------------------------------------------------------------------------
(* Properties                                                              *)

\* A slot belongs to one thread at a time: two producers never fill the same
\* slot, and no producer fills the slot get() is reading.  This is what the
\* compare-and-swap of put() is there for.
SlotExclusive ==
    /\ \A p, q \in Owners : p # q => oldTail[p] # oldTail[q]
    /\ cpc \in {"load", "clear", "advance"} =>
           \A p \in Owners : oldTail[p] # head

\* A slot that was reserved is filled: the second overflow test of put(),
\* which gives up after tail has moved, is never the one that fails.
ReservedIsFilled ==
    \A p \in Producers : pc[p] = "check" => newTail(p) # head

\* Once nobody is inside a call, the ring holds its items between head and
\* tail and nothing anywhere else: none is stranded, none will come twice.
NothingStranded ==
    (cpc = "idle" /\ \A p \in Producers : pc[p] = "idle") =>
        \A s \in Slots : valid[s] <=> s \in Occupied

\* get() is never stuck behind a slot nobody will fill, overflow or not: once
\* the producers are out of put(), a ring that is not empty can be read.
NeverWedged ==
    (cpc = "idle" /\ head # tail /\ \A p \in Producers : pc[p] = "idle") =>
        valid[head]

\* What the three invariants rest on, for callers that never fill the ring
\* (the inductive invariant of MPSCRingBuffer_proofs).

\* The callers' limit counts the producers that have no slot yet.
SpaceInv == Outstanding <= MaxOutstanding

\* An owner's slot is between head and tail, and not yet valid.
OwnerInv == \A p \in Owners : oldTail[p] \in Occupied /\ ~valid[oldTail[p]]

OwnersDistinct == \A p, q \in Owners : p # q => oldTail[p] # oldTail[q]

\* Between head and tail a slot is valid, or owned, or the one get() has just
\* cleared; elsewhere it is invalid.
SlotInv ==
    /\ \A s \in Slots : valid[s] => s \in Occupied
    /\ \A s \in Occupied : \/ valid[s]
                           \/ \E p \in Owners : oldTail[p] = s
                           \/ s = head /\ cpc = "advance"

\* What get() found stays true while it acts on it.
ConsumerInv ==
    /\ cpc # "idle" => head # tail
    /\ cpc \in {"load", "clear"} => valid[head]
    /\ cpc = "advance" => /\ ~valid[head]
                          /\ \A p \in Owners : oldTail[p] # head

IInv == TypeOK /\ SpaceInv /\ OwnerInv /\ OwnersDistinct /\ SlotInv /\ ConsumerInv

\* An item put() accepted is read, whatever the other producers do.
PublishedIsRead == \A s \in Slots : valid[s] ~> ~valid[s]

\* put() is lock-free: as long as some producer is inside put(), calls of put()
\* return again and again; nobody is kept in the loop but by another's success.
LockFree ==
    \/ []<>(\A p \in Producers : pc[p] = "idle")
    \/ []<><<\E p \in Producers : pc[p] # "idle" /\ pc'[p] = "idle">>_vars

=============================================================================
