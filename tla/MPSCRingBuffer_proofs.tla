------------------------ MODULE MPSCRingBuffer_proofs ------------------------
(***************************************************************************)
(* Safety of the ring, and that it implements the queue, for every size,   *)
(* every set of items and every finite set of producers, as long as the    *)
(* callers never have Size items in flight.  For the queue its places are  *)
(* told by their distance from head; what each holds rests on ContentInv,  *)
(* on top of the inductive invariant of the safety proofs.                 *)
(***************************************************************************)
EXTENDS MPSCRingBufferRefinement, FiniteSetTheorems, SequenceTheorems, TLAPS

-----------------------------------------------------------------------------
(* Going round the ring                                                    *)

\* (s + 1) % size is the next slot, or slot 0 after the last one.
LEMMA NextSlotValue ==
    ASSUME NEW s \in Slots
    PROVE  /\ NextSlot(s) = IF s + 1 = Size THEN 0 ELSE s + 1
           /\ NextSlot(s) \in Slots
<1>1. Size \in Nat /\ Size >= 2
  BY SizeAssumption
<1>2. s \in Nat /\ s < Size
  BY <1>1 DEF Slots
<1>3. CASE s + 1 = Size
  <2>1. (s + 1) % Size = 0
    BY <1>1, <1>3
  <2> QED
    BY <2>1, <1>1, <1>3 DEF NextSlot, Slots
<1>4. CASE s + 1 # Size
  <2>1. (s + 1) % Size = s + 1
    BY <1>1, <1>2, <1>4
  <2> QED
    BY <2>1, <1>1, <1>2, <1>4 DEF NextSlot, Slots
<1> QED
  BY <1>3, <1>4

\* Distances are less than Size, and 0 only between equal slots.
LEMMA DistRange ==
    ASSUME NEW s \in Slots, NEW t \in Slots
    PROVE  /\ Dist(s, t) \in 0 .. Size - 1
           /\ Dist(s, t) = 0 <=> s = t
BY SizeAssumption DEF Dist, Slots

\* From one origin, different slots are at different distances.
LEMMA DistInjective ==
    ASSUME NEW h \in Slots, NEW s \in Slots, NEW t \in Slots, s # t
    PROVE  Dist(h, s) # Dist(h, t)
BY SizeAssumption DEF Dist, Slots

\* Moving the end of a stretch that leaves a slot free makes it one longer.
LEMMA DistNextEnd ==
    ASSUME NEW h \in Slots, NEW t \in Slots, Dist(h, t) < Size - 1
    PROVE  Dist(h, NextSlot(t)) = Dist(h, t) + 1
BY NextSlotValue, SizeAssumption DEF Dist, Slots

\* Moving its start makes it one shorter.
LEMMA DistNextStart ==
    ASSUME NEW h \in Slots, NEW t \in Slots, h # t
    PROVE  Dist(NextSlot(h), t) = Dist(h, t) - 1
BY NextSlotValue, SizeAssumption DEF Dist, Slots

-----------------------------------------------------------------------------
(* Type correctness                                                        *)

\* The constructor leaves every variable of its type.
LEMMA InitTypeOK == Init => TypeOK
BY SizeAssumption DEF Init, TypeOK, Slots

\* Every step keeps the types, one part of put() or get() after the other.
LEMMA NextTypeOK == TypeOK /\ [Next]_vars => TypeOK'
<1> SUFFICES ASSUME TypeOK, [Next]_vars PROVE TypeOK'
  OBVIOUS
<1> USE DEF TypeOK, Unreserved, Reserved
<1>1. ASSUME NEW p \in Producers, NEW i \in Items, BeginPut(p, i) PROVE TypeOK'
  BY <1>1 DEF BeginPut, Goto, shared, consumer
<1>2. ASSUME NEW p \in Producers, CasSucceeds(p) PROVE TypeOK'
  BY <1>2, NextSlotValue DEF CasSucceeds, Continue, Goto, consumer, newTail
<1>3. ASSUME NEW p \in Producers, CasFails(p) \/ Reload(p) PROVE TypeOK'
  BY <1>3 DEF CasFails, Reload, Continue, Goto, shared, consumer
<1>4. ASSUME NEW p \in Producers, Recheck(p) \/ Check(p) PROVE TypeOK'
  <2>1. CASE Return(p, "false")
    BY <1>4, <2>1, SizeAssumption DEF Recheck, Check, Return, Goto, shared, consumer, Slots
  <2>2. CASE Continue(p, "cas") \/ Continue(p, "storeItem")
    BY <1>4, <2>2 DEF Recheck, Check, Continue, Goto, shared, consumer
  <2> QED
    BY <1>4, <2>1, <2>2 DEF Recheck, Check
<1>5. ASSUME NEW p \in Producers, StoreItem(p) PROVE TypeOK'
  BY <1>5 DEF StoreItem, Continue, Goto, consumer
<1>6. ASSUME NEW p \in Producers, StoreValid(p) PROVE TypeOK'
  BY <1>6, SizeAssumption DEF StoreValid, Return, Goto, consumer, Slots
<1>7. CASE CheckEmpty \/ CheckValid \/ LoadItem \/ ClearValid
  BY <1>7 DEF CheckEmpty, CheckValid, LoadItem, ClearValid, shared, producer
<1>8. CASE AdvanceHead
  BY <1>8, NextSlotValue DEF AdvanceHead, producer
<1>9. CASE UNCHANGED vars
  BY <1>9 DEF vars, shared, producer, consumer
<1> QED
  BY <1>1, <1>2, <1>3, <1>4, <1>5, <1>6, <1>7, <1>8, <1>9 DEF Next, PutStep, GetStep

\* Every variable keeps its type, whatever the callers do.
THEOREM TypeCorrect == Spec => []TypeOK
BY InitTypeOK, NextTypeOK, PTL DEF Spec

-----------------------------------------------------------------------------
(* The inductive invariant.  NeverFilled is the callers' side of it.       *)

NeverFilled == MaxOutstanding < Size

\* A producer's place in put() decides which of the two sets it is in.
LEMMA ReservingFinite ==
    /\ IsFiniteSet(Reserving)
    /\ Cardinality(Reserving) \in Nat
BY ProducersAssumption, FS_Subset, FS_CardinalityType DEF Reserving

\* While somebody still wants a slot, the ring has one to spare.
LEMMA RoomForReserving ==
    ASSUME IInv, NeverFilled, Reserving # {}
    PROVE  Dist(head, tail) < Size - 1
<1>1. Cardinality(Reserving) >= 1
  BY ReservingFinite, FS_EmptySet
<1>2. Dist(head, tail) \in Nat
  BY DistRange DEF IInv, TypeOK
<1> QED
  BY <1>1, <1>2, ReservingFinite, SizeAssumption, MaxOutstandingAssumption
  DEF IInv, SpaceInv, Outstanding, NeverFilled

\* The slot after an owner's is not the one get() is at.
LEMMA OwnerNotAtHead ==
    ASSUME IInv, NeverFilled, NEW p \in Owners
    PROVE  newTail(p) # head
<1>1. /\ head \in Slots /\ tail \in Slots /\ oldTail[p] \in Slots
      /\ Dist(head, oldTail[p]) < Dist(head, tail)
  BY DEF IInv, TypeOK, OwnerInv, Owners, Occupied
<1>2. Dist(head, tail) <= Size - 1
  BY <1>1, DistRange, SizeAssumption
<1>3. Dist(head, oldTail[p]) < Size - 1
  BY <1>1, <1>2, DistRange, SizeAssumption
<1>4. Dist(head, newTail(p)) = Dist(head, oldTail[p]) + 1
  BY <1>1, <1>3, DistNextEnd DEF newTail
<1>5. newTail(p) \in Slots
  BY <1>1, NextSlotValue DEF newTail
<1> QED
  BY <1>1, <1>4, <1>5, DistRange

\* An empty ring, with nobody in put(), has the invariant.
LEMMA InitIInv == Init => IInv
<1> SUFFICES ASSUME Init PROVE IInv
  OBVIOUS
<1>1. Reserving = {} /\ Owners = {}
  BY DEF Init, Reserving, Owners, Unreserved, Reserved
<1>2. Dist(head, tail) = 0
  BY DEF Init, Dist
<1>3. Occupied = {}
  BY <1>2, DistRange, SizeAssumption DEF Occupied, Init, Slots
<1>4. SpaceInv
  BY <1>1, <1>2, FS_EmptySet, MaxOutstandingAssumption DEF SpaceInv, Outstanding
<1>5. OwnerInv /\ OwnersDistinct
  BY <1>1 DEF OwnerInv, OwnersDistinct
<1>6. SlotInv
  BY <1>3 DEF SlotInv, Init
<1>7. ConsumerInv
  BY DEF ConsumerInv, Init
<1> QED
  BY <1>4, <1>5, <1>6, <1>7, InitTypeOK DEF IInv

\* put() before it has a slot: only the count of the reserving changes.
LEMMA UnreservedStep ==
    ASSUME IInv, TypeOK', NEW p \in Producers,
           \/ \E i \in Items : BeginPut(p, i)
           \/ CasFails(p) \/ Reload(p) \/ Recheck(p)
    PROVE  IInv'
<1> USE DEF IInv, TypeOK
<1>1. UNCHANGED <<shared, consumer>>
  BY DEF BeginPut, CasFails, Reload, Recheck
<1>2. Owners' = Owners /\ \A q \in Owners : oldTail'[q] = oldTail[q]
  BY DEF BeginPut, CasFails, Reload, Recheck, Return, Continue, Goto, Owners,
         Reserved, Unreserved
<1>3. Occupied' = Occupied
  BY <1>1 DEF shared, Occupied, Dist
<1>4. SpaceInv'
  <2>1. CASE \E i \in Items : BeginPut(p, i)
    <3>1. Reserving' = Reserving \cup {p}
      BY <2>1 DEF BeginPut, Goto, Reserving, Unreserved
    <3>2. p \notin Reserving
      BY <2>1 DEF BeginPut, Reserving, Unreserved
    <3>3. Cardinality(Reserving') = Cardinality(Reserving) + 1
      BY <3>1, <3>2, ReservingFinite, FS_AddElement
    <3>4. Outstanding < MaxOutstanding
      BY <2>1 DEF BeginPut
    <3> QED
      BY <1>1, <3>3, <3>4, ReservingFinite, DistRange, MaxOutstandingAssumption,
         SizeAssumption DEF SpaceInv, Outstanding, shared, Dist, Slots
  <2>2. CASE CasFails(p) \/ Reload(p) \/ Recheck(p)
    <3>1. Reserving' = Reserving \/ Reserving' = Reserving \ {p}
      BY <2>2 DEF CasFails, Reload, Recheck, Return, Continue, Goto, Reserving, Unreserved
    <3>2. Cardinality(Reserving') <= Cardinality(Reserving)
      BY <3>1, ReservingFinite, FS_RemoveElement
    <3>3. Cardinality(Reserving') \in Nat
      BY <3>1, ReservingFinite, FS_RemoveElement, FS_CardinalityType
    <3> QED
      BY <1>1, <3>2, <3>3, ReservingFinite, MaxOutstandingAssumption,
         SizeAssumption DEF SpaceInv, Outstanding, shared, Dist, Slots
  <2> QED
    BY <2>1, <2>2
<1>5. OwnerInv' /\ OwnersDistinct'
  BY <1>1, <1>2, <1>3 DEF OwnerInv, OwnersDistinct, shared
<1>6. SlotInv'
  BY <1>1, <1>2, <1>3 DEF SlotInv, shared, consumer
<1>7. ConsumerInv'
  BY <1>1, <1>2 DEF ConsumerInv, shared, consumer
<1> QED
  BY <1>4, <1>5, <1>6, <1>7

\* Reserving a slot: it comes at the end of the occupied ones.
LEMMA CasStep ==
    ASSUME IInv, NeverFilled, TypeOK', NEW p \in Producers, CasSucceeds(p)
    PROVE  IInv'
<1> USE DEF IInv, TypeOK
<1>1. /\ pc[p] = "cas" /\ tail = oldTail[p] /\ tail' = NextSlot(tail)
      /\ pc' = [pc EXCEPT ![p] = "check"]
      /\ UNCHANGED <<head, items, valid, oldTail, item, result, consumer>>
  BY DEF CasSucceeds, Continue, Goto, newTail
<1>2. /\ Owners' = Owners \cup {p} /\ p \notin Owners
      /\ Reserving' = Reserving \ {p} /\ p \in Reserving
  BY <1>1 DEF Owners, Reserving, Reserved, Unreserved
<1>3. Dist(head, tail) < Size - 1
  BY <1>2, RoomForReserving
<1>4. Dist(head, tail') = Dist(head, tail) + 1
  BY <1>1, <1>3, DistNextEnd
<1>5. Occupied' = Occupied \cup {tail}
  <2>1. \A s \in Slots : Dist(head, s) \in Nat /\ (s # tail => Dist(head, s) # Dist(head, tail))
    BY DistRange, DistInjective
  <2>2. \A s \in Slots : Dist(head', s) = Dist(head, s)
    BY <1>1
  <2>3. Dist(head', tail') = Dist(head, tail) + 1 /\ Dist(head, tail) \in Nat
    BY <1>1, <1>4, DistRange
  <2> QED
    BY <2>1, <2>2, <2>3 DEF Occupied
<1>6. tail \notin Occupied /\ ~valid[tail] /\ (cpc # "idle" => tail # head)
  BY DistRange DEF Occupied, SlotInv, ConsumerInv
<1>7. SpaceInv'
  <2>1. /\ Cardinality(Reserving') = Cardinality(Reserving) - 1
        /\ Cardinality(Reserving) \in Nat
    BY <1>2, ReservingFinite, FS_RemoveElement
  <2>2. Dist(head', tail') = Dist(head, tail) + 1 /\ Dist(head, tail) \in Nat
    BY <1>1, <1>4, DistRange
  <2> QED
    BY <2>1, <2>2, MaxOutstandingAssumption DEF SpaceInv, Outstanding
<1>8. OwnerInv'
  BY <1>1, <1>2, <1>5, <1>6 DEF OwnerInv
<1>9. OwnersDistinct'
  BY <1>1, <1>2, <1>6 DEF OwnersDistinct, OwnerInv
<1>10. SlotInv'
  BY <1>1, <1>2, <1>5 DEF SlotInv, consumer
<1>11. ConsumerInv'
  <2>1. cpc' = cpc /\ head' = head /\ valid' = valid
    BY <1>1 DEF consumer
  <2>2. cpc # "idle" => head # tail'
    BY <1>1, <1>3, <1>4, DistRange, SizeAssumption, NextSlotValue
  <2> QED
    BY <1>1, <1>2, <1>6, <2>1, <2>2 DEF ConsumerInv
<1> QED
  BY <1>7, <1>8, <1>9, <1>10, <1>11

\* put() with its slot: the overflow test passes, and the slot ends up valid.
LEMMA ReservedStep ==
    ASSUME IInv, NeverFilled, TypeOK', NEW p \in Producers,
           Check(p) \/ StoreItem(p) \/ StoreValid(p)
    PROVE  IInv'
<1> USE DEF IInv, TypeOK
<1>1. p \in Owners
  BY DEF Check, StoreItem, StoreValid, Owners, Reserved
<1>2. UNCHANGED <<head, tail, consumer>> /\ Occupied' = Occupied
  BY DEF Check, StoreItem, StoreValid, shared, Occupied, Dist
<1>3. Reserving' = Reserving
  BY <1>1, OwnerNotAtHead DEF Check, StoreItem, StoreValid, Return, Continue, Goto,
     Reserving, Unreserved, Owners, Reserved
<1>4. SpaceInv'
  BY <1>2, <1>3 DEF SpaceInv, Outstanding, Dist
<1>5. CASE Check(p) \/ StoreItem(p)
  <2>1. Owners' = Owners /\ oldTail' = oldTail /\ valid' = valid
    BY <1>1, <1>5, OwnerNotAtHead
    DEF Check, StoreItem, Continue, Goto, shared, Owners, Reserved
  <2> QED
    BY <1>2, <1>4, <2>1 DEF OwnerInv, OwnersDistinct, SlotInv, ConsumerInv, consumer
<1>6. CASE StoreValid(p)
  <2>1. /\ Owners' = Owners \ {p}
        /\ \A q \in Owners' : oldTail'[q] = oldTail[q]
        /\ valid' = [valid EXCEPT ![oldTail[p]] = TRUE]
    BY <1>6 DEF StoreValid, Return, Goto, Owners, Reserved
  <2>2. oldTail[p] \in Occupied /\ oldTail[p] \in Slots
    BY <1>1 DEF OwnerInv
  <2>3. OwnerInv' /\ OwnersDistinct'
    BY <1>1, <1>2, <2>1 DEF OwnerInv, OwnersDistinct
  <2>4. SlotInv'
    BY <1>2, <2>1, <2>2 DEF SlotInv, consumer, Occupied
  <2>5. ConsumerInv'
    BY <1>1, <1>2, <2>1, <2>2 DEF ConsumerInv, consumer
  <2> QED
    BY <1>4, <2>3, <2>4, <2>5
<1> QED
  BY <1>5, <1>6

\* get() up to the point where it clears the slot.
LEMMA ReadStep ==
    ASSUME IInv, TypeOK', CheckEmpty \/ CheckValid \/ LoadItem \/ ClearValid
    PROVE  IInv'
<1> USE DEF IInv, TypeOK
<1>1. UNCHANGED <<head, tail, items, producer>> /\ Occupied' = Occupied
  BY DEF CheckEmpty, CheckValid, LoadItem, ClearValid, shared, Occupied, Dist
<1>2. Owners' = Owners /\ Reserving' = Reserving /\ oldTail' = oldTail
  BY <1>1 DEF producer, Owners, Reserving
<1>3. SpaceInv'
  BY <1>1, <1>2 DEF SpaceInv, Outstanding, Dist
<1>4. OwnersDistinct'
  BY <1>2 DEF OwnersDistinct
<1>5. CASE CheckEmpty \/ CheckValid \/ LoadItem
  <2>1. valid' = valid
    BY <1>5 DEF CheckEmpty, CheckValid, LoadItem, shared
  <2>2. OwnerInv' /\ SlotInv'
    BY <1>1, <1>2, <1>5, <2>1
    DEF OwnerInv, SlotInv, CheckEmpty, CheckValid, LoadItem
  <2>3. ConsumerInv'
    BY <1>1, <1>2, <1>5, <2>1 DEF ConsumerInv, CheckEmpty, CheckValid, LoadItem
  <2> QED
    BY <1>3, <1>4, <2>2, <2>3
<1>6. CASE ClearValid
  <2>1. /\ cpc = "clear" /\ cpc' = "advance" /\ valid[head]
        /\ valid' = [valid EXCEPT ![head] = FALSE]
    BY <1>6 DEF ClearValid, ConsumerInv
  <2>2. \A q \in Owners : oldTail[q] # head
    BY <2>1 DEF OwnerInv
  <2>3. OwnerInv' /\ SlotInv' /\ ConsumerInv'
    BY <1>1, <1>2, <2>1, <2>2 DEF OwnerInv, SlotInv, ConsumerInv, Occupied
  <2> QED
    BY <1>3, <1>4, <2>3
<1> QED
  BY <1>5, <1>6

\* get() moves on: the first of the occupied slots, now invalid, is given back.
LEMMA AdvanceStep ==
    ASSUME IInv, TypeOK', AdvanceHead
    PROVE  IInv'
<1> USE DEF IInv, TypeOK
<1>1. /\ cpc = "advance" /\ cpc' = "idle" /\ head' = NextSlot(head)
      /\ head # tail /\ ~valid[head] /\ \A q \in Owners : oldTail[q] # head
      /\ UNCHANGED <<tail, valid, pc, oldTail>>
  BY DEF AdvanceHead, ConsumerInv, producer
<1>2. Owners' = Owners /\ Reserving' = Reserving
  BY <1>1 DEF Owners, Reserving
<1>3. \A s \in Slots : s # head => Dist(head', s) = Dist(head, s) - 1
  BY <1>1, DistNextStart
<1>4. Dist(head', head) = Size - 1
  <2>1. head' = IF head + 1 = Size THEN 0 ELSE head + 1
    BY <1>1, NextSlotValue
  <2>2. head \in Nat /\ head < Size /\ Size \in Nat
    BY SizeAssumption DEF Slots
  <2> QED
    BY <2>1, <2>2 DEF Dist
<1>5. Occupied' = Occupied \ {head}
  <2>1. /\ Dist(head', tail') = Dist(head, tail) - 1
        /\ Dist(head, tail) <= Size - 1
        /\ \A s \in Slots : Dist(head, s) \in Int /\ Dist(head, tail) \in Int
    BY <1>1, <1>3, DistRange, SizeAssumption
  <2> QED
    BY <1>3, <1>4, <2>1, SizeAssumption DEF Occupied
<1>6. SpaceInv'
  BY <1>1, <1>2, <1>3, ReservingFinite, DistRange, MaxOutstandingAssumption
  DEF SpaceInv, Outstanding
<1>7. OwnerInv' /\ OwnersDistinct'
  BY <1>1, <1>2, <1>5 DEF OwnerInv, OwnersDistinct
<1>8. SlotInv'
  BY <1>1, <1>2, <1>5 DEF SlotInv, Occupied
<1>9. ConsumerInv'
  BY <1>1 DEF ConsumerInv
<1> QED
  BY <1>6, <1>7, <1>8, <1>9

\* Where nothing changes the invariant stays.
LEMMA StutterStep == ASSUME IInv, UNCHANGED vars PROVE IInv'
<1>1. /\ UNCHANGED <<head, tail, valid, pc, oldTail, cpc>>
      /\ Occupied' = Occupied /\ Owners' = Owners /\ Reserving' = Reserving
  BY DEF vars, shared, producer, consumer, Occupied, Dist, Owners, Reserving
<1>2. TypeOK'
  BY NextTypeOK DEF IInv
<1> QED
  BY <1>1, <1>2 DEF IInv, SpaceInv, Outstanding, Dist, OwnerInv, OwnersDistinct, SlotInv,
                    ConsumerInv

\* Every step of put() and get() keeps the invariant.
LEMMA NextIInv == ASSUME IInv, NeverFilled, [Next]_vars PROVE IInv'
<1>1. TypeOK'
  BY NextTypeOK DEF IInv
<1>2. ASSUME NEW p \in Producers, PutStep(p) \/ \E i \in Items : BeginPut(p, i)
      PROVE  IInv'
  BY <1>1, <1>2, UnreservedStep, CasStep, ReservedStep DEF PutStep
<1>3. CASE GetStep
  BY <1>1, <1>3, ReadStep, AdvanceStep DEF GetStep
<1>4. CASE UNCHANGED vars
  BY <1>4, StutterStep
<1> QED
  BY <1>2, <1>3, <1>4 DEF Next

-----------------------------------------------------------------------------
(* What the invariant gives                                                *)

\* Callers that keep fewer than Size items in flight keep the invariant.
THEOREM Invariance ==
    ASSUME NeverFilled
    PROVE  Spec => []IInv
<1>1. IInv /\ [Next]_vars => IInv'
  BY NextIInv
<1> QED
  BY <1>1, InitIInv, PTL DEF Spec

\* Two threads never work on the same slot.
THEOREM SlotsAreExclusive ==
    ASSUME NeverFilled
    PROVE  Spec => []SlotExclusive
<1>1. IInv => SlotExclusive
  <2> SUFFICES ASSUME IInv PROVE SlotExclusive
    OBVIOUS
  <2>1. \A p, q \in Owners : p # q => oldTail[p] # oldTail[q]
    BY DEF IInv, OwnersDistinct
  <2>2. ASSUME cpc \in {"load", "clear", "advance"}, NEW p \in Owners
        PROVE  oldTail[p] # head
    BY <2>2 DEF IInv, ConsumerInv, OwnerInv
  <2> QED
    BY <2>1, <2>2 DEF SlotExclusive
<1> QED
  BY <1>1, Invariance, PTL

\* A put() that has moved tail always fills the slot it reserved.
THEOREM ReservedSlotsAreFilled ==
    ASSUME NeverFilled
    PROVE  Spec => []ReservedIsFilled
<1>1. IInv => ReservedIsFilled
  BY OwnerNotAtHead DEF ReservedIsFilled, Owners, Reserved
<1> QED
  BY <1>1, Invariance, PTL

\* Between calls the valid slots are exactly those from head to tail.
THEOREM NothingIsStranded ==
    ASSUME NeverFilled
    PROVE  Spec => []NothingStranded
<1>1. IInv => NothingStranded
  BY DEF IInv, SlotInv, NothingStranded, Owners, Reserved, Occupied
<1> QED
  BY <1>1, Invariance, PTL

-----------------------------------------------------------------------------
(* The slots from head on                                                  *)

\* The k-th slot from h on, going round the ring.
SlotAt(h, k) == (h + k - 1) % Size

\* A number below twice the size is brought back into the ring by one turn at most.
LEMMA OneTurn ==
    ASSUME NEW n \in Nat, n < 2 * Size
    PROVE  n % Size = IF n < Size THEN n ELSE n - Size
<1>1. Size \in Nat /\ Size >= 2
  BY SizeAssumption
<1>2. CASE n < Size
  BY <1>1, <1>2
<1>3. CASE n >= Size
  <2>1. PICK m \in Nat : m < Size /\ n = m + Size
    <3>1. n - Size \in Nat /\ n - Size < Size /\ n = (n - Size) + Size
      BY <1>1, <1>3
    <3> QED
      BY <3>1
  <2>2. (m + Size) % Size = m
    BY <1>1, <2>1
  <2> QED
    BY <1>1, <1>3, <2>1, <2>2
<1> QED
  BY <1>1, <1>2, <1>3

\* The k-th slot is at the distance k - 1, and every slot is the one its distance says.
LEMMA SlotAtDistance ==
    ASSUME NEW h \in Slots
    PROVE  /\ \A k \in 1 .. Size : SlotAt(h, k) \in Slots /\ Dist(h, SlotAt(h, k)) = k - 1
           /\ \A s \in Slots : Dist(h, s) + 1 \in 1 .. Size /\ SlotAt(h, Dist(h, s) + 1) = s
<1>1. Size \in Nat /\ Size >= 2 /\ h \in Nat /\ h < Size
  BY SizeAssumption DEF Slots
<1>2. ASSUME NEW k \in 1 .. Size
      PROVE  SlotAt(h, k) = IF h + k - 1 < Size THEN h + k - 1 ELSE h + k - 1 - Size
  <2> DEFINE n == h + k - 1
  <2>1. n \in Nat /\ n < 2 * Size
    BY <1>1
  <2>2. SlotAt(h, k) = n % Size
    BY DEF SlotAt
  <2> HIDE DEF n
  <2>3. n % Size = IF n < Size THEN n ELSE n - Size
    BY <2>1, OneTurn
  <2> QED
    BY <1>1, <2>1, <2>2, <2>3 DEF n
<1>3. ASSUME NEW k \in 1 .. Size
      PROVE  SlotAt(h, k) \in Slots /\ Dist(h, SlotAt(h, k)) = k - 1
  BY <1>1, <1>2 DEF Slots, Dist
<1>4. ASSUME NEW s \in Slots
      PROVE  Dist(h, s) + 1 \in 1 .. Size /\ SlotAt(h, Dist(h, s) + 1) = s
  <2>1. Dist(h, s) + 1 \in 1 .. Size
    BY <1>1, DistRange
  <2> QED
    BY <1>1, <1>2, <2>1 DEF Slots, Dist
<1> QED
  BY <1>3, <1>4

\* From the next slot on, the k-th is the one after the k-th.
LEMMA SlotAtNext ==
    ASSUME NEW h \in Slots, NEW k \in 1 .. Size - 1
    PROVE  SlotAt(NextSlot(h), k) = SlotAt(h, k + 1)
<1>1. Size \in Nat /\ Size >= 2 /\ h \in Nat /\ h < Size
  BY SizeAssumption DEF Slots
<1>2. /\ k \in 1 .. Size /\ k + 1 \in 1 .. Size /\ NextSlot(h) \in Slots
      /\ NextSlot(h) = IF h + 1 = Size THEN 0 ELSE h + 1
  BY <1>1, NextSlotValue
<1>3. SlotAt(NextSlot(h), k) \in Slots /\ Dist(NextSlot(h), SlotAt(NextSlot(h), k)) = k - 1
  BY <1>2, SlotAtDistance
<1>4. SlotAt(h, k + 1) \in Slots /\ Dist(h, SlotAt(h, k + 1)) = (k + 1) - 1
  BY <1>2, SlotAtDistance
<1>5. Dist(NextSlot(h), SlotAt(h, k + 1)) = k - 1
  <2> DEFINE t == SlotAt(h, k + 1)
  <2>1. t \in Slots /\ Dist(h, t) = k
    BY <1>1, <1>4
  <2> HIDE DEF t
  <2>2. h # t
    BY <1>1, <2>1, DistRange
  <2>3. Dist(NextSlot(h), t) = Dist(h, t) - 1
    BY <2>1, <2>2, DistNextStart
  <2> QED
    BY <2>1, <2>3 DEF t
<1> QED
  BY <1>2, <1>3, <1>4, <1>5, DistInjective

-----------------------------------------------------------------------------
(* What the slots hold                                                     *)

\* A producer inside put() has an item, its slot holds it once it is stored, and
\* get() has what the slot held.
ContentInv ==
    /\ \A p \in Producers : pc[p] # "idle" => item[p] \in Items
    /\ \A p \in Producers : pc[p] = "storeValid" => items[oldTail[p]] = item[p]
    /\ cpc \in {"clear", "advance"} => got = items[head]

\* A slot is stored to by the one producer that owns it, and not while get() has it.
LEMMA StoreContent ==
    ASSUME IInv, ContentInv, NEW p \in Producers, StoreItem(p)
    PROVE  ContentInv'
<1> USE DEF IInv, TypeOK
<1>1. /\ p \in Owners /\ pc[p] = "storeItem"
      /\ items' = [items EXCEPT ![oldTail[p]] = item[p]]
      /\ pc' = [pc EXCEPT ![p] = "storeValid"]
      /\ UNCHANGED <<head, oldTail, item, cpc, got>>
  BY DEF StoreItem, Continue, Goto, Owners, Reserved, consumer
<1>2. \A q \in Producers : pc'[q] # "idle" => item'[q] \in Items
  BY <1>1 DEF ContentInv
<1>3. ASSUME NEW q \in Producers, pc'[q] = "storeValid"
      PROVE  items'[oldTail'[q]] = item'[q]
  <2>1. CASE q = p
    BY <1>1, <2>1
  <2>2. CASE q # p
    <3>1. q \in Owners /\ pc[q] = "storeValid"
      BY <1>1, <1>3, <2>2 DEF Owners, Reserved
    <3>2. oldTail[q] # oldTail[p]
      BY <1>1, <2>2, <3>1 DEF OwnersDistinct
    <3> QED
      BY <1>1, <3>1, <3>2 DEF ContentInv
  <2> QED
    BY <2>1, <2>2
<1>4. cpc' \in {"clear", "advance"} => got' = items'[head']
  <2> SUFFICES ASSUME cpc \in {"clear", "advance"} PROVE got = items'[head]
    BY <1>1
  <2>1. oldTail[p] # head
    BY <1>1 DEF ConsumerInv, OwnerInv
  <2> QED
    BY <1>1, <2>1 DEF ContentInv
<1> QED
  BY <1>2, <1>3, <1>4 DEF ContentInv

\* Every step keeps what the slots and the locals hold.
LEMMA NextContent == ASSUME IInv, ContentInv, [Next]_vars PROVE ContentInv'
<1> USE DEF IInv, TypeOK, ContentInv
<1>1. ASSUME NEW p \in Producers, NEW i \in Items, BeginPut(p, i) PROVE ContentInv'
  BY <1>1 DEF BeginPut, Goto, shared, consumer
<1>2. ASSUME NEW p \in Producers, CasSucceeds(p) \/ CasFails(p) \/ Reload(p) PROVE ContentInv'
  BY <1>2 DEF CasSucceeds, CasFails, Reload, Continue, Goto, shared, consumer
<1>3. ASSUME NEW p \in Producers, Recheck(p) \/ Check(p) PROVE ContentInv'
  BY <1>3 DEF Recheck, Check, Return, Continue, Goto, shared, consumer
<1>4. ASSUME NEW p \in Producers, StoreItem(p) PROVE ContentInv'
  BY <1>4, StoreContent
<1>5. ASSUME NEW p \in Producers, StoreValid(p) PROVE ContentInv'
  BY <1>5 DEF StoreValid, Return, Goto, consumer
<1>6. ASSUME GetStep PROVE ContentInv'
  BY <1>6 DEF GetStep, CheckEmpty, CheckValid, LoadItem, ClearValid, AdvanceHead,
     shared, producer
<1>7. ASSUME UNCHANGED vars PROVE ContentInv'
  BY <1>7 DEF vars, shared, producer, consumer
<1> QED
  BY <1>1, <1>2, <1>3, <1>4, <1>5, <1>6, <1>7 DEF Next, PutStep

\* What is stored, and what get() read, is what was put.
THEOREM ContentsAreKept ==
    ASSUME NeverFilled
    PROVE  Spec => []ContentInv
<1>1. Init => ContentInv
  BY DEF Init, ContentInv
<1>2. IInv /\ ContentInv /\ [Next]_vars => ContentInv'
  BY NextContent
<1> QED
  BY <1>1, <1>2, Invariance, PTL DEF Spec

-----------------------------------------------------------------------------
(* The queue, place by place                                               *)

Places == [item : Items \cup {NoItem}, owner : Producers \cup {Nobody}]

\* A place is its owner's, or holds what its slot does.
PlacesInv ==
    /\ \A p \in Owners, s \in Slots :
           oldTail[p] = s => PlaceAt(s) = [item |-> item[p], owner |-> p]
    /\ \A s \in Slots : (\A p \in Owners : oldTail[p] # s) =>
           PlaceAt(s) = [item |-> items[s], owner |-> Nobody]

\* The queue has a place for every slot from head to tail, in that order.
QueueIs ==
    /\ queue \in Seq(Places)
    /\ Len(queue) = Dist(head, tail)
    /\ \A k \in 1 .. Dist(head, tail), s \in Slots :
           s = SlotAt(head, k) => queue[k] = PlaceAt(s)

\* A function on 1 .. n is a sequence of n elements.
LEMMA FunctionIsSeq ==
    ASSUME NEW S, NEW n \in Nat, NEW f \in [1 .. n -> S]
    PROVE  f \in Seq(S) /\ Len(f) = n
<1>1. f \in Seq(S)
  BY SeqDef
<1> DEFINE m == Len(f)
<1>2. m \in Nat /\ DOMAIN f = 1 .. m
  BY <1>1, LenProperties
<1>3. DOMAIN f = 1 .. n
  OBVIOUS
<1> HIDE DEF m
<1>4. m = n
  <2>1. m <= n
    BY <1>2, <1>3
  <2>2. n <= m
    BY <1>2, <1>3
  <2> QED
    BY <1>2, <2>1, <2>2
<1> QED
  BY <1>1, <1>4 DEF m

\* Places are owned by at most one producer.
LEMMA PlacesAre == IInv => PlacesInv
<1> SUFFICES ASSUME IInv PROVE PlacesInv
  OBVIOUS
<1>1. ASSUME NEW p \in Owners, NEW s \in Slots, oldTail[p] = s
      PROVE  PlaceAt(s) = [item |-> item[p], owner |-> p]
  <2>1. \A q \in Owners : oldTail[q] = s => q = p
    BY <1>1 DEF IInv, OwnersDistinct
  <2>2. Owner(s) = p
    BY <1>1, <2>1 DEF Owner
  <2>3. p # Nobody
    BY <1>1, NobodyAssumption DEF Owners
  <2> QED
    BY <2>2, <2>3 DEF PlaceAt
<1>2. ASSUME NEW s \in Slots, \A p \in Owners : oldTail[p] # s
      PROVE  PlaceAt(s) = [item |-> items[s], owner |-> Nobody]
  <2>1. Owner(s) = Nobody
    BY <1>2 DEF Owner
  <2> QED
    BY <2>1 DEF PlaceAt
<1> QED
  BY <1>1, <1>2 DEF PlacesInv

\* A slot between head and tail is a place of the queue.
LEMMA PlaceType == ASSUME IInv, NEW s \in Slots PROVE PlaceAt(s) \in Places
<1>1. PlacesInv
  BY PlacesAre
<1>2. CASE \E p \in Owners : oldTail[p] = s
  <2>1. PICK p \in Owners : oldTail[p] = s
    BY <1>2
  <2>2. item[p] \in Items \cup {NoItem} /\ p \in Producers
    BY <2>1 DEF IInv, TypeOK, Owners
  <2>3. PlaceAt(s) = [item |-> item[p], owner |-> p]
    BY <1>1, <2>1 DEF PlacesInv
  <2> QED
    BY <2>2, <2>3 DEF Places
<1>3. CASE \A p \in Owners : oldTail[p] # s
  <2>1. items[s] \in Items \cup {NoItem}
    BY DEF IInv, TypeOK
  <2> QED
    BY <1>1, <1>3, <2>1 DEF PlacesInv, Places
<1> QED
  BY <1>2, <1>3

\* The queue is the places of the slots from head on, as many as the ring holds.
LEMMA TheQueueIs == IInv => QueueIs
<1> SUFFICES ASSUME IInv PROVE QueueIs
  OBVIOUS
<1> DEFINE n == Dist(head, tail)
<1>1. head \in Slots /\ tail \in Slots
  BY DEF IInv, TypeOK
<1>2. n \in Nat /\ n < Size /\ Size \in Nat
  BY <1>1, DistRange, SizeAssumption
<1>3. \A k \in 1 .. n : SlotAt(head, k) \in Slots
  BY <1>1, <1>2, SlotAtDistance
<1>4. queue = [k \in 1 .. n |-> PlaceAt(SlotAt(head, k))]
  BY DEF queue, SlotAt
<1> HIDE DEF n
<1>5. queue \in [1 .. n -> Places]
  BY <1>3, <1>4, PlaceType
<1>6. queue \in Seq(Places) /\ Len(queue) = n
  BY <1>2, <1>5, FunctionIsSeq
<1>7. \A k \in 1 .. n : queue[k] = PlaceAt(SlotAt(head, k))
  BY <1>4
<1> QED
  BY <1>6, <1>7 DEF QueueIs, n

\* The same between head and tail is the same queue.
LEMMA SameQueue ==
    ASSUME IInv, IInv', UNCHANGED <<head, tail>>,
           Owners' = Owners,
           \A s \in Slots : (\A p \in Owners : oldTail[p] # s) => items'[s] = items[s],
           \A p \in Owners : oldTail'[p] = oldTail[p] /\ item'[p] = item[p]
    PROVE  queue' = queue
<1>1. PlacesInv /\ PlacesInv'
  BY PlacesAre, PTL
<1>2. QueueIs /\ QueueIs'
  BY TheQueueIs, PTL
<1>3. \A s \in Slots : PlaceAt(s)' = PlaceAt(s)
  BY <1>1 DEF PlacesInv
<1> DEFINE n == Dist(head, tail)
<1>4. head \in Slots /\ n \in 0 .. Size /\ Dist(head, tail)' = n
  BY DistRange, SizeAssumption DEF IInv, TypeOK, Dist
<1> HIDE DEF n
<1>5. \A k \in 1 .. n : SlotAt(head, k) \in Slots
  <2>1. \A k \in 1 .. Size : SlotAt(head, k) \in Slots
    BY <1>4, SlotAtDistance
  <2>2. \A k \in 1 .. n : k \in 1 .. Size
    BY <1>4, SizeAssumption
  <2> QED
    BY <2>1, <2>2
<1>6. \A k \in 1 .. n : queue'[k] = queue[k]
  BY <1>2, <1>3, <1>4, <1>5 DEF QueueIs, n
<1>7. /\ queue \in Seq(Places) /\ queue' \in Seq(Places)
      /\ Len(queue) = n /\ Len(queue') = n
  BY <1>2, <1>4 DEF QueueIs, n
<1> QED
  BY <1>6, <1>7, SeqEqual

-----------------------------------------------------------------------------
(* Each step of the ring is a step of the queue, or none                   *)

\* What a producer is doing, as the queue sees it.
StatusOf(label) ==
    CASE label = "idle" -> "idle"
      [] label \in Unreserved -> "calling"
      [] label \in Reserved -> "filling"

\* What the queue takes a producer to be doing is where it is in put().
LEMMA StatusIs ==
    ASSUME TypeOK, NEW p \in Producers
    PROVE  status[p] = StatusOf(pc[p])
BY DEF status, StatusOf

\* A step of one producer changes its status alone.
LEMMA StatusStep ==
    ASSUME TypeOK, NEW p \in Producers, NEW label,
           pc' = [pc EXCEPT ![p] = label]
    PROVE  status' = [status EXCEPT ![p] = StatusOf(label)]
<1>1. status = [q \in Producers |-> StatusOf(pc[q])]
  BY DEF status, StatusOf
<1>2. status' = [q \in Producers |-> StatusOf(pc'[q])]
  BY DEF status, StatusOf
<1>3. \A q \in Producers : pc'[q] = IF q = p THEN label ELSE pc[q]
  BY DEF TypeOK
<1> QED
  BY <1>1, <1>2, <1>3

\* A step within the same part of put() changes no status.
LEMMA StatusStays ==
    ASSUME TypeOK, NEW p \in Producers, NEW label,
           StatusOf(label) = StatusOf(pc[p]),
           pc' = [pc EXCEPT ![p] = label]
    PROVE  status' = status
<1>1. status' = [status EXCEPT ![p] = StatusOf(label)]
  BY StatusStep
<1>2. status[p] = StatusOf(label)
  BY StatusIs
<1>3. DOMAIN status = Producers
  BY DEF status
<1> QED
  BY <1>1, <1>2, <1>3 DEF status

\* The three parts of put().
LEMMA StatusValues ==
    /\ StatusOf("idle") = "idle"
    /\ \A label \in Unreserved : StatusOf(label) = "calling"
    /\ \A label \in Reserved : StatusOf(label) = "filling"
BY DEF StatusOf, Unreserved, Reserved

\* put() is called.
LEMMA BeginIsCall ==
    ASSUME IInv, IInv', NEW p \in Producers, NEW i \in Items, BeginPut(p, i)
    PROVE  Queue!Call(p)
<1>1. /\ pc[p] = "idle" /\ pc' = [pc EXCEPT ![p] = "cas"]
      /\ item' = [item EXCEPT ![p] = i] /\ oldTail' = [oldTail EXCEPT ![p] = tail]
      /\ result' = [result EXCEPT ![p] = "none"]
      /\ UNCHANGED <<head, tail, items, received>>
  BY DEF BeginPut, Goto, shared, consumer
<1>2. TypeOK
  BY DEF IInv
<1>3. status[p] = "idle" /\ status' = [status EXCEPT ![p] = "calling"]
  <2>1. StatusOf("cas") = "calling" /\ StatusOf(pc[p]) = "idle"
    BY <1>1, StatusValues DEF Unreserved
  <2> QED
    BY <1>1, <1>2, <2>1, StatusIs, StatusStep, ZenonT(40)
<1>4. /\ Owners' = Owners
      /\ \A q \in Owners : oldTail'[q] = oldTail[q] /\ item'[q] = item[q]
  BY <1>1, <1>2 DEF TypeOK, Owners, Reserved
<1>5. queue' = queue
  BY <1>1, <1>4, SameQueue
<1> QED
  BY <1>1, <1>3, <1>5 DEF Queue!Call

\* put() goes on without a slot, or gives up.
LEMMA UnreservedIsQueueStep ==
    ASSUME IInv, IInv', NEW p \in Producers, CasFails(p) \/ Reload(p) \/ Recheck(p)
    PROVE  Queue!Refuse(p) \/ UNCHANGED Queue!vars
<1>1. TypeOK /\ UNCHANGED <<head, tail, items, received>>
  BY DEF IInv, CasFails, Reload, Recheck, shared, consumer
<1>2. /\ Owners' = Owners
      /\ \A q \in Owners : oldTail'[q] = oldTail[q] /\ item'[q] = item[q]
  BY <1>1 DEF TypeOK, Owners, Reserved, CasFails, Reload, Recheck, Return, Continue, Goto
<1>3. queue' = queue
  BY <1>1, <1>2, SameQueue
<1>4. CASE Recheck(p) /\ newTail(p) = head
  <2>1. /\ pc[p] = "recheck" /\ pc' = [pc EXCEPT ![p] = "idle"]
        /\ result' = [result EXCEPT ![p] = "false"]
    BY <1>4 DEF Recheck, Return, Goto
  <2>2. status[p] = "calling" /\ status' = [status EXCEPT ![p] = "idle"]
    <3>1. StatusOf("idle") = "idle" /\ StatusOf(pc[p]) = "calling"
      BY <2>1, StatusValues DEF Unreserved
    <3> QED
      BY <1>1, <2>1, <3>1, StatusIs, StatusStep, ZenonT(40)
  <2> QED
    BY <1>1, <1>3, <2>1, <2>2 DEF Queue!Refuse, Queue!Return
<1>5. CASE CasFails(p) \/ Reload(p) \/ (Recheck(p) /\ newTail(p) # head)
  <2>1. PICK label \in Unreserved : pc[p] \in Unreserved /\ pc' = [pc EXCEPT ![p] = label]
    BY <1>5 DEF CasFails, Reload, Recheck, Continue, Goto, Unreserved
  <2>2. status' = status
    BY <1>1, <2>1, StatusStays, StatusValues
  <2>3. result' = result
    BY <1>5 DEF CasFails, Reload, Recheck, Continue
  <2> QED
    BY <1>1, <1>3, <2>2, <2>3 DEF Queue!vars
<1> QED
  BY <1>4, <1>5

\* put() has its slot: the overflow test passes, and storing the item changes no
\* place, which already had it from its owner.
LEMMA ReservedIsStutter ==
    ASSUME IInv, IInv', NeverFilled, NEW p \in Producers, Check(p) \/ StoreItem(p)
    PROVE  UNCHANGED Queue!vars
<1>1. TypeOK /\ p \in Owners
  BY DEF IInv, Check, StoreItem, Owners, Reserved
<1>2. newTail(p) # head
  BY <1>1, OwnerNotAtHead
<1>3. PICK label \in Reserved : pc[p] \in Reserved /\ pc' = [pc EXCEPT ![p] = label]
  BY <1>2 DEF Check, StoreItem, Continue, Goto, Reserved
<1>4. UNCHANGED <<head, tail, oldTail, item, result, received>>
  BY <1>2 DEF Check, StoreItem, Continue, shared, consumer
<1>5. Owners' = Owners
  BY <1>1, <1>3 DEF TypeOK, Owners
<1>6. status' = status
  BY <1>1, <1>3, StatusStays, StatusValues
<1>7. \A s \in Slots : (\A q \in Owners : oldTail[q] # s) => items'[s] = items[s]
  BY <1>1 DEF Check, StoreItem, shared, TypeOK
<1>8. queue' = queue
  BY <1>4, <1>5, <1>7, SameQueue
<1> QED
  BY <1>4, <1>6, <1>8 DEF Queue!vars

\* A sequence with one element more at its end.
LEMMA AppendIsTheLonger ==
    ASSUME NEW S, NEW s \in Seq(S), NEW t \in Seq(S), NEW e \in S, NEW n \in Nat,
           Len(s) = n, Len(t) = n + 1,
           \A k \in 1 .. n : t[k] = s[k],
           t[n + 1] = e
    PROVE  t = Append(s, e)
<1> DEFINE a == Append(s, e)
<1>1. a \in Seq(S) /\ Len(a) = n + 1
  BY AppendProperties
<1>2. (\A k \in 1 .. n : a[k] = s[k]) /\ a[n + 1] = e
  BY AppendProperties
<1> HIDE DEF a
<1>3. \A k \in 1 .. n + 1 : t[k] = a[k]
  BY <1>2
<1> QED
  BY <1>1, <1>3, SeqEqual DEF a

\* The compare-and-swap takes a place at the end of the queue.
LEMMA CasIsReserve ==
    ASSUME IInv, IInv', ContentInv, NeverFilled, NEW p \in Producers, CasSucceeds(p)
    PROVE  Queue!Reserve(p, item[p])
<1>1. /\ pc[p] = "cas" /\ tail = oldTail[p] /\ tail' = NextSlot(tail)
      /\ pc' = [pc EXCEPT ![p] = "check"]
      /\ UNCHANGED <<head, items, oldTail, item, result, received>>
  BY DEF CasSucceeds, Continue, Goto, newTail, consumer
<1>2. TypeOK /\ head \in Slots /\ tail \in Slots /\ Size \in Nat
  BY SizeAssumption DEF IInv, TypeOK
<1>3. Owners' = Owners \cup {p}
  BY <1>1, <1>2 DEF TypeOK, Owners, Reserved
<1>4. status[p] = "calling" /\ status' = [status EXCEPT ![p] = "filling"]
  <2>1. StatusOf("check") = "filling" /\ StatusOf(pc[p]) = "calling"
    BY <1>1, StatusValues DEF Reserved, Unreserved
  <2> QED
    BY <1>1, <1>2, <2>1, StatusIs, StatusStep, ZenonT(40)
<1> DEFINE n == Dist(head, tail)
           e == [item |-> item[p], owner |-> p]
<1>5. n \in Nat /\ n < Size - 1 /\ Dist(head, tail)' = n + 1
  <2>1. n < Size - 1
    BY <1>1, RoomForReserving DEF Reserving, Unreserved
  <2>2. Dist(head, tail') = n + 1
    BY <1>2, <1>1, <2>1, DistNextEnd
  <2> QED
    BY <1>1, <1>2, <2>1, <2>2, DistRange
<1>6. e \in Places
  BY <1>2 DEF Places, TypeOK
<1>7. QueueIs /\ QueueIs' /\ PlacesInv /\ PlacesInv'
  BY TheQueueIs, PlacesAre, PTL
<1>8. PICK t \in Slots : t = tail
  BY <1>2
<1>9. PlaceAt(t)' = e
  <2>1. p \in Owners' /\ oldTail'[p] = t
    BY <1>1, <1>3, <1>8
  <2>2. PlaceAt(t)' = [item |-> item'[p], owner |-> p]
    BY <1>7, <2>1 DEF PlacesInv
  <2> QED
    BY <1>1, <2>2
<1>10. \A s \in Slots : s # t => PlaceAt(s)' = PlaceAt(s)
  BY <1>1, <1>3, <1>7, <1>8 DEF PlacesInv
<1> HIDE DEF e
<1>11. /\ \A k \in 1 .. n : SlotAt(head, k) \in Slots /\ SlotAt(head, k) # t
       /\ SlotAt(head, n + 1) = t
  <2>1. ASSUME NEW k \in 1 .. n PROVE SlotAt(head, k) \in Slots /\ SlotAt(head, k) # t
    <3>1. k \in 1 .. Size
      BY <1>2, <1>5
    <3>2. SlotAt(head, k) \in Slots /\ Dist(head, SlotAt(head, k)) = k - 1
      BY <1>2, <3>1, SlotAtDistance
    <3>3. k - 1 # n
      BY <1>5
    <3> QED
      BY <1>8, <3>2, <3>3
  <2>2. SlotAt(head, n + 1) = t
    BY <1>2, <1>8, SlotAtDistance
  <2> QED
    BY <2>1, <2>2
<1>12. /\ queue \in Seq(Places) /\ Len(queue) = n
       /\ \A k \in 1 .. n : queue[k] = PlaceAt(SlotAt(head, k))
  BY <1>7, <1>11 DEF QueueIs
<1>13. /\ queue' \in Seq(Places) /\ Len(queue') = n + 1
       /\ \A k \in 1 .. n : queue'[k] = queue[k]
       /\ queue'[n + 1] = e
  <2>1. queue' \in Seq(Places) /\ Len(queue') = n + 1
    BY <1>5, <1>7 DEF QueueIs
  <2>2. \A k \in 1 .. n + 1, s \in Slots : s = SlotAt(head, k) => queue'[k] = PlaceAt(s)'
    BY <1>1, <1>5, <1>7 DEF QueueIs
  <2>3. \A k \in 1 .. n : queue'[k] = queue[k]
    <3>1. \A k \in 1 .. n : k \in 1 .. n + 1
      BY <1>5
    <3>2. \A k \in 1 .. n, s \in Slots : s = SlotAt(head, k) => queue[k] = PlaceAt(s)
      BY <1>7 DEF QueueIs
    <3> QED
      BY <1>10, <1>11, <2>2, <3>1, <3>2
  <2>4. queue'[n + 1] = e
    <3>1. n + 1 \in 1 .. n + 1
      BY <1>5
    <3> QED
      BY <1>9, <1>11, <2>2, <3>1
  <2> QED
    BY <2>1, <2>3, <2>4
<1>14. Len(queue) < Size - 1
  BY <1>5, <1>12
<1> HIDE DEF n
<1>15. queue' = Append(queue, e)
  BY <1>5, <1>6, <1>12, <1>13, AppendIsTheLonger
<1> QED
  BY <1>1, <1>4, <1>14, <1>15 DEF Queue!Reserve, e

\* A slot that becomes valid fills its place.
LEMMA StoreIsFill ==
    ASSUME IInv, IInv', ContentInv, NEW p \in Producers, StoreValid(p)
    PROVE  \E k \in DOMAIN queue : Queue!Fill(p, k)
<1>1. /\ pc[p] = "storeValid" /\ pc' = [pc EXCEPT ![p] = "idle"]
      /\ result' = [result EXCEPT ![p] = "true"]
      /\ oldTail' = [oldTail EXCEPT ![p] = 0] /\ item' = [item EXCEPT ![p] = NoItem]
      /\ UNCHANGED <<head, tail, items, received>>
  BY DEF StoreValid, Return, Goto, consumer
<1>2. TypeOK /\ head \in Slots /\ tail \in Slots /\ Size \in Nat
  BY SizeAssumption DEF IInv, TypeOK
<1>3. p \in Owners /\ Owners' = Owners \ {p}
  BY <1>1, <1>2 DEF TypeOK, Owners, Reserved
<1>4. status[p] = "filling" /\ status' = [status EXCEPT ![p] = "idle"]
  <2>1. StatusOf("idle") = "idle" /\ StatusOf(pc[p]) = "filling"
    BY <1>1, StatusValues DEF Reserved
  <2> QED
    BY <1>1, <1>2, <2>1, StatusIs, StatusStep, ZenonT(40)
<1>5. QueueIs /\ QueueIs' /\ PlacesInv /\ PlacesInv'
  BY TheQueueIs, PlacesAre, PTL
<1>6. PICK t \in Slots : t = oldTail[p]
  BY <1>2 DEF TypeOK
<1>7. \A q \in Owners : q # p => oldTail[q] # t
  BY <1>3, <1>6 DEF IInv, OwnersDistinct
<1>8. PlaceAt(t) = [item |-> item[p], owner |-> p]
  BY <1>3, <1>5, <1>6 DEF PlacesInv
<1>9. PlaceAt(t)' = [item |-> item[p], owner |-> Nobody]
  <2>1. \A q \in Owners' : oldTail'[q] # t
    BY <1>1, <1>2, <1>3, <1>7 DEF TypeOK, Owners
  <2>2. PlaceAt(t)' = [item |-> items'[t], owner |-> Nobody]
    BY <1>5, <2>1 DEF PlacesInv
  <2>3. items'[t] = item[p]
    BY <1>1, <1>6 DEF ContentInv
  <2> QED
    BY <2>2, <2>3
<1>10. \A s \in Slots : s # t => PlaceAt(s)' = PlaceAt(s)
  <2> SUFFICES ASSUME NEW s \in Slots, s # t PROVE PlaceAt(s)' = PlaceAt(s)
    OBVIOUS
  <2>1. \A q \in Owners' : q \in Owners /\ oldTail'[q] = oldTail[q] /\ item'[q] = item[q]
    BY <1>1, <1>2, <1>3 DEF TypeOK, Owners
  <2>2. CASE \E q \in Owners : oldTail[q] = s
    <3>1. PICK q \in Owners : oldTail[q] = s
      BY <2>2
    <3>2. q \in Owners'
      BY <1>3, <1>6, <3>1
    <3> QED
      BY <1>5, <2>1, <3>1, <3>2 DEF PlacesInv
  <2>3. CASE \A q \in Owners : oldTail[q] # s
    BY <1>1, <1>5, <2>1, <2>3 DEF PlacesInv
  <2> QED
    BY <2>2, <2>3
<1> DEFINE n == Dist(head, tail)
           j == Dist(head, t) + 1
<1>11. n \in Nat /\ n < Size /\ j \in 1 .. n /\ SlotAt(head, j) = t /\ Dist(head, tail)' = n
  <2>1. Dist(head, t) < n
    BY <1>3, <1>6 DEF IInv, OwnerInv, Occupied
  <2>2. n \in Nat /\ n < Size /\ Dist(head, tail)' = n
    BY <1>1, <1>2, DistRange DEF Dist
  <2>3. Dist(head, t) \in Nat /\ SlotAt(head, Dist(head, t) + 1) = t
    BY <1>2, DistRange, SlotAtDistance
  <2> QED
    BY <2>1, <2>2, <2>3
<1> HIDE DEF n, j
<1>12. \A k \in 1 .. n : SlotAt(head, k) \in Slots /\ (SlotAt(head, k) = t => k = j)
  <2> SUFFICES ASSUME NEW k \in 1 .. n
               PROVE  SlotAt(head, k) \in Slots /\ (SlotAt(head, k) = t => k = j)
    OBVIOUS
  <2>1. k \in 1 .. Size
    BY <1>2, <1>11
  <2>2. SlotAt(head, k) \in Slots /\ Dist(head, SlotAt(head, k)) = k - 1
    BY <1>2, <2>1, SlotAtDistance
  <2> QED
    BY <2>2 DEF j
<1>13. /\ queue \in Seq(Places) /\ Len(queue) = n
       /\ \A k \in 1 .. n : queue[k] = PlaceAt(SlotAt(head, k))
  BY <1>5, <1>12 DEF QueueIs, n
<1>14. /\ queue' \in Seq(Places) /\ Len(queue') = n
       /\ \A k \in 1 .. n, s \in Slots : s = SlotAt(head, k) => queue'[k] = PlaceAt(s)'
  BY <1>1, <1>5, <1>11 DEF QueueIs
<1>15. /\ queue[j] = [item |-> item[p], owner |-> p]
       /\ queue'[j] = [item |-> item[p], owner |-> Nobody]
       /\ \A k \in 1 .. n : k # j => queue'[k] = queue[k]
  <2>1. queue[j] = [item |-> item[p], owner |-> p]
    BY <1>8, <1>11, <1>13
  <2>2. queue'[j] = [item |-> item[p], owner |-> Nobody]
    BY <1>9, <1>11, <1>14
  <2>3. \A k \in 1 .. n : k # j => queue'[k] = queue[k]
    BY <1>10, <1>12, <1>13, <1>14
  <2> QED
    BY <2>1, <2>2, <2>3
<1>16. queue' = [queue EXCEPT ![j].owner = Nobody]
  <2>1. [queue[j] EXCEPT !.owner = Nobody] = queue'[j]
    BY <1>15
  <2>2. queue'[j] \in Places
    BY <1>11, <1>14, ElementOfSeq
  <2>3. queue' = [queue EXCEPT ![j] = queue'[j]]
    <3> DEFINE e == queue'[j]
               r == [queue EXCEPT ![j] = e]
    <3>1. /\ r \in Seq(Places) /\ Len(r) = n
          /\ \A k \in 1 .. n : r[k] = IF k = j THEN e ELSE queue[k]
      BY <1>11, <1>13, <2>2, ExceptSeq
    <3> HIDE DEF r
    <3>2. \A k \in 1 .. n : queue'[k] = r[k]
      BY <1>15, <3>1
    <3>3. queue' = r
      BY <1>14, <3>1, <3>2, SeqEqual
    <3> QED
      BY <3>3 DEF r
  <2> QED
    BY <2>1, <2>3
<1>17. DOMAIN queue = 1 .. n
  BY <1>13, LenProperties
<1>18. Queue!Fill(p, j)
  BY <1>1, <1>4, <1>15, <1>16 DEF Queue!Fill, Queue!Return
<1> QED
  BY <1>11, <1>17, <1>18

\* get() moves on: the first place, which is filled, leaves the queue.
LEMMA AdvanceIsRead ==
    ASSUME IInv, IInv', ContentInv, AdvanceHead
    PROVE  Queue!Read
<1>1. /\ head' = NextSlot(head) /\ received' = got /\ head # tail
      /\ got = items[head] /\ \A q \in Owners : oldTail[q] # head
      /\ UNCHANGED <<tail, items, pc, oldTail, item, result>>
  BY DEF AdvanceHead, IInv, ConsumerInv, ContentInv, producer
<1>2. TypeOK /\ head \in Slots /\ tail \in Slots /\ Size \in Nat
  BY SizeAssumption DEF IInv, TypeOK
<1>3. Owners' = Owners /\ status' = status
  BY <1>1 DEF Owners, status
<1>4. QueueIs /\ QueueIs' /\ PlacesInv /\ PlacesInv'
  BY TheQueueIs, PlacesAre, PTL
<1>5. \A s \in Slots : PlaceAt(s)' = PlaceAt(s)
  BY <1>1, <1>3, <1>4 DEF PlacesInv
<1>6. PICK h \in Slots : h = head
  BY <1>2
<1>7. PICK g \in Slots : g = head' /\ g = NextSlot(h)
  BY <1>1, <1>6, NextSlotValue
<1> DEFINE n == Dist(head, tail)
<1>8. n \in Nat /\ n > 0 /\ n < Size /\ Dist(head, tail)' = n - 1
  <2>1. n \in Nat /\ n > 0 /\ n < Size
    BY <1>1, <1>2, DistRange
  <2>2. Dist(head', tail') = n - 1
    BY <1>1, <1>2, DistNextStart
  <2> QED
    BY <2>1, <2>2
<1>9. /\ queue \in Seq(Places) /\ Len(queue) = n
      /\ \A k \in 1 .. n, s \in Slots : s = SlotAt(h, k) => queue[k] = PlaceAt(s)
  BY <1>4, <1>6 DEF QueueIs
<1>10. /\ queue' \in Seq(Places) /\ Len(queue') = n - 1
       /\ \A k \in 1 .. n - 1, s \in Slots : s = SlotAt(g, k) => queue'[k] = PlaceAt(s)'
  BY <1>4, <1>7, <1>8 DEF QueueIs
<1> HIDE DEF n
<1>11. queue # <<>>
  <2>1. Len(<<>>) = 0
    BY EmptySeq
  <2> QED
    BY <1>8, <1>9, <2>1
<1>12. Head(queue) = [item |-> items[head], owner |-> Nobody]
  <2>1. Head(queue) = queue[1]
    OBVIOUS
  <2>2. SlotAt(h, 1) = h
    <3>1. Dist(h, h) = 0
      BY DistRange
    <3>2. SlotAt(h, Dist(h, h) + 1) = h
      BY SlotAtDistance
    <3> QED
      BY <3>1, <3>2
  <2>3. 1 \in 1 .. n
    BY <1>8
  <2>4. queue[1] = PlaceAt(h)
    BY <1>9, <2>2, <2>3
  <2>5. PlaceAt(h) = [item |-> items[h], owner |-> Nobody]
    BY <1>1, <1>4, <1>6 DEF PlacesInv
  <2> QED
    BY <1>6, <2>1, <2>4, <2>5
<1>13. queue' = Tail(queue)
  <2> DEFINE t == Tail(queue)
  <2>1. t \in Seq(Places) /\ Len(t) = n - 1 /\ \A k \in 1 .. n - 1 : t[k] = queue[k + 1]
    BY <1>9, <1>11, HeadTailProperties
  <2> HIDE DEF t
  <2>2. ASSUME NEW k \in 1 .. n - 1 PROVE queue'[k] = t[k]
    <3>1. k \in 1 .. Size - 1 /\ k + 1 \in 1 .. n /\ k \in 1 .. Size
      BY <1>2, <1>8
    <3>2. SlotAt(g, k) = SlotAt(h, k + 1) /\ SlotAt(g, k) \in Slots
      BY <1>7, <3>1, SlotAtNext, SlotAtDistance
    <3>3. queue'[k] = PlaceAt(SlotAt(g, k))'
      BY <1>10, <3>2
    <3>4. queue[k + 1] = PlaceAt(SlotAt(g, k))
      BY <1>9, <3>1, <3>2
    <3> QED
      BY <1>5, <2>1, <3>2, <3>3, <3>4
  <2> QED
    BY <1>10, <2>1, <2>2, SeqEqual DEF t
<1> QED
  BY <1>1, <1>3, <1>11, <1>12, <1>13 DEF Queue!Read, Queue!Filled

\* get() up to there changes nothing that the queue has.
LEMMA ReadingIsStutter ==
    ASSUME IInv, IInv', CheckEmpty \/ CheckValid \/ LoadItem \/ ClearValid
    PROVE  UNCHANGED Queue!vars
<1>1. UNCHANGED <<head, tail, items, producer, received>>
  BY DEF CheckEmpty, CheckValid, LoadItem, ClearValid, shared
<1>2. Owners' = Owners /\ status' = status /\ UNCHANGED <<oldTail, item, result>>
  BY <1>1 DEF producer, Owners, status
<1>3. queue' = queue
  BY <1>1, <1>2, SameQueue
<1> QED
  BY <1>1, <1>2, <1>3 DEF Queue!vars

\* A step of the ring is a step of the queue, or leaves it as it is.
LEMMA NextRefines ==
    ASSUME IInv, IInv', ContentInv, NeverFilled, [Next]_vars
    PROVE  [Queue!Next]_Queue!vars
<1>1. ASSUME NEW p \in Producers, NEW i \in Items, BeginPut(p, i)
      PROVE  Queue!Next
  BY <1>1, BeginIsCall DEF Queue!Next
<1>2. ASSUME NEW p \in Producers, CasSucceeds(p)
      PROVE  Queue!Next
  <2>1. item[p] \in Items
    BY <1>2 DEF ContentInv, CasSucceeds
  <2> QED
    BY <1>2, <2>1, CasIsReserve DEF Queue!Next
<1>3. ASSUME NEW p \in Producers, CasFails(p) \/ Reload(p) \/ Recheck(p)
      PROVE  Queue!Next \/ UNCHANGED Queue!vars
  BY <1>3, UnreservedIsQueueStep DEF Queue!Next
<1>4. ASSUME NEW p \in Producers, Check(p) \/ StoreItem(p)
      PROVE  UNCHANGED Queue!vars
  BY <1>4, ReservedIsStutter
<1>5. ASSUME NEW p \in Producers, StoreValid(p)
      PROVE  Queue!Next
  BY <1>5, StoreIsFill DEF Queue!Next
<1>6. ASSUME GetStep
      PROVE  Queue!Next \/ UNCHANGED Queue!vars
  <2>1. AdvanceHead => Queue!Next
    BY AdvanceIsRead DEF Queue!Next
  <2> QED
    BY <1>6, <2>1, ReadingIsStutter DEF GetStep
<1>7. ASSUME UNCHANGED vars
      PROVE  UNCHANGED Queue!vars
  <2>1. UNCHANGED <<head, tail, items, pc, oldTail, item, result, received>>
    BY <1>7 DEF vars, shared, producer, consumer
  <2>2. Owners' = Owners /\ status' = status
    BY <2>1 DEF Owners, status
  <2>3. queue' = queue
    BY <2>1, <2>2, SameQueue
  <2> QED
    BY <2>1, <2>2, <2>3 DEF Queue!vars
<1> QED
  BY <1>1, <1>2, <1>3, <1>4, <1>5, <1>6, <1>7 DEF Next, PutStep

\* The empty ring is the empty queue.
LEMMA InitRefines == Init => Queue!Init
<1> SUFFICES ASSUME Init PROVE Queue!Init
  OBVIOUS
<1>1. queue = <<>>
  <2>1. IInv /\ Dist(head, tail) = 0
    BY InitIInv DEF Init, Dist
  <2>2. queue \in Seq(Places) /\ Len(queue) = 0
    BY <2>1, TheQueueIs DEF QueueIs
  <2> QED
    BY <2>2, EmptySeq
<1>2. status = [p \in Producers |-> "idle"]
  <2>1. status = [p \in Producers |-> StatusOf(pc[p])]
    BY DEF status, StatusOf
  <2>2. \A p \in Producers : StatusOf(pc[p]) = "idle"
    BY StatusValues DEF Init
  <2> QED
    BY <2>1, <2>2
<1> QED
  BY <1>1, <1>2 DEF Init, Queue!Init

\* Every put() and get() of the ring is a step of a queue: items come out once, in
\* the order in which the slots were reserved, with the value that was put.
THEOREM RingIsQueue ==
    ASSUME NeverFilled
    PROVE  Spec => ImplementsQueue
<1>1. IInv /\ IInv' /\ ContentInv /\ [Next]_vars => [Queue!Next]_Queue!vars
  BY NextRefines
<1> QED
  BY <1>1, InitRefines, Invariance, ContentsAreKept, PTL
  DEF Spec, ImplementsQueue, Queue!Spec

=============================================================================
