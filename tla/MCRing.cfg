SPECIFICATION FairSpec
CONSTANTS
  Producers = {p1, p2}
  Items = {a, b}
  Size = 4
  MaxOutstanding = 3
  NoItem = NoItem
  Nobody = Nobody
INVARIANTS
  IInv
  SlotExclusive
  ReservedIsFilled
  NothingStranded
PROPERTIES
  ImplementsQueue
  PublishedIsRead
  LockFree
CHECK_DEADLOCK FALSE
