SPECIFICATION FairSpec
CONSTANTS
  Conns = {c1, c2}
  Senders = {t1}
  Sizes = {2}
  SocketSpace = 1
  MaxRx = 1
  MaxTx = 1
  Faults = {"close", "reset", "framing", "accept", "read"}
  MayStop = TRUE
  NoConn = NoConn
INVARIANTS
  ObserverInStep
  
PROPERTIES
  NoEdgeIsLost
  StopReturns
  QueuedIsSent
CHECK_DEADLOCK FALSE
