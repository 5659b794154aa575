SPECIFICATION FairSpec
CONSTANTS
  Conns = {c1, c2}
  MaxConnections = 2
  MaxFrames = 2
  Kinds = {"upgrade", "text", "close", "bad"}
  SocketSpace = 1
  TxSize = 2
  MaxSends = 2
  Timeout = 1
  MaxTime = 1
  Faults = {"reset", "accept", "read", "destroy", "foreign"}
  NoConn = NoConn
INVARIANTS
  ApplicationInStep
  SwitchComesFirst
  SentWhenReturned
PROPERTIES
  WorkReturns
  NoEdgeIsLost
  ImplementsChannel
CHECK_DEADLOCK FALSE
