SPECIFICATION FairSpec
CONSTANTS
  Conns = {c1, c2}
  Addrs = {a1, a2}
  Requests = {r1, r2}
  MaxPerConn = 2
  Pieces = 2
  Async = TRUE
  May = {"refuse", "reuse", "frame", "stop"}
  NoAddr = NoAddr
  NoConn = NoConn
INVARIANTS
  DeletedClientIsLeftAlone
  ResponseToRequester
PROPERTIES
  ImplementsChannel
  FirstIsAnswered
CHECK_DEADLOCK FALSE
