SPECIFICATION FairSpec
CONSTANTS
  Conns = {c1}
  Addrs = {a1}
  Requests = {r1, r2}
  MaxPerConn = 2
  Pieces = 2
  Async = FALSE
  May = {}
  NoAddr = NoAddr
  NoConn = NoConn
PROPERTIES
  RequestIsAnswered
CHECK_DEADLOCK FALSE
