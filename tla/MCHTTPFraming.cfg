SPECIFICATION FairSpec
CONSTANTS
  Requests <- TheRequests
  MaxRequests = 3
  RecvSize = 5
  HeaderLimit = 6
  Leftover = TRUE
INVARIANTS
  DeliveredAsSent
  
PROPERTIES
  RequestIsDelivered
CHECK_DEADLOCK FALSE
