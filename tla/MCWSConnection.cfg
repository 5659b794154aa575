SPECIFICATION ConnectionFairSpec
CONSTANTS
  Frames <- TheFrames
  MaxFrames = 3
  RecvSize = 9
  DefaultSize = 14
  Width = 20
  LowerCase <- TheLowerCase
  Requests <- TheRequests
  NoRequest = NoRequest
  MaxData = 21
INVARIANTS
  InStep
  
  UpgradeIsRead
PROPERTIES
  FrameIsProcessed
  UpgradeIsAnswered
CHECK_DEADLOCK FALSE
