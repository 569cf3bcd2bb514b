SPECIFICATION FairSpec
CONSTANTS
  MaxCalls = 3
  PayloadSize <- MCPayloadSize
  GarbageSize <- MCGarbageSize
  StackLimit = 100
  ZeroRecvWaits <- MCBoth
  MaySplit = TRUE
INVARIANT StreamTypeOK
INVARIANT InStepUntilShortRead
PROPERTY CallReturns
CHECK_DEADLOCK FALSE
