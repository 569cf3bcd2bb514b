SPECIFICATION Spec
CONSTANTS
  MaxCalls = 3
  PayloadSize <- MCPayloadSize
  GarbageSize <- MCGarbageSize
  StackLimit = 100
  ZeroRecvWaits <- MCMacOS
  MaySplit = TRUE
INVARIANT ResponseIsOwn
CHECK_DEADLOCK FALSE
