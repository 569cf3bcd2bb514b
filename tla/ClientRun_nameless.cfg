SPECIFICATION Spec
CONSTANTS
  alice = alice
  bob = bob
  a = a
  EmptyName = EmptyName
  UninitId = UninitId
  StaleId = StaleId
  NoFile = NoFile
  EmptyPayload = EmptyPayload
  Name <- MCName
  TransferName = alice
  Content <- MCContent
  CRC <- MCCRC
  CrcOf <- MCCrcOf
  CrcError = 0
  MaxRetries = 1
  MaxRuns = 2
  MayClose = FALSE
  MayCrash = TRUE
  DiskMayFail = FALSE
INVARIANT AlwaysNamed
