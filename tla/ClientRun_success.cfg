SPECIFICATION Spec
CONSTANTS
  alice = alice
  bob = bob
  a = a
  EmptyName = EmptyName
  UninitId = UninitId
  StaleId = StaleId
  NoFile = NoFile
  EmptyPayload = EmptyPayload
  Name <- MCName
  TransferName = alice
  Content <- MCContent
  CRC <- MCCRC
  CrcOf <- MCCrcOf
  CrcError = 0
  MaxRetries = 3
  MaxRuns = 3
  MayClose = TRUE
  MayCrash = TRUE
  DiskMayFail = FALSE
INVARIANT SuccessIsComplete
