SPECIFICATION Spec
CONSTANTS
  alice = alice
  bob = bob
  a = a
  EmptyName = EmptyName
  UninitId = UninitId
  StaleId = StaleId
  NoFile = NoFile
  EmptyPayload = EmptyPayload
  Name <- MCName
  TransferName = alice
  Content <- MCContent
  CRC <- MCCRC
  CrcOf <- MCCrcOf
  CrcError = 0
  MaxRetries = 1
  MaxRuns = 1
  MayClose = TRUE
  MayCrash = FALSE
  DiskMayFail = FALSE
INVARIANT SavedIdIsAssigned
