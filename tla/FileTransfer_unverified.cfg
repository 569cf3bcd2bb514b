SPECIFICATION TransferSpec
CONSTANTS
  a = a
  b = b
  twin = twin
  zero = zero
  NoFile = NoFile
  EmptyPayload = EmptyPayload
  Content <- MCSmallContent
  CRC <- MCCRC
  CrcOf <- MCSmallCrcOf
  CrcError = 0
  MaxRetries = 3
  MayClose = TRUE
INVARIANT TrueOnlyIfVerified
