SPECIFICATION TransferFairSpec
CONSTANTS
  a = a
  b = b
  twin = twin
  zero = zero
  NoFile = NoFile
  EmptyPayload = EmptyPayload
  Content <- MCContent
  CRC <- MCCRC
  CrcOf <- MCCrcOf
  CrcError = 0
  MaxRetries = 3
  MayClose = TRUE
INVARIANT TransferTypeOK
INVARIANT RepliesArePaired
INVARIANT AcceptedWasChecked
INVARIANT ResultAgrees
PROPERTY AcceptedIsFinal
PROPERTY KeepsPromise
PROPERTY Terminates
