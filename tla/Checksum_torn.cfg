SPECIFICATION Spec
CONSTANTS
  NoFile = NoFile
  Content <- MCContent
  ReadSize = {1, 4, 256}
  MaxVersions = 2
  IntMax = 257
  DamageByte <- MCByte
  MaxDamaged = 6
INVARIANT ChecksumTypeOK
INVARIANT QuietFileHasItsCksum
INVARIANT TornReadIsStillRead
INVARIANT DamageIsNoticed
CHECK_DEADLOCK FALSE
