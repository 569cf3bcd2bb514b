SPECIFICATION Spec
CONSTANTS
  NotANumber = NotANumber
  TooBig = TooBig
  NoColon = NoColon
  String <- MCFitting
  PortText <- MCPortText
  FileSize <- MCFileSize
  WordSize = 4096
  SendMax = 2000
INVARIANT NameArrives
INVARIANT StatusNamesTheFile
INVARIANT FileArrivesWhole
CHECK_DEADLOCK FALSE
