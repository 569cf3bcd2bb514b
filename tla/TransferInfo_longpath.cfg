SPECIFICATION Spec
CONSTANTS
  NotANumber = NotANumber
  TooBig = TooBig
  NoColon = NoColon
  String <- MCString
  PortText <- MCPortText
  FileSize <- MCFileSize
  WordSize = 4096
  SendMax = 2000
INVARIANT StatusNamesTheFile
CHECK_DEADLOCK FALSE
