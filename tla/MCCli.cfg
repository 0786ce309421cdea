SPECIFICATION CallSpec
CONSTANTS
  None = None
  MaxStdoutBytes = 2
  MaxStderrBytes = 1
  MaxWritten = 3
INVARIANTS
  SuccessIsWhole
  NoToolIsLeftAtWork
PROPERTIES
  StoppedCallsSaySo
  FirstCauseStands
  CallsEnd
CHECK_DEADLOCK FALSE
