\* One command and enough polls to use up the files (1024 by default).
CONSTANTS
  Command = {c1}
  NoOne = NoOne
  Invocation <- Invocations
  DriverNative = TRUE
  FdLimit = 8
  MaxPackets = 2
SPECIFICATION Spec
INVARIANT
  StatsNeedsNoRestart
CHECK_DEADLOCK FALSE
