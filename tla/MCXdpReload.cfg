CONSTANTS
  Command = {c1, c2, c3}
  NoOne = NoOne
  Invocation <- Invocations
  DriverNative = TRUE
  FdLimit = 3
  MaxPackets = 1
SYMMETRY Symmetry
SPECIFICATION Spec
INVARIANTS
  TypeOK
  ForceIsNotRefused
  LoadedMapIsPinned
  StatsNeverGoBack
  AppLeavesNothing
PROPERTY
  LoadersNeedForce
CHECK_DEADLOCK FALSE
