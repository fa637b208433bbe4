SPECIFICATION Spec
CONSTANTS
  e1 = e1  e2 = e2  e3 = e3
  c1 = c1  c2 = c2  c3 = c3  c4 = c4
  Env <- Env3
  Guest = guest
  NoOne = noone
  IfIndex <- IfIndex3
  TxPorts = 3
  Command <- Command4
  Jobs <- JobsWithout3
  MaxMaps = 3
  MaxRunning = 2
SYMMETRY CommandsAlike
INVARIANTS
  RedirectWorks
PROPERTIES
  FirstSetupLosesNothing RouterHasPorts
CHECK_DEADLOCK FALSE
