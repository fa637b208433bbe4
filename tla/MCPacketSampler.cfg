SPECIFICATION FairSpec
CONSTANTS
  NrCpus = 2
  RingSize = 2
  MaxPackets <- PacketsOfCpu
INVARIANTS
  TypeOK
  NothingVanishes
  StoredOnceInOrder
  DetachesItsOwn
PROPERTIES
  SamplesAreStored
  SignalEnds
CHECK_DEADLOCK FALSE
