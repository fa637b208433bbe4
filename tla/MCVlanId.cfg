\* Tagged packets that one end's xdp_vlan02 should abort.
SPECIFICATION Spec
CONSTANTS
  Packets <- MCPackets
  Program = {"pass", "vlan02"}
  MaxBridged = 0
INVARIANT
  InnerVlan42Aborted
CHECK_DEADLOCK FALSE
