\* Requests whose checksums are the last ones: one is answered with a checksum
\* that does not hold.
SPECIFICATION Spec
CONSTANTS
  Packets <- LastPings
  Program = {"pass", "icmp_echo"}
  MaxBridged = 0
INVARIANT
  ReplyChecksumHolds
CHECK_DEADLOCK FALSE
