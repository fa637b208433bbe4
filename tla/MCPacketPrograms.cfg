SPECIFICATION FairSpec
CONSTANTS
  Packets <- MCPackets
  Program = {"none", "pass", "parser", "patch_ports", "vlan_swap", "vlan01", "vlan02", "icmp_echo", "router"}
  MaxBridged = 2
INVARIANTS
  TypeOK
  HeaderChecksumHolds
  RoutedIsAlive
  AnsweredOnce
  ReplyChecksumMostlyHolds
  SwapKeepsPayload
  OnlyMalformedAborts
PROPERTY
  PacketsComeToRest
CHECK_DEADLOCK FALSE
