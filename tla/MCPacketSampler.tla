--------------------------- MODULE MCPacketSampler ---------------------------
(* An instance of PacketSampler for TLC: one CPU gets enough packets to fill its
   ring, lose some, and write a record of that. *)
EXTENDS PacketSampler

PacketsOfCpu == [c \in Cpu |-> IF c = 0 THEN 4 ELSE 2]
=============================================================================
