--------------------------- MODULE MCPacketPrograms ---------------------------
(* Instances of PacketPrograms for TLC. *)
EXTENDS PacketPrograms

Ip(proto, ihl, ttl, protocol, check) ==
  [ihl |-> ihl, ttl |-> ttl, protocol |-> protocol, src |-> "a", dst |-> "b",
   check |-> check,
   rest |-> IF proto = "ip" THEN 65535 + 65535 - check - ttl ELSE 0]

L4(type, seq, cksum, size) ==
  [type |-> type, seq |-> seq, cksum |-> cksum,
   rest |-> 65535 + 65535 - cksum - type, port |-> seq, size |-> size]

NewPacket(tags, proto, ip, l4, len, room) ==
  [src |-> "A", dst |-> "B", tags |-> tags, proto |-> proto, ip |-> ip,
   l4 |-> l4, len |-> len, room |-> room]

(* Pings over IPv4: IP checksums around the carry, ICMP checksums at both ends
   of those that the echo server patches correctly. *)
Pings ==
  {NewPacket(<<>>, "ip", Ip("ip", 5, 3, "icmp", check), L4(type, 0, cksum, 0), 60, 4) :
     check \in {0, 65533, 65534}, type \in {0, 8}, cksum \in {0, 9, 65526}}

(* ... that expire sooner, have an option word and an odd number. *)
ExpiringPings ==
  {NewPacket(<<>>, "ip", Ip("ip", 6, ttl, "icmp", 1), L4(8, 1, 500, 0), 60, 4) : ttl \in 1 .. 2}

(* Pings over IPv6. *)
Pings6 ==
  {NewPacket(tags, "ip6", Ip("ip6", 0, ttl, "icmp6", 0), L4(type, 0, cksum, 0), 70, 4) :
     tags \in {<<>>, <<7>>}, ttl \in {1, 3}, type \in {128, 129}, cksum \in {0, 65526}}

(* Pings whose checksums are the last ones. *)
LastPings ==
  {NewPacket(<<>>, "ip", Ip("ip", 5, 2, "icmp", 0), L4(8, 0, cksum, 0), 60, 4) :
     cksum \in 65520 .. 65534}

(* UDP and TCP headers that are whole, cut off, or wrong about their size. *)
Datagrams ==
  {NewPacket(<<>>, "ip", Ip("ip", 5, 2, "udp", 0), L4(8, port, 0, size), len, 4) :
     port \in {0, 1}, size \in {7, 8}, len \in {33, 41, 42}}
  \cup {NewPacket(<<>>, "ip", Ip("ip", ihl, 2, "tcp", 0), L4(8, 80, 0, size), len, 4) :
     ihl \in {1, 5}, size \in {4, 20, 24}, len \in {53, 54, 58}}

(* Up to five tags, with a packet that is cut off at one of them. *)
Tagged ==
  {NewPacket(tags, "ip", Ip("ip", 5, 2, "udp", 0), L4(8, 1, 0, 8), len, 4) :
     tags \in {<<>>, <<42>>, <<5, 42>>, <<5, 42, 6>>, <<5, 10752>>, <<1, 2, 3, 4, 5>>},
     len \in {13, 18, 21, 22, 60}}

(* Nothing but an Ethernet header, and room for none or two tags. *)
Frames ==
  {NewPacket(<<>>, "arp", Ip("arp", 0, 0, "none", 0), L4(0, 0, 0, 0), 14, room) : room \in {0, 8}}

MCPackets == UNION {Pings, ExpiringPings, Pings6, Datagrams, Tagged, Frames}
=============================================================================
