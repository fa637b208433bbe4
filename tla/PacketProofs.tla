----------------------------- MODULE PacketProofs -----------------------------
(***************************************************************************)
(* What holds of PacketPrograms for every set of packets, every choice of  *)
(* programs and any number of hops.                                        *)
(***************************************************************************)
EXTENDS PacketPrograms, TLAPS

-----------------------------------------------------------------------------
(* Checksum arithmetic.                                                    *)

LEMMA Field16Range ==
  ASSUME NEW c \in Int
  PROVE  c \in Field16 <=> 0 <= c /\ c <= 65535
  BY SMTT(60) DEF Field16

LEMMA Field16Int ==
  ASSUME NEW c \in Field16
  PROVE  c \in Int /\ 0 <= c /\ c <= 65535
  BY SMTT(60) DEF Field16

(* What ip_decrease_ttl makes of a checksum: 65535 is 0, and left out. *)
LEMMA PatchedCheck ==
  ASSUME NEW c \in Field16
  PROVE  ((c + 1) + (IF c + 1 >= 65535 THEN 1 ELSE 0)) % 65536
           = IF c < 65534 THEN c + 1 ELSE c - 65534
  BY SMTT(60) DEF Field16

(* A block whose checksum holds sums up to a positive multiple of 65535. *)
LEMMA ChecksumMultiple ==
  ASSUME NEW s \in Int, ChecksumHolds(s)
  PROVE  s >= 65535 /\ (s > 65535 => ChecksumHolds(s - 65535))
  BY SMT DEF ChecksumHolds

(* Taking one from the time to live and patching the checksum. *)
LEMMA TtlPatchesChecksum ==
  ASSUME NEW t \in Int, NEW r \in Int, NEW c \in Field16, t > 1, r >= 0,
         ChecksumHolds(t + r + c)
  PROVE  ChecksumHolds((t - 1) + r + (IF c < 65534 THEN c + 1 ELSE c - 65534))
<1>1. CASE c < 65534
  <2>1. (t - 1) + r + (c + 1) = t + r + c
    BY SMTT(60) DEF Field16
  <2> QED BY SMT, <2>1, <1>1
<1>2. CASE ~ (c < 65534)
  <2>1. (t - 1) + r + (c - 65534) = (t + r + c) - 65535
    BY SMTT(60) DEF Field16
  <2>2. t + r + c > 65535 /\ t + r + c \in Int
    BY SMTT(60), <1>2 DEF Field16
  <2>3. ChecksumHolds((t + r + c) - 65535)
    BY SMT, <2>2, ChecksumMultiple
  <2> QED BY SMT, <2>1, <2>3, <1>2
<1> QED BY SMT, <1>1, <1>2

(* What the checksum helpers compute for an IPv4 echo reply: the checksum
   grows by what the type shrinks; if it wraps, it is one too great. *)
LEMMA EchoChecksum4 ==
  ASSUME NEW c \in Field16
  PROVE  /\ c < 65527 => icmp_checksum_diff(65535 - c, ICMP_ECHOREPLY, ICMP_ECHO) = c + 8
         /\ c >= 65527 =>
              icmp_checksum_diff(65535 - c, ICMP_ECHOREPLY, ICMP_ECHO) = c - 65526
<1>1. ASSUME c < 65527
      PROVE  icmp_checksum_diff(65535 - c, ICMP_ECHOREPLY, ICMP_ECHO) = c + 8
  BY SMTT(60), <1>1
     DEF Field16, icmp_checksum_diff, csum_fold_helper, bpf_csum_diff, Add32,
      Not32, Word, ICMP_ECHO, ICMP_ECHOREPLY
<1>2. ASSUME c >= 65527
      PROVE  icmp_checksum_diff(65535 - c, ICMP_ECHOREPLY, ICMP_ECHO) = c - 65526
  BY SMTT(60), <1>2
     DEF Field16, icmp_checksum_diff, csum_fold_helper, bpf_csum_diff, Add32,
      Not32, Word, ICMP_ECHO, ICMP_ECHOREPLY
<1> QED BY <1>1, <1>2

(* ... and for an IPv6 one, whose type is greater by one. *)
LEMMA EchoChecksum6 ==
  ASSUME NEW c \in Field16
  PROVE  icmp_checksum_diff(65535 - c, ICMPV6_ECHO_REPLY, ICMPV6_ECHO_REQUEST)
           = IF c = 0 THEN 65534 ELSE c - 1
  BY SMTT(60) DEF Field16, icmp_checksum_diff, csum_fold_helper, bpf_csum_diff, Add32, Not32,
             Word, ICMPV6_ECHO_REPLY, ICMPV6_ECHO_REQUEST

(* An answer to a message whose checksum holds, unless it is an IPv4 message
   with one of the last nine. *)
LEMMA EchoKeepsChecksum ==
  ASSUME NEW r \in Nat, NEW c \in Field16,
         NEW old \in Int, NEW new \in Int,
         \/ old = ICMP_ECHO /\ new = ICMP_ECHOREPLY
         \/ old = ICMPV6_ECHO_REQUEST /\ new = ICMPV6_ECHO_REPLY
  PROVE  /\ icmp_checksum_diff(65535 - c, new, old) \in Field16
         /\ c < 65527 /\ ChecksumHolds(old + r + c) =>
              ChecksumHolds(new + r + icmp_checksum_diff(65535 - c, new, old))
<1> DEFINE d == icmp_checksum_diff(65535 - c, new, old)
<1>1. CASE old = ICMP_ECHO /\ new = ICMP_ECHOREPLY
  <2>1. (c < 65527 => d = c + 8) /\ (c >= 65527 => d = c - 65526)
    BY EchoChecksum4, <1>1
  <2>2. c \in Int /\ (c < 65527 => new + r + (c + 8) = old + r + c)
    BY SMTT(60), <1>1 DEF ICMP_ECHO, ICMP_ECHOREPLY, Field16
  <2> HIDE DEF d
  <2>3. CASE c < 65527
    <3>1. c + 8 \in Field16
      BY SMT, <2>3, Field16Int, Field16Range
    <3> QED BY <2>1, <2>2, <2>3, <3>1 DEF d
  <2>4. CASE c >= 65527
    <3>1. c - 65526 \in Field16 /\ ~ (c < 65527)
      BY SMT, <2>4, Field16Int, Field16Range
    <3> QED BY <2>1, <2>4, <3>1 DEF d
  <2>5. c < 65527 \/ c >= 65527
    BY SMT, Field16Int
  <2> QED BY <2>3, <2>4, <2>5
<1>2. CASE old = ICMPV6_ECHO_REQUEST /\ new = ICMPV6_ECHO_REPLY
  <2>1. d = IF c = 0 THEN 65534 ELSE c - 1
    BY EchoChecksum6, <1>2
  <2> HIDE DEF d
  <2>2. d \in Field16
    <3>1. c \in Int /\ 0 <= c /\ c <= 65535
      BY Field16Int
    <3>2. CASE c = 0
      <4>1. d = 65534
        BY <2>1, <3>2
      <4>2. 65534 \in Field16
        BY Field16Range
      <4> QED BY <4>1, <4>2
    <3>3. CASE c # 0
      <4>1. d = c - 1
        BY <2>1, <3>3
      <4>2. c - 1 \in Field16
        BY <3>1, <3>3, Field16Range
      <4> QED BY <4>1, <4>2
    <3> QED BY <3>2, <3>3
  <2>3. CASE c = 0
    <3> DEFINE s == old + r + c
    <3>1. new + r + 65534 = s + 65535 /\ s \in Int /\ d = 65534
      BY SMT, <1>2, <2>1, <2>3 DEF ICMPV6_ECHO_REQUEST, ICMPV6_ECHO_REPLY
    <3> HIDE DEF s
    <3>2. ChecksumHolds(s) => ChecksumHolds(s + 65535)
      BY SMT, <3>1 DEF ChecksumHolds
    <3> QED BY <2>2, <3>1, <3>2 DEF s, d
  <2>4. CASE c # 0
    <3>1. new + r + (c - 1) = old + r + c /\ d = c - 1
      BY SMTT(60), <1>2, <2>1, <2>4 DEF ICMPV6_ECHO_REQUEST, ICMPV6_ECHO_REPLY, Field16
    <3> QED BY <2>2, <3>1 DEF d
  <2> QED BY <2>3, <2>4 DEF d
<1> QED BY <1>1, <1>2

-----------------------------------------------------------------------------
(* The inductive invariant.  A packet that has not been answered carries the
   checksum it was sent with. *)

ChecksumAsSent == replies = 0 => pkt.l4.cksum = sent.l4.cksum

Inv ==
  /\ TypeOK /\ HeaderChecksumHolds /\ RoutedIsAlive
  /\ AnsweredOnce /\ ReplyChecksumMostlyHolds /\ ChecksumAsSent

Verdict == {"none", "PASS", "DROP", "ABORTED", "TX", "REDIRECT"}

(* What holds of every packet. *)
LEMMA PacketFields ==
  ASSUME NEW p \in Packet
  PROVE  /\ p.ip \in IpHeader /\ p.l4 \in L4Header
         /\ p.tags \in Seq(Field16) /\ p.len \in Nat /\ p.room \in Nat
         /\ p.proto \in {"ip", "ip6", "arp"}
  BY DEF Packet

LEMMA IpFields ==
  ASSUME NEW ip \in IpHeader
  PROVE  ip.ttl \in 0 .. 255 /\ ip.rest \in Nat /\ ip.check \in Field16
  BY DEF IpHeader

LEMMA L4Fields ==
  ASSUME NEW l4 \in L4Header
  PROVE  /\ l4.type \in 0 .. 255 /\ l4.rest \in Nat /\ l4.cksum \in Field16
         /\ l4.port \in Field16
  BY DEF L4Header

(* A program's last step types the state if its packet is one. *)
LEMMA ReturnTyped ==
  ASSUME TypeOK, NEW v \in Verdict, NEW p \in Packet,
         Return(v, p) \/ ReturnOverLink(v, p),
         routed' \in BOOLEAN, replies' \in 0 .. 2
  PROVE  TypeOK' /\ pkt' = p /\ sent' = sent
<1>1. /\ pkt' = p /\ verdict' = v /\ sent' = sent /\ prog' = prog /\ bridged' = bridged
      /\ place' \in {"wire", "host", "gone"} /\ end' \in End
  BY DEF Return, ReturnOverLink, TypeOK, End, Other
<1> QED BY <1>1 DEF TypeOK, Verdict

(* A step that leaves the headers alone that the properties are about. *)
SameHeaders(p) ==
  /\ p.ip = pkt.ip /\ p.proto = pkt.proto
  /\ p.l4.type = pkt.l4.type /\ p.l4.rest = pkt.l4.rest /\ p.l4.cksum = pkt.l4.cksum

LEMMA SameHeadersKeepInv ==
  ASSUME Inv, TypeOK', sent' = sent, UNCHANGED <<routed, replies>>, SameHeaders(pkt')
  PROVE  Inv'
  BY DEF Inv, HeaderChecksumHolds, RoutedIsAlive, AnsweredOnce, ReplyChecksumMostlyHolds,
         ChecksumAsSent, SameHeaders, IpChecksumHolds, IcmpChecksumHolds, IsIcmp

LEMMA ReturnKeepsInv ==
  ASSUME Inv, NEW v \in Verdict, NEW p \in Packet,
         Return(v, p) \/ ReturnOverLink(v, p),
         UNCHANGED <<routed, replies>>, SameHeaders(p)
  PROVE  Inv'
<1>1. TypeOK' /\ pkt' = p /\ sent' = sent
  BY ReturnTyped DEF Inv, TypeOK
<1> QED BY <1>1, SameHeadersKeepInv

LEMMA SameHeadersReflexive == SameHeaders(pkt)
  BY DEF SameHeaders

-----------------------------------------------------------------------------
(* The programs that rewrite packets, one by one.                          *)

LEMMA PatchedPacket ==
  ASSUME pkt \in Packet
  PROVE  LET p == [pkt EXCEPT !.l4.port = NextPort(@)]
         IN  /\ p \in Packet /\ SameHeaders(p)
             /\ p.tags = pkt.tags /\ p.len = pkt.len
<1> DEFINE n == NextPort(pkt.l4.port)  l4 == [pkt.l4 EXCEPT !.port = n]
           p == [pkt EXCEPT !.l4.port = n]
<1>1. pkt.l4 \in L4Header /\ pkt.l4.port \in Field16
  BY PacketFields, L4Fields
<1>2. n \in Field16
  <2>1. pkt.l4.port \in Int
    BY <1>1, Field16Int
  <2>2. NextPort(pkt.l4.port) \in Int /\ 0 <= NextPort(pkt.l4.port) /\ NextPort(pkt.l4.port) <= 65535
    BY SMT, <2>1 DEF NextPort
  <2> QED BY <2>2, Field16Range
<1>3. p = [pkt EXCEPT !.l4 = l4]
  BY <1>1 DEF Packet
<1>4. p = [pkt EXCEPT !.l4.port = NextPort(@)]
  OBVIOUS
<1> HIDE DEF n
<1>5. l4 \in L4Header
  BY <1>1, <1>2 DEF L4Header
<1>6. l4.type = pkt.l4.type /\ l4.rest = pkt.l4.rest /\ l4.cksum = pkt.l4.cksum
  BY <1>1 DEF L4Header
<1> HIDE DEF l4, p
<1>7. p \in Packet
  BY <1>3, <1>5 DEF Packet
<1>8. p.ip = pkt.ip /\ p.proto = pkt.proto /\ p.l4 = l4 /\ p.tags = pkt.tags /\ p.len = pkt.len
  BY <1>3 DEF Packet
<1> QED BY <1>4, <1>6, <1>7, <1>8 DEF SameHeaders

LEMMA PortsKeepInv ==
  ASSUME Inv, xdp_patch_ports_func
  PROVE  Inv'
<1>1. pkt \in Packet
  BY DEF Inv, TypeOK
<1>2. \E v \in Verdict, q \in {pkt, [pkt EXCEPT !.l4.port = NextPort(@)]} :
        Return(v, q) /\ UNCHANGED <<routed, replies>>
  BY DEF xdp_patch_ports_func, Verdict
<1> QED BY <1>1, <1>2, PatchedPacket, ReturnKeepsInv, SameHeadersReflexive

(* New tags, a new length and new headroom. *)
Resized(t, l, r) == [pkt EXCEPT !.tags = t, !.len = l, !.room = r]

LEMMA ResizedPacket ==
  ASSUME pkt \in Packet, NEW t \in Seq(Field16), NEW l \in Nat, NEW r \in Nat
  PROVE  /\ Resized(t, l, r) \in Packet /\ SameHeaders(Resized(t, l, r))
         /\ Resized(t, l, r).tags = t /\ Resized(t, l, r).len = l
<1> DEFINE p1 == [pkt EXCEPT !.tags = t]  p2 == [p1 EXCEPT !.len = l]
           p == [p2 EXCEPT !.room = r]
<1>1. p1 \in Packet /\ p1.ip = pkt.ip /\ p1.proto = pkt.proto /\ p1.l4 = pkt.l4 /\ p1.tags = t
  BY DEF Packet
<1> HIDE DEF p1
<1>2. /\ p2 \in Packet /\ p2.ip = p1.ip /\ p2.proto = p1.proto /\ p2.l4 = p1.l4
      /\ p2.tags = p1.tags /\ p2.len = l
  BY <1>1 DEF Packet
<1> HIDE DEF p2
<1>3. /\ p \in Packet /\ p.ip = p2.ip /\ p.proto = p2.proto /\ p.l4 = p2.l4
      /\ p.tags = p2.tags /\ p.len = p2.len
  BY <1>2 DEF Packet
<1>4. p = Resized(t, l, r)
  BY DEF p1, p2, Resized
<1> HIDE DEF p
<1> QED BY <1>1, <1>2, <1>3, <1>4 DEF SameHeaders

(* A tag less, or one more; or nothing has changed. *)
LEMMA PoppedPacket ==
  ASSUME pkt \in Packet
  PROVE  LET p == vlan_tag_pop(pkt)
         IN  /\ p \in Packet /\ SameHeaders(p)
             /\ \/ p = pkt
                \/ pkt.tags # <<>> /\ p.tags = Tail(pkt.tags) /\ p.len = pkt.len - VLAN_HLEN
<1>1. pkt.tags \in Seq(Field16) /\ pkt.len \in Nat /\ pkt.room \in Nat
  BY PacketFields
<1>2. CASE pkt.tags = <<>> \/ ETH_HLEN + VLAN_HLEN > pkt.len
  BY <1>2, SameHeadersReflexive DEF vlan_tag_pop
<1>3. CASE ~ (pkt.tags = <<>> \/ ETH_HLEN + VLAN_HLEN > pkt.len)
  <2> DEFINE t == Tail(pkt.tags)  l == pkt.len - VLAN_HLEN  r == pkt.room + VLAN_HLEN
  <2>1. t \in Seq(Field16)
    BY <1>1, <1>3
  <2>2. l \in Nat /\ r \in Nat
    BY SMT, <1>1, <1>3 DEF ETH_HLEN, VLAN_HLEN
  <2>3. vlan_tag_pop(pkt) = Resized(t, l, r)
    BY <1>3 DEF vlan_tag_pop, Resized
  <2> HIDE DEF t, l, r
  <2>4. /\ Resized(t, l, r) \in Packet /\ SameHeaders(Resized(t, l, r))
        /\ Resized(t, l, r).tags = t /\ Resized(t, l, r).len = l
    BY <2>1, <2>2, ResizedPacket
  <2> QED BY <1>3, <2>3, <2>4 DEF t, l
<1> QED BY <1>2, <1>3

LEMMA PushedPacket ==
  ASSUME pkt \in Packet
  PROVE  LET p == vlan_tag_push(pkt, 1)
         IN  /\ p \in Packet /\ SameHeaders(p)
             /\ \/ p = pkt
                \/ p.tags = <<1>> \o pkt.tags /\ p.len = pkt.len + VLAN_HLEN
<1>1. pkt.tags \in Seq(Field16) /\ pkt.len \in Nat /\ pkt.room \in Nat
  BY PacketFields
<1>2. CASE pkt.room < VLAN_HLEN
  BY <1>2, SameHeadersReflexive DEF vlan_tag_push
<1>3. CASE ~ (pkt.room < VLAN_HLEN)
  <2> DEFINE t == <<1>> \o pkt.tags  l == pkt.len + VLAN_HLEN  r == pkt.room - VLAN_HLEN
  <2>1. t \in Seq(Field16)
    <3>1. 1 \in Field16
      BY SMT DEF Field16
    <3>2. <<1>> \in Seq(Field16)
      BY <3>1
    <3> QED BY <1>1, <3>2
  <2>2. l \in Nat /\ r \in Nat
    BY SMT, <1>1, <1>3 DEF VLAN_HLEN
  <2>3. vlan_tag_push(pkt, 1) = Resized(t, l, r)
    BY <1>3 DEF vlan_tag_push, Resized
  <2> HIDE DEF t, l, r
  <2>4. /\ Resized(t, l, r) \in Packet /\ SameHeaders(Resized(t, l, r))
        /\ Resized(t, l, r).tags = t /\ Resized(t, l, r).len = l
    BY <2>1, <2>2, ResizedPacket
  <2> QED BY <2>3, <2>4 DEF t, l
<1> QED BY <1>2, <1>3

LEMMA VlanSwapKeepsInv ==
  ASSUME Inv, xdp_vlan_swap_func
  PROVE  Inv'
<1>1. pkt \in Packet
  BY DEF Inv, TypeOK
<1>2. \E q \in {pkt, vlan_tag_pop(pkt), vlan_tag_push(pkt, 1)} :
        Return("PASS", q) /\ UNCHANGED <<routed, replies>>
  BY DEF xdp_vlan_swap_func
<1> QED BY <1>1, <1>2, PoppedPacket, PushedPacket, ReturnKeepsInv, SameHeadersReflexive
        DEF Verdict

(* An answer goes to a request of either kind. *)
LEMMA EchoReplyCases ==
  ASSUME EchoReply(pkt) # -1
  PROVE  \/ /\ pkt.l4.type = ICMP_ECHO /\ EchoReply(pkt) = ICMP_ECHOREPLY
            /\ pkt.proto = "ip" /\ pkt.ip.protocol = "icmp"
         \/ /\ pkt.l4.type = ICMPV6_ECHO_REQUEST /\ EchoReply(pkt) = ICMPV6_ECHO_REPLY
            /\ pkt.proto = "ip6" /\ pkt.ip.protocol = "icmp6"
<1> DEFINE eth == parse_ethhdr(pkt)  ip == ParsedIp(pkt)
           icmp == parse_icmphdr(pkt, ip.pos, 4).ret
<1>1. \/ eth.ret = "ip" /\ ip.ret = "icmp" /\ icmp = ICMP_ECHO /\ EchoReply(pkt) = ICMP_ECHOREPLY
      \/ eth.ret = "ip6" /\ ip.ret = "icmp6" /\ icmp = ICMPV6_ECHO_REQUEST
         /\ EchoReply(pkt) = ICMPV6_ECHO_REPLY
  BY DEF EchoReply
<1>2. eth.ret \in {"ip", "ip6"} => pkt.proto = eth.ret
  BY DEF parse_ethhdr, parse_ethhdr_depth, NoType
<1>3. icmp \in {-1, pkt.l4.type}
  BY DEF parse_icmphdr, NoHeader
<1>4. eth.ret \in {"ip", "ip6"} => ip.ret \in {"failed", pkt.ip.protocol}
  BY DEF ParsedIp, parse_iphdr, parse_ip6hdr, NoType
<1>5. ICMP_ECHO # -1 /\ ICMPV6_ECHO_REQUEST # -1
  BY DEF ICMP_ECHO, ICMPV6_ECHO_REQUEST
<1> HIDE DEF eth, ip, icmp
<1> QED BY <1>1, <1>2, <1>3, <1>4, <1>5

(* The headers of an answer, one at a time. *)
LEMMA SwappedIp ==
  ASSUME NEW ip \in IpHeader
  PROVE  /\ swap_src_dst_ip(ip) \in IpHeader
         /\ swap_src_dst_ip(ip).protocol = ip.protocol
         /\ swap_src_dst_ip(ip).src = ip.dst /\ swap_src_dst_ip(ip).dst = ip.src
         /\ swap_src_dst_ip(ip).ttl = ip.ttl /\ swap_src_dst_ip(ip).rest = ip.rest
         /\ swap_src_dst_ip(ip).check = ip.check
<1> DEFINE i1 == [ip EXCEPT !.src = ip.dst]  i2 == [i1 EXCEPT !.dst = ip.src]
<1>1. /\ i1 \in IpHeader /\ i1.protocol = ip.protocol /\ i1.src = ip.dst
      /\ i1.ttl = ip.ttl /\ i1.rest = ip.rest /\ i1.check = ip.check
  BY DEF IpHeader
<1>2. swap_src_dst_ip(ip) = i2
  BY DEF swap_src_dst_ip
<1>3. ip.src \in STRING
  BY DEF IpHeader
<1> HIDE DEF i1
<1>4. /\ i2 \in IpHeader /\ i2.protocol = i1.protocol /\ i2.src = i1.src /\ i2.dst = ip.src
      /\ i2.ttl = i1.ttl /\ i2.rest = i1.rest /\ i2.check = i1.check
  BY <1>1, <1>3 DEF IpHeader
<1> HIDE DEF i2
<1> QED BY <1>1, <1>2, <1>4

LEMMA SwappedMac ==
  ASSUME NEW p \in Packet
  PROVE  /\ swap_src_dst_mac(p) \in Packet
         /\ swap_src_dst_mac(p).ip = p.ip /\ swap_src_dst_mac(p).l4 = p.l4
         /\ swap_src_dst_mac(p).proto = p.proto
         /\ swap_src_dst_mac(p).tags = p.tags /\ swap_src_dst_mac(p).len = p.len
<1> DEFINE p1 == [p EXCEPT !.src = p.dst]  p2 == [p1 EXCEPT !.dst = p.src]
<1>1. /\ p1 \in Packet /\ p1.ip = p.ip /\ p1.l4 = p.l4 /\ p1.proto = p.proto
      /\ p1.tags = p.tags /\ p1.len = p.len /\ p.src \in MacAddress
  BY DEF Packet
<1>2. swap_src_dst_mac(p) = p2
  BY DEF swap_src_dst_mac
<1> HIDE DEF p1
<1>3. /\ p2 \in Packet /\ p2.ip = p1.ip /\ p2.l4 = p1.l4 /\ p2.proto = p1.proto
      /\ p2.tags = p1.tags /\ p2.len = p1.len
  BY <1>1 DEF Packet
<1> HIDE DEF p2
<1> QED BY <1>1, <1>2, <1>3

(* A message of a new type and checksum. *)
Octet == 0 .. 255

Retyped(l4, e, d) == [l4 EXCEPT !.type = e, !.cksum = d]

LEMMA RetypedFields ==
  ASSUME NEW l4 \in L4Header, NEW e \in Octet, NEW d \in Field16
  PROVE  /\ Retyped(l4, e, d) \in L4Header /\ Retyped(l4, e, d).type = e
         /\ Retyped(l4, e, d).cksum = d /\ Retyped(l4, e, d).rest = l4.rest
<1> DEFINE l1 == [l4 EXCEPT !.type = e]  l2 == [l1 EXCEPT !.cksum = d]
<1>1. l1 \in L4Header /\ l1.type = e /\ l1.rest = l4.rest
  BY DEF L4Header, Octet
<1>2. Retyped(l4, e, d) = l2
  BY DEF Retyped
<1> HIDE DEF l1
<1>3. l2 \in L4Header /\ l2.type = l1.type /\ l2.cksum = d /\ l2.rest = l1.rest
  BY <1>1 DEF L4Header
<1> HIDE DEF l2
<1> QED BY <1>1, <1>2, <1>3

(* A packet with another IP header and another message. *)
Rebuilt(p, i, l) == [p EXCEPT !.ip = i, !.l4 = l]

LEMMA RebuiltFields ==
  ASSUME NEW p \in Packet, NEW i \in IpHeader, NEW l \in L4Header
  PROVE  /\ Rebuilt(p, i, l) \in Packet /\ Rebuilt(p, i, l).proto = p.proto
         /\ Rebuilt(p, i, l).ip = i /\ Rebuilt(p, i, l).l4 = l
<1> DEFINE p1 == [p EXCEPT !.ip = i]  p2 == [p1 EXCEPT !.l4 = l]
<1>1. p1 \in Packet /\ p1.ip = i /\ p1.proto = p.proto
  BY DEF Packet
<1>2. Rebuilt(p, i, l) = p2
  BY DEF Rebuilt
<1> HIDE DEF p1
<1>3. p2 \in Packet /\ p2.ip = p1.ip /\ p2.l4 = l /\ p2.proto = p1.proto
  BY <1>1 DEF Packet
<1> HIDE DEF p2
<1> QED BY <1>1, <1>2, <1>3

LEMMA AnswerIsRebuilt ==
  ASSUME pkt \in Packet, NEW e, NEW d,
         d = icmp_checksum_diff(65535 - pkt.l4.cksum, e, pkt.l4.type)
  PROVE  Answer(pkt, e)
           = Rebuilt(swap_src_dst_mac(pkt), swap_src_dst_ip(pkt.ip), Retyped(pkt.l4, e, d))
<1> DEFINE m == swap_src_dst_mac(pkt)
<1>1. m.ip = pkt.ip /\ m.l4 = pkt.l4
  BY SwappedMac
<1>2. Answer(pkt, e) =
        [m EXCEPT !.ip = swap_src_dst_ip(m.ip),
                  !.l4 = [m.l4 EXCEPT !.type = e,
                                      !.cksum = d]]
  BY DEF Answer
<1> HIDE DEF m
<1>3. Answer(pkt, e) = [m EXCEPT !.ip = swap_src_dst_ip(pkt.ip), !.l4 = Retyped(pkt.l4, e, d)]
  BY <1>1, <1>2 DEF Retyped
<1> QED BY <1>3 DEF Rebuilt, m

LEMMA AnswerFields ==
  ASSUME pkt \in Packet, NEW e \in Octet, NEW d \in Field16,
         d = icmp_checksum_diff(65535 - pkt.l4.cksum, e, pkt.l4.type)
  PROVE  /\ Answer(pkt, e) \in Packet /\ Answer(pkt, e).proto = pkt.proto
         /\ Answer(pkt, e).ip = swap_src_dst_ip(pkt.ip)
         /\ Answer(pkt, e).l4 = Retyped(pkt.l4, e, d)
<1>1. pkt.ip \in IpHeader /\ pkt.l4 \in L4Header
  BY PacketFields
<1>2. Retyped(pkt.l4, e, d) \in L4Header
  BY <1>1, RetypedFields
<1>3. swap_src_dst_ip(pkt.ip) \in IpHeader
  BY <1>1, SwappedIp
<1>4. swap_src_dst_mac(pkt) \in Packet /\ swap_src_dst_mac(pkt).proto = pkt.proto
  BY SwappedMac
<1> QED BY <1>2, <1>3, <1>4, AnswerIsRebuilt, RebuiltFields

LEMMA EchoKeepsInv ==
  ASSUME Inv, xdp_icmp_echo_func
  PROVE  Inv'
<1> DEFINE e == EchoReply(pkt)
           d == icmp_checksum_diff(65535 - pkt.l4.cksum, e, pkt.l4.type)
           p == Answer(pkt, e)
<1>1. pkt \in Packet /\ pkt.l4.type \in 0 .. 255 /\ pkt.l4.rest \in Nat /\ pkt.l4.cksum \in Field16
  BY PacketFields, L4Fields DEF Inv, TypeOK
<1>2. CASE e = -1
  BY <1>1, <1>2, ReturnKeepsInv, SameHeadersReflexive DEF xdp_icmp_echo_func, Verdict
<1>3. CASE e # -1
  <2>1. /\ ReturnOverLink("TX", p) /\ replies' = IF replies = 0 THEN 1 ELSE 2
        /\ routed' = routed
    BY <1>3 DEF xdp_icmp_echo_func
  <2>2. /\ e \in {ICMP_ECHOREPLY, ICMPV6_ECHO_REPLY} /\ e \in Octet
        /\ \/ pkt.l4.type = ICMP_ECHO /\ e = ICMP_ECHOREPLY
           \/ pkt.l4.type = ICMPV6_ECHO_REQUEST /\ e = ICMPV6_ECHO_REPLY
    BY <1>3, EchoReplyCases DEF ICMP_ECHOREPLY, ICMPV6_ECHO_REPLY, Octet
  <2>3. replies = 0
    BY <2>2 DEF Inv, AnsweredOnce, ICMP_ECHO, ICMP_ECHOREPLY, ICMPV6_ECHO_REQUEST,
                ICMPV6_ECHO_REPLY
  <2> HIDE DEF e
  <2>4. /\ d \in Field16
        /\ pkt.l4.cksum < 65527 /\ ChecksumHolds(pkt.l4.type + pkt.l4.rest + pkt.l4.cksum)
             => ChecksumHolds(e + pkt.l4.rest + d)
    <3>1. e \in Int /\ pkt.l4.type \in Int
      BY SMT, <1>1, <2>2 DEF Octet
    <3> QED BY SMTT(60), <1>1, <2>2, <3>1, EchoKeepsChecksum
  <2>5. /\ p \in Packet
        /\ p.proto = pkt.proto /\ p.ip.protocol = pkt.ip.protocol
        /\ p.ip.src = pkt.ip.dst /\ p.ip.dst = pkt.ip.src
        /\ p.ip.ttl = pkt.ip.ttl /\ p.ip.rest = pkt.ip.rest /\ p.ip.check = pkt.ip.check
        /\ p.l4.type = e /\ p.l4.rest = pkt.l4.rest /\ p.l4.cksum = d
    <3>1. /\ Answer(pkt, e) \in Packet /\ Answer(pkt, e).proto = pkt.proto
          /\ Answer(pkt, e).ip = swap_src_dst_ip(pkt.ip)
          /\ Answer(pkt, e).l4 = Retyped(pkt.l4, e, d)
      <4>1. \E dd \in Field16 : dd = d
        BY <2>4
      <4> QED BY <1>1, <2>2, <4>1, AnswerFields
    <3>2. pkt.ip \in IpHeader /\ pkt.l4 \in L4Header
      BY <1>1, PacketFields
    <3> HIDE DEF d
    <3>3. /\ Retyped(pkt.l4, e, d).type = e /\ Retyped(pkt.l4, e, d).cksum = d
          /\ Retyped(pkt.l4, e, d).rest = pkt.l4.rest
      BY <2>2, <2>4, <3>2, RetypedFields
    <3> QED BY <3>1, <3>2, <3>3, SwappedIp
  <2> HIDE DEF d, p
  <2>6. TypeOK' /\ pkt' = p /\ sent' = sent /\ replies' = 1
    BY <2>1, <2>3, <2>5, ReturnTyped DEF Inv, TypeOK, Verdict
  <2>7. HeaderChecksumHolds' /\ RoutedIsAlive'
    BY <2>1, <2>5, <2>6 DEF Inv, HeaderChecksumHolds, IpChecksumHolds, RoutedIsAlive
  <2>8. AnsweredOnce' /\ ChecksumAsSent'
    BY <2>2, <2>3, <2>5, <2>6 DEF Inv, AnsweredOnce, ChecksumAsSent
  <2>9. ReplyChecksumMostlyHolds'
    BY <2>3, <2>4, <2>5, <2>6
       DEF Inv, ReplyChecksumMostlyHolds, ChecksumAsSent, IcmpChecksumHolds, IsIcmp
  <2> QED BY <2>6, <2>7, <2>8, <2>9 DEF Inv
<1> QED BY <1>2, <1>3

(* The headers of a packet that is sent on. *)
Aged(ip, t, c) == [ip EXCEPT !.ttl = t, !.check = c]

LEMMA AgedFields ==
  ASSUME NEW ip \in IpHeader, NEW t \in Octet, NEW c \in Field16
  PROVE  /\ Aged(ip, t, c) \in IpHeader
         /\ Aged(ip, t, c).ttl = t /\ Aged(ip, t, c).check = c
         /\ Aged(ip, t, c).rest = ip.rest /\ Aged(ip, t, c).protocol = ip.protocol
         /\ Aged(ip, t, c).src = ip.src /\ Aged(ip, t, c).dst = ip.dst
<1> DEFINE i1 == [ip EXCEPT !.ttl = t]  i2 == [i1 EXCEPT !.check = c]
<1>1. /\ i1 \in IpHeader /\ i1.ttl = t /\ i1.rest = ip.rest /\ i1.protocol = ip.protocol
      /\ i1.src = ip.src /\ i1.dst = ip.dst
  BY DEF IpHeader, Octet
<1>2. Aged(ip, t, c) = i2
  BY DEF Aged
<1> HIDE DEF i1
<1>3. /\ i2 \in IpHeader /\ i2.ttl = i1.ttl /\ i2.check = c /\ i2.rest = i1.rest
      /\ i2.protocol = i1.protocol /\ i2.src = i1.src /\ i2.dst = i1.dst
  BY <1>1 DEF IpHeader
<1> HIDE DEF i2
<1> QED BY <1>1, <1>2, <1>3

ForwardedIp(p) ==
  IF h_proto(p) = "ip" THEN ip_decrease_ttl(p.ip) ELSE [p.ip EXCEPT !.ttl = p.ip.ttl - 1]

LEMMA ForwardedFields ==
  ASSUME pkt \in Packet, NEW i \in IpHeader, i = ForwardedIp(pkt)
  PROVE  /\ ForwardedBy(pkt) \in Packet /\ ForwardedBy(pkt).ip = i
         /\ ForwardedBy(pkt).proto = pkt.proto /\ ForwardedBy(pkt).l4 = pkt.l4
<1> DEFINE router == "router"  nexthop == "nexthop"
           p1 == [pkt EXCEPT !.src = router]  p2 == [p1 EXCEPT !.dst = nexthop]
           p3 == [p2 EXCEPT !.ip = i]
<1>1. ForwardedBy(pkt) = p3
  BY DEF ForwardedBy, ForwardedIp
<1>2. router \in MacAddress /\ nexthop \in MacAddress
  BY DEF MacAddress
<1> HIDE DEF router, nexthop
<1>3. p1 \in Packet /\ p1.proto = pkt.proto /\ p1.l4 = pkt.l4
  BY <1>2 DEF Packet
<1> HIDE DEF p1
<1>4. p2 \in Packet /\ p2.proto = p1.proto /\ p2.l4 = p1.l4
  BY <1>3, <1>2 DEF Packet
<1> HIDE DEF p2
<1>5. p3 \in Packet /\ p3.ip = i /\ p3.proto = p2.proto /\ p3.l4 = p2.l4
  BY <1>4 DEF Packet
<1> HIDE DEF p3
<1> QED BY <1>3, <1>1, <1>4, <1>5

LEMMA ForwardKeepsInv ==
  ASSUME Inv, RouterSees(pkt) \in {"ip", "ip6"}, ~Expired(pkt), NEW v \in Verdict,
         Return(v, ForwardedBy(pkt)) \/ ReturnOverLink(v, ForwardedBy(pkt)),
         routed' = TRUE, replies' = replies
  PROVE  Inv'
<1> DEFINE ip == pkt.ip
           t == ip.ttl - 1
           c == IF h_proto(pkt) = "ip"
                THEN (IF ip.check < 65534 THEN ip.check + 1 ELSE ip.check - 65534)
                ELSE ip.check
           i == Aged(ip, t, c)
           q == ForwardedBy(pkt)
<1>1. /\ pkt \in Packet /\ ip \in IpHeader /\ ip.check \in Field16
      /\ ip.rest \in Nat /\ ip.ttl \in Nat /\ ip.ttl <= 255
  <2>1. pkt \in Packet /\ ip \in IpHeader
    BY PacketFields DEF Inv, TypeOK
  <2> HIDE DEF ip
  <2>2. ip.check \in Field16 /\ ip.rest \in Nat /\ ip.ttl \in 0 .. 255
    BY <2>1, IpFields
  <2>3. ip.ttl \in Nat /\ ip.ttl <= 255
    BY SMT, <2>2
  <2> QED BY <2>1, <2>2, <2>3
<1>2. ip.ttl > 1 /\ t \in Octet
  <2>1. ip.ttl > 1
    BY SMT, <1>1 DEF Expired
  <2>2. t \in 0 .. 255
    BY SMT, <1>1, <2>1
  <2> QED BY <2>1, <2>2 DEF Octet
<1>3. c \in Field16
  <2> HIDE DEF ip
  <2>1. ip.check \in Int /\ 0 <= ip.check /\ ip.check <= 65535
    BY <1>1, Field16Int
  <2>2. c \in Int /\ 0 <= c /\ c <= 65535
    BY SMT, <2>1
  <2> QED BY <2>2, Field16Range
<1>4. h_proto(pkt) \in {"ip", "ip6"} /\ (h_proto(pkt) = "ip" <=> pkt.proto = "ip")
  BY DEF RouterSees, h_proto
<1>5. i = ForwardedIp(pkt)
  <2>1. CASE h_proto(pkt) = "ip"
    <3> DEFINE patched == ((ip.check + 1) + (IF ip.check + 1 >= 65535 THEN 1 ELSE 0)) % 65536
    <3>1. patched = c
      BY <1>1, <2>1, PatchedCheck
    <3>2. ip_decrease_ttl(ip) = Aged(ip, t, patched)
      BY DEF ip_decrease_ttl, Aged
    <3> HIDE DEF patched
    <3> QED BY <2>1, <3>1, <3>2 DEF ForwardedIp
  <2>2. CASE h_proto(pkt) # "ip"
    <3>1. [ip EXCEPT !.ttl = ip.ttl - 1] = [ip EXCEPT !.ttl = t, !.check = ip.check]
      BY <1>1 DEF IpHeader
    <3> QED BY <2>2, <3>1 DEF Aged, ForwardedIp
  <2> QED BY <2>1, <2>2
<1> HIDE DEF t, c
<1>6. /\ i \in IpHeader /\ i.ttl = t /\ i.check = c /\ i.rest = ip.rest
      /\ i.protocol = ip.protocol /\ i.src = ip.src /\ i.dst = ip.dst
  BY <1>1, <1>2, <1>3, AgedFields
<1> HIDE DEF i
<1>7. q \in Packet /\ q.ip = i /\ q.proto = pkt.proto /\ q.l4 = pkt.l4
  BY <1>1, <1>5, <1>6, ForwardedFields
<1> HIDE DEF q
<1>8. TypeOK' /\ pkt' = q /\ sent' = sent
  BY <1>7, ReturnTyped DEF Inv, TypeOK, q
<1>9. HeaderChecksumHolds'
  <2>1. CASE pkt.proto = "ip"
    <3>1. ChecksumHolds(ip.ttl + ip.rest + ip.check)
      BY <2>1 DEF Inv, HeaderChecksumHolds, IpChecksumHolds
    <3>2. ChecksumHolds((ip.ttl - 1) + ip.rest
                         + (IF ip.check < 65534 THEN ip.check + 1 ELSE ip.check - 65534))
      <4> HIDE DEF ip
      <4>1. ip.ttl \in Int /\ ip.rest \in Int /\ ip.rest >= 0
        BY SMT, <1>1
      <4> QED BY <1>1, <1>2, <3>1, <4>1, TtlPatchesChecksum
    <3>3. ChecksumHolds(t + ip.rest + c)
      BY <1>4, <2>1, <3>2 DEF t, c
    <3> QED BY <1>6, <1>7, <1>8, <3>3 DEF HeaderChecksumHolds, IpChecksumHolds
  <2>2. CASE pkt.proto # "ip"
    BY <1>7, <1>8, <2>2 DEF HeaderChecksumHolds, IpChecksumHolds
  <2> QED BY <2>1, <2>2
<1>10. RoutedIsAlive'
  <2>1. ip.ttl \in Int /\ sent.ip.ttl \in Int /\ ip.ttl <= sent.ip.ttl
    <3>1. sent.ip.ttl \in 0 .. 255
      BY PacketFields, IpFields DEF Inv, TypeOK
    <3>2. ip.ttl \in (IF routed THEN 1 .. sent.ip.ttl - 1 ELSE {sent.ip.ttl})
      BY DEF Inv, RoutedIsAlive
    <3> HIDE DEF ip
    <3>3. sent.ip.ttl \in Int /\ ip.ttl \in Int
      BY SMT, <1>1, <3>1
    <3>4. CASE routed
      <4>1. ip.ttl \in 1 .. sent.ip.ttl - 1
        BY <3>2, <3>4
      <4> QED BY SMT, <3>3, <4>1
    <3>5. CASE ~routed
      <4>1. ip.ttl = sent.ip.ttl
        BY <3>2, <3>5
      <4> QED BY SMT, <3>3, <4>1
    <3> QED BY <3>4, <3>5
  <2>2. t \in 1 .. sent.ip.ttl - 1
    BY SMT, <1>2, <2>1 DEF t
  <2> QED BY <1>6, <1>7, <1>8, <2>2 DEF RoutedIsAlive
<1>11. AnsweredOnce' /\ ChecksumAsSent' /\ ReplyChecksumMostlyHolds'
  BY <1>6, <1>7, <1>8
     DEF Inv, AnsweredOnce, ChecksumAsSent, ReplyChecksumMostlyHolds, IcmpChecksumHolds, IsIcmp
<1> QED BY <1>8, <1>9, <1>10, <1>11 DEF Inv

LEMMA RouterKeepsInv ==
  ASSUME Inv, xdp_router_func
  PROVE  Inv'
<1>1. pkt \in Packet
  BY DEF Inv, TypeOK
<1>2. ASSUME NEW v \in {"PASS", "DROP"}, Return(v, pkt), UNCHANGED <<routed, replies>>
      PROVE  Inv'
  BY <1>1, <1>2, ReturnKeepsInv, SameHeadersReflexive DEF Verdict
<1>3. ASSUME RouterSees(pkt) # "other", RouterSees(pkt) # "short", ~Expired(pkt),
             routed' = TRUE, replies' = replies,
             NEW v \in {"REDIRECT", "ABORTED"},
             Return(v, ForwardedBy(pkt)) \/ ReturnOverLink(v, ForwardedBy(pkt))
      PROVE  Inv'
  <2>1. RouterSees(pkt) \in {"ip", "ip6"}
    BY <1>3 DEF RouterSees
  <2> QED BY <1>3, <2>1, ForwardKeepsInv DEF Verdict
<1> QED BY <1>2, <1>3 DEF xdp_router_func

-----------------------------------------------------------------------------
(* All steps.                                                              *)

(* The programs that change nothing in the packet, and no program. *)
LEMMA ReadersKeepInv ==
  ASSUME Inv,
         xdp_pass_func \/ xdp_parser_func \/ xdp_vlan_01 \/ xdp_vlan_02 \/ NoProgram
  PROVE  Inv'
<1>1. pkt \in Packet
  BY DEF Inv, TypeOK
<1>2. \E v \in Verdict : Return(v, pkt) /\ UNCHANGED <<routed, replies>>
  <2>1. CASE xdp_pass_func \/ NoProgram
    BY <2>1 DEF xdp_pass_func, NoProgram, Verdict
  <2>2. CASE xdp_parser_func
    BY <2>2 DEF xdp_parser_func, Verdict
  <2>3. CASE xdp_vlan_01
    BY <2>3 DEF xdp_vlan_01, Verdict
  <2>4. CASE xdp_vlan_02
    BY <2>4 DEF xdp_vlan_02, Verdict
  <2> QED BY <2>1, <2>2, <2>3, <2>4
<1> QED BY <1>1, <1>2, ReturnKeepsInv, SameHeadersReflexive

LEMMA BridgeKeepsInv ==
  ASSUME Inv, HostBridges
  PROVE  Inv'
<1>1. TypeOK'
  <2>1. bridged + 1 \in 0 .. MaxBridged
    BY SMT, MaxBridgedAssumption DEF Inv, TypeOK, HostBridges
  <2> QED BY <2>1 DEF Inv, TypeOK, HostBridges, End, Other
<1> QED BY <1>1, SameHeadersKeepInv, SameHeadersReflexive DEF HostBridges, SameHeaders

(* Packets are sent with the checksums they should have. *)
LEMMA InitImpliesInv == Init => Inv
<1> SUFFICES ASSUME Init PROVE Inv
  OBVIOUS
<1>1. sent \in Packet /\ pkt = sent /\ IpChecksumHolds(sent) /\ IcmpChecksumHolds(sent)
  BY PacketsAssumption DEF Init
<1>2. 0 \in 0 .. MaxBridged
  BY SMT, MaxBridgedAssumption
<1>3. TypeOK
  <2>1. replies \in 0 .. 2 /\ bridged \in 0 .. MaxBridged
    BY SMT, <1>2 DEF Init
  <2>2. routed \in BOOLEAN
    BY DEF Init
  <2> QED BY <1>1, <2>1, <2>2 DEF Init, TypeOK
<1> QED BY <1>1, <1>3
       DEF Init, Inv, HeaderChecksumHolds, RoutedIsAlive, AnsweredOnce,
           ReplyChecksumMostlyHolds, ChecksumAsSent

LEMMA StepKeepsInv == Inv /\ [Next]_vars => Inv'
<1> SUFFICES ASSUME Inv, [Next]_vars PROVE Inv'
  OBVIOUS
<1>1. CASE xdp_pass_func \/ xdp_parser_func \/ xdp_vlan_01 \/ xdp_vlan_02 \/ NoProgram
  BY <1>1, ReadersKeepInv
<1>2. CASE xdp_patch_ports_func
  BY <1>2, PortsKeepInv
<1>3. CASE xdp_vlan_swap_func
  BY <1>3, VlanSwapKeepsInv
<1>4. CASE xdp_icmp_echo_func
  BY <1>4, EchoKeepsInv
<1>5. CASE xdp_router_func
  BY <1>5, RouterKeepsInv
<1>6. CASE HostBridges
  BY <1>6, BridgeKeepsInv
<1>7. CASE UNCHANGED vars
  BY <1>7 DEF vars, Inv, TypeOK, HeaderChecksumHolds, RoutedIsAlive, AnsweredOnce,
              ReplyChecksumMostlyHolds, ChecksumAsSent, IpChecksumHolds, IcmpChecksumHolds, IsIcmp
<1> QED BY <1>1, <1>2, <1>3, <1>4, <1>5, <1>6, <1>7 DEF Next, RunProgram

LEMMA InvAlways == Spec => []Inv
<1> QED BY InitImpliesInv, StepKeepsInv, PTL DEF Spec

(* Every program leaves a packet behind: fields keep their width. *)
THEOREM PacketsTyped == Spec => []TypeOK
<1>1. Inv => TypeOK
  BY DEF Inv
<1> QED BY <1>1, InvAlways, PTL

(* ip_decrease_ttl: a router keeps the IP header's checksum valid, whatever
   the packet, its time to live and the carries of the checksum. *)
THEOREM HeaderChecksumAlwaysHolds == Spec => []HeaderChecksumHolds
<1>1. Inv => HeaderChecksumHolds
  BY DEF Inv
<1> QED BY <1>1, InvAlways, PTL

(* The router's test of ttl <= 1, over any number of hops. *)
THEOREM RoutedAlwaysAlive == Spec => []RoutedIsAlive
<1>1. Inv => RoutedIsAlive
  BY DEF Inv
<1> QED BY <1>1, InvAlways, PTL

(* Echo servers answer no answers. *)
THEOREM AlwaysAnsweredOnce == Spec => []AnsweredOnce
<1>1. Inv => AnsweredOnce
  BY DEF Inv
<1> QED BY <1>1, InvAlways, PTL

(* icmp_checksum_diff: the reply's checksum holds for every request but those
   with the last nine checksums. *)
THEOREM ReplyChecksumsHold == Spec => []ReplyChecksumMostlyHolds
<1>1. Inv => ReplyChecksumMostlyHolds
  BY DEF Inv
<1> QED BY <1>1, InvAlways, PTL

-----------------------------------------------------------------------------
(* What the programs leave of a packet.                                    *)

(* The tags behind the first n of them. *)
Behind(tags, n) == SubSeq(tags, n + 1, Len(tags))

LEMMA BehindNone ==
  ASSUME NEW S, NEW tags \in Seq(S)
  PROVE  Behind(tags, 0) = tags
<1>1. Len(tags) \in Nat
  OBVIOUS
<1>2. Behind(tags, 0) = SubSeq(tags, 1, Len(tags))
  BY SMT DEF Behind
<1> QED BY SMTT(30), <1>1, <1>2

LEMMA BehindAll ==
  ASSUME NEW S, NEW tags \in Seq(S)
  PROVE  Behind(tags, Len(tags)) = <<>>
<1>1. Len(tags) \in Nat
  OBVIOUS
<1> QED BY SMTT(30), <1>1 DEF Behind

LEMMA TailOfBehind ==
  ASSUME NEW S, NEW tags \in Seq(S), NEW n \in 0 .. Len(tags), Behind(tags, n) # <<>>
  PROVE  n + 1 \in 0 .. Len(tags) /\ Tail(Behind(tags, n)) = Behind(tags, n + 1)
<1>1. Len(tags) \in Nat /\ n \in Nat /\ n <= Len(tags)
  BY SMT
<1>2. n < Len(tags)
  BY BehindAll, <1>1, SMT
<1>3. n + 1 \in 0 .. Len(tags)
  BY SMT, <1>1, <1>2
<1> DEFINE b == Behind(tags, n)  c == Behind(tags, n + 1)
<1>4. b \in Seq(S) /\ Len(b) = Len(tags) - n /\ \A i \in 1 .. Len(b) : b[i] = tags[n + i]
  BY SMTT(30), <1>1, <1>2 DEF Behind
<1>5. c \in Seq(S) /\ Len(c) = Len(tags) - n - 1 /\ \A i \in 1 .. Len(c) : c[i] = tags[n + 1 + i]
  BY SMTT(30), <1>1, <1>2 DEF Behind
<1> HIDE DEF b, c
<1>6. Tail(b) \in Seq(S) /\ Len(Tail(b)) = Len(b) - 1 /\ \A i \in 1 .. Len(b) - 1 : Tail(b)[i] = b[i + 1]
  BY SMTT(30), <1>1, <1>2, <1>4
<1>7. \A i \in 1 .. Len(c) : Tail(b)[i] = c[i]
  BY SMTT(30), <1>1, <1>2, <1>4, <1>5, <1>6
<1>8. Len(Tail(b)) = Len(c)
  BY SMT, <1>1, <1>4, <1>5, <1>6
<1>9. Tail(b) = c
  BY SMTT(30), <1>5, <1>6, <1>7, <1>8
<1> QED BY <1>3, <1>9 DEF b, c

(* Only xdp_vlan_swap changes what SwapKeepsPayload is about. *)
SameTags(p) == p.tags = pkt.tags /\ p.len = pkt.len /\ p.proto = pkt.proto

LEMMA SameTagsKeepPayload ==
  ASSUME SwapKeepsPayload, sent' = sent, SameTags(pkt')
  PROVE  SwapKeepsPayload'
  BY DEF SwapKeepsPayload, SameTags

LEMMA AnswerKeepsTags ==
  ASSUME pkt \in Packet, NEW e
  PROVE  SameTags(Answer(pkt, e))
<1> DEFINE m == swap_src_dst_mac(pkt)  i == swap_src_dst_ip(pkt.ip)
           d == icmp_checksum_diff(65535 - pkt.l4.cksum, e, pkt.l4.type)
           l == Retyped(pkt.l4, e, d)
           m1 == [m EXCEPT !.ip = i]  m2 == [m1 EXCEPT !.l4 = l]
<1>1. Answer(pkt, e) = m2
  <2>1. \E dd : dd = d
    OBVIOUS
  <2>2. Answer(pkt, e) = Rebuilt(m, i, l)
    BY <2>1, AnswerIsRebuilt
  <2> QED BY <2>2 DEF Rebuilt
<1>2. m \in Packet /\ SameTags(m)
  BY SwappedMac DEF SameTags
<1> HIDE DEF m, i, l
<1>3. SameTags(m1) /\ SameTags(m2)
  BY <1>2 DEF SameTags, Packet
<1> QED BY <1>1, <1>3

LEMMA ForwardedKeepsTags ==
  ASSUME pkt \in Packet
  PROVE  SameTags(ForwardedBy(pkt))
<1> DEFINE router == "router"  nexthop == "nexthop"  i == ForwardedIp(pkt)
           p1 == [pkt EXCEPT !.src = router]  p2 == [p1 EXCEPT !.dst = nexthop]
           p3 == [p2 EXCEPT !.ip = i]
<1>1. ForwardedBy(pkt) = p3
  BY DEF ForwardedBy, ForwardedIp
<1> HIDE DEF router, nexthop, i
<1>2. SameTags(p1) /\ SameTags(p2) /\ SameTags(p3)
  BY DEF SameTags, Packet
<1> QED BY <1>1, <1>2

(* A tag is popped that was pushed here, or the next of those that were sent;
   one is pushed where none is. *)
LEMMA VlanSwapKeepsPayload ==
  ASSUME TypeOK, SwapKeepsPayload, xdp_vlan_swap_func
  PROVE  SwapKeepsPayload'
<1> DEFINE S == sent.tags  T == pkt.tags  U == pkt'.tags
<1>1. /\ pkt \in Packet /\ S \in Seq(Field16) /\ T \in Seq(Field16)
      /\ pkt.len \in Int /\ sent.len \in Int /\ sent' = sent
  BY PacketFields DEF TypeOK, xdp_vlan_swap_func, Return
<1>2. /\ pkt.proto = sent.proto
      /\ pkt.len - 4 * Len(T) = sent.len - 4 * Len(S)
      /\ \/ \E n \in 0 .. Len(S) : T = Behind(S, n)
         \/ T = <<1>>
  BY DEF SwapKeepsPayload, Behind, VLAN_HLEN
<1>3. SUFFICES /\ pkt'.proto = pkt.proto
               /\ pkt'.len - 4 * Len(U) = pkt.len - 4 * Len(T)
               /\ \/ \E n \in 0 .. Len(S) : U = Behind(S, n)
                  \/ U = <<1>>
  BY <1>1, <1>2 DEF SwapKeepsPayload, Behind, VLAN_HLEN
<1>4. \/ pkt' = pkt
      \/ pkt' = vlan_tag_pop(pkt)
      \/ T = <<>> /\ pkt' = vlan_tag_push(pkt, 1)
  <2>1. h_proto(pkt) # "vlan" => T = <<>>
    BY DEF h_proto
  <2> QED BY <2>1 DEF xdp_vlan_swap_func, Return
<1>5. CASE pkt' = pkt
  BY <1>2, <1>5
<1>6. CASE T # <<>> /\ U = Tail(T) /\ pkt'.len = pkt.len - 4 /\ pkt'.proto = pkt.proto
  <2>1. pkt'.len - 4 * Len(U) = pkt.len - 4 * Len(T)
    <3>1. Len(U) = Len(T) - 1 /\ Len(T) \in Nat
      BY <1>1, <1>6
    <3> HIDE DEF U, T
    <3> QED BY SMT, <1>1, <1>6, <3>1
  <2>2. CASE T = <<1>>
    <3>1. U = <<>>
      BY <1>6, <2>2
    <3>2. Len(S) \in 0 .. Len(S) /\ Behind(S, Len(S)) = <<>>
      BY <1>1, BehindAll
    <3> QED BY <1>6, <2>1, <3>1, <3>2
  <2>3. CASE \E n \in 0 .. Len(S) : T = Behind(S, n)
    <3>1. PICK n \in 0 .. Len(S) : T = Behind(S, n)
      BY <2>3
    <3>2. n + 1 \in 0 .. Len(S) /\ U = Behind(S, n + 1)
      BY <1>1, <1>6, <3>1, TailOfBehind
    <3> QED BY <1>6, <2>1, <3>2
  <2> QED BY <1>2, <2>2, <2>3
<1>7. CASE T = <<>> /\ U = <<1>> /\ pkt'.len = pkt.len + 4 /\ pkt'.proto = pkt.proto
  <2>1. Len(U) = 1 /\ Len(T) = 0
    BY <1>7
  <2> HIDE DEF U, T
  <2> QED BY SMT, <1>1, <1>7, <2>1
<1>8. CASE pkt' = vlan_tag_pop(pkt)
  BY <1>1, <1>5, <1>6, <1>8, PoppedPacket DEF SameHeaders, VLAN_HLEN
<1>9. CASE T = <<>> /\ pkt' = vlan_tag_push(pkt, 1)
  <2>1. <<1>> \o <<>> = <<1>>
    OBVIOUS
  <2> QED BY <1>1, <1>5, <1>7, <1>9, <2>1, PushedPacket DEF SameHeaders, VLAN_HLEN
<1> QED BY <1>4, <1>5, <1>8, <1>9

LEMMA StepKeepsPayload == Inv /\ SwapKeepsPayload /\ [Next]_vars => SwapKeepsPayload'
<1> SUFFICES ASSUME Inv, SwapKeepsPayload, [Next]_vars PROVE SwapKeepsPayload'
  OBVIOUS
<1>1. pkt \in Packet /\ TypeOK
  BY DEF Inv, TypeOK
<1>2. ASSUME NEW v, NEW p, Return(v, p) \/ ReturnOverLink(v, p), SameTags(p)
      PROVE  SwapKeepsPayload'
  BY <1>2, SameTagsKeepPayload DEF Return, ReturnOverLink
<1>3. SameTags(pkt)
  BY DEF SameTags
<1>4. CASE xdp_pass_func \/ xdp_parser_func \/ xdp_vlan_01 \/ xdp_vlan_02 \/ NoProgram
  BY <1>2, <1>3, <1>4
     DEF xdp_pass_func, xdp_parser_func, xdp_vlan_01, xdp_vlan_02, NoProgram
<1>5. CASE xdp_patch_ports_func
  <2>1. SameTags([pkt EXCEPT !.l4.port = NextPort(@)])
    BY <1>1, PatchedPacket DEF SameTags, SameHeaders
  <2>2. \E v, q : Return(v, q) /\ q \in {pkt, [pkt EXCEPT !.l4.port = NextPort(@)]}
    BY <1>5 DEF xdp_patch_ports_func
  <2> QED BY <1>2, <1>3, <2>1, <2>2
<1>6. CASE xdp_vlan_swap_func
  BY <1>1, <1>6, VlanSwapKeepsPayload
<1>7. CASE xdp_icmp_echo_func
  <2> DEFINE e == EchoReply(pkt)
  <2>1. CASE e = -1
    BY <1>2, <1>3, <1>7, <2>1 DEF xdp_icmp_echo_func
  <2>2. CASE e # -1
    <3>1. SameTags(Answer(pkt, e))
      BY <1>1, AnswerKeepsTags
    <3> QED BY <1>2, <1>7, <2>2, <3>1 DEF xdp_icmp_echo_func
  <2> QED BY <2>1, <2>2
<1>8. CASE xdp_router_func
  <2>1. SameTags(ForwardedBy(pkt))
    BY <1>1, ForwardedKeepsTags
  <2> QED BY <1>2, <1>3, <1>8, <2>1 DEF xdp_router_func
<1>9. CASE HostBridges \/ UNCHANGED vars
  BY <1>3, <1>9, SameTagsKeepPayload DEF HostBridges, vars
<1> QED BY <1>4, <1>5, <1>6, <1>7, <1>8, <1>9 DEF Next, RunProgram

(* xdp_vlan_swap_func: however often tags are pushed and popped, by whichever
   end, and whatever other programs do in between, what the tags precede is
   the packet that was sent. *)
THEOREM SwapAlwaysKeepsPayload == Spec => []SwapKeepsPayload
<1>1. Init => SwapKeepsPayload
  <2> SUFFICES ASSUME Init PROVE SwapKeepsPayload
    OBVIOUS
  <2>1. pkt = sent /\ sent.tags \in Seq(Field16)
    BY PacketsAssumption, PacketFields DEF Init
  <2>2. 0 \in 0 .. Len(sent.tags) /\ Behind(sent.tags, 0) = sent.tags
    BY <2>1, BehindNone
  <2>3. \E n \in 0 .. Len(sent.tags) : pkt.tags = SubSeq(sent.tags, n + 1, Len(sent.tags))
    BY <2>1, <2>2 DEF Behind
  <2> QED BY <2>1, <2>3 DEF SwapKeepsPayload
<1> QED BY <1>1, InvAlways, StepKeepsPayload, PTL DEF Spec

-----------------------------------------------------------------------------
(* What xdp_patch_ports_func gives up on.                                  *)

(* A transport header is parsed where a whole packet has it. *)
LEMMA ParsedTransport ==
  ASSUME NEW p \in Packet, ParsedIp(p).ret \in {"udp", "tcp"}
  PROVE  ParsedIp(p).ret = p.ip.protocol /\ ParsedIp(p).pos = TransportAt(p)
<1> DEFINE eth == parse_ethhdr(p)  ip == ParsedIp(p)
<1>1. eth.ret \in {"ip", "ip6"} /\ ip.ret # "failed"
  BY DEF ParsedIp, NoType
<1>2. p.proto = eth.ret /\ eth.pos = ETH_HLEN + Len(p.tags) * VLAN_HLEN
  BY <1>1 DEF parse_ethhdr, parse_ethhdr_depth, NoType
<1>3. p.tags \in Seq(Field16) /\ p.ip \in IpHeader
  BY PacketFields
<1>4. Len(p.tags) \in Nat /\ p.ip.ihl \in Nat
  BY <1>3 DEF IpHeader
<1> HIDE DEF eth
<1>5. CASE eth.ret = "ip"
  <2>1. ip.ret = p.ip.protocol /\ ip.pos = eth.pos + p.ip.ihl * 4
    BY <1>1, <1>5 DEF ParsedIp, parse_iphdr, NoType, eth
  <2> QED BY SMT, <1>2, <1>4, <1>5, <2>1 DEF TransportAt, VLAN_HLEN, ETH_HLEN
<1>6. CASE eth.ret = "ip6"
  <2>1. ip.ret = p.ip.protocol /\ ip.pos = eth.pos + 40
    BY <1>1, <1>6 DEF ParsedIp, parse_ip6hdr, NoType, eth
  <2> QED BY SMT, <1>2, <1>4, <1>6, <2>1 DEF TransportAt, VLAN_HLEN, ETH_HLEN
<1> QED BY <1>1, <1>5, <1>6

LEMMA AbortedIsMalformed ==
  ASSUME pkt \in Packet, parse_ethhdr(pkt).ret = "failed" \/ PortsMalformed(pkt)
  PROVE  \/ pkt.len < ETH_HLEN
         \/ pkt.ip.protocol = "udp" /\ (pkt.l4.size < 8 \/ TransportAt(pkt) + 8 > pkt.len)
         \/ pkt.ip.protocol = "tcp"
            /\ (pkt.l4.size < POINTER_SIZE \/ TransportAt(pkt) + 20 > pkt.len
                \/ TransportAt(pkt) + pkt.l4.size > pkt.len)
<1>1. pkt.len \in Nat /\ pkt.l4.size \in Nat /\ pkt.proto \in {"ip", "ip6", "arp"}
  <2>1. pkt.l4 \in L4Header
    BY PacketFields
  <2> QED BY <2>1, PacketFields DEF L4Header
<1>2. CASE parse_ethhdr(pkt).ret = "failed"
  <2>1. ETH_HLEN > pkt.len
    BY <1>1, <1>2 DEF parse_ethhdr, parse_ethhdr_depth
  <2> QED BY SMT, <1>1, <2>1 DEF ETH_HLEN
<1>3. CASE ParsedIp(pkt).ret = "udp" /\ parse_udphdr(pkt, ParsedIp(pkt).pos).ret < 0
  <2>1. pkt.ip.protocol = "udp" /\ ParsedIp(pkt).pos = TransportAt(pkt)
    BY <1>3, ParsedTransport
  <2>2. parse_udphdr(pkt, TransportAt(pkt)).ret < 0
    BY <1>3, <2>1
  <2>3. pkt.l4.size < 8 \/ TransportAt(pkt) + 8 > pkt.len
    BY SMT, <1>1, <2>2 DEF parse_udphdr
  <2> QED BY <2>1, <2>3
<1>4. CASE ParsedIp(pkt).ret = "tcp" /\ parse_tcphdr(pkt, ParsedIp(pkt).pos).ret < 0
  <2>1. pkt.ip.protocol = "tcp" /\ ParsedIp(pkt).pos = TransportAt(pkt)
    BY <1>4, ParsedTransport
  <2>2. parse_tcphdr(pkt, TransportAt(pkt)).ret < 0
    BY <1>4, <2>1
  <2>3. \/ pkt.l4.size < POINTER_SIZE \/ TransportAt(pkt) + 20 > pkt.len
        \/ TransportAt(pkt) + pkt.l4.size > pkt.len
    BY SMT, <1>1, <2>2 DEF parse_tcphdr
  <2> QED BY <2>1, <2>3
<1> QED BY <1>2, <1>3, <1>4 DEF PortsMalformed

(* Where a program other than xdp_patch_ports_func ends, and where a packet
   does not come to its end, the property says nothing. *)
LEMMA OtherEnds ==
  ASSUME NEW v, NEW p, NEW name, Runs(name),
         \/ name # "patch_ports" /\ Return(v, p)
         \/ v # "ABORTED" /\ (Return(v, p) \/ ReturnOverLink(v, p))
  PROVE  OnlyMalformedAborts'
<1>1. CASE name # "patch_ports" /\ Return(v, p)
  BY <1>1 DEF Runs, Return, OnlyMalformedAborts
<1>2. CASE v # "ABORTED" /\ (Return(v, p) \/ ReturnOverLink(v, p))
  <2>1. verdict' # "ABORTED"
    BY <1>2 DEF Return, ReturnOverLink
  <2> QED BY <2>1 DEF OnlyMalformedAborts
<1> QED BY <1>1, <1>2

LEMMA StepKeepsAborts == Inv /\ OnlyMalformedAborts /\ [Next]_vars => OnlyMalformedAborts'
<1> SUFFICES ASSUME Inv, OnlyMalformedAborts, [Next]_vars PROVE OnlyMalformedAborts'
  OBVIOUS
<1>1. pkt \in Packet
  BY DEF Inv, TypeOK
<1>2. CASE xdp_patch_ports_func
  <2>1. CASE parse_ethhdr(pkt).ret = "failed" \/ PortsMalformed(pkt)
    <3>1. pkt' = pkt
      BY <1>2, <2>1 DEF xdp_patch_ports_func, Return
    <3>2. /\ pkt'.len = pkt.len /\ pkt'.ip = pkt.ip /\ pkt'.l4 = pkt.l4
          /\ TransportAt(pkt') = TransportAt(pkt)
      BY <3>1
    <3> QED BY <1>1, <2>1, <3>2, AbortedIsMalformed DEF OnlyMalformedAborts
  <2>2. CASE ~ (parse_ethhdr(pkt).ret = "failed" \/ PortsMalformed(pkt))
    <3>1. \E p : Return("PASS", p) /\ Runs("patch_ports")
      BY <1>2, <2>2 DEF xdp_patch_ports_func
    <3> QED BY <3>1, OtherEnds
  <2> QED BY <2>1, <2>2
<1>3. CASE xdp_pass_func \/ xdp_parser_func \/ xdp_vlan_swap_func \/ xdp_vlan_01
           \/ xdp_vlan_02 \/ NoProgram
  <2>1. \E v, p, name : Return(v, p) /\ Runs(name) /\ name # "patch_ports"
    BY <1>3 DEF xdp_pass_func, xdp_parser_func, xdp_vlan_swap_func, xdp_vlan_01,
                xdp_vlan_02, NoProgram
  <2> QED BY <2>1, OtherEnds
<1>4. CASE xdp_icmp_echo_func
  <2>1. \E p : Return("PASS", p) \/ ReturnOverLink("TX", p)
    BY <1>4 DEF xdp_icmp_echo_func
  <2> QED BY <1>4, <2>1, OtherEnds DEF xdp_icmp_echo_func
<1>5. CASE xdp_router_func
  <2>1. \E v, p : Return(v, p) \/ (v = "REDIRECT" /\ ReturnOverLink(v, p))
    BY <1>5 DEF xdp_router_func
  <2> QED BY <1>5, <2>1, OtherEnds DEF xdp_router_func
<1>6. CASE HostBridges
  BY <1>6 DEF HostBridges, OnlyMalformedAborts
<1>7. CASE UNCHANGED vars
  BY <1>7 DEF vars, OnlyMalformedAborts, TransportAt
<1> QED BY <1>2, <1>3, <1>4, <1>5, <1>6, <1>7 DEF Next, RunProgram

(* xdp_patch_ports_func aborts packets that are cut off or lie about their
   length, behind however many tags and IP options, and no others. *)
THEOREM OnlyMalformedAborted == Spec => []OnlyMalformedAborts
<1>1. Init => OnlyMalformedAborts
  BY DEF Init, OnlyMalformedAborts
<1> QED BY <1>1, InvAlways, StepKeepsAborts, PTL DEF Spec
=============================================================================
