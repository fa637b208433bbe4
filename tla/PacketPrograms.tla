---------------------------- MODULE PacketPrograms ----------------------------
(***************************************************************************)
(* The XDP programs of the packet lessons, on the two ends of a veth pair  *)
(* (common/, packet02-rewriting/, packet-solutions/).  A packet travels    *)
(* over the link: a program passes it to its end's host, drops it, or      *)
(* sends it back over the link, where the program at the other end sees    *)
(* it.  A host that was passed a packet may bridge it back to the link.    *)
(***************************************************************************)
EXTENDS PacketHelpers

CONSTANTS
  Packets,      \* the packets that may be sent first
  Program,      \* the programs that may be attached; "none" is none
  MaxBridged    \* how often a host bridges the packet back

Field16 == 0 .. 65535

ICMP_ECHOREPLY == 0
ICMP_ECHO == 8
ICMPV6_ECHO_REQUEST == 128
ICMPV6_ECHO_REPLY == 129

(* parse_iphdr turns away headers of less than two words.  It lets those of two to four
   words pass, in which what follows the header begins inside of it; no packet here
   is of that kind. *)
IpHeader ==
  [ihl : {0, 1} \cup 5 .. 15, ttl : 0 .. 255, protocol : STRING, src : STRING, dst : STRING,
   check : Field16, rest : Nat]

L4Header ==
  [type : 0 .. 255, seq : Field16, cksum : Field16, rest : Nat, port : Field16, size : Nat]

(* Of the two who talk, of the router and of where it sends packets next. *)
MacAddress == {"A", "B", "router", "nexthop"}

Packet ==
  [src : MacAddress, dst : MacAddress, tags : Seq(Field16), proto : {"ip", "ip6", "arp"},
   ip : IpHeader, l4 : L4Header, len : Nat, room : Nat]

(* The checksums of a packet, where it has them. *)
IpChecksumHolds(p) ==
  p.proto = "ip" => ChecksumHolds(p.ip.ttl + p.ip.rest + p.ip.check)

IsIcmp(p) == <<p.proto, p.ip.protocol>> \in {<<"ip", "icmp">>, <<"ip6", "icmp6">>}

IcmpChecksumHolds(p) ==
  IsIcmp(p) => ChecksumHolds(p.l4.type + p.l4.rest + p.l4.cksum)

(* What is sent first has correct checksums. *)
ASSUME PacketsAssumption ==
  \A p \in Packets : p \in Packet /\ IpChecksumHolds(p) /\ IcmpChecksumHolds(p)

ASSUME MaxBridgedAssumption == MaxBridged \in Nat

End == {"outer", "inner"}

Other(e) == IF e = "outer" THEN "inner" ELSE "outer"

VARIABLES
  prog,       \* end |-> the program attached
  sent,       \* the packet as it was sent
  pkt,        \* ... and as it is now
  place,      \* "wire": it arrives at end; "host"; "gone"
  end,
  verdict,    \* of the last program
  routed,     \* history: a router sent it on
  replies,    \* history: how often it was answered; 2 is any more
  bridged     \* how often it was bridged

vars == <<prog, sent, pkt, place, end, verdict, routed, replies, bridged>>

Init ==
  /\ prog \in [End -> Program]
  /\ sent \in Packets /\ pkt = sent
  /\ place = "wire" /\ end \in End
  /\ verdict = "none"
  /\ routed = FALSE /\ replies = 0 /\ bridged = 0

Runs(name) == place = "wire" /\ prog[end] = name

(* The program ends with this verdict, having made p of the packet. *)
Return(v, p) ==
  /\ pkt' = p /\ verdict' = v
  /\ place' = IF v = "PASS" THEN "host" ELSE "gone"
  /\ UNCHANGED <<prog, sent, end, bridged>>

(* ... or the packet goes back over the link.  veth takes it from a program
   only if the other end has one too. *)
ReturnOverLink(v, p) ==
  /\ pkt' = p /\ verdict' = v
  /\ IF prog[Other(end)] # "none" THEN place' = "wire" /\ end' = Other(end)
                                  ELSE place' = "gone" /\ UNCHANGED end
  /\ UNCHANGED <<prog, sent, bridged>>

-----------------------------------------------------------------------------
(* Plausible mistakes. *)

(* The message is answered whatever its type. *)
EchoReply_AnyType(p) ==
  LET eth == parse_ethhdr(p)
      ip == IF eth.ret = "ip" THEN parse_iphdr(p, eth.pos) ELSE parse_ip6hdr(p, eth.pos)
      icmp == parse_icmphdr(p, ip.pos, 4).ret
  IN  CASE eth.ret = "ip" /\ ip.ret = "icmp" /\ icmp # -1 -> ICMP_ECHOREPLY
        [] eth.ret = "ip6" /\ ip.ret = "icmp6" /\ icmp # -1 -> ICMPV6_ECHO_REPLY
        [] OTHER -> -1

(* A packet whose time has come is forwarded once more. *)
Expired_AtZero(p) == p.ip.ttl < 1

(* The port is decremented as an int. *)
NextPort_Int(port) == port - 1

(* The parser's result is compared with UDP alone. *)
PortsMalformed_AnyTransport(p) ==
  LET eth == parse_ethhdr(p)
      ip == IF eth.ret = "ip" THEN parse_iphdr(p, eth.pos) ELSE parse_ip6hdr(p, eth.pos)
  IN  eth.ret \in {"ip", "ip6"} /\ parse_udphdr(p, ip.pos).ret = -1

-----------------------------------------------------------------------------
xdp_pass_func ==
  /\ Runs("pass")
  /\ Return("PASS", pkt)
  /\ UNCHANGED <<routed, replies>>

(* The IP header that a program sees behind the Ethernet header. *)
ParsedIp(p) ==
  LET eth == parse_ethhdr(p)
  IN  CASE eth.ret = "ip" -> parse_iphdr(p, eth.pos)
        [] eth.ret = "ip6" -> parse_ip6hdr(p, eth.pos)
        [] OTHER -> NoType

(* packet02's solution of packet01: every second echo request is dropped. *)
xdp_parser_func ==
  /\ Runs("parser")
  /\ LET eth == parse_ethhdr(pkt)
         ip == ParsedIp(pkt)
         icmp == parse_icmphdr(pkt, ip.pos, 8).ret
         request == \/ eth.ret = "ip6" /\ ip.ret = "icmp6" /\ icmp = ICMPV6_ECHO_REQUEST
                    \/ eth.ret = "ip" /\ ip.ret = "icmp" /\ icmp = ICMP_ECHO
     IN  Return(IF request /\ pkt.l4.seq % 2 = 0 THEN "DROP" ELSE "PASS", pkt)
  /\ UNCHANGED <<routed, replies>>

(* UDP or TCP whose header cannot be parsed. *)
PortsMalformed(p) ==
  LET ip == ParsedIp(p)
  IN  \/ ip.ret = "udp" /\ parse_udphdr(p, ip.pos).ret < 0
      \/ ip.ret = "tcp" /\ parse_tcphdr(p, ip.pos).ret < 0

NextPort(port) == (port + 65535) % 65536

(* The destination port is decremented, mod 2^16; the checksum stays. *)
xdp_patch_ports_func ==
  /\ Runs("patch_ports")
  /\ IF parse_ethhdr(pkt).ret = "failed" \/ PortsMalformed(pkt)
     THEN Return("ABORTED", pkt)
     ELSE Return("PASS", IF ParsedIp(pkt).ret \in {"udp", "tcp"}
                         THEN [pkt EXCEPT !.l4.port = NextPort(@)]
                         ELSE pkt)
  /\ UNCHANGED <<routed, replies>>

(* What pop and push return is not looked at. *)
xdp_vlan_swap_func ==
  /\ Runs("vlan_swap")
  /\ Return("PASS", IF parse_ethhdr(pkt).ret = "failed" THEN pkt
                    ELSE IF h_proto(pkt) = "vlan" THEN vlan_tag_pop(pkt)
                    ELSE vlan_tag_push(pkt, 1))
  /\ UNCHANGED <<routed, replies>>

xdp_vlan_01 ==
  /\ Runs("vlan01")
  /\ Return(CASE parse_ethhdr(pkt).ret = "failed" -> "ABORTED"
              [] parse_ethhdr(pkt).ret # "failed" /\ h_proto(pkt) = "vlan" -> "DROP"
              [] OTHER -> "PASS", pkt)
  /\ UNCHANGED <<routed, replies>>

(* vlans.id[1] is masked, but not brought into host order.  It is read whether
   or not a second tag was seen: without one, it may hold anything. *)
xdp_vlan_02 ==
  /\ Runs("vlan02")
  /\ IF parse_ethhdr_depth(pkt, 10).ret = "failed"
     THEN Return("ABORTED", pkt)
     ELSE IF SkipTags(pkt, 10) >= 2
          THEN Return(IF VLAN_VID(OtherOrder(pkt.tags[2])) = 42 THEN "ABORTED" ELSE "PASS", pkt)
          ELSE \E v \in {"ABORTED", "PASS"} : Return(v, pkt)
  /\ UNCHANGED <<routed, replies>>

(* The type of the reply to a packet, -1 if it is not answered. *)
EchoReply(p) ==
  LET eth == parse_ethhdr(p)
      ip == ParsedIp(p)
      icmp == parse_icmphdr(p, ip.pos, 4).ret
  IN  CASE eth.ret = "ip" /\ ip.ret = "icmp" /\ icmp = ICMP_ECHO -> ICMP_ECHOREPLY
        [] eth.ret = "ip6" /\ ip.ret = "icmp6" /\ icmp = ICMPV6_ECHO_REQUEST
             -> ICMPV6_ECHO_REPLY
        [] OTHER -> -1

Answer(p, echo_reply) ==
  [swap_src_dst_mac(p) EXCEPT
     !.ip = swap_src_dst_ip(@),
     !.l4 = [@ EXCEPT !.type = echo_reply,
                      !.cksum = icmp_checksum_diff(65535 - p.l4.cksum, echo_reply, p.l4.type)]]

xdp_icmp_echo_func ==
  /\ Runs("icmp_echo")
  /\ LET echo_reply == EchoReply(pkt)
     IN  IF echo_reply = -1
         THEN Return("PASS", pkt) /\ UNCHANGED replies
         ELSE /\ ReturnOverLink("TX", Answer(pkt, echo_reply))
              /\ replies' = IF replies = 0 THEN 1 ELSE 2
  /\ UNCHANGED routed

(* The router looks behind the Ethernet header and skips no tags. *)
RouterSees(p) ==
  CASE \/ ETH_HLEN > p.len
       \/ h_proto(p) = "ip" /\ ETH_HLEN + 20 > p.len
       \/ h_proto(p) = "ip6" /\ ETH_HLEN + 40 > p.len -> "short"
    [] OTHER -> IF h_proto(p) \in {"ip", "ip6"} THEN h_proto(p) ELSE "other"

Expired(p) == p.ip.ttl <= 1

ForwardedBy(p) ==
  [p EXCEPT !.src = "router", !.dst = "nexthop",
            !.ip = IF h_proto(p) = "ip" THEN ip_decrease_ttl(@) ELSE [@ EXCEPT !.ttl = p.ip.ttl - 1]]

(* bpf_fib_lookup finds no way on, or one to another network or back over the
   link; its interface is in tx_port or not. *)
xdp_router_func ==
  /\ Runs("router")
  /\ IF RouterSees(pkt) = "short"
     THEN Return("DROP", pkt) /\ UNCHANGED routed
     ELSE \/ \E v \in {"PASS", "DROP"} :
               /\ v = "PASS" \/ ~(RouterSees(pkt) = "other" \/ Expired(pkt))
               /\ Return(v, pkt)
               /\ UNCHANGED routed
          \/ /\ RouterSees(pkt) # "other" /\ ~Expired(pkt)
             /\ \/ \E v \in {"REDIRECT", "ABORTED"} : Return(v, ForwardedBy(pkt))
                \/ ReturnOverLink("REDIRECT", ForwardedBy(pkt))
             /\ routed' = TRUE
  /\ UNCHANGED replies

(* No program: the packet is the host's. *)
NoProgram ==
  /\ Runs("none")
  /\ Return("PASS", pkt)
  /\ UNCHANGED <<routed, replies>>

HostBridges ==
  /\ place = "host" /\ bridged < MaxBridged
  /\ place' = "wire" /\ end' = Other(end)
  /\ bridged' = bridged + 1
  /\ UNCHANGED <<prog, sent, pkt, verdict, routed, replies>>

RunProgram ==
  \/ xdp_pass_func \/ xdp_parser_func \/ xdp_patch_ports_func \/ xdp_vlan_swap_func
  \/ xdp_vlan_01 \/ xdp_vlan_02 \/ xdp_icmp_echo_func \/ xdp_router_func \/ NoProgram

Next == RunProgram \/ HostBridges

Spec == Init /\ [][Next]_vars

(* The kernel runs the program for a packet that has arrived. *)
FairSpec == Spec /\ WF_vars(RunProgram)

-----------------------------------------------------------------------------
(* Properties.                                                             *)

TypeOK ==
  /\ prog \in [End -> Program]
  /\ sent \in Packet /\ pkt \in Packet
  /\ place \in {"wire", "host", "gone"} /\ end \in End
  /\ verdict \in {"none", "PASS", "DROP", "ABORTED", "TX", "REDIRECT"}
  /\ routed \in BOOLEAN /\ replies \in 0 .. 2 /\ bridged \in 0 .. MaxBridged

(* ip_decrease_ttl: however often a packet is routed, and whatever other
   programs do to it, its IP header has a valid checksum. *)
HeaderChecksumHolds == IpChecksumHolds(pkt)

(* The router's test of ttl <= 1: a packet that is sent on has lost of its
   time to live, and never the last of it. *)
RoutedIsAlive == pkt.ip.ttl \in (IF routed THEN 1 .. sent.ip.ttl - 1 ELSE {sent.ip.ttl})

(* An echo server answers requests, so two that face each other answer a
   packet once; the answer goes back the way the request came. *)
AnsweredOnce ==
  \/ replies = 0 /\ pkt.l4.type = sent.l4.type
     /\ pkt.ip.src = sent.ip.src /\ pkt.ip.dst = sent.ip.dst
  \/ replies = 1 /\ pkt.l4.type \in {ICMP_ECHOREPLY, ICMPV6_ECHO_REPLY}
     /\ pkt.ip.src = sent.ip.dst /\ pkt.ip.dst = sent.ip.src

(* "the Incremental Internet Checksum (RFC 1624) can be used, so use the
   bpf_csum_diff helper to update the checksum": a reply has a valid ICMP
   checksum if the request had. *)
ReplyChecksumHolds == IcmpChecksumHolds(pkt)

(* ... what holds: unless the request's checksum is one of the last nine. *)
ReplyChecksumMostlyHolds == sent.l4.cksum < 65527 => IcmpChecksumHolds(pkt)

(* xdp_vlan_swap: the tags that are left are the innermost of those that were
   sent, or there is one of ID 1 in the place of none; the type behind them
   and the length of what they precede never change. *)
SwapKeepsPayload ==
  /\ pkt.proto = sent.proto
  /\ pkt.len - VLAN_HLEN * Len(pkt.tags) = sent.len - VLAN_HLEN * Len(sent.tags)
  /\ \/ \E n \in 0 .. Len(sent.tags) : pkt.tags = SubSeq(sent.tags, n + 1, Len(sent.tags))
     \/ pkt.tags = <<1>>

(* Where the transport header of a whole packet begins. *)
TransportAt(p) ==
  ETH_HLEN + VLAN_HLEN * Len(p.tags) + (IF p.proto = "ip" THEN p.ip.ihl * 4 ELSE 40)

(* XDP_ABORTED of xdp_patch_ports is for packets that are cut off or lie
   about their length, and for no others. *)
OnlyMalformedAborts ==
  prog[end] = "patch_ports" /\ verdict = "ABORTED" /\ place = "gone" =>
    \/ pkt.len < ETH_HLEN
    \/ pkt.ip.protocol = "udp" /\ (pkt.l4.size < 8 \/ TransportAt(pkt) + 8 > pkt.len)
    \/ pkt.ip.protocol = "tcp"
       /\ (pkt.l4.size < POINTER_SIZE \/ TransportAt(pkt) + 20 > pkt.len
           \/ TransportAt(pkt) + pkt.l4.size > pkt.len)

(* xdp_vlan02, "VLAN Identifier": a packet whose second tag is there and has
   ID 42 is aborted, however many tags follow it. *)
InnerVlan42Aborted ==
  prog[end] = "vlan02" /\ place = "host" /\ SkipTags(pkt, 10) >= 2 =>
    VLAN_VID(pkt.tags[2]) # 42

(* No packet travels over the link for ever: not between two echo servers,
   nor round a loop of routes. *)
PacketsComeToRest == <>[](place # "wire")
=============================================================================
