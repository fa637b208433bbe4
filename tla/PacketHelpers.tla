---------------------------- MODULE PacketHelpers ----------------------------
(***************************************************************************)
(* The helpers that the XDP programs share: the header parsers of          *)
(* common/parsing_helpers.h, the rewriting functions of                    *)
(* common/rewrite_helpers.h, and the checksum arithmetic of                *)
(* packet-solutions/xdp_prog_kern_03.c.                                    *)
(*                                                                         *)
(* A packet is a record of its headers:                                    *)
(*   src, dst   Ethernet addresses                                         *)
(*   tags       the TCIs of its VLAN tags (ID and priority), outermost     *)
(*              first, in host order                                       *)
(*   proto      the EtherType behind the tags: "ip", "ip6" or "arp"        *)
(*   ip         its IP header: ihl, ttl (or hop limit), the protocol, src, *)
(*              dst, check, and rest, the sum of all other 16-bit words    *)
(*   l4         what follows: type, seq and cksum of an ICMP message, with *)
(*              rest as above; the destination port of UDP or TCP, and     *)
(*              size, the UDP length or the TCP header length              *)
(*   len, room  bytes of the packet, and of headroom before it             *)
(* What lies beyond len is not there, whatever the headers say.  Positions *)
(* are byte offsets from the start of the packet.  16-bit words are those  *)
(* of a little-endian machine.                                             *)
(***************************************************************************)
EXTENDS Integers, Sequences, FiniteSets

ETH_HLEN == 14
VLAN_HLEN == 4
VLAN_MAX_DEPTH == 4
POINTER_SIZE == 8     \* sizeof(iph) and sizeof(h) are sizes of pointers

(* -1, of the parsers that return a type, and of the others. *)
NoType == [ret |-> "failed", pos |-> 0]
NoHeader == [ret |-> -1, pos |-> 0]

(* A 16-bit field of a header, read or written without ntohs or htons. *)
OtherOrder(w) == (w % 256) * 256 + w \div 256

VLAN_VID(tci) == tci % 4096

(* The EtherType in the Ethernet header itself. *)
h_proto(p) == IF p.tags = <<>> THEN p.proto ELSE "vlan"

(* At most depth tags are skipped, and none that is cut off. *)
SkipTags(p, depth) ==
  Cardinality({i \in 1 .. Len(p.tags) : i <= depth /\ ETH_HLEN + i * VLAN_HLEN <= p.len})

-----------------------------------------------------------------------------
(* Plausible mistakes. *)

(* The sum is complemented without its carries. *)
csum_fold_helper_NoCarry(csum) == 65535 - csum.lo

(* The checksum is patched, but its carry is not. *)
ip_decrease_ttl_NoCarry(ip) ==
  [ip EXCEPT !.ttl = @ - 1, !.check = (@ + 1) % 65536]

(* A copy of the header is changed, and the packet's is left alone. *)
ip_decrease_ttl_OnCopy(ip) == ip

(* The head is adjusted, but the tag's type is not copied to the header. *)
vlan_tag_pop_KeepsProto(p) ==
  IF p.tags = <<>> \/ ETH_HLEN + VLAN_HLEN > p.len THEN p
  ELSE [p EXCEPT !.len = @ - VLAN_HLEN, !.room = @ + VLAN_HLEN]

-----------------------------------------------------------------------------
(* Parsers: what they return, -1 if they fail, and where the cursor is.    *)

(* The walk ends at the first type that is not VLAN, at a tag that is cut
   off, or after depth tags; in the last two cases VLAN is what it returns. *)
parse_ethhdr_depth(p, depth) ==
  IF ETH_HLEN > p.len THEN NoType
  ELSE LET n == SkipTags(p, depth)
       IN  [ret |-> IF n = Len(p.tags) THEN p.proto ELSE "vlan",
            pos |-> ETH_HLEN + n * VLAN_HLEN]

parse_ethhdr(p) == parse_ethhdr_depth(p, VLAN_MAX_DEPTH)

parse_iphdr(p, pos) ==
  LET hdrsize == p.ip.ihl * 4
  IN  IF pos + 20 > p.len \/ hdrsize < POINTER_SIZE \/ pos + hdrsize > p.len
      THEN NoType
      ELSE [ret |-> p.ip.protocol, pos |-> pos + hdrsize]

parse_ip6hdr(p, pos) ==
  IF pos + 40 > p.len THEN NoType
  ELSE [ret |-> p.ip.protocol, pos |-> pos + 40]

(* parse_icmphdr, parse_icmp6hdr (8 bytes) and parse_icmphdr_common (4). *)
parse_icmphdr(p, pos, size) ==
  IF pos + size > p.len THEN NoHeader
  ELSE [ret |-> p.l4.type, pos |-> pos + size]

parse_udphdr(p, pos) ==
  IF pos + 8 > p.len \/ p.l4.size < 8 THEN NoHeader
  ELSE [ret |-> p.l4.size - 8, pos |-> pos + 8]

parse_tcphdr(p, pos) ==
  IF pos + 20 > p.len \/ p.l4.size < POINTER_SIZE \/ pos + p.l4.size > p.len
  THEN NoHeader
  ELSE [ret |-> p.l4.size, pos |-> pos + p.l4.size]

-----------------------------------------------------------------------------
(* Rewriting.                                                              *)

(* bpf_xdp_adjust_head cannot fail here: an Ethernet header is left. *)
vlan_tag_pop(p) ==
  IF p.tags = <<>> \/ ETH_HLEN + VLAN_HLEN > p.len THEN p
  ELSE [p EXCEPT !.tags = Tail(@), !.len = @ - VLAN_HLEN, !.room = @ + VLAN_HLEN]

(* ... and fails here if there is no headroom. *)
vlan_tag_push(p, id) ==
  IF p.room < VLAN_HLEN THEN p
  ELSE [p EXCEPT !.tags = <<id>> \o @, !.len = @ + VLAN_HLEN, !.room = @ - VLAN_HLEN]

swap_src_dst_mac(p) == [p EXCEPT !.src = p.dst, !.dst = p.src]

(* swap_src_dst_ipv4 and swap_src_dst_ipv6. *)
swap_src_dst_ip(ip) == [ip EXCEPT !.src = ip.dst, !.dst = ip.src]

-----------------------------------------------------------------------------
(* Checksums.  A 32-bit sum is a pair of 16-bit halves.                    *)

Word(n) == [hi |-> 0, lo |-> n]

Not32(x) == [hi |-> 65535 - x.hi, lo |-> 65535 - x.lo]

(* One's complement addition: the carry out of bit 31 comes back in. *)
Add32(x, y) ==
  LET lo == x.lo + y.lo
      hi == x.hi + y.hi + (lo \div 65536)
      l2 == (lo % 65536) + (hi \div 65536)
  IN  [hi |-> (hi + (l2 \div 65536)) % 65536, lo |-> l2 % 65536]

(* The kernel's helper, for one 32-bit word each. *)
bpf_csum_diff(from, to, seed) == Add32(Add32(Not32(from), to), Word(seed))

(* The halves are added once, and the carry of that is cut off. *)
csum_fold_helper(csum) == 65535 - ((csum.hi + csum.lo) % 65536)

(* type is the first 16-bit word, the code left out; the checksum is 0. *)
icmp_checksum_diff(seed, type_new, type_old) ==
  csum_fold_helper(bpf_csum_diff(Word(type_old), Word(type_new), seed))

(* The time to live is the low byte of its word, so that the checksum grows
   by one, by two if that carries. *)
ip_decrease_ttl(ip) ==
  LET check == ip.check + 1
  IN  [ip EXCEPT !.ttl = @ - 1,
                 !.check = (check + (IF check >= 65535 THEN 1 ELSE 0)) % 65536]

(* What RFC 1071 asks of a block of words with this sum, checksum included. *)
ChecksumHolds(sum) == sum > 0 /\ sum % 65535 = 0
=============================================================================
