----------------------------- MODULE PacketInfo -----------------------------
(***************************************************************************)
(* struct packet_info and its enumerations (src/src/decode.h): what the    *)
(* decoder hands to the counters, the fragment cache and the flow tables.  *)
(***************************************************************************)
EXTENDS Integers

CONSTANTS
    DECODE_MAX_VLANS, GTPU_MAX_EXT_HEADERS,
    GtpMsgTypes            \* GTP-U message types, "gpdu" among them

ASSUME FieldLimits == DECODE_MAX_VLANS \in Nat /\ GTPU_MAX_EXT_HEADERS \in Nat
ASSUME TypesNamed == "none" \notin GtpMsgTypes

Truncations ==
    {"TRUNC_ETHERNET", "TRUNC_VLAN", "TRUNC_IPV4", "TRUNC_IPV6",
     "TRUNC_IPV6_EXT", "TRUNC_TCP", "TRUNC_UDP", "TRUNC_ICMP",
     "TRUNC_GTPU", "TRUNC_GTPU_EXT", "TRUNC_GTPU_INNER"}

Malformations ==
    {"BAD_SHORT_FRAME", "BAD_VLAN_DEPTH", "BAD_IPV4_VERSION", "BAD_IPV4_IHL",
     "BAD_IPV4_TOTAL_LEN", "BAD_IPV6_VERSION", "BAD_IPV6_PAYLOAD_LEN",
     "BAD_IPV6_EXT", "BAD_L4_LEN", "BAD_TCP_DOFF", "BAD_UDP_LEN",
     "BAD_GTPU_LEN", "BAD_GTPU_EXT_LEN", "BAD_GTPU_EXT", "BAD_GTPU_INNER",
     "BAD_GTPU_INNER_SHORT"}

decode_status == {"OK"} \cup Truncations \cup Malformations

\* decode_status_is_truncation(): the truncations are the first range of the enum.
decode_status_is_truncation(st) == st \in Truncations

\* The reasons about the GTP-U headers, and those about an IPv6 extension chain.
HeaderReasons == {"TRUNC_GTPU", "TRUNC_GTPU_EXT", "BAD_GTPU_LEN",
                  "BAD_GTPU_EXT", "BAD_GTPU_EXT_LEN"}
ChainReasons == {"TRUNC_IPV6_EXT", "BAD_IPV6_EXT"}

frag_kind == {"NONE", "FIRST", "LATER"}
Flag == {0, 1}

\* What a next-header byte says: the IPv6 extension headers that are stepped
\* over ("ext" is hop-by-hop, routing or destination options), the transport
\* protocols decode_l4() knows, or another.
Ext6 == {"ext", "frag6"}
KnownL4 == {"tcp", "udp", "icmp", "icmpv6"}
L4Proto == KnownL4 \cup {"other"}
NextHdr == Ext6 \cup L4Proto

\* The L2, L3/L4 and GTP-U parts of struct packet_info.  gtp_port stands for the
\* two ports: is one of them 2152?  gtp.flags says which optional fields a GTP-U
\* header announces: "E" (E set, whatever S and PN), "SPN" (S or PN, E clear).
L2Info == [has_l2: Flag, vlan_count: 0..DECODE_MAX_VLANS,
           ethertype: {"none", "ipv4", "ipv6", "other"}]
L3Info == [has_l3: Flag, has_l4: Flag, ip_version: {0, 4, 6},
           ip_proto: NextHdr \cup {"none"}, frag: frag_kind, gtp_port: Flag]
GtpInfo == [is_gtpu: Flag, v1u: Flag, flags: {"none", "E", "SPN"},
            msg_type: GtpMsgTypes \cup {"none"}, msg_ok: Flag,
            ext_count: 0..GTPU_MAX_EXT_HEADERS,
            has_inner: Flag, inner_has_l4: Flag, nested: Flag]

NoL2 == [has_l2 |-> 0, vlan_count |-> 0, ethertype |-> "none"]
NoL3 == [has_l3 |-> 0, has_l4 |-> 0, ip_version |-> 0, ip_proto |-> "none",
         frag |-> "NONE", gtp_port |-> 0]
NoGtp == [is_gtpu |-> 0, v1u |-> 0, flags |-> "none", msg_type |-> "none", msg_ok |-> 0,
          ext_count |-> 0, has_inner |-> 0, inner_has_l4 |-> 0, nested |-> 0]

decode_is_gtpu_port(p) ==
    p.has_l4 = 1 /\ p.ip_proto = "udp" /\ p.gtp_port = 1

-----------------------------------------------------------------------------
\* The parts of a packet_info that decode_frame() has filled in agree with each
\* other and with its two verdicts.  Decode is proved to return only such ones.
OuterAgrees(pi) ==
    LET p == pi.l3 IN
    /\ p.has_l3 = 1 => pi.l2.has_l2 = 1
    /\ p.has_l3 = 1 => p.ip_version \in {4, 6}
    /\ p.has_l3 = 0 => p.frag = "NONE"
    /\ p.has_l4 = 1 => /\ p.has_l3 = 1 /\ pi.status = "OK" /\ p.frag # "LATER"
                       /\ p.ip_proto \in KnownL4
    /\ pi.status = "OK" =>
         /\ pi.l2.has_l2 = 1
         /\ pi.l2.ethertype \in {"ipv4", "ipv6"} <=> p.has_l3 = 1
    /\ pi.l2.has_l2 = 1 /\ pi.l2.ethertype \notin {"ipv4", "ipv6"} => pi.status = "OK"
    /\ pi.status \in ChainReasons => p.has_l3 = 1

TunnelAgrees(pi) ==
    LET g == pi.gtp IN
    /\ g.is_gtpu = 0 => g = NoGtp /\ pi.gtp_status = "OK"
    /\ g.is_gtpu = 1 =>
         /\ pi.status = "OK" /\ pi.l3.has_l4 = 1
         /\ pi.l3.ip_proto = "udp" /\ pi.l3.frag = "NONE"
         /\ g.v1u = 0 => /\ pi.gtp_status \in {"OK", "TRUNC_GTPU"}
                         /\ g.msg_ok = 0 /\ g.msg_type = "none"
         /\ g.v1u = 1 => /\ g.msg_type \in GtpMsgTypes
                         /\ g.msg_ok = 1 <=> pi.gtp_status \notin HeaderReasons
         /\ g.msg_ok = 1 /\ pi.gtp_status # "OK" => g.msg_type = "gpdu"
         /\ g.has_inner = 1 => g.msg_ok = 1 /\ g.msg_type = "gpdu"
         /\ g.msg_type = "gpdu" /\ pi.gtp_status = "OK" => g.has_inner = 1
         /\ pi.gtp_status \in ChainReasons => g.has_inner = 1

Consistent(pi) == OuterAgrees(pi) /\ TunnelAgrees(pi)
=============================================================================
