------------------------------- MODULE Decode -------------------------------
(***************************************************************************)
(* The frame decoder, decode_frame() of src/src/decode.c.                  *)
(*                                                                         *)
(* The decoder walks a frame with a `span': the offset of the current      *)
(* layer, cap (bytes really captured) and wire (bytes the enclosing header *)
(* says exist).  Every action is one header of the frame, or one turn of   *)
(* one of the three header loops (VLAN tags, IPv6 extension headers, GTP-U *)
(* extension headers), so the behaviours of this module are the executions *)
(* of decode_frame() on every possible frame.  A field is chosen by the    *)
(* action that reads it: f below ranges over what the bytes may hold.      *)
(*                                                                         *)
(* The lengths of the fixed headers are parameters.  Nothing below depends *)
(* on their values, so the small ones used for model checking stand for    *)
(* the real ones (14, 4, 20, 40, ...) and the proofs cover both.           *)
(***************************************************************************)
EXTENDS PacketInfo

CONSTANTS
    ETH_HDR_LEN, VLAN_TAG_LEN, IPV4_MIN_HDR, IPV6_HDR_LEN, IPV6_FRAG_LEN,
    IPV6_EXT_MIN,          \* the 2 bytes of next header and length
    TCP_MIN_HDR, UDP_HDR_LEN, ICMP_MIN_HDR, GTPU_HDR_LEN, GTPU_OPT_LEN,
    IPV6_MAX_EXT_HEADERS,
    FrameLens,             \* lengths a frame may have (captured, on the wire)
    HdrLens,               \* IHL * 4 and TCP data offset * 4
    Len16,                 \* what a 16-bit length field may hold
    Ext6Lens,              \* (length byte + 1) * 8 of an IPv6 extension header
    ExtGLens               \* length byte * 4 of a GTP-U extension header

ASSUME HeaderLens ==
    /\ ETH_HDR_LEN \in Nat /\ VLAN_TAG_LEN \in Nat
    /\ IPV4_MIN_HDR \in Nat /\ IPV6_HDR_LEN \in Nat /\ IPV6_FRAG_LEN \in Nat
    /\ IPV6_EXT_MIN \in Nat
    /\ TCP_MIN_HDR \in Nat /\ UDP_HDR_LEN \in Nat /\ ICMP_MIN_HDR \in Nat
    /\ GTPU_HDR_LEN \in Nat /\ GTPU_OPT_LEN \in Nat

ASSUME LoopLimits == IPV6_MAX_EXT_HEADERS \in Nat

ASSUME FieldLens ==
    /\ FrameLens \subseteq Nat /\ HdrLens \subseteq Nat /\ Len16 \subseteq Nat
    /\ Ext6Lens \subseteq Nat /\ ExtGLens \subseteq Nat

VARIABLES
    caplen, wirelen,       \* the arguments of decode_frame()
    off, cap, wire,        \* struct span: p - frame, cap, wire
    readTo,                \* history: one past the last frame byte read so far
    pc,                    \* the header to be decoded next; "idle" once a call returned
    lvl,                   \* which packet the IP decoders work on
    next, hops,            \* the header loops' next type and counter
    ret,                   \* what the IP decoders returned
    status, gtp_status,    \* pi->status, pi->gtp_status
    l2, gtp,               \* the L2 and the GTP-U part of *pi
    l3                     \* L3/L4 part: of *pi ("outer"), of the scratch `in' ("inner")

frame == <<caplen, wirelen>>
span == <<off, cap, wire>>
vars == <<caplen, wirelen, off, cap, wire, readTo, pc, lvl, next, hops, ret,
          status, gtp_status, l2, gtp, l3>>

Steps == {"start", "idle", "eth", "vlan", "ip4", "ip6", "ext6", "l4", "ipdone",
          "gtpu", "gtpopt", "gtpext", "inner"}

TypeOK ==
    /\ caplen \in Nat /\ wirelen \in Nat
    /\ off \in Nat /\ cap \in Nat /\ wire \in Nat /\ readTo \in Nat
    /\ pc \in Steps
    /\ lvl \in {"outer", "inner"}
    /\ next \in NextHdr \cup {"none", "vlan", "ipv4", "ipv6", "more"}
    /\ hops \in Nat
    /\ ret \in decode_status /\ status \in decode_status
    /\ gtp_status \in decode_status
    /\ l2 \in L2Info /\ gtp \in GtpInfo
    /\ l3 \in [{"outer", "inner"} -> L3Info]

-----------------------------------------------------------------------------
(***************************************************************************)
(* need(), advance(), clip()                                               *)
(***************************************************************************)
\* Mutant: only the wire length is tested.
need_wire_only(n, truncated, malformed) ==
    IF n <= wire THEN "OK" ELSE malformed

need(n, truncated, malformed) ==
    IF n <= cap THEN "OK" ELSE IF n <= wire THEN truncated ELSE malformed

advance(n) ==
    /\ off' = off + n
    /\ cap' = cap - n
    /\ wire' = wire - n

\* What clip(s, len) leaves of a captured length c; the wire length becomes len.
clip(c, len) == IF c > len THEN len ELSE c

\* The bytes at offsets off .. off + n - 1 have been read.
Reads(n) == readTo' = IF off + n > readTo THEN off + n ELSE readTo

\* An IP decoder returns st to its caller without touching the span.
Return(st) ==
    /\ ret' = st
    /\ pc' = "ipdone"

\* decode_frame() returns st before any IP decoder has run.
Finish(st) ==
    /\ status' = st
    /\ pc' = "idle"

\* decode_gtpu() returns st, and decode_frame() returns.
FinishGtp(st) ==
    /\ gtp_status' = st
    /\ pc' = "idle"

-----------------------------------------------------------------------------
Init ==
    /\ caplen = 0 /\ wirelen = 0
    /\ off = 0 /\ cap = 0 /\ wire = 0 /\ readTo = 0
    /\ pc = "start" /\ lvl = "outer" /\ next = "none" /\ hops = 0
    /\ ret = "OK" /\ status = "OK" /\ gtp_status = "OK"
    /\ l2 = NoL2 /\ gtp = NoGtp
    /\ l3 = [p \in {"outer", "inner"} |-> NoL3]

\* decode_frame() is entered: *pi is cleared and the span covers the frame.
decode_frame(c, w) ==
    /\ pc \in {"start", "idle"}
    /\ caplen' = c /\ wirelen' = w
    /\ off' = 0 /\ cap' = c
    /\ wire' = IF w > c THEN w ELSE c
    /\ readTo' = 0
    /\ pc' = "eth" /\ lvl' = "outer" /\ next' = "none" /\ hops' = 0
    /\ ret' = "OK" /\ status' = "OK" /\ gtp_status' = "OK"
    /\ l2' = NoL2 /\ gtp' = NoGtp
    /\ l3' = [p \in {"outer", "inner"} |-> NoL3]

EtherTypes == {"vlan", "ipv4", "ipv6", "other"}

ethernet(type) ==
    /\ pc = "eth"
    /\ LET st == need(ETH_HDR_LEN, "TRUNC_ETHERNET", "BAD_SHORT_FRAME") IN
       \/ /\ st # "OK"
          /\ Finish(st)
          /\ UNCHANGED <<span, readTo, next>>
       \/ /\ st = "OK"
          /\ Reads(ETH_HDR_LEN)
          /\ next' = type
          /\ advance(ETH_HDR_LEN)
          /\ pc' = "vlan"
          /\ UNCHANGED status
    /\ UNCHANGED <<frame, lvl, hops, ret, gtp_status, l2, gtp, l3>>

\* Mutant: one tag too many for vlan_ids[].
vlans_overfull == l2.vlan_count > DECODE_MAX_VLANS

vlans_full == l2.vlan_count = DECODE_MAX_VLANS

\* One turn of the tag loop.
vlan_tag(type) ==
    /\ pc = "vlan" /\ next = "vlan"
    /\ LET st == IF vlans_full THEN "BAD_VLAN_DEPTH"
                 ELSE need(VLAN_TAG_LEN, "TRUNC_VLAN", "BAD_SHORT_FRAME") IN
       \/ /\ st # "OK"
          /\ Finish(st)
          /\ UNCHANGED <<span, readTo, next, l2>>
       \/ /\ st = "OK"
          /\ Reads(VLAN_TAG_LEN)
          /\ l2' = [l2 EXCEPT !.vlan_count = @ + 1]
          /\ next' = type
          /\ advance(VLAN_TAG_LEN)
          /\ UNCHANGED <<pc, status>>
    /\ UNCHANGED <<frame, lvl, hops, ret, gtp_status, gtp, l3>>

\* The loop ends; the ethertype selects the IP decoder.
dispatch ==
    /\ pc = "vlan" /\ next # "vlan"
    /\ l2' = [l2 EXCEPT !.ethertype = next, !.has_l2 = 1]
    /\ pc' = CASE next = "ipv4" -> "ip4"
               [] next = "ipv6" -> "ip6"
               [] OTHER -> "ipdone"
    /\ UNCHANGED <<frame, span, readTo, lvl, next, hops, ret, status,
                   gtp_status, gtp, l3>>

-----------------------------------------------------------------------------
(***************************************************************************)
(* decode_ipv4(), decode_ipv6() and decode_l4(), on the outer packet or on *)
(* the user packet in a tunnel                                             *)
(***************************************************************************)

\* The byte whose nibble chose the decoder of an inner packet holds its version.
VersionSeen(version, v) == lvl = "inner" => version = v

\* Mutant: a missing total length is taken from what was captured.
total_len_captured(len) == IF len = 0 THEN cap ELSE len

\* A total length of 0 (segmentation offload) stands for all that is there.
total_len(len) == IF len = 0 THEN wire ELSE len

decode_ipv4(version, hlen, len, frag, proto) ==
    /\ pc = "ip4"
    /\ VersionSeen(version, 4)
    /\ LET fits == need(IPV4_MIN_HDR, "TRUNC_IPV4", "BAD_SHORT_FRAME")
           total == total_len(len)
           st == IF version # 4 THEN "BAD_IPV4_VERSION"
                 ELSE IF hlen < IPV4_MIN_HDR THEN "BAD_IPV4_IHL"
                 ELSE IF total < hlen \/ total > wire THEN "BAD_IPV4_TOTAL_LEN"
                 ELSE IF hlen > cap THEN "TRUNC_IPV4"
                 ELSE "OK" IN
       \/ /\ fits # "OK"
          /\ Return(fits)
          /\ UNCHANGED <<span, readTo, l3>>
       \/ /\ fits = "OK" /\ st # "OK"
          /\ Reads(IPV4_MIN_HDR)
          /\ Return(st)
          /\ UNCHANGED <<span, l3>>
       \/ /\ fits = "OK" /\ st = "OK"
          /\ Reads(IPV4_MIN_HDR)
          /\ l3' = [l3 EXCEPT ![lvl].ip_version = 4, ![lvl].ip_proto = proto,
                              ![lvl].frag = frag, ![lvl].has_l3 = 1]
          /\ off' = off + hlen
          /\ cap' = clip(cap, total) - hlen
          /\ wire' = total - hlen
          /\ ret' = "OK"
          /\ pc' = IF frag = "LATER" THEN "ipdone" ELSE "l4"
    /\ UNCHANGED <<frame, lvl, next, hops, status, gtp_status, l2, gtp>>

\* The fixed header; the extension headers follow.
decode_ipv6(version, payload, type) ==
    /\ pc = "ip6"
    /\ VersionSeen(version, 6)
    /\ LET fits == need(IPV6_HDR_LEN, "TRUNC_IPV6", "BAD_SHORT_FRAME")
           st == IF version # 6 THEN "BAD_IPV6_VERSION"
                 ELSE IF payload > wire - IPV6_HDR_LEN
                      THEN "BAD_IPV6_PAYLOAD_LEN"
                 ELSE "OK" IN
       \/ /\ fits # "OK"
          /\ Return(fits)
          /\ UNCHANGED <<span, readTo, next, hops, l3>>
       \/ /\ fits = "OK" /\ st # "OK"
          /\ Reads(IPV6_HDR_LEN)
          /\ Return(st)
          /\ UNCHANGED <<span, next, hops, l3>>
       \/ /\ fits = "OK" /\ st = "OK"
          /\ Reads(IPV6_HDR_LEN)
          /\ l3' = [l3 EXCEPT ![lvl].ip_version = 6, ![lvl].has_l3 = 1]
          /\ next' = type /\ hops' = 0
          /\ off' = off + IPV6_HDR_LEN
          /\ cap' = clip(cap - IPV6_HDR_LEN, payload)
          /\ wire' = payload
          /\ pc' = "ext6"
          /\ UNCHANGED ret
    /\ UNCHANGED <<frame, lvl, status, gtp_status, l2, gtp>>

\* One turn of the loop on a fragment header.  kind is what its offset and M
\* flag say; an atomic fragment ("NONE") leaves pi->frag as it was.
ipv6_fragment(kind, type) ==
    /\ pc = "ext6" /\ next = "frag6"
    /\ LET st == IF hops = IPV6_MAX_EXT_HEADERS THEN "BAD_IPV6_EXT"
                 ELSE need(IPV6_FRAG_LEN, "TRUNC_IPV6_EXT", "BAD_IPV6_EXT") IN
       \/ /\ st # "OK"
          /\ Return(st)
          /\ UNCHANGED <<span, readTo, next, hops, l3>>
       \/ /\ st = "OK"
          /\ Reads(IPV6_FRAG_LEN)
          /\ hops' = hops + 1
          /\ next' = type
          /\ advance(IPV6_FRAG_LEN)
          /\ \/ /\ kind = "LATER"
                /\ l3' = [l3 EXCEPT ![lvl].frag = kind, ![lvl].ip_proto = type]
                /\ Return("OK")
             \/ /\ kind = "FIRST"
                /\ l3' = [l3 EXCEPT ![lvl].frag = kind]
                /\ UNCHANGED <<pc, ret>>
             \/ /\ kind = "NONE"
                /\ UNCHANGED <<pc, ret, l3>>
    /\ UNCHANGED <<frame, lvl, status, gtp_status, l2, gtp>>

\* One turn of the loop on a hop-by-hop, routing or destination options header.
ipv6_extension(len, type) ==
    /\ pc = "ext6" /\ next = "ext"
    /\ LET bad == IF hops = IPV6_MAX_EXT_HEADERS THEN "BAD_IPV6_EXT"
                  ELSE need(IPV6_EXT_MIN, "TRUNC_IPV6_EXT", "BAD_IPV6_EXT")
           st == need(len, "TRUNC_IPV6_EXT", "BAD_IPV6_EXT") IN
       \/ /\ bad # "OK"
          /\ Return(bad)
          /\ UNCHANGED <<span, readTo, next, hops>>
       \/ /\ bad = "OK" /\ st # "OK"
          /\ Reads(IPV6_EXT_MIN)
          /\ Return(st)
          /\ UNCHANGED <<span, next, hops>>
       \/ /\ bad = "OK" /\ st = "OK"
          /\ Reads(IPV6_EXT_MIN)
          /\ hops' = hops + 1
          /\ next' = type
          /\ advance(len)
          /\ UNCHANGED <<pc, ret>>
    /\ UNCHANGED <<frame, lvl, status, gtp_status, l2, gtp, l3>>

\* Mutant: only the fragment header is recognised.
is_ipv6_fragment(type) == type = "frag6"

is_ipv6_ext(type) == type \in Ext6

\* The chain has been walked to its end: only now is ip_proto known.
ipv6_chain_end ==
    /\ pc = "ext6" /\ ~is_ipv6_ext(next)
    /\ l3' = [l3 EXCEPT ![lvl].ip_proto = next]
    /\ pc' = "l4"
    /\ UNCHANGED <<frame, span, readTo, lvl, next, hops, ret, status,
                   gtp_status, l2, gtp>>

\* decode_l4(), the TCP branch.  The ports are stored before the data offset is
\* checked.
decode_tcp(hlen, port) ==
    /\ pc = "l4" /\ l3[lvl].ip_proto = "tcp"
    /\ LET fits == need(TCP_MIN_HDR, "TRUNC_TCP", "BAD_L4_LEN")
           st == IF hlen < TCP_MIN_HDR \/ hlen > wire THEN "BAD_TCP_DOFF"
                 ELSE IF hlen > cap THEN "TRUNC_TCP"
                 ELSE "OK" IN
       \/ /\ fits # "OK"
          /\ Return(fits)
          /\ UNCHANGED <<readTo, l3>>
       \/ /\ fits = "OK"
          /\ Reads(TCP_MIN_HDR)
          /\ l3' = [l3 EXCEPT ![lvl].gtp_port = port,
                              ![lvl].has_l4 = IF st = "OK" THEN 1 ELSE @]
          /\ Return(st)
    /\ UNCHANGED <<frame, span, lvl, next, hops, status, gtp_status, l2, gtp>>

\* Mutant: the UDP length is compared with the frame, not with the IP packet.
udp_len_beyond_frame(ulen) ==
    \/ ulen < UDP_HDR_LEN
    \/ /\ l3[lvl].frag = "NONE"
       /\ off + ulen > (IF wirelen > caplen THEN wirelen ELSE caplen)

udp_len_bad(ulen) ==
    \/ ulen < UDP_HDR_LEN
    \/ l3[lvl].frag = "NONE" /\ ulen > wire

\* decode_l4(), the UDP branch.  Only an unfragmented packet holds the whole
\* datagram that the UDP length describes.
decode_udp(ulen, port) ==
    /\ pc = "l4" /\ l3[lvl].ip_proto = "udp"
    /\ LET fits == need(UDP_HDR_LEN, "TRUNC_UDP", "BAD_L4_LEN")
           whole == l3[lvl].frag = "NONE" IN
       \/ /\ fits # "OK"
          /\ Return(fits)
          /\ UNCHANGED <<span, readTo, l3>>
       \/ /\ fits = "OK" /\ udp_len_bad(ulen)
          /\ Reads(UDP_HDR_LEN)
          /\ l3' = [l3 EXCEPT ![lvl].gtp_port = port]
          /\ Return("BAD_UDP_LEN")
          /\ UNCHANGED span
       \/ /\ fits = "OK" /\ ~udp_len_bad(ulen)
          /\ Reads(UDP_HDR_LEN)
          /\ l3' = [l3 EXCEPT ![lvl].gtp_port = port, ![lvl].has_l4 = 1]
          /\ cap' = IF whole THEN clip(cap, ulen) ELSE cap
          /\ wire' = IF whole THEN ulen ELSE wire
          /\ Return("OK")
          /\ UNCHANGED off
    /\ UNCHANGED <<frame, lvl, next, hops, status, gtp_status, l2, gtp>>

\* Mutant: has_l4 is set before the header is known to be there.
decode_icmp_early ==
    /\ pc = "l4" /\ l3[lvl].ip_proto \in {"icmp", "icmpv6"}
    /\ Return(need(ICMP_MIN_HDR, "TRUNC_ICMP", "BAD_L4_LEN"))
    /\ l3' = [l3 EXCEPT ![lvl].has_l4 = 1]
    /\ UNCHANGED <<frame, span, readTo, lvl, next, hops, status, gtp_status,
                   l2, gtp>>

\* decode_l4(), the ICMP and ICMPv6 branch.
decode_icmp ==
    /\ pc = "l4" /\ l3[lvl].ip_proto \in {"icmp", "icmpv6"}
    /\ LET fits == need(ICMP_MIN_HDR, "TRUNC_ICMP", "BAD_L4_LEN") IN
       /\ Return(fits)
       /\ \/ /\ fits # "OK"
             /\ UNCHANGED <<readTo, l3>>
          \/ /\ fits = "OK"
             /\ Reads(ICMP_MIN_HDR)
             /\ l3' = [l3 EXCEPT ![lvl].has_l4 = 1]
    /\ UNCHANGED <<frame, span, lvl, next, hops, status, gtp_status, l2, gtp>>

\* decode_l4(), any other protocol: the IP layer is still valid.
decode_other_l4 ==
    /\ pc = "l4" /\ l3[lvl].ip_proto \notin KnownL4
    /\ Return("OK")
    /\ UNCHANGED <<frame, span, readTo, lvl, next, hops, status, gtp_status,
                   l2, gtp, l3>>

-----------------------------------------------------------------------------
(***************************************************************************)
(* GTP-U                                                                   *)
(***************************************************************************)
\* decode_frame() stores the outer verdict and decides whether to look for GTP-U.
outer_done ==
    /\ pc = "ipdone" /\ lvl = "outer"
    /\ status' = ret
    /\ \/ /\ ret = "OK" /\ l3["outer"].frag = "NONE"
          /\ decode_is_gtpu_port(l3["outer"])
          /\ wire >= UDP_HDR_LEN + GTPU_HDR_LEN
          /\ gtp' = [gtp EXCEPT !.is_gtpu = 1]
          /\ advance(UDP_HDR_LEN)
          /\ pc' = "gtpu"
       \/ /\ \/ ret # "OK" \/ l3["outer"].frag # "NONE"
             \/ ~decode_is_gtpu_port(l3["outer"])
             \/ wire < UDP_HDR_LEN + GTPU_HDR_LEN
          /\ pc' = "idle"
          /\ UNCHANGED <<span, gtp>>
    /\ UNCHANGED <<frame, readTo, lvl, next, hops, ret, gtp_status, l2, l3>>

\* decode_gtpu(): the mandatory header.
decode_gtpu(v1u, flags, msg, len) ==
    /\ pc = "gtpu"
    /\ LET fits == need(GTPU_HDR_LEN, "TRUNC_GTPU", "BAD_GTPU_LEN")
           seen == [gtp EXCEPT !.v1u = 1, !.flags = flags, !.msg_type = msg] IN
       \/ /\ fits # "OK"
          /\ FinishGtp(fits)
          /\ UNCHANGED <<span, readTo, next, hops, gtp>>
       \/ /\ fits = "OK" /\ v1u = 0
          /\ Reads(GTPU_HDR_LEN)
          /\ FinishGtp("OK")
          /\ UNCHANGED <<span, next, hops, gtp>>
       \/ /\ fits = "OK" /\ v1u = 1 /\ len > wire - GTPU_HDR_LEN
          /\ Reads(GTPU_HDR_LEN)
          /\ gtp' = seen
          /\ FinishGtp("BAD_GTPU_LEN")
          /\ UNCHANGED <<span, next, hops>>
       \/ /\ fits = "OK" /\ v1u = 1 /\ len <= wire - GTPU_HDR_LEN
          /\ Reads(GTPU_HDR_LEN)
          /\ gtp' = seen
          /\ off' = off + GTPU_HDR_LEN
          /\ cap' = clip(cap - GTPU_HDR_LEN, len)
          /\ wire' = len
          /\ next' = "none" /\ hops' = 0
          /\ pc' = IF flags = "none" THEN "gtpext" ELSE "gtpopt"
          /\ UNCHANGED gtp_status
    /\ UNCHANGED <<frame, lvl, ret, status, l2, l3>>

\* The next-type byte (0 or not) counts only when the E flag is set.
extension_follows(type) == gtp.flags = "E" /\ type = 1

\* The optional fields.
gtpu_optional(type) ==
    /\ pc = "gtpopt"
    /\ LET fits == need(GTPU_OPT_LEN, "TRUNC_GTPU", "BAD_GTPU_LEN") IN
       \/ /\ fits # "OK"
          /\ FinishGtp(fits)
          /\ UNCHANGED <<span, readTo, next>>
       \/ /\ fits = "OK"
          /\ Reads(GTPU_OPT_LEN)
          /\ next' = IF extension_follows(type) THEN "more" ELSE "none"
          /\ advance(GTPU_OPT_LEN)
          /\ pc' = "gtpext"
          /\ UNCHANGED gtp_status
    /\ UNCHANGED <<frame, lvl, hops, ret, status, l2, gtp, l3>>

\* Mutant: an empty extension header is accepted, and at its limit the counter
\* starts again instead of ending the walk.
gtpu_extension_endless(elen, type) ==
    /\ pc = "gtpext" /\ next = "more"
    /\ LET st == need(IF elen = 0 THEN 1 ELSE elen,
                     "TRUNC_GTPU_EXT", "BAD_GTPU_EXT") IN
       \/ /\ st # "OK"
          /\ FinishGtp(st)
          /\ UNCHANGED <<span, readTo, next, hops>>
       \/ /\ st = "OK"
          /\ Reads(elen)
          /\ next' = IF type = 1 THEN "more" ELSE "none"
          /\ advance(elen)
          /\ hops' = IF hops = GTPU_MAX_EXT_HEADERS THEN 0 ELSE hops + 1
          /\ UNCHANGED <<pc, gtp_status>>
    /\ UNCHANGED <<frame, lvl, ret, status, l2, gtp, l3>>

\* One turn of the extension header loop.  The next type is the last byte of the
\* header, so the whole header is read.
gtpu_extension(elen, type) ==
    /\ pc = "gtpext" /\ next = "more"
    /\ LET bad == IF hops = GTPU_MAX_EXT_HEADERS THEN "BAD_GTPU_EXT"
                  ELSE need(1, "TRUNC_GTPU_EXT", "BAD_GTPU_EXT")
           st == IF elen = 0 THEN "BAD_GTPU_EXT_LEN"
                 ELSE need(elen, "TRUNC_GTPU_EXT", "BAD_GTPU_EXT") IN
       \/ /\ bad # "OK"
          /\ FinishGtp(bad)
          /\ UNCHANGED <<span, readTo, next, hops, gtp>>
       \/ /\ bad = "OK" /\ st # "OK"
          /\ Reads(1)
          /\ FinishGtp(st)
          /\ UNCHANGED <<span, next, hops, gtp>>
       \/ /\ bad = "OK" /\ st = "OK"
          /\ Reads(elen)
          /\ next' = IF type = 1 THEN "more" ELSE "none"
          /\ advance(elen)
          /\ hops' = hops + 1
          /\ gtp' = [gtp EXCEPT !.ext_count = hops + 1]
          /\ UNCHANGED <<pc, gtp_status>>
    /\ UNCHANGED <<frame, lvl, ret, status, l2, l3>>

\* Every GTP-U header of the message has been read and checked.
gtpu_headers_done ==
    /\ pc = "gtpext" /\ next = "none"
    /\ gtp' = [gtp EXCEPT !.msg_ok = 1]
    /\ \/ /\ gtp.msg_type # "gpdu"
          /\ FinishGtp("OK")
       \/ /\ gtp.msg_type = "gpdu"
          /\ pc' = "inner"
          /\ UNCHANGED gtp_status
    /\ UNCHANGED <<frame, span, readTo, lvl, next, hops, ret, status, l2, l3>>

\* decode_gtpu_inner(): the version nibble chooses the IP decoder.
decode_gtpu_inner(nibble) ==
    /\ pc = "inner"
    /\ LET fits == need(1, "TRUNC_GTPU_INNER", "BAD_GTPU_INNER") IN
       \/ /\ fits # "OK"
          /\ FinishGtp(fits)
          /\ UNCHANGED <<readTo, lvl, l3>>
       \/ /\ fits = "OK" /\ nibble \notin {4, 6}
          /\ Reads(1)
          /\ FinishGtp("BAD_GTPU_INNER")
          /\ UNCHANGED <<lvl, l3>>
       \/ /\ fits = "OK" /\ nibble \in {4, 6}
          /\ Reads(1)
          /\ l3' = [l3 EXCEPT !["inner"] = NoL3]
          /\ lvl' = "inner"
          /\ pc' = IF nibble = 4 THEN "ip4" ELSE "ip6"
          /\ UNCHANGED gtp_status
    /\ UNCHANGED <<frame, span, next, hops, ret, status, l2, gtp>>

\* Mutant: the reason is passed on as it is.
inner_reason_as_is(st) == st

\* Mutant: every problem of the user packet is put down to its length.
inner_reason_short(st) == IF st = "OK" THEN st ELSE "BAD_GTPU_INNER_SHORT"

\* A user packet too short for its IP header is not a short frame.
inner_reason(st) ==
    IF st = "BAD_SHORT_FRAME" THEN "BAD_GTPU_INNER_SHORT" ELSE st

\* Mutant: the version of a valid user packet is stored as the outer packet's.
inner_done_overwrites ==
    /\ pc = "ipdone" /\ lvl = "inner"
    /\ gtp' = [gtp EXCEPT !.has_inner = l3["inner"].has_l3]
    /\ l3' = [l3 EXCEPT !["outer"].ip_version =
                 IF l3["inner"].has_l3 = 1 THEN l3["inner"].ip_version ELSE @]
    /\ FinishGtp(inner_reason(ret))
    /\ UNCHANGED <<frame, span, readTo, lvl, next, hops, ret, status, l2>>

\* Mutant: the nested flag looks at the port number and not at the protocol.
inner_done_any_protocol ==
    /\ pc = "ipdone" /\ lvl = "inner"
    /\ LET in == l3["inner"] IN
       gtp' = [gtp EXCEPT
                 !.has_inner = in.has_l3,
                 !.inner_has_l4 = in.has_l4,
                 !.nested = IF in.has_l4 = 1 THEN in.gtp_port ELSE 0]
    /\ FinishGtp(inner_reason(ret))
    /\ UNCHANGED <<frame, span, readTo, lvl, next, hops, ret, status, l2, l3>>

\* The IP decoder of the user packet has returned: what was valid is copied out.
inner_done ==
    /\ pc = "ipdone" /\ lvl = "inner"
    /\ LET in == l3["inner"] IN
       gtp' = [gtp EXCEPT
                 !.has_inner = in.has_l3,
                 !.inner_has_l4 = in.has_l4,
                 !.nested = IF decode_is_gtpu_port(in) THEN 1 ELSE 0]
    /\ FinishGtp(inner_reason(ret))
    /\ UNCHANGED <<frame, span, readTo, lvl, next, hops, ret, status, l2, l3>>

-----------------------------------------------------------------------------
(***************************************************************************)
(* The specification                                                       *)
(***************************************************************************)
Versions == {0, 4, 6}

\* One step of the decoder inside a call of decode_frame().
Step ==
    \/ \E type \in EtherTypes : ethernet(type) \/ vlan_tag(type)
    \/ dispatch
    \/ /\ pc = "ip4"          \* named here too: TLC need not try all contents
       /\ \E version \in Versions, hlen \in HdrLens, len \in Len16,
             frag \in frag_kind, proto \in NextHdr :
             decode_ipv4(version, hlen, len, frag, proto)
    \/ /\ pc = "ip6"
       /\ \E version \in Versions, payload \in Len16, type \in NextHdr :
             decode_ipv6(version, payload, type)
    \/ \E kind \in frag_kind, type \in NextHdr : ipv6_fragment(kind, type)
    \/ \E len \in Ext6Lens, type \in NextHdr : ipv6_extension(len, type)
    \/ ipv6_chain_end
    \/ \E hlen \in HdrLens, port \in Flag : decode_tcp(hlen, port)
    \/ \E ulen \in Len16, port \in Flag : decode_udp(ulen, port)
    \/ decode_icmp
    \/ decode_other_l4
    \/ outer_done
    \/ \E v1u \in Flag, flags \in {"none", "E", "SPN"},
          msg \in GtpMsgTypes, len \in Len16 :
          decode_gtpu(v1u, flags, msg, len)
    \/ \E type \in Flag : gtpu_optional(type)
    \/ \E elen \in ExtGLens, type \in Flag : gtpu_extension(elen, type)
    \/ gtpu_headers_done
    \/ \E nibble \in Versions : decode_gtpu_inner(nibble)
    \/ inner_done

Next ==
    \/ \E c \in FrameLens, w \in FrameLens : decode_frame(c, w)
    \/ Step

Spec == Init /\ [][Next]_vars

\* A call of decode_frame() that has begun is not abandoned.
FairSpec == Spec /\ WF_vars(Step)

-----------------------------------------------------------------------------
(***************************************************************************)
(* Properties                                                              *)
(***************************************************************************)

\* The span stays inside the frame: what it calls captured was captured, what
\* it calls on the wire lies on the wire, and cap <= wire, on which the unsigned
\* subtractions of advance() and of the length checks rely.
SpanInside ==
    /\ cap <= wire
    /\ off + cap <= caplen
    /\ off + wire <= (IF wirelen > caplen THEN wirelen ELSE caplen)

\* No header decoder reads a byte past the captured part of the frame, whatever
\* the lengths in the packet claim.
ReadsInBounds == readTo <= caplen

\* A frame that was captured whole is never called truncated: its problems are
\* the packet's own.  This is what separates the two columns of the summary.
CompleteNeverTruncated ==
    caplen >= wirelen =>
        \A st \in {ret, status, gtp_status} : ~decode_status_is_truncation(st)

Returned == pc = "idle"
Decoding == pc \notin {"start", "idle"}

LayersMatch(st) ==
    LET p == l3["outer"] IN
    /\ p.has_l3 = 1 => l2.has_l2 = 1
    /\ p.has_l4 = 1 <=> /\ st = "OK" /\ p.has_l3 = 1
                        /\ p.frag # "LATER"
                        /\ p.ip_proto \in KnownL4
    /\ st \in ChainReasons => p.has_l3 = 1
    /\ st = "OK" => /\ l2.has_l2 = 1
                    /\ l2.ethertype \in {"ipv4", "ipv6"} <=> p.has_l3 = 1
    /\ l2.has_l2 = 1 /\ l2.ethertype \notin {"ipv4", "ipv6"} => st = "OK"

\* When decode_frame() returns, the layers marked valid are those of a packet
\* decoded up to its verdict: each rests on the one below, a transport header is
\* valid exactly in a clean packet of a known protocol that is not a later
\* fragment, a clean IP packet and one with a broken extension chain have their
\* IP header, and there is nothing to go wrong in a frame that is not IP.
LayersMatchVerdict == Returned => LayersMatch(status)

\* GTP-U is looked for only in a clean, unfragmented UDP datagram, and a packet
\* that is not GTP-U carries nothing of an earlier one in the same packet_info.
GtpOnlyInCleanUdp ==
    Returned =>
        IF gtp.is_gtpu = 1
        THEN /\ status = "OK"
             /\ l3["outer"].has_l4 = 1 /\ l3["outer"].frag = "NONE"
             /\ l3["outer"].ip_proto = "udp"
        ELSE gtp = NoGtp /\ gtp_status = "OK"

ProblemsSplit ==
    /\ gtp.v1u = 0 => /\ gtp_status \in {"OK", "TRUNC_GTPU"}
                      /\ gtp.msg_ok = 0 /\ gtp.msg_type = "none"
    /\ gtp.v1u = 1 => (gtp.msg_ok = 1 <=> gtp_status \notin HeaderReasons)
    /\ gtp.has_inner = 1 => gtp.msg_ok = 1 /\ gtp.msg_type = "gpdu"
    /\ gtp.msg_type = "gpdu" /\ gtp_status = "OK" => gtp.has_inner = 1
    /\ gtp_status \in ChainReasons => gtp.has_inner = 1
    /\ gtp.nested = 1 => gtp.inner_has_l4 = 1
    /\ gtp.inner_has_l4 = 1 => gtp.has_inner = 1 /\ gtp_status = "OK"

\* gtp_msg_ok tells the problems of a GTP-U message from those of the user packet
\* it carries: it is set exactly when the GTP-U headers were all valid.  Only the
\* capture can cut the mandatory header, only a valid G-PDU has a user packet, a
\* G-PDU without any problem has one, and its transport is valid only then.
MsgOkSplitsProblems == Returned /\ gtp.is_gtpu = 1 => ProblemsSplit

\* With the E flag clear no extension header is walked, whatever the next-type
\* byte holds.
ExtensionsOnlyWithE == gtp.ext_count > 0 => gtp.flags = "E"

\* The two verdicts name the layer they are about: the outer one never gives a
\* GTP-U reason, and a tunnelled packet is never blamed on the frame, its VLAN
\* tags or an IP version that its own first nibble contradicts.
ReasonsNameTheirLayer ==
    /\ status \notin HeaderReasons \cup
          {"TRUNC_GTPU_INNER", "BAD_GTPU_INNER", "BAD_GTPU_INNER_SHORT"}
    /\ gtp_status \notin {"TRUNC_ETHERNET", "TRUNC_VLAN", "BAD_SHORT_FRAME",
          "BAD_VLAN_DEPTH", "BAD_IPV4_VERSION", "BAD_IPV6_VERSION"}

\* ip_proto of an IPv6 packet never names an extension header that was skipped or
\* failed: it stays 0 when the chain is broken.  (A later fragment ends the walk
\* at its fragment header, whatever follows that.)
BrokenChainHasNoProto ==
    \A p \in {"outer", "inner"} :
        /\ l3[p].ip_version = 6 /\ l3[p].ip_proto \in Ext6
             => l3[p].frag = "LATER"
        /\ l3[p].ip_version = 6 /\ pc = "ipdone" /\ lvl = p
           /\ ret \in {"BAD_IPV6_EXT", "TRUNC_IPV6_EXT"}
             => l3[p].ip_proto = "none"

\* A length read from the packet can only shrink the span: no step of the decoder
\* moves backwards or uncovers bytes that an enclosing header excluded.
SpanOnlyShrinks ==
    [][Decoding => /\ off' >= off
                   /\ off' + cap' <= off + cap
                   /\ off' + wire' <= off + wire]_vars

\* Decoding a tunnel never alters what is known of the packet that carries it:
\* the user packet is decoded by the same code into a scratch packet_info.
OuterFrozenInTunnel ==
    [][gtp.is_gtpu = 1 /\ Decoding
         => UNCHANGED <<status, l2>> /\ l3'["outer"] = l3["outer"]]_vars

\* Every call returns: the three header loops end on every frame.
Terminates == Decoding ~> Returned

=============================================================================
