----------------------------- MODULE DecodePair -----------------------------
(***************************************************************************)
(* Two calls of decode_frame() side by side, header by header.             *)
(*                                                                         *)
(* PairSpec: one frame captured to two lengths.  The variables of Decode   *)
(* are the call on the longer capture, those with the prefix c_ the call   *)
(* on the shorter one.  Both find the same bytes in the frame.             *)
(*                                                                         *)
(* FragSpec: the first and a later fragment of one IPv6 datagram.  The     *)
(* headers up to the fragment header are those of the datagram.            *)
(***************************************************************************)
EXTENDS Decode

VARIABLES
    c_caplen, c_wirelen, c_off, c_cap, c_wire, c_readTo, c_pc, c_lvl, c_next,
    c_hops, c_ret, c_status, c_gtp_status, c_l2, c_gtp, c_l3

cut_vars == <<c_caplen, c_wirelen, c_off, c_cap, c_wire, c_readTo, c_pc, c_lvl, c_next,
              c_hops, c_ret, c_status, c_gtp_status, c_l2, c_gtp, c_l3>>

C == INSTANCE Decode WITH
    caplen <- c_caplen, wirelen <- c_wirelen, off <- c_off, cap <- c_cap,
    wire <- c_wire, readTo <- c_readTo, pc <- c_pc, lvl <- c_lvl, next <- c_next,
    hops <- c_hops, ret <- c_ret, status <- c_status, gtp_status <- c_gtp_status,
    l2 <- c_l2, gtp <- c_gtp, l3 <- c_l3

PairInit == Init /\ C!Init

\* Both calls read the same header.
SameHeader ==
    \/ \E type \in EtherTypes : ethernet(type) /\ C!ethernet(type)
    \/ \E type \in EtherTypes : vlan_tag(type) /\ C!vlan_tag(type)
    \/ dispatch /\ C!dispatch
    \/ \E version \in Versions, hlen \in HdrLens, len \in Len16,
          frag \in frag_kind, proto \in NextHdr :
          /\ decode_ipv4(version, hlen, len, frag, proto)
          /\ C!decode_ipv4(version, hlen, len, frag, proto)
    \/ \E version \in Versions, payload \in Len16, type \in NextHdr :
          decode_ipv6(version, payload, type) /\ C!decode_ipv6(version, payload, type)
    \/ \E len \in Ext6Lens, type \in NextHdr :
          ipv6_extension(len, type) /\ C!ipv6_extension(len, type)
    \/ ipv6_chain_end /\ C!ipv6_chain_end
    \/ \E hlen \in HdrLens, port \in Flag :
          decode_tcp(hlen, port) /\ C!decode_tcp(hlen, port)
    \/ \E ulen \in Len16, port \in Flag :
          decode_udp(ulen, port) /\ C!decode_udp(ulen, port)
    \/ decode_icmp /\ C!decode_icmp
    \/ decode_other_l4 /\ C!decode_other_l4
    \/ outer_done /\ C!outer_done
    \/ \E v1u \in Flag, flags \in {"none", "E", "SPN"},
          msg \in GtpMsgTypes, len \in Len16 :
          decode_gtpu(v1u, flags, msg, len) /\ C!decode_gtpu(v1u, flags, msg, len)
    \/ \E type \in Flag : gtpu_optional(type) /\ C!gtpu_optional(type)
    \/ \E elen \in ExtGLens, type \in Flag :
          gtpu_extension(elen, type) /\ C!gtpu_extension(elen, type)
    \/ gtpu_headers_done /\ C!gtpu_headers_done
    \/ \E nibble \in Versions : decode_gtpu_inner(nibble) /\ C!decode_gtpu_inner(nibble)
    \/ inner_done /\ C!inner_done

\* The calls have parted: the second one returns, then the first one goes on.
CutGoesOn == pc # c_pc /\ C!Step /\ UNCHANGED vars
WholeGoesOn == c_pc = "idle" /\ Step /\ UNCHANGED cut_vars

-----------------------------------------------------------------------------
(***************************************************************************)
(* One frame, captured to two lengths                                      *)
(***************************************************************************)
decode_captures(c, k, w) == k <= c /\ c <= w /\ decode_frame(c, w) /\ C!decode_frame(k, w)

same_fragment_header ==
    \E kind \in frag_kind, type \in NextHdr :
        ipv6_fragment(kind, type) /\ C!ipv6_fragment(kind, type)

PairNext ==
    \/ \E c, k, w \in FrameLens : decode_captures(c, k, w)
    \/ SameHeader
    \/ same_fragment_header
    \/ WholeGoesOn
    \/ CutGoesOn

PairSpec == PairInit /\ [][PairNext]_<<vars, cut_vars>>

\* The second call has found no end of its capture yet.
CutDecoding ==
    /\ c_pc \notin {"start", "idle"}
    /\ ~(c_pc = "ipdone" /\ decode_status_is_truncation(c_ret))

\* Nothing that decode_frame() finds out depends on how much of the frame lies
\* behind the headers it has read: as long as the shorter capture is being decoded,
\* both calls are at the same header, know the same and see the same wire length.
SameUntilCut ==
    CutDecoding =>
        /\ pc = c_pc /\ lvl = c_lvl /\ next = c_next /\ hops = c_hops
        /\ off = c_off /\ wire = c_wire /\ c_cap <= cap
        /\ status = c_status /\ gtp_status = c_gtp_status /\ ret = c_ret
        /\ l2 = c_l2 /\ gtp = c_gtp /\ l3 = c_l3

\* The layers that are valid in the shorter capture are those of the longer one.
PartOfOuter ==
    /\ c_l2.has_l2 = 1 => l2 = c_l2
    /\ c_l2.vlan_count <= l2.vlan_count
    /\ c_l3["outer"].has_l3 = 1 =>
         l3["outer"].has_l3 = 1 /\ l3["outer"].ip_version = c_l3["outer"].ip_version
    /\ c_l3["outer"].ip_proto # "none" =>
         /\ l3["outer"].ip_proto = c_l3["outer"].ip_proto
         /\ l3["outer"].frag = c_l3["outer"].frag

PartOfTunnel ==
    /\ gtp.is_gtpu = 1
    /\ c_gtp.v1u = 1 => gtp.v1u = 1 /\ gtp.msg_type = c_gtp.msg_type
    /\ c_gtp.msg_ok = 1 => gtp.msg_ok = 1
    /\ c_gtp.ext_count <= gtp.ext_count
    /\ c_gtp.has_inner = 1 => gtp.has_inner = 1
    /\ c_gtp.inner_has_l4 = 0

\* A shorter capture of a frame can only turn a verdict into a truncation, of the
\* frame or of what a tunnel carries: it never makes a good packet malformed or a
\* malformed one good, and it never makes up a layer.  So the counters of problems
\* and the flows of a capture do not depend on its snapshot length by anything but
\* the packets counted as truncated.
CutOnlyTruncates ==
    pc = "idle" /\ c_pc = "idle" =>
        \/ /\ status = c_status /\ gtp_status = c_gtp_status
           /\ l2 = c_l2 /\ gtp = c_gtp /\ l3["outer"] = c_l3["outer"]
        \/ /\ decode_status_is_truncation(c_status)
           /\ c_gtp = NoGtp /\ PartOfOuter
        \/ /\ status = "OK" /\ c_status = "OK"
           /\ l2 = c_l2 /\ l3["outer"] = c_l3["outer"]
           /\ decode_status_is_truncation(c_gtp_status)
           /\ PartOfTunnel

-----------------------------------------------------------------------------
(***************************************************************************)
(* Two fragments of one IPv6 datagram                                      *)
(***************************************************************************)
decode_fragments(f, g) == decode_frame(f, f) /\ C!decode_frame(g, g)

\* The fragment headers of a datagram's fragments name the same header.
fragment_headers ==
    \E type \in NextHdr : ipv6_fragment("FIRST", type) /\ C!ipv6_fragment("LATER", type)

FragNext ==
    \/ \E f, g \in FrameLens : decode_fragments(f, g)
    \/ SameHeader
    \/ fragment_headers
    \/ WholeGoesOn
    \/ CutGoesOn

FragSpec == PairInit /\ [][FragNext]_<<vars, cut_vars>>

\* "every fragment of a datagram shares (IP version, source, destination, protocol,
\* identification)" (frag.h): the ip_proto under which frag_cache_apply() stores
\* a first fragment is the one under which it looks a later fragment up.
FragmentsShareProtocol ==
    LET first == l3["outer"] later == c_l3["outer"] IN
    /\ pc = "idle" /\ status = "OK" /\ first.frag = "FIRST" /\ first.has_l4 = 1
    /\ c_pc = "idle" /\ c_status = "OK" /\ later.frag = "LATER"
    /\ first.ip_version = 6 /\ later.ip_version = 6
    => first.ip_proto = later.ip_proto
=============================================================================
