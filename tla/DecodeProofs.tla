---------------------------- MODULE DecodeProofs ----------------------------
(***************************************************************************)
(* Proofs about Decode, for every length of frame, header and field; that  *)
(* the fuzzer's demands on the decoder are met for every frame (most of    *)
(* these are in the invariant of the decoder; OracleInv is what that       *)
(* lacks); and how two captures of one frame compare.                      *)
(***************************************************************************)
EXTENDS FuzzOracle, DecodePair, TLAPS

\* Where GTP-U may be looked for, the UDP header that is stepped over is there.
UdpThere ==
    pc = "ipdone" /\ lvl = "outer" /\ decode_is_gtpu_port(l3["outer"])
        => UDP_HDR_LEN <= cap

\* The GTP-U loop's counter fits the field it is stored in.
HopsFit == pc \in {"gtpopt", "gtpext"} => hops <= GTPU_MAX_EXT_HEADERS

\* The type read before a header loop is one that the loop understands.
NextFits ==
    /\ pc = "vlan" => next \in EtherTypes
    /\ pc = "ext6" => next \in NextHdr

\* What is known of the outer packet at each place of the decoder, up to the
\* verdict on it; nothing changes it afterwards.
OuterShape ==
    LET p == l3["outer"]
        ip == l2.has_l2 = 1 /\ l2.ethertype \in {"ipv4", "ipv6"} IN
    /\ pc \in {"eth", "vlan"} =>
         /\ lvl = "outer" /\ ret = "OK"
         /\ l2.has_l2 = 0 /\ p.has_l3 = 0 /\ p.has_l4 = 0
    /\ lvl = "outer" /\ pc \in {"ip4", "ip6"} =>
         ip /\ p.has_l3 = 0 /\ p.has_l4 = 0
    /\ lvl = "outer" /\ pc \in {"ext6", "l4"} =>
         /\ ip /\ p.has_l3 = 1 /\ p.has_l4 = 0 /\ p.frag # "LATER"
         /\ pc = "ext6" => ret = "OK"
    /\ lvl = "outer" /\ pc = "ipdone" => LayersMatch(ret)
    /\ lvl = "inner" \/ pc \in {"gtpu", "gtpopt", "gtpext", "inner", "idle"} =>
         LayersMatch(status)

\* What is known of the tunnel at each place of the decoder.
TunnelShape ==
    LET fresh == gtp.has_inner = 0 /\ gtp.inner_has_l4 = 0 /\ gtp.nested = 0
        in == l3["inner"] IN
    /\ pc \in {"gtpu", "gtpopt", "gtpext", "inner"} \/ lvl = "inner" =>
         gtp.is_gtpu = 1
    /\ gtp.is_gtpu = 0 => gtp = NoGtp /\ gtp_status = "OK"
    /\ gtp.is_gtpu = 1 =>
         /\ pc \notin {"start", "eth", "vlan"}
         /\ pc \in {"ip4", "ip6", "ext6", "l4", "ipdone"} => lvl = "inner"
         /\ status = "OK"
         /\ l3["outer"].has_l4 = 1 /\ l3["outer"].frag = "NONE"
         /\ l3["outer"].ip_proto = "udp"
         /\ pc # "idle" => gtp_status = "OK" /\ fresh
    /\ pc = "gtpu" =>
         /\ gtp.v1u = 0 /\ gtp.msg_ok = 0 /\ gtp.ext_count = 0
         /\ gtp.msg_type = "none" /\ GTPU_HDR_LEN <= wire
    /\ pc \in {"gtpopt", "gtpext"} => gtp.v1u = 1 /\ gtp.msg_ok = 0
    /\ pc = "inner" \/ (lvl = "inner" /\ pc # "idle") =>
         gtp.v1u = 1 /\ gtp.msg_ok = 1 /\ gtp.msg_type = "gpdu"
    /\ lvl = "inner" /\ pc \in {"ip4", "ip6"} => in.has_l3 = 0 /\ in.has_l4 = 0
    /\ lvl = "inner" /\ pc \in {"ext6", "l4"} => in.has_l3 = 1 /\ in.has_l4 = 0
    /\ lvl = "inner" /\ pc = "ipdone" =>
         /\ ret \notin HeaderReasons
         /\ ret = "OK" \/ ret \in ChainReasons => in.has_l3 = 1
         /\ in.has_l4 = 1 => in.has_l3 = 1 /\ ret = "OK"
    /\ MsgOkSplitsProblems
    /\ ExtensionsOnlyWithE
    /\ pc = "gtpext" /\ next = "more" => gtp.flags = "E"
    /\ pc = "gtpopt" => gtp.ext_count = 0

\* Which reasons the IP decoders give.
ReasonShape ==
    /\ pc = "ipdone" => ret \notin HeaderReasons \cup
         {"TRUNC_GTPU_INNER", "BAD_GTPU_INNER", "BAD_GTPU_INNER_SHORT",
          "TRUNC_ETHERNET", "TRUNC_VLAN", "BAD_VLAN_DEPTH"}
    /\ pc = "ipdone" /\ lvl = "inner" =>
         ret \notin {"BAD_IPV4_VERSION", "BAD_IPV6_VERSION"}
    /\ ReasonsNameTheirLayer

\* ip_proto is set by the last step before the transport header.
ProtoShape ==
    /\ pc \in {"eth", "vlan"} => lvl = "outer"
    /\ pc \in {"eth", "vlan", "ip4", "ip6", "ext6"} =>
         l3[lvl].ip_proto = "none" /\ l3[lvl].frag # "LATER"
    /\ BrokenChainHasNoProto

\* In a frame captured whole, nothing is missing from the span.
WholeSpan == caplen >= wirelen => cap = wire

SpanGood == /\ SpanInside /\ ReadsInBounds /\ UdpThere
            /\ WholeSpan /\ CompleteNeverTruncated
LoopsGood == HopsFit /\ NextFits

IInv ==
    /\ TypeOK
    /\ LoopsGood
    /\ SpanGood
    /\ OuterShape
    /\ TunnelShape
    /\ ReasonShape
    /\ ProtoShape

\* TypeOK in four parts, which the steps disturb in different ways.
NumsOK ==
    /\ caplen \in Nat /\ wirelen \in Nat /\ off \in Nat /\ cap \in Nat
    /\ wire \in Nat /\ readTo \in Nat /\ hops \in Nat
PlaceOK ==
    /\ pc \in Steps
    /\ lvl \in {"outer", "inner"}
    /\ next \in NextHdr \cup {"none", "vlan", "ipv4", "ipv6", "more"}
VerdictsOK ==
    ret \in decode_status /\ status \in decode_status /\ gtp_status \in decode_status
RecordsOK ==
    /\ l2 \in L2Info /\ gtp \in GtpInfo
    /\ l3 \in [{"outer", "inner"} -> L3Info]

\* TypeOK is the conjunction of its parts.
LEMMA TypeParts == TypeOK <=> NumsOK /\ PlaceOK /\ VerdictsOK /\ RecordsOK
  BY DEF TypeOK, NumsOK, PlaceOK, VerdictsOK, RecordsOK

-----------------------------------------------------------------------------
\* The invariant holds before the first call of decode_frame().
LEMMA InitIInv == Init => IInv
  <1> SUFFICES ASSUME Init PROVE IInv
    OBVIOUS
  <1> USE HeaderLens, LoopLimits, FieldLimits DEF Init
  <1>1. TypeOK
    BY DEF TypeOK, Steps, NextHdr, Ext6, L4Proto, KnownL4, decode_status, L2Info, L3Info,
       GtpInfo, NoL2, NoL3, NoGtp, Flag, frag_kind
  <1>2. UdpThere /\ HopsFit /\ NextFits
    BY DEF UdpThere, HopsFit, NextFits
  <1>3. SpanInside /\ ReadsInBounds /\ WholeSpan
    BY DEF SpanInside, ReadsInBounds, WholeSpan
  <1>4. CompleteNeverTruncated
    BY DEF CompleteNeverTruncated, decode_status_is_truncation, Truncations
  <1>5. OuterShape
    BY DEF OuterShape
  <1>6. TunnelShape /\ ReasonShape /\ ProtoShape
    BY DEF TunnelShape, ReasonShape, ProtoShape, MsgOkSplitsProblems, Returned,
       ExtensionsOnlyWithE, ReasonsNameTheirLayer, HeaderReasons, ChainReasons,
       BrokenChainHasNoProto, NoGtp, NoL3, Ext6
  <1> QED
    BY <1>1, <1>2, <1>3, <1>4, <1>5, <1>6 DEF IInv, SpanGood, LoopsGood

\* The arithmetic of the span: no length wraps, no header is read beyond the
\* capture, and a verdict of truncation needs a span with bytes missing.
LEMMA SpanNext == IInv /\ [Next]_vars => (NumsOK /\ SpanGood)'
  <1> SUFFICES ASSUME IInv, [Next]_vars PROVE (NumsOK /\ SpanGood)'
    OBVIOUS
  <1> USE HeaderLens, FieldLens, TypeParts DEF IInv
  <1> USE DEF NumsOK, SpanGood, SpanInside, ReadsInBounds, WholeSpan, UdpThere,
      CompleteNeverTruncated, PlaceOK, RecordsOK, L3Info
  <1>1. ASSUME NEW c \in FrameLens, NEW w \in FrameLens,
            decode_frame(c, w)
       PROVE  (NumsOK /\ SpanGood)'
    BY <1>1 DEF decode_frame, NoL3, OuterShape, decode_is_gtpu_port,
       decode_status_is_truncation, Truncations
  <1>2. ASSUME NEW type \in EtherTypes,
            ethernet(type)
       PROVE  (NumsOK /\ SpanGood)'
    BY <1>2
    DEF ethernet, need, advance, Reads, Finish, frame, span, OuterShape,
       decode_is_gtpu_port, decode_status_is_truncation, Truncations
  <1>3. ASSUME NEW type \in EtherTypes,
            vlan_tag(type)
       PROVE  (NumsOK /\ SpanGood)'
    BY <1>3
    DEF vlan_tag, vlans_full, need, advance, Reads, Finish, frame, span, OuterShape,
       decode_is_gtpu_port, decode_status_is_truncation, Truncations
  <1>4. CASE dispatch
    BY <1>4 DEF dispatch, frame, span, OuterShape, decode_is_gtpu_port,
       decode_status_is_truncation, Truncations
  <1>5. ASSUME NEW version \in Versions, NEW hlen \in HdrLens, NEW len \in Len16,
            NEW frag \in frag_kind, NEW proto \in NextHdr,
            decode_ipv4(version, hlen, len, frag, proto)
       PROVE  (NumsOK /\ SpanGood)'
    BY <1>5
    DEF decode_ipv4, total_len, need, clip, Reads, Return, frame, span, VersionSeen,
       OuterShape, decode_is_gtpu_port, decode_status_is_truncation,
       Truncations
  <1>6. ASSUME NEW version \in Versions, NEW payload \in Len16, NEW type \in NextHdr,
            decode_ipv6(version, payload, type)
       PROVE  (NumsOK /\ SpanGood)'
    BY <1>6
    DEF decode_ipv6, need, clip, Reads, Return, frame, span, VersionSeen,
       OuterShape, decode_is_gtpu_port, decode_status_is_truncation,
       Truncations
  <1>7. ASSUME NEW kind \in frag_kind, NEW type \in NextHdr,
            ipv6_fragment(kind, type)
       PROVE  (NumsOK /\ SpanGood)'
    BY <1>7 DEF ipv6_fragment, need, advance, Reads, Return, frame, span,
       OuterShape, decode_is_gtpu_port, decode_status_is_truncation,
       Truncations
  <1>8. ASSUME NEW len \in Ext6Lens, NEW type \in NextHdr,
            ipv6_extension(len, type)
       PROVE  (NumsOK /\ SpanGood)'
    BY <1>8 DEF ipv6_extension, need, advance, Reads, Return, frame, span,
       OuterShape, decode_is_gtpu_port, decode_status_is_truncation,
       Truncations
  <1>9. CASE ipv6_chain_end
    BY <1>9 DEF ipv6_chain_end, frame, span, is_ipv6_ext, OuterShape,
       decode_is_gtpu_port, decode_status_is_truncation, Truncations
  <1>10. ASSUME NEW hlen \in HdrLens, NEW port \in Flag,
            decode_tcp(hlen, port)
       PROVE  (NumsOK /\ SpanGood)'
    BY <1>10 DEF decode_tcp, need, Reads, Return, frame, span, OuterShape,
       decode_is_gtpu_port, decode_status_is_truncation, Truncations
  <1>11. ASSUME NEW ulen \in Len16, NEW port \in Flag,
            decode_udp(ulen, port)
       PROVE  (NumsOK /\ SpanGood)'
    BY <1>11
    DEF decode_udp, need, clip, Reads, Return, frame, span, udp_len_bad,
       OuterShape, decode_is_gtpu_port, decode_status_is_truncation,
       Truncations
  <1>12. CASE decode_icmp
    BY <1>12 DEF decode_icmp, need, Reads, Return, frame, span, OuterShape,
       decode_is_gtpu_port, decode_status_is_truncation, Truncations
  <1>13. CASE decode_other_l4
    BY <1>13 DEF decode_other_l4, Return, frame, span, OuterShape,
       decode_is_gtpu_port, decode_status_is_truncation, Truncations
  <1>14. CASE outer_done
    BY <1>14
    DEF outer_done, advance, frame, span, OuterShape, decode_is_gtpu_port,
       decode_status_is_truncation, Truncations
  <1>15. ASSUME NEW v1u \in Flag, NEW flags \in {"none", "E", "SPN"},
            NEW msg \in GtpMsgTypes, NEW len \in Len16,
            decode_gtpu(v1u, flags, msg, len)
       PROVE  (NumsOK /\ SpanGood)'
    BY <1>15 DEF decode_gtpu, need, clip, Reads, FinishGtp, frame, span,
       OuterShape, decode_is_gtpu_port, decode_status_is_truncation,
       Truncations
  <1>16. ASSUME NEW type \in Flag,
            gtpu_optional(type)
       PROVE  (NumsOK /\ SpanGood)'
    BY <1>16 DEF gtpu_optional, need, advance, Reads, FinishGtp, frame, span,
       extension_follows, OuterShape, decode_is_gtpu_port,
       decode_status_is_truncation, Truncations
  <1>17. ASSUME NEW elen \in ExtGLens, NEW type \in Flag,
            gtpu_extension(elen, type)
       PROVE  (NumsOK /\ SpanGood)'
    BY <1>17 DEF gtpu_extension, need, advance, Reads, FinishGtp, frame, span,
       OuterShape, decode_is_gtpu_port, decode_status_is_truncation,
       Truncations
  <1>18. CASE gtpu_headers_done
    BY <1>18 DEF gtpu_headers_done, FinishGtp, frame, span, OuterShape,
       decode_is_gtpu_port, decode_status_is_truncation, Truncations
  <1>19. ASSUME NEW nibble \in Versions,
            decode_gtpu_inner(nibble)
       PROVE  (NumsOK /\ SpanGood)'
    BY <1>19 DEF decode_gtpu_inner, need, Reads, FinishGtp, frame, span, NoL3,
       OuterShape, decode_is_gtpu_port, decode_status_is_truncation,
       Truncations
  <1>20. CASE inner_done
    BY <1>20 DEF inner_done, FinishGtp, frame, span, inner_reason, OuterShape,
       decode_is_gtpu_port, decode_status_is_truncation, Truncations
  <1>21. CASE UNCHANGED vars
    BY <1>21 DEF vars
  <1> QED
    BY <1>1, <1>2, <1>3, <1>4, <1>5, <1>6, <1>7, <1>8, <1>9, <1>10, <1>11,
       <1>12, <1>13, <1>14, <1>15, <1>16, <1>17, <1>18, <1>19, <1>20, <1>21
    DEF Next, Step

\* Control and verdicts stay in their types, and the loop counters in bounds.
LEMMA PlaceNext == IInv /\ [Next]_vars => (PlaceOK /\ LoopsGood /\ VerdictsOK)'
  <1> SUFFICES ASSUME IInv, [Next]_vars PROVE (PlaceOK /\ LoopsGood /\ VerdictsOK)'
    OBVIOUS
  <1> USE LoopLimits, FieldLimits, TypeParts DEF IInv
  <1> USE DEF PlaceOK, LoopsGood, VerdictsOK, HopsFit, NextFits, NumsOK, Steps,
      NextHdr, Ext6, L4Proto, KnownL4, EtherTypes, decode_status, Truncations,
      Malformations
  <1>1. ASSUME NEW c \in FrameLens, NEW w \in FrameLens,
            decode_frame(c, w)
       PROVE  (PlaceOK /\ LoopsGood /\ VerdictsOK)'
    BY <1>1 DEF decode_frame
  <1>2. ASSUME NEW type \in EtherTypes,
            ethernet(type)
       PROVE  (PlaceOK /\ LoopsGood /\ VerdictsOK)'
    BY <1>2 DEF ethernet, need, Finish
  <1>3. ASSUME NEW type \in EtherTypes,
            vlan_tag(type)
       PROVE  (PlaceOK /\ LoopsGood /\ VerdictsOK)'
    BY <1>3 DEF vlan_tag, vlans_full, need, Finish
  <1>4. CASE dispatch
    BY <1>4 DEF dispatch
  <1>5. ASSUME NEW version \in Versions, NEW hlen \in HdrLens, NEW len \in Len16,
            NEW frag \in frag_kind, NEW proto \in NextHdr,
            decode_ipv4(version, hlen, len, frag, proto)
       PROVE  (PlaceOK /\ LoopsGood /\ VerdictsOK)'
    BY <1>5 DEF decode_ipv4, total_len, need, Return
  <1>6. ASSUME NEW version \in Versions, NEW payload \in Len16, NEW type \in NextHdr,
            decode_ipv6(version, payload, type)
       PROVE  (PlaceOK /\ LoopsGood /\ VerdictsOK)'
    BY <1>6 DEF decode_ipv6, need, Return
  <1>7. ASSUME NEW kind \in frag_kind, NEW type \in NextHdr,
            ipv6_fragment(kind, type)
       PROVE  (PlaceOK /\ LoopsGood /\ VerdictsOK)'
    BY <1>7 DEF ipv6_fragment, need, Return
  <1>8. ASSUME NEW len \in Ext6Lens, NEW type \in NextHdr,
            ipv6_extension(len, type)
       PROVE  (PlaceOK /\ LoopsGood /\ VerdictsOK)'
    BY <1>8 DEF ipv6_extension, need, Return
  <1>9. CASE ipv6_chain_end
    BY <1>9 DEF ipv6_chain_end, is_ipv6_ext
  <1>10. ASSUME NEW hlen \in HdrLens, NEW port \in Flag,
            decode_tcp(hlen, port)
       PROVE  (PlaceOK /\ LoopsGood /\ VerdictsOK)'
    BY <1>10 DEF decode_tcp, need, Return
  <1>11. ASSUME NEW ulen \in Len16, NEW port \in Flag,
            decode_udp(ulen, port)
       PROVE  (PlaceOK /\ LoopsGood /\ VerdictsOK)'
    BY <1>11 DEF decode_udp, need, Return
  <1>12. CASE decode_icmp
    BY <1>12 DEF decode_icmp, need, Return
  <1>13. CASE decode_other_l4
    BY <1>13 DEF decode_other_l4, Return
  <1>14. CASE outer_done
    BY <1>14 DEF outer_done
  <1>15. ASSUME NEW v1u \in Flag, NEW flags \in {"none", "E", "SPN"},
            NEW msg \in GtpMsgTypes, NEW len \in Len16,
            decode_gtpu(v1u, flags, msg, len)
       PROVE  (PlaceOK /\ LoopsGood /\ VerdictsOK)'
    BY <1>15 DEF decode_gtpu, need, FinishGtp
  <1>16. ASSUME NEW type \in Flag,
            gtpu_optional(type)
       PROVE  (PlaceOK /\ LoopsGood /\ VerdictsOK)'
    BY <1>16 DEF gtpu_optional, need, FinishGtp
  <1>17. ASSUME NEW elen \in ExtGLens, NEW type \in Flag,
            gtpu_extension(elen, type)
       PROVE  (PlaceOK /\ LoopsGood /\ VerdictsOK)'
    BY <1>17 DEF gtpu_extension, need, FinishGtp
  <1>18. CASE gtpu_headers_done
    BY <1>18 DEF gtpu_headers_done, FinishGtp
  <1>19. ASSUME NEW nibble \in Versions,
            decode_gtpu_inner(nibble)
       PROVE  (PlaceOK /\ LoopsGood /\ VerdictsOK)'
    BY <1>19 DEF decode_gtpu_inner, need, FinishGtp
  <1>20. CASE inner_done
    BY <1>20 DEF inner_done, FinishGtp, inner_reason
  <1>21. CASE UNCHANGED vars
    BY <1>21 DEF vars
  <1> QED
    BY <1>1, <1>2, <1>3, <1>4, <1>5, <1>6, <1>7, <1>8, <1>9, <1>10, <1>11,
       <1>12, <1>13, <1>14, <1>15, <1>16, <1>17, <1>18, <1>19, <1>20, <1>21
    DEF Next, Step

\* What is stored in the packet_info has the type of its field.
LEMMA RecordsNext == IInv /\ [Next]_vars => RecordsOK'
  <1> SUFFICES ASSUME IInv, [Next]_vars PROVE RecordsOK'
    OBVIOUS
  <1> USE LoopLimits, FieldLimits, TypeParts DEF IInv
  <1> USE DEF RecordsOK, PlaceOK, L2Info, L3Info, GtpInfo, NoL2, NoL3, NoGtp,
      Flag, frag_kind
  <1>1. ASSUME NEW c \in FrameLens, NEW w \in FrameLens,
            decode_frame(c, w)
       PROVE  RecordsOK'
    BY <1>1 DEF decode_frame, NextHdr, Ext6, L4Proto, KnownL4
  <1>2. ASSUME NEW type \in EtherTypes,
            ethernet(type)
       PROVE  RecordsOK'
    BY <1>2 DEF ethernet, NextHdr, Ext6, L4Proto, KnownL4
  <1>3. ASSUME NEW type \in EtherTypes,
            vlan_tag(type)
       PROVE  RecordsOK'
    BY <1>3 DEF vlan_tag, vlans_full, NextHdr, Ext6, L4Proto, KnownL4
  <1>4. CASE dispatch
    <2>1. next \in {"ipv4", "ipv6", "other"}
      BY <1>4 DEF dispatch, LoopsGood, NextFits, EtherTypes
    <2>2. l2' \in L2Info
      BY <1>4, <2>1 DEF dispatch
    <2> QED
      BY <1>4, <2>2 DEF dispatch
  <1>5. ASSUME NEW version \in Versions, NEW hlen \in HdrLens, NEW len \in Len16,
            NEW frag \in frag_kind, NEW proto \in NextHdr,
            decode_ipv4(version, hlen, len, frag, proto)
       PROVE  RecordsOK'
    BY <1>5 DEF decode_ipv4, total_len, NextHdr, Ext6, L4Proto, KnownL4
  <1>6. ASSUME NEW version \in Versions, NEW payload \in Len16, NEW type \in NextHdr,
            decode_ipv6(version, payload, type)
       PROVE  RecordsOK'
    BY <1>6 DEF decode_ipv6, NextHdr, Ext6, L4Proto, KnownL4
  <1>7. ASSUME NEW kind \in frag_kind, NEW type \in NextHdr,
            ipv6_fragment(kind, type)
       PROVE  RecordsOK'
    BY <1>7 DEF ipv6_fragment, NextHdr, Ext6, L4Proto, KnownL4
  <1>8. ASSUME NEW len \in Ext6Lens, NEW type \in NextHdr,
            ipv6_extension(len, type)
       PROVE  RecordsOK'
    BY <1>8 DEF ipv6_extension, NextHdr, Ext6, L4Proto, KnownL4
  <1>9. CASE ipv6_chain_end
    BY <1>9 DEF ipv6_chain_end, NextHdr, Ext6, L4Proto, KnownL4, LoopsGood, NextFits
  <1>10. ASSUME NEW hlen \in HdrLens, NEW port \in Flag,
            decode_tcp(hlen, port)
       PROVE  RecordsOK'
    BY <1>10 DEF decode_tcp, NextHdr, Ext6, L4Proto, KnownL4
  <1>11. ASSUME NEW ulen \in Len16, NEW port \in Flag,
            decode_udp(ulen, port)
       PROVE  RecordsOK'
    BY <1>11 DEF decode_udp, NextHdr, Ext6, L4Proto, KnownL4
  <1>12. CASE decode_icmp
    BY <1>12 DEF decode_icmp, NextHdr, Ext6, L4Proto, KnownL4
  <1>13. CASE decode_other_l4
    BY <1>13 DEF decode_other_l4, NextHdr, Ext6, L4Proto, KnownL4
  <1>14. CASE outer_done
    BY <1>14 DEF outer_done, NextHdr, Ext6, L4Proto, KnownL4
  <1>15. ASSUME NEW v1u \in Flag, NEW flags \in {"none", "E", "SPN"},
            NEW msg \in GtpMsgTypes, NEW len \in Len16,
            decode_gtpu(v1u, flags, msg, len)
       PROVE  RecordsOK'
    <2>1. /\ UNCHANGED <<l2, l3>>
          /\ \/ gtp' = gtp
             \/ gtp' = [gtp EXCEPT !.v1u = 1, !.flags = flags, !.msg_type = msg]
      BY <1>15 DEF decode_gtpu
    <2>2. gtp \in GtpInfo
      OBVIOUS
    <2> HIDE TypeParts, <1>15 DEF IInv, RecordsOK
    <2>3. gtp' \in GtpInfo
      BY <2>1, <2>2
    <2> QED
      BY <2>1, <2>3, TypeParts DEF RecordsOK, IInv
  <1>16. ASSUME NEW type \in Flag,
            gtpu_optional(type)
       PROVE  RecordsOK'
    BY <1>16 DEF gtpu_optional, NextHdr, Ext6, L4Proto, KnownL4
  <1>17. ASSUME NEW elen \in ExtGLens, NEW type \in Flag,
            gtpu_extension(elen, type)
       PROVE  RecordsOK'
    BY <1>17
    DEF gtpu_extension, NextHdr, Ext6, L4Proto, KnownL4, LoopsGood, HopsFit, NumsOK
  <1>18. CASE gtpu_headers_done
    BY <1>18 DEF gtpu_headers_done, NextHdr, Ext6, L4Proto, KnownL4
  <1>19. ASSUME NEW nibble \in Versions,
            decode_gtpu_inner(nibble)
       PROVE  RecordsOK'
    BY <1>19 DEF decode_gtpu_inner, NextHdr, Ext6, L4Proto, KnownL4
  <1>20. CASE inner_done
    BY <1>20 DEF inner_done, NextHdr, Ext6, L4Proto, KnownL4
  <1>21. CASE UNCHANGED vars
    BY <1>21 DEF vars
  <1> QED
    BY <1>1, <1>2, <1>3, <1>4, <1>5, <1>6, <1>7, <1>8, <1>9, <1>10, <1>11,
       <1>12, <1>13, <1>14, <1>15, <1>16, <1>17, <1>18, <1>19, <1>20, <1>21
    DEF Next, Step

\* The layers of the outer packet are filled in order and then left alone.
LEMMA OuterNext == IInv /\ [Next]_vars => OuterShape'
  <1> SUFFICES ASSUME IInv, [Next]_vars PROVE OuterShape'
    OBVIOUS
  <1> USE TypeParts DEF IInv
  <1> USE DEF OuterShape, LayersMatch, ChainReasons, KnownL4,
             PlaceOK, RecordsOK, L2Info, L3Info
  <1>1. ASSUME NEW c \in FrameLens, NEW w \in FrameLens,
            decode_frame(c, w)
       PROVE  OuterShape'
    BY <1>1 DEF decode_frame, NoL2, NoL3
  <1>2. ASSUME NEW type \in EtherTypes,
            ethernet(type)
       PROVE  OuterShape'
    BY <1>2 DEF ethernet, need, Finish, frame
  <1>3. ASSUME NEW type \in EtherTypes,
            vlan_tag(type)
       PROVE  OuterShape'
    BY <1>3 DEF vlan_tag, vlans_full, need, Finish, frame
  <1>4. CASE dispatch
    BY <1>4 DEF dispatch, frame
  <1>5. ASSUME NEW version \in Versions, NEW hlen \in HdrLens, NEW len \in Len16,
            NEW frag \in frag_kind, NEW proto \in NextHdr,
            decode_ipv4(version, hlen, len, frag, proto)
       PROVE  OuterShape'
    BY <1>5 DEF decode_ipv4, total_len, need, Return, frame
  <1>6. ASSUME NEW version \in Versions, NEW payload \in Len16, NEW type \in NextHdr,
            decode_ipv6(version, payload, type)
       PROVE  OuterShape'
    BY <1>6 DEF decode_ipv6, need, Return, frame
  <1>7. ASSUME NEW kind \in frag_kind, NEW type \in NextHdr,
            ipv6_fragment(kind, type)
       PROVE  OuterShape'
    BY <1>7 DEF ipv6_fragment, need, Return, frame
  <1>8. ASSUME NEW len \in Ext6Lens, NEW type \in NextHdr,
            ipv6_extension(len, type)
       PROVE  OuterShape'
    BY <1>8 DEF ipv6_extension, need, Return, frame
  <1>9. CASE ipv6_chain_end
    BY <1>9 DEF ipv6_chain_end, frame
  <1>10. ASSUME NEW hlen \in HdrLens, NEW port \in Flag,
            decode_tcp(hlen, port)
       PROVE  OuterShape'
    BY <1>10 DEF decode_tcp, need, Return, frame
  <1>11. ASSUME NEW ulen \in Len16, NEW port \in Flag,
            decode_udp(ulen, port)
       PROVE  OuterShape'
    BY <1>11 DEF decode_udp, need, Return, frame
  <1>12. CASE decode_icmp
    BY <1>12 DEF decode_icmp, need, Return, frame
  <1>13. CASE decode_other_l4
    BY <1>13 DEF decode_other_l4, Return, frame
  <1>14. CASE outer_done
    BY <1>14 DEF outer_done, frame
  <1>15. ASSUME NEW v1u \in Flag, NEW flags \in {"none", "E", "SPN"},
            NEW msg \in GtpMsgTypes, NEW len \in Len16,
            decode_gtpu(v1u, flags, msg, len)
       PROVE  OuterShape'
    BY <1>15 DEF decode_gtpu, need, FinishGtp, frame
  <1>16. ASSUME NEW type \in Flag,
            gtpu_optional(type)
       PROVE  OuterShape'
    BY <1>16 DEF gtpu_optional, need, FinishGtp, frame
  <1>17. ASSUME NEW elen \in ExtGLens, NEW type \in Flag,
            gtpu_extension(elen, type)
       PROVE  OuterShape'
    BY <1>17 DEF gtpu_extension, need, FinishGtp, frame
  <1>18. CASE gtpu_headers_done
    BY <1>18 DEF gtpu_headers_done, FinishGtp, frame
  <1>19. ASSUME NEW nibble \in Versions,
            decode_gtpu_inner(nibble)
       PROVE  OuterShape'
    BY <1>19 DEF decode_gtpu_inner, need, FinishGtp, NoL3, frame
  <1>20. CASE inner_done
    BY <1>20 DEF inner_done, FinishGtp, frame
  <1>21. CASE UNCHANGED vars
    BY <1>21 DEF vars
  <1> HIDE DEF OuterShape, LayersMatch, PlaceOK, RecordsOK, L2Info, L3Info
  <1> QED
    BY <1>1, <1>2, <1>3, <1>4, <1>5, <1>6, <1>7, <1>8, <1>9, <1>10, <1>11,
       <1>12, <1>13, <1>14, <1>15, <1>16, <1>17, <1>18, <1>19, <1>20, <1>21
    DEF Next, Step

\* The GTP-U part is empty until a tunnel is found and is filled in order.
LEMMA TunnelNext == IInv /\ [Next]_vars => TunnelShape'
  <1> SUFFICES ASSUME IInv, [Next]_vars PROVE TunnelShape'
    OBVIOUS
  <1> USE HeaderLens, FieldLens, TypeParts DEF IInv
  <1> USE DEF TunnelShape, MsgOkSplitsProblems, ProblemsSplit, Returned,
      ExtensionsOnlyWithE, PlaceOK, RecordsOK, L3Info, GtpInfo, NumsOK
  <1>1. ASSUME NEW c \in FrameLens, NEW w \in FrameLens,
            decode_frame(c, w)
       PROVE  TunnelShape'
    BY <1>1 DEF decode_frame, NoL2, NoL3, NoGtp, Flag, HeaderReasons, ChainReasons
  <1>2. ASSUME NEW type \in EtherTypes,
            ethernet(type)
       PROVE  TunnelShape'
    BY <1>2
    DEF ethernet, need, advance, Reads, Finish, frame, Flag, HeaderReasons, ChainReasons
  <1>3. ASSUME NEW type \in EtherTypes,
            vlan_tag(type)
       PROVE  TunnelShape'
    BY <1>3
    DEF vlan_tag, vlans_full, need, advance, Reads, Finish, frame, Flag,
       HeaderReasons, ChainReasons
  <1>4. CASE dispatch
    BY <1>4 DEF dispatch, frame, Flag, HeaderReasons, ChainReasons
  <1>5. ASSUME NEW version \in Versions, NEW hlen \in HdrLens, NEW len \in Len16,
            NEW frag \in frag_kind, NEW proto \in NextHdr,
            decode_ipv4(version, hlen, len, frag, proto)
       PROVE  TunnelShape'
    BY <1>5
    DEF decode_ipv4, total_len, need, clip, Reads, Return, frame, VersionSeen, Flag,
       HeaderReasons, ChainReasons
  <1>6. ASSUME NEW version \in Versions, NEW payload \in Len16, NEW type \in NextHdr,
            decode_ipv6(version, payload, type)
       PROVE  TunnelShape'
    BY <1>6
    DEF decode_ipv6, need, clip, Reads, Return, frame, VersionSeen, Flag,
       HeaderReasons, ChainReasons
  <1>7. ASSUME NEW kind \in frag_kind, NEW type \in NextHdr,
            ipv6_fragment(kind, type)
       PROVE  TunnelShape'
    BY <1>7 DEF ipv6_fragment, need, advance, Reads, Return, frame, Flag,
       HeaderReasons, ChainReasons
  <1>8. ASSUME NEW len \in Ext6Lens, NEW type \in NextHdr,
            ipv6_extension(len, type)
       PROVE  TunnelShape'
    BY <1>8 DEF ipv6_extension, need, advance, Reads, Return, frame, Flag,
       HeaderReasons, ChainReasons
  <1>9. CASE ipv6_chain_end
    BY <1>9 DEF ipv6_chain_end, frame, is_ipv6_ext, Flag, HeaderReasons, ChainReasons
  <1>10. ASSUME NEW hlen \in HdrLens, NEW port \in Flag,
            decode_tcp(hlen, port)
       PROVE  TunnelShape'
    BY <1>10 DEF decode_tcp, need, Reads, Return, frame, Flag,
       HeaderReasons, ChainReasons
  <1>11. ASSUME NEW ulen \in Len16, NEW port \in Flag,
            decode_udp(ulen, port)
       PROVE  TunnelShape'
    BY <1>11
    DEF decode_udp, need, clip, Reads, Return, frame, udp_len_bad, Flag,
       HeaderReasons, ChainReasons
  <1>12. CASE decode_icmp
    BY <1>12 DEF decode_icmp, need, Reads, Return, frame, Flag,
       HeaderReasons, ChainReasons
  <1>13. CASE decode_other_l4
    BY <1>13 DEF decode_other_l4, Return, frame, Flag, HeaderReasons, ChainReasons
  <1>14. CASE outer_done
    BY <1>14 DEF outer_done, advance, frame, decode_is_gtpu_port, Flag,
       HeaderReasons, ChainReasons, OuterShape, LayersMatch, NoGtp
  <1>15. ASSUME NEW v1u \in Flag, NEW flags \in {"none", "E", "SPN"},
            NEW msg \in GtpMsgTypes, NEW len \in Len16,
            decode_gtpu(v1u, flags, msg, len)
       PROVE  TunnelShape'
    <2> DEFINE fits == need(GTPU_HDR_LEN, "TRUNC_GTPU", "BAD_GTPU_LEN")
               seen == [gtp EXCEPT !.v1u = 1, !.flags = flags, !.msg_type = msg]
    <2>1. /\ gtp.is_gtpu = 1 /\ gtp.v1u = 0 /\ gtp.msg_ok = 0 /\ gtp.ext_count = 0
          /\ gtp.has_inner = 0 /\ gtp.inner_has_l4 = 0 /\ gtp.nested = 0
          /\ gtp.msg_type = "none" /\ gtp_status = "OK" /\ lvl = "outer" /\ pc = "gtpu"
      BY <1>15 DEF decode_gtpu
    <2>2. /\ seen.is_gtpu = 1 /\ seen.v1u = 1 /\ seen.msg_ok = 0 /\ seen.ext_count = 0
          /\ seen.has_inner = 0 /\ seen.inner_has_l4 = 0 /\ seen.nested = 0
      BY <2>1
    <2>3. UNCHANGED <<lvl, ret, status, l2, l3>>
      BY <1>15 DEF decode_gtpu
    <2>4. CASE fits # "OK"
      <3>1. gtp' = gtp /\ gtp_status' = "TRUNC_GTPU" /\ pc' = "idle"
        BY <1>15, <2>1, <2>4 DEF decode_gtpu, need, FinishGtp
      <3> QED
        BY <2>1, <2>3, <3>1 DEF HeaderReasons, ChainReasons
    <2>5. CASE v1u = 0 /\ fits = "OK"
      <3>1. gtp' = gtp /\ gtp_status' = "OK" /\ pc' = "idle"
        BY <1>15, <2>5 DEF decode_gtpu, FinishGtp
      <3> QED
        BY <2>1, <2>3, <3>1 DEF HeaderReasons, ChainReasons
    <2>6. CASE v1u = 1 /\ fits = "OK" /\ len > wire - GTPU_HDR_LEN
      <3>1. gtp' = seen /\ gtp_status' = "BAD_GTPU_LEN" /\ pc' = "idle"
        BY <1>15, <2>6 DEF decode_gtpu, FinishGtp
      <3> QED
        BY <2>1, <2>2, <2>3, <3>1 DEF HeaderReasons, ChainReasons
    <2>7. CASE v1u = 1 /\ fits = "OK" /\ len <= wire - GTPU_HDR_LEN
      <3>1. /\ gtp' = seen /\ gtp_status' = "OK" /\ pc' \in {"gtpopt", "gtpext"}
            /\ next' = "none"
        BY <1>15, <2>1, <2>7 DEF decode_gtpu
      <3> QED
        BY <2>1, <2>2, <2>3, <3>1 DEF HeaderReasons, ChainReasons
    <2> QED
      BY <1>15, <2>4, <2>5, <2>6, <2>7 DEF decode_gtpu
  <1>16. ASSUME NEW type \in Flag,
            gtpu_optional(type)
       PROVE  TunnelShape'
    BY <1>16 DEF gtpu_optional, need, advance, Reads, FinishGtp, frame,
       extension_follows, Flag, HeaderReasons, ChainReasons
  <1>17. ASSUME NEW elen \in ExtGLens, NEW type \in Flag,
            gtpu_extension(elen, type)
       PROVE  TunnelShape'
    BY <1>17 DEF gtpu_extension, need, advance, Reads, FinishGtp, frame, Flag,
       HeaderReasons, ChainReasons
  <1>18. CASE gtpu_headers_done
    BY <1>18 DEF gtpu_headers_done, FinishGtp, frame, Flag, HeaderReasons, ChainReasons
  <1>19. ASSUME NEW nibble \in Versions,
            decode_gtpu_inner(nibble)
       PROVE  TunnelShape'
    BY <1>19 DEF decode_gtpu_inner, need, Reads, FinishGtp, frame, NoL3, Flag,
       HeaderReasons, ChainReasons
  <1>20. CASE inner_done
    <2> DEFINE in == l3["inner"]
    <2>1. /\ gtp.is_gtpu = 1 /\ gtp.v1u = 1 /\ gtp.msg_ok = 1 /\ gtp.msg_type = "gpdu"
          /\ ret \notin HeaderReasons
          /\ ret = "OK" \/ ret \in ChainReasons => in.has_l3 = 1
          /\ in.has_l4 = 1 => in.has_l3 = 1 /\ ret = "OK"
          /\ ExtensionsOnlyWithE
      BY <1>20 DEF inner_done
    <2>2. /\ gtp'.is_gtpu = 1 /\ gtp'.v1u = 1 /\ gtp'.msg_ok = 1
          /\ gtp'.msg_type = "gpdu" /\ gtp'.has_inner = in.has_l3
          /\ gtp'.inner_has_l4 = in.has_l4 /\ gtp'.ext_count = gtp.ext_count
          /\ gtp'.flags = gtp.flags
          /\ gtp'.nested = 1 => in.has_l4 = 1
      BY <1>20, <2>1 DEF inner_done, decode_is_gtpu_port
    <2>3. /\ gtp_status' \notin HeaderReasons
          /\ gtp_status' = "OK" \/ gtp_status' \in ChainReasons => in.has_l3 = 1
          /\ in.has_l4 = 1 => gtp_status' = "OK"
          /\ pc' = "idle" /\ UNCHANGED <<status, l2, l3>>
      BY <1>20, <2>1 DEF inner_done, FinishGtp, inner_reason,
       HeaderReasons, ChainReasons
    <2>4. MsgOkSplitsProblems' /\ ExtensionsOnlyWithE'
      BY <2>1, <2>2, <2>3 DEF Returned
    <2> QED
      BY <1>20, <2>2, <2>3, <2>4 DEF inner_done
  <1>21. CASE UNCHANGED vars
    BY <1>21 DEF vars
  <1> HIDE DEF TunnelShape, MsgOkSplitsProblems, ProblemsSplit, Returned,
      ExtensionsOnlyWithE, PlaceOK, RecordsOK, L3Info, GtpInfo, NumsOK, IInv
  <1> QED
    BY <1>1, <1>2, <1>3, <1>4, <1>5, <1>6, <1>7, <1>8, <1>9, <1>10, <1>11,
       <1>12, <1>13, <1>14, <1>15, <1>16, <1>17, <1>18, <1>19, <1>20, <1>21
    DEF Next, Step

\* A verdict names the layer that it is about.
LEMMA ReasonNext == IInv /\ [Next]_vars => ReasonShape'
  <1> SUFFICES ASSUME IInv, [Next]_vars PROVE ReasonShape'
    OBVIOUS
  <1> USE TypeParts DEF IInv
  <1> USE DEF ReasonShape, ReasonsNameTheirLayer, HeaderReasons, ChainReasons, PlaceOK
  <1>1. ASSUME NEW c \in FrameLens, NEW w \in FrameLens,
            decode_frame(c, w)
       PROVE  ReasonShape'
    BY <1>1 DEF decode_frame
  <1>2. ASSUME NEW type \in EtherTypes,
            ethernet(type)
       PROVE  ReasonShape'
    BY <1>2 DEF ethernet, need, Finish
  <1>3. ASSUME NEW type \in EtherTypes,
            vlan_tag(type)
       PROVE  ReasonShape'
    BY <1>3 DEF vlan_tag, vlans_full, need, Finish
  <1>4. CASE dispatch
    BY <1>4 DEF dispatch, OuterShape
  <1>5. ASSUME NEW version \in Versions, NEW hlen \in HdrLens, NEW len \in Len16,
            NEW frag \in frag_kind, NEW proto \in NextHdr,
            decode_ipv4(version, hlen, len, frag, proto)
       PROVE  ReasonShape'
    BY <1>5 DEF decode_ipv4, total_len, need, Return, VersionSeen
  <1>6. ASSUME NEW version \in Versions, NEW payload \in Len16, NEW type \in NextHdr,
            decode_ipv6(version, payload, type)
       PROVE  ReasonShape'
    BY <1>6 DEF decode_ipv6, need, Return, VersionSeen
  <1>7. ASSUME NEW kind \in frag_kind, NEW type \in NextHdr,
            ipv6_fragment(kind, type)
       PROVE  ReasonShape'
    BY <1>7 DEF ipv6_fragment, need, Return
  <1>8. ASSUME NEW len \in Ext6Lens, NEW type \in NextHdr,
            ipv6_extension(len, type)
       PROVE  ReasonShape'
    BY <1>8 DEF ipv6_extension, need, Return
  <1>9. CASE ipv6_chain_end
    BY <1>9 DEF ipv6_chain_end
  <1>10. ASSUME NEW hlen \in HdrLens, NEW port \in Flag,
            decode_tcp(hlen, port)
       PROVE  ReasonShape'
    BY <1>10 DEF decode_tcp, need, Return
  <1>11. ASSUME NEW ulen \in Len16, NEW port \in Flag,
            decode_udp(ulen, port)
       PROVE  ReasonShape'
    BY <1>11 DEF decode_udp, need, Return
  <1>12. CASE decode_icmp
    BY <1>12 DEF decode_icmp, need, Return
  <1>13. CASE decode_other_l4
    BY <1>13 DEF decode_other_l4, Return
  <1>14. CASE outer_done
    BY <1>14 DEF outer_done
  <1>15. ASSUME NEW v1u \in Flag, NEW flags \in {"none", "E", "SPN"},
            NEW msg \in GtpMsgTypes, NEW len \in Len16,
            decode_gtpu(v1u, flags, msg, len)
       PROVE  ReasonShape'
    BY <1>15 DEF decode_gtpu, need, FinishGtp
  <1>16. ASSUME NEW type \in Flag,
            gtpu_optional(type)
       PROVE  ReasonShape'
    BY <1>16 DEF gtpu_optional, need, FinishGtp
  <1>17. ASSUME NEW elen \in ExtGLens, NEW type \in Flag,
            gtpu_extension(elen, type)
       PROVE  ReasonShape'
    BY <1>17 DEF gtpu_extension, need, FinishGtp
  <1>18. CASE gtpu_headers_done
    BY <1>18 DEF gtpu_headers_done, FinishGtp
  <1>19. ASSUME NEW nibble \in Versions,
            decode_gtpu_inner(nibble)
       PROVE  ReasonShape'
    BY <1>19 DEF decode_gtpu_inner, need, FinishGtp
  <1>20. CASE inner_done
    BY <1>20 DEF inner_done, FinishGtp, inner_reason
  <1>21. CASE UNCHANGED vars
    BY <1>21 DEF vars
  <1> QED
    BY <1>1, <1>2, <1>3, <1>4, <1>5, <1>6, <1>7, <1>8, <1>9, <1>10, <1>11,
       <1>12, <1>13, <1>14, <1>15, <1>16, <1>17, <1>18, <1>19, <1>20, <1>21
    DEF Next, Step

\* The protocol is stored at the end of the chain and nowhere else.
LEMMA ProtoNext == IInv /\ [Next]_vars => ProtoShape'
  <1> SUFFICES ASSUME IInv, [Next]_vars PROVE ProtoShape'
    OBVIOUS
  <1> USE TypeParts DEF IInv
  <1> USE DEF ProtoShape, BrokenChainHasNoProto, Ext6, PlaceOK, RecordsOK, L3Info
  <1>1. ASSUME NEW c \in FrameLens, NEW w \in FrameLens,
            decode_frame(c, w)
       PROVE  ProtoShape'
    BY <1>1 DEF decode_frame, NoL3
  <1>2. ASSUME NEW type \in EtherTypes,
            ethernet(type)
       PROVE  ProtoShape'
    BY <1>2 DEF ethernet, need, Finish
  <1>3. ASSUME NEW type \in EtherTypes,
            vlan_tag(type)
       PROVE  ProtoShape'
    BY <1>3 DEF vlan_tag, vlans_full, need, Finish
  <1>4. CASE dispatch
    BY <1>4 DEF dispatch
  <1>5. ASSUME NEW version \in Versions, NEW hlen \in HdrLens, NEW len \in Len16,
            NEW frag \in frag_kind, NEW proto \in NextHdr,
            decode_ipv4(version, hlen, len, frag, proto)
       PROVE  ProtoShape'
    BY <1>5 DEF decode_ipv4, total_len, need, Return
  <1>6. ASSUME NEW version \in Versions, NEW payload \in Len16, NEW type \in NextHdr,
            decode_ipv6(version, payload, type)
       PROVE  ProtoShape'
    BY <1>6 DEF decode_ipv6, need, Return
  <1>7. ASSUME NEW kind \in frag_kind, NEW type \in NextHdr,
            ipv6_fragment(kind, type)
       PROVE  ProtoShape'
    BY <1>7 DEF ipv6_fragment, need, Return
  <1>8. ASSUME NEW len \in Ext6Lens, NEW type \in NextHdr,
            ipv6_extension(len, type)
       PROVE  ProtoShape'
    BY <1>8 DEF ipv6_extension, need, Return
  <1>9. CASE ipv6_chain_end
    BY <1>9 DEF ipv6_chain_end, is_ipv6_ext
  <1>10. ASSUME NEW hlen \in HdrLens, NEW port \in Flag,
            decode_tcp(hlen, port)
       PROVE  ProtoShape'
    BY <1>10 DEF decode_tcp, need, Return
  <1>11. ASSUME NEW ulen \in Len16, NEW port \in Flag,
            decode_udp(ulen, port)
       PROVE  ProtoShape'
    BY <1>11 DEF decode_udp, need, Return
  <1>12. CASE decode_icmp
    BY <1>12 DEF decode_icmp, need, Return
  <1>13. CASE decode_other_l4
    BY <1>13 DEF decode_other_l4, Return
  <1>14. CASE outer_done
    BY <1>14 DEF outer_done
  <1>15. ASSUME NEW v1u \in Flag, NEW flags \in {"none", "E", "SPN"},
            NEW msg \in GtpMsgTypes, NEW len \in Len16,
            decode_gtpu(v1u, flags, msg, len)
       PROVE  ProtoShape'
    BY <1>15 DEF decode_gtpu, need, FinishGtp
  <1>16. ASSUME NEW type \in Flag,
            gtpu_optional(type)
       PROVE  ProtoShape'
    BY <1>16 DEF gtpu_optional, need, FinishGtp
  <1>17. ASSUME NEW elen \in ExtGLens, NEW type \in Flag,
            gtpu_extension(elen, type)
       PROVE  ProtoShape'
    BY <1>17 DEF gtpu_extension, need, FinishGtp
  <1>18. CASE gtpu_headers_done
    BY <1>18 DEF gtpu_headers_done, FinishGtp
  <1>19. ASSUME NEW nibble \in Versions,
            decode_gtpu_inner(nibble)
       PROVE  ProtoShape'
    BY <1>19 DEF decode_gtpu_inner, need, FinishGtp, NoL3
  <1>20. CASE inner_done
    BY <1>20 DEF inner_done, FinishGtp
  <1>21. CASE UNCHANGED vars
    BY <1>21 DEF vars
  <1> QED
    BY <1>1, <1>2, <1>3, <1>4, <1>5, <1>6, <1>7, <1>8, <1>9, <1>10, <1>11,
       <1>12, <1>13, <1>14, <1>15, <1>16, <1>17, <1>18, <1>19, <1>20, <1>21
    DEF Next, Step

Shrinks == Decoding => /\ off' >= off
                       /\ off' + cap' <= off + cap
                       /\ off' + wire' <= off + wire

\* Each step of the decoder moves the span forward inside itself.
LEMMA ShrinksNext == IInv /\ [Next]_vars => Shrinks
  <1> SUFFICES ASSUME IInv, [Next]_vars PROVE Shrinks
    OBVIOUS
  <1> USE HeaderLens, FieldLens, TypeParts DEF IInv
  <1> USE DEF Shrinks, Decoding, SpanGood, SpanInside, UdpThere, NumsOK
  <1>1. ASSUME NEW c \in FrameLens, NEW w \in FrameLens,
            decode_frame(c, w)
       PROVE  Shrinks
    BY <1>1 DEF decode_frame
  <1>2. ASSUME NEW type \in EtherTypes,
            ethernet(type)
       PROVE  Shrinks
    BY <1>2 DEF ethernet, need, advance, Finish, span
  <1>3. ASSUME NEW type \in EtherTypes,
            vlan_tag(type)
       PROVE  Shrinks
    BY <1>3 DEF vlan_tag, vlans_full, need, advance, Finish, span
  <1>4. CASE dispatch
    BY <1>4 DEF dispatch, span
  <1>5. ASSUME NEW version \in Versions, NEW hlen \in HdrLens, NEW len \in Len16,
            NEW frag \in frag_kind, NEW proto \in NextHdr,
            decode_ipv4(version, hlen, len, frag, proto)
       PROVE  Shrinks
    BY <1>5 DEF decode_ipv4, total_len, need, clip, Return, span
  <1>6. ASSUME NEW version \in Versions, NEW payload \in Len16, NEW type \in NextHdr,
            decode_ipv6(version, payload, type)
       PROVE  Shrinks
    BY <1>6 DEF decode_ipv6, need, clip, Return, span
  <1>7. ASSUME NEW kind \in frag_kind, NEW type \in NextHdr,
            ipv6_fragment(kind, type)
       PROVE  Shrinks
    BY <1>7 DEF ipv6_fragment, need, advance, Return, span
  <1>8. ASSUME NEW len \in Ext6Lens, NEW type \in NextHdr,
            ipv6_extension(len, type)
       PROVE  Shrinks
    BY <1>8 DEF ipv6_extension, need, advance, Return, span
  <1>9. CASE ipv6_chain_end
    BY <1>9 DEF ipv6_chain_end, span
  <1>10. ASSUME NEW hlen \in HdrLens, NEW port \in Flag,
            decode_tcp(hlen, port)
       PROVE  Shrinks
    BY <1>10 DEF decode_tcp, need, Return, span
  <1>11. ASSUME NEW ulen \in Len16, NEW port \in Flag,
            decode_udp(ulen, port)
       PROVE  Shrinks
    BY <1>11 DEF decode_udp, need, clip, Return, span, udp_len_bad
  <1>12. CASE decode_icmp
    BY <1>12 DEF decode_icmp, need, Return, span
  <1>13. CASE decode_other_l4
    BY <1>13 DEF decode_other_l4, Return, span
  <1>14. CASE outer_done
    BY <1>14 DEF outer_done, advance, span, decode_is_gtpu_port
  <1>15. ASSUME NEW v1u \in Flag, NEW flags \in {"none", "E", "SPN"},
            NEW msg \in GtpMsgTypes, NEW len \in Len16,
            decode_gtpu(v1u, flags, msg, len)
       PROVE  Shrinks
    BY <1>15 DEF decode_gtpu, need, clip, FinishGtp, span
  <1>16. ASSUME NEW type \in Flag,
            gtpu_optional(type)
       PROVE  Shrinks
    BY <1>16 DEF gtpu_optional, need, advance, FinishGtp, span
  <1>17. ASSUME NEW elen \in ExtGLens, NEW type \in Flag,
            gtpu_extension(elen, type)
       PROVE  Shrinks
    BY <1>17 DEF gtpu_extension, need, advance, FinishGtp, span
  <1>18. CASE gtpu_headers_done
    BY <1>18 DEF gtpu_headers_done, FinishGtp, span
  <1>19. ASSUME NEW nibble \in Versions,
            decode_gtpu_inner(nibble)
       PROVE  Shrinks
    BY <1>19 DEF decode_gtpu_inner, need, FinishGtp, span
  <1>20. CASE inner_done
    BY <1>20 DEF inner_done, FinishGtp, span, decode_is_gtpu_port
  <1>21. CASE UNCHANGED vars
    BY <1>21 DEF vars
  <1> QED
    BY <1>1, <1>2, <1>3, <1>4, <1>5, <1>6, <1>7, <1>8, <1>9, <1>10, <1>11,
       <1>12, <1>13, <1>14, <1>15, <1>16, <1>17, <1>18, <1>19, <1>20, <1>21
    DEF Next, Step

Frozen ==
    gtp.is_gtpu = 1 /\ Decoding
        => UNCHANGED <<status, l2>> /\ l3'["outer"] = l3["outer"]

\* Inside a tunnel every step works on the scratch packet_info.
LEMMA FrozenNext == IInv /\ [Next]_vars => Frozen
  <1> SUFFICES ASSUME IInv, [Next]_vars PROVE Frozen
    OBVIOUS
  <1> USE TypeParts DEF IInv
  <1> USE DEF Frozen, Decoding, TunnelShape, PlaceOK, RecordsOK
  <1>1. ASSUME NEW c \in FrameLens, NEW w \in FrameLens,
            decode_frame(c, w)
       PROVE  Frozen
    BY <1>1 DEF decode_frame
  <1>2. ASSUME NEW type \in EtherTypes,
            ethernet(type)
       PROVE  Frozen
    BY <1>2 DEF ethernet
  <1>3. ASSUME NEW type \in EtherTypes,
            vlan_tag(type)
       PROVE  Frozen
    BY <1>3 DEF vlan_tag, vlans_full
  <1>4. CASE dispatch
    BY <1>4 DEF dispatch
  <1>5. ASSUME NEW version \in Versions, NEW hlen \in HdrLens, NEW len \in Len16,
            NEW frag \in frag_kind, NEW proto \in NextHdr,
            decode_ipv4(version, hlen, len, frag, proto)
       PROVE  Frozen
    BY <1>5 DEF decode_ipv4, total_len, Return
  <1>6. ASSUME NEW version \in Versions, NEW payload \in Len16, NEW type \in NextHdr,
            decode_ipv6(version, payload, type)
       PROVE  Frozen
    BY <1>6 DEF decode_ipv6, Return
  <1>7. ASSUME NEW kind \in frag_kind, NEW type \in NextHdr,
            ipv6_fragment(kind, type)
       PROVE  Frozen
    BY <1>7 DEF ipv6_fragment, Return
  <1>8. ASSUME NEW len \in Ext6Lens, NEW type \in NextHdr,
            ipv6_extension(len, type)
       PROVE  Frozen
    BY <1>8 DEF ipv6_extension, Return
  <1>9. CASE ipv6_chain_end
    BY <1>9 DEF ipv6_chain_end
  <1>10. ASSUME NEW hlen \in HdrLens, NEW port \in Flag,
            decode_tcp(hlen, port)
       PROVE  Frozen
    BY <1>10 DEF decode_tcp, Return
  <1>11. ASSUME NEW ulen \in Len16, NEW port \in Flag,
            decode_udp(ulen, port)
       PROVE  Frozen
    BY <1>11 DEF decode_udp, Return
  <1>12. CASE decode_icmp
    BY <1>12 DEF decode_icmp, Return
  <1>13. CASE decode_other_l4
    BY <1>13 DEF decode_other_l4, Return
  <1>14. CASE outer_done
    BY <1>14 DEF outer_done
  <1>15. ASSUME NEW v1u \in Flag, NEW flags \in {"none", "E", "SPN"},
            NEW msg \in GtpMsgTypes, NEW len \in Len16,
            decode_gtpu(v1u, flags, msg, len)
       PROVE  Frozen
    BY <1>15 DEF decode_gtpu, FinishGtp
  <1>16. ASSUME NEW type \in Flag,
            gtpu_optional(type)
       PROVE  Frozen
    BY <1>16 DEF gtpu_optional, FinishGtp
  <1>17. ASSUME NEW elen \in ExtGLens, NEW type \in Flag,
            gtpu_extension(elen, type)
       PROVE  Frozen
    BY <1>17 DEF gtpu_extension, FinishGtp
  <1>18. CASE gtpu_headers_done
    BY <1>18 DEF gtpu_headers_done, FinishGtp
  <1>19. ASSUME NEW nibble \in Versions,
            decode_gtpu_inner(nibble)
       PROVE  Frozen
    BY <1>19 DEF decode_gtpu_inner, FinishGtp
  <1>20. CASE inner_done
    BY <1>20 DEF inner_done, FinishGtp
  <1>21. CASE UNCHANGED vars
    BY <1>21 DEF vars
  <1> QED
    BY <1>1, <1>2, <1>3, <1>4, <1>5, <1>6, <1>7, <1>8, <1>9, <1>10, <1>11,
       <1>12, <1>13, <1>14, <1>15, <1>16, <1>17, <1>18, <1>19, <1>20, <1>21
    DEF Next, Step

-----------------------------------------------------------------------------
\* Every step keeps the invariant.
LEMMA InvNext == IInv /\ [Next]_vars => IInv'
  BY SpanNext, PlaceNext, RecordsNext, OuterNext, TunnelNext, ReasonNext,
     ProtoNext, TypeParts DEF IInv, TypeOK, NumsOK, PlaceOK, VerdictsOK, RecordsOK

\* The inductive invariant holds in every reachable state.
THEOREM Invariance == Spec => []IInv
  BY InitIInv, InvNext, PTL DEF Spec

\* Type correctness: in particular no unsigned length of the decoder ever wraps,
\* and no counter outgrows its field, for every size of frame and header.
THEOREM TypeCorrect == Spec => []TypeOK
  <1>1. IInv => TypeOK
    BY DEF IInv
  <1> QED
    BY Invariance, <1>1, PTL

\* The span never leaves the frame (need(), advance() and clip() of decode.c).
THEOREM SpanStaysInside == Spec => []SpanInside
  <1>1. IInv => SpanInside
    BY DEF IInv, SpanGood
  <1> QED
    BY Invariance, <1>1, PTL

\* No byte past the captured part of the frame is read, whatever a length claims.
THEOREM NoReadPastCapture == Spec => []ReadsInBounds
  <1>1. IInv => ReadsInBounds
    BY DEF IInv, SpanGood
  <1> QED
    BY Invariance, <1>1, PTL

\* A frame captured whole is never reported as truncated.
THEOREM WholeFramesNotTruncated == Spec => []CompleteNeverTruncated
  <1>1. IInv => CompleteNeverTruncated
    BY DEF IInv, SpanGood
  <1> QED
    BY Invariance, <1>1, PTL

\* The layers that decode_frame() marks valid are those its verdict promises.
THEOREM LayersFollowVerdict == Spec => []LayersMatchVerdict
  <1>1. IInv => LayersMatchVerdict
    BY DEF IInv, OuterShape, LayersMatchVerdict, Returned
  <1> QED
    BY Invariance, <1>1, PTL

\* GTP-U fields are filled only for a clean, unfragmented UDP datagram.
THEOREM TunnelsInCleanUdp == Spec => []GtpOnlyInCleanUdp
  <1>1. IInv => GtpOnlyInCleanUdp
    BY DEF IInv, TunnelShape, GtpOnlyInCleanUdp, TypeOK, GtpInfo, Flag
  <1> QED
    BY Invariance, <1>1, PTL

\* gtp_msg_ok separates the problems of the GTP-U headers from the user packet's.
THEOREM MsgOkDecides == Spec => []MsgOkSplitsProblems
  <1>1. IInv => MsgOkSplitsProblems
    BY DEF IInv, TunnelShape
  <1> QED
    BY Invariance, <1>1, PTL

\* GTP-U extension headers are walked only when the E flag announces them.
THEOREM ExtensionsNeedE == Spec => []ExtensionsOnlyWithE
  <1>1. IInv => ExtensionsOnlyWithE
    BY DEF IInv, TunnelShape
  <1> QED
    BY Invariance, <1>1, PTL

\* Each of the two verdicts gives only reasons of its own layers.
THEOREM ReasonsStayInLayer == Spec => []ReasonsNameTheirLayer
  <1>1. IInv => ReasonsNameTheirLayer
    BY DEF IInv, ReasonShape
  <1> QED
    BY Invariance, <1>1, PTL

\* The protocol of an IPv6 packet is the end of its chain, or unknown.
THEOREM ChainsNameProtocols == Spec => []BrokenChainHasNoProto
  <1>1. IInv => BrokenChainHasNoProto
    BY DEF IInv, ProtoShape
  <1> QED
    BY Invariance, <1>1, PTL

\* A length read from a packet only ever shrinks the span.
THEOREM SpanShrinks == Spec => SpanOnlyShrinks
  <1>1. IInv /\ [Next]_vars =>
          [Decoding => /\ off' >= off
                       /\ off' + cap' <= off + cap
                       /\ off' + wire' <= off + wire]_vars
    BY ShrinksNext DEF Shrinks
  <1> QED
    BY Invariance, <1>1, PTL DEF Spec, SpanOnlyShrinks

\* Decoding a tunnel leaves the outer packet's layers and verdict as they were.
THEOREM OuterFrozen == Spec => OuterFrozenInTunnel
  <1>1. IInv /\ [Next]_vars =>
          [gtp.is_gtpu = 1 /\ Decoding
             => UNCHANGED <<status, l2>> /\ l3'["outer"] = l3["outer"]]_vars
    BY FrozenNext DEF Frozen
  <1> QED
    BY Invariance, <1>1, PTL DEF Spec, OuterFrozenInTunnel

\* What goes together in a packet_info from the start: an IP header has a version,
\* only an IP packet is a fragment, only a GTPv1-U message has a type, and only a
\* G-PDU has problems behind its GTP-U headers.
FillShape ==
    /\ \A p \in {"outer", "inner"} :
         IF l3[p].has_l3 = 1 THEN l3[p].ip_version \in {4, 6} ELSE l3[p].frag = "NONE"
    /\ gtp.v1u = 1 => gtp.msg_type \in GtpMsgTypes
    /\ gtp.msg_ok = 1 /\ gtp_status # "OK" => gtp.msg_type = "gpdu"

\* Every step keeps these parts together.
LEMMA FillNext == IInv /\ FillShape /\ [Next]_vars => FillShape'
  <1> SUFFICES ASSUME IInv, FillShape, [Next]_vars PROVE FillShape'
    OBVIOUS
  <1> USE TypeParts DEF IInv
  <1> USE DEF FillShape, PlaceOK, RecordsOK, L3Info, GtpInfo, Flag
  <1>1. ASSUME NEW c \in FrameLens, NEW w \in FrameLens, decode_frame(c, w)
        PROVE  FillShape'
    BY <1>1 DEF decode_frame, NoL2, NoL3, NoGtp
  <1>2. ASSUME NEW type \in EtherTypes, ethernet(type) \/ vlan_tag(type)
        PROVE  FillShape'
    BY <1>2 DEF ethernet, vlan_tag, Finish
  <1>3. CASE dispatch
    BY <1>3 DEF dispatch
  <1>4. ASSUME NEW version \in Versions, NEW hlen \in HdrLens, NEW len \in Len16,
               NEW frag \in frag_kind, NEW proto \in NextHdr,
               decode_ipv4(version, hlen, len, frag, proto)
        PROVE  FillShape'
    BY <1>4 DEF decode_ipv4, Return
  <1>5. ASSUME NEW version \in Versions, NEW payload \in Len16, NEW type \in NextHdr,
               decode_ipv6(version, payload, type)
        PROVE  FillShape'
    BY <1>5 DEF decode_ipv6, Return
  <1>6. ASSUME NEW kind \in frag_kind, NEW type \in NextHdr, ipv6_fragment(kind, type)
        PROVE  FillShape'
    BY <1>6 DEF ipv6_fragment, Return, OuterShape, TunnelShape
  <1>7. ASSUME NEW len \in Ext6Lens, NEW type \in NextHdr, ipv6_extension(len, type)
        PROVE  FillShape'
    BY <1>7 DEF ipv6_extension, Return
  <1>8. CASE ipv6_chain_end
    BY <1>8 DEF ipv6_chain_end
  <1>9. ASSUME NEW hlen \in HdrLens, NEW port \in Flag, decode_tcp(hlen, port)
        PROVE  FillShape'
    BY <1>9 DEF decode_tcp, Return
  <1>10. ASSUME NEW ulen \in Len16, NEW port \in Flag, decode_udp(ulen, port)
         PROVE  FillShape'
    BY <1>10 DEF decode_udp, Return
  <1>11. CASE decode_icmp \/ decode_other_l4
    BY <1>11 DEF decode_icmp, decode_other_l4, Return
  <1>12. CASE outer_done
    BY <1>12 DEF outer_done, TunnelShape, NoGtp
  <1>13. ASSUME NEW v1u \in Flag, NEW flags \in {"none", "E", "SPN"},
                NEW msg \in GtpMsgTypes, NEW len \in Len16,
                decode_gtpu(v1u, flags, msg, len)
         PROVE  FillShape'
    <2> DEFINE seen == [gtp EXCEPT !.v1u = 1, !.flags = flags, !.msg_type = msg]
    <2>1. gtp.msg_ok = 0 /\ gtp.v1u = 0 /\ seen.msg_ok = 0 /\ seen.msg_type = msg
      BY <1>13 DEF decode_gtpu, TunnelShape
    <2>2. (gtp' = gtp \/ gtp' = seen) /\ UNCHANGED l3
      BY <1>13 DEF decode_gtpu
    <2> HIDE DEF seen
    <2> QED
      BY <2>1, <2>2
  <1>14. ASSUME NEW type \in Flag, gtpu_optional(type) PROVE FillShape'
    BY <1>14 DEF gtpu_optional, FinishGtp, TunnelShape
  <1>15. ASSUME NEW elen \in ExtGLens, NEW type \in Flag, gtpu_extension(elen, type)
         PROVE  FillShape'
    BY <1>15 DEF gtpu_extension, FinishGtp, TunnelShape
  <1>16. CASE gtpu_headers_done
    BY <1>16 DEF gtpu_headers_done, FinishGtp, TunnelShape
  <1>17. ASSUME NEW nibble \in Versions, decode_gtpu_inner(nibble) PROVE FillShape'
    BY <1>17 DEF decode_gtpu_inner, FinishGtp, TunnelShape, NoL3
  <1>18. CASE inner_done
    BY <1>18 DEF inner_done, FinishGtp, TunnelShape
  <1>19. CASE UNCHANGED vars
    BY <1>19 DEF vars
  <1> HIDE DEF FillShape, PlaceOK, RecordsOK, L3Info, GtpInfo, Flag, IInv
  <1> QED
    BY <1>1, <1>2, <1>3, <1>4, <1>5, <1>6, <1>7, <1>8, <1>9, <1>10, <1>11,
       <1>12, <1>13, <1>14, <1>15, <1>16, <1>17, <1>18, <1>19
    DEF Next, Step

\* The packet_info that decode_frame() leaves behind.
Result == [status |-> status, gtp_status |-> gtp_status, l2 |-> l2,
           l3 |-> l3["outer"], gtp |-> gtp]

\* Whatever the frame, the packet_info that decode_frame() returns is consistent.
\* The counters and the tables rely on that; Analysis assumes it of its packets.
THEOREM ResultsConsistent == Spec => [](Returned => Consistent(Result))
  <1>1. IInv /\ FillShape => (Returned => Consistent(Result))
    <2> SUFFICES ASSUME IInv, FillShape, Returned PROVE Consistent(Result)
      OBVIOUS
    <2>1. LayersMatch(status) /\ l3["outer"].has_l3 \in {0, 1}
      BY TypeParts DEF IInv, OuterShape, Returned, RecordsOK, L3Info, Flag
    <2>2. OuterAgrees(Result)
      BY <2>1 DEF OuterAgrees, Result, LayersMatch, ChainReasons, FillShape
    <2>3. /\ gtp.is_gtpu = 0 => gtp = NoGtp /\ gtp_status = "OK"
          /\ gtp.is_gtpu = 1 => /\ status = "OK" /\ l3["outer"].has_l4 = 1
                                /\ l3["outer"].ip_proto = "udp"
                                /\ l3["outer"].frag = "NONE" /\ ProblemsSplit
      BY DEF IInv, TunnelShape, MsgOkSplitsProblems
    <2>4. TunnelAgrees(Result)
      BY <2>3 DEF TunnelAgrees, Result, ProblemsSplit, FillShape
    <2> QED
      BY <2>2, <2>4 DEF Consistent
  <1>2. Init => FillShape
    BY DEF Init, FillShape, NoL3, NoGtp
  <1> QED
    BY Invariance, FillNext, <1>1, <1>2, PTL DEF Spec

-----------------------------------------------------------------------------
\* A valid IP header has its version, in the packet and in the user packet.
Versioned == \A p \in {"outer", "inner"} : l3[p].has_l3 = 1 => l3[p].ip_version \in {4, 6}

\* A tunnel has the port of its datagram; a nested one, that of the user packet,
\* which is the one in the scratch packet_info.
Ported ==
    /\ gtp.is_gtpu = 1 => l3["outer"].gtp_port = 1
    /\ gtp.has_inner = 1 => l3["inner"].has_l3 = 1
    /\ gtp.nested = 1 => l3["inner"].ip_proto = "udp" /\ l3["inner"].gtp_port = 1

\* Nothing goes wrong behind the headers of a signalling message.
SignalsClean == gtp.msg_ok = 1 /\ gtp.msg_type # "gpdu" => gtp_status = "OK"

OracleInv == Versioned /\ Ported /\ SignalsClean

\* The version is set where has_l3 is, and both stay until the next frame.
LEMMA VersionedNext == IInv /\ Versioned /\ [Next]_vars => Versioned'
  <1> SUFFICES ASSUME IInv, Versioned, [Next]_vars PROVE Versioned'
    OBVIOUS
  <1>1. l3 \in [{"outer", "inner"} -> L3Info] /\ lvl \in {"outer", "inner"}
    BY DEF IInv, TypeOK
  <1> USE DEF Versioned, L3Info
  <1>2. ASSUME NEW c \in FrameLens, NEW w \in FrameLens, decode_frame(c, w)
        PROVE  Versioned'
    BY <1>2 DEF decode_frame, NoL3
  <1>3. ASSUME NEW version \in Versions, NEW hlen \in HdrLens, NEW len \in Len16,
               NEW frag \in frag_kind, NEW proto \in NextHdr,
               decode_ipv4(version, hlen, len, frag, proto)
        PROVE  Versioned'
    BY <1>1, <1>3 DEF decode_ipv4
  <1>4. ASSUME NEW version \in Versions, NEW payload \in Len16, NEW type \in NextHdr,
               decode_ipv6(version, payload, type)
        PROVE  Versioned'
    BY <1>1, <1>4 DEF decode_ipv6
  <1>5. ASSUME NEW kind \in frag_kind, NEW type \in NextHdr, ipv6_fragment(kind, type)
        PROVE  Versioned'
    BY <1>1, <1>5 DEF ipv6_fragment
  <1>6. CASE ipv6_chain_end
    BY <1>1, <1>6 DEF ipv6_chain_end
  <1>7. ASSUME NEW hlen \in HdrLens, NEW port \in Flag, decode_tcp(hlen, port)
        PROVE  Versioned'
    BY <1>1, <1>7 DEF decode_tcp
  <1>8. ASSUME NEW ulen \in Len16, NEW port \in Flag, decode_udp(ulen, port)
        PROVE  Versioned'
    BY <1>1, <1>8 DEF decode_udp
  <1>9. CASE decode_icmp
    BY <1>1, <1>9 DEF decode_icmp
  <1>10. ASSUME NEW nibble \in Versions, decode_gtpu_inner(nibble)
         PROVE  Versioned'
    BY <1>1, <1>10 DEF decode_gtpu_inner, NoL3
  <1>11. ASSUME UNCHANGED l3
         PROVE  Versioned'
    BY <1>11
  <1>12. ASSUME NEW type \in EtherTypes, ethernet(type) \/ vlan_tag(type)
         PROVE  UNCHANGED l3
    BY <1>12 DEF ethernet, vlan_tag
  <1>13. ASSUME dispatch \/ decode_other_l4 \/ outer_done \/ gtpu_headers_done \/ inner_done
         PROVE  UNCHANGED l3
    BY <1>13 DEF dispatch, decode_other_l4, outer_done, gtpu_headers_done, inner_done
  <1>14. ASSUME NEW len \in Ext6Lens, NEW type \in NextHdr, ipv6_extension(len, type)
         PROVE  UNCHANGED l3
    BY <1>14 DEF ipv6_extension
  <1>15. ASSUME NEW v1u \in Flag, NEW flags \in {"none", "E", "SPN"},
                NEW msg \in GtpMsgTypes, NEW len \in Len16,
                decode_gtpu(v1u, flags, msg, len)
         PROVE  UNCHANGED l3
    BY <1>15 DEF decode_gtpu
  <1>16. ASSUME NEW type \in Flag, gtpu_optional(type)
         PROVE  UNCHANGED l3
    BY <1>16 DEF gtpu_optional
  <1>17. ASSUME NEW elen \in ExtGLens, NEW type \in Flag, gtpu_extension(elen, type)
         PROVE  UNCHANGED l3
    BY <1>17 DEF gtpu_extension
  <1>18. CASE UNCHANGED vars
    BY <1>11, <1>18 DEF vars
  <1> HIDE DEF Versioned, L3Info
  <1> QED
    BY <1>2, <1>3, <1>4, <1>5, <1>6, <1>7, <1>8, <1>9, <1>10, <1>11, <1>12, <1>13,
       <1>14, <1>15, <1>16, <1>17, <1>18 DEF Next, Step

\* What a step may do to the part of a packet_info that is about its tunnel.
Keeps == /\ gtp'.is_gtpu = gtp.is_gtpu
         /\ gtp'.has_inner = gtp.has_inner /\ gtp'.nested = gtp.nested

\* No step begins or ends a tunnel, or finds a user packet, but where the code says.
LEMMA TunnelSteps ==
    ASSUME IInv, Next
    PROVE  \/ gtp' = NoGtp
           \/ outer_done \/ inner_done
           \/ Decoding /\ Keeps
  <1> USE DEF Keeps, Decoding
  <1>1. gtp \in GtpInfo
    BY DEF IInv, TypeOK
  <1>2. ASSUME NEW c \in FrameLens, NEW w \in FrameLens, decode_frame(c, w)
        PROVE  gtp' = NoGtp
    BY <1>2 DEF decode_frame
  <1>3. ASSUME NEW type \in EtherTypes, ethernet(type) \/ vlan_tag(type)
        PROVE  Decoding /\ Keeps
    BY <1>3 DEF ethernet, vlan_tag
  <1>4. ASSUME dispatch \/ ipv6_chain_end \/ decode_icmp \/ decode_other_l4
        PROVE  Decoding /\ Keeps
    BY <1>4 DEF dispatch, ipv6_chain_end, decode_icmp, decode_other_l4
  <1>5. ASSUME NEW version \in Versions, NEW hlen \in HdrLens, NEW len \in Len16,
               NEW frag \in frag_kind, NEW proto \in NextHdr,
               decode_ipv4(version, hlen, len, frag, proto)
        PROVE  Decoding /\ Keeps
    BY <1>5 DEF decode_ipv4
  <1>6. ASSUME NEW version \in Versions, NEW payload \in Len16, NEW type \in NextHdr,
               decode_ipv6(version, payload, type)
        PROVE  Decoding /\ Keeps
    BY <1>6 DEF decode_ipv6
  <1>7. ASSUME NEW kind \in frag_kind, NEW type \in NextHdr, ipv6_fragment(kind, type)
        PROVE  Decoding /\ Keeps
    BY <1>7 DEF ipv6_fragment
  <1>8. ASSUME NEW len \in Ext6Lens, NEW type \in NextHdr, ipv6_extension(len, type)
        PROVE  Decoding /\ Keeps
    BY <1>8 DEF ipv6_extension
  <1>9. ASSUME NEW hlen \in HdrLens, NEW port \in Flag, decode_tcp(hlen, port)
        PROVE  Decoding /\ Keeps
    BY <1>9 DEF decode_tcp
  <1>10. ASSUME NEW ulen \in Len16, NEW port \in Flag, decode_udp(ulen, port)
         PROVE  Decoding /\ Keeps
    BY <1>10 DEF decode_udp
  <1>11. ASSUME NEW v1u \in Flag, NEW flags \in {"none", "E", "SPN"},
                NEW msg \in GtpMsgTypes, NEW len \in Len16,
                decode_gtpu(v1u, flags, msg, len)
         PROVE  Decoding /\ Keeps
    BY <1>1, <1>11 DEF decode_gtpu, GtpInfo
  <1>12. ASSUME NEW type \in Flag, gtpu_optional(type)
         PROVE  Decoding /\ Keeps
    BY <1>12 DEF gtpu_optional
  <1>13. ASSUME NEW elen \in ExtGLens, NEW type \in Flag, gtpu_extension(elen, type)
         PROVE  Decoding /\ Keeps
    BY <1>1, <1>13 DEF gtpu_extension, GtpInfo
  <1>14. CASE gtpu_headers_done
    BY <1>1, <1>14 DEF gtpu_headers_done, GtpInfo
  <1>15. ASSUME NEW nibble \in Versions, decode_gtpu_inner(nibble)
         PROVE  Decoding /\ Keeps
    BY <1>15 DEF decode_gtpu_inner
  <1> HIDE DEF Keeps, Decoding
  <1> QED
    BY <1>2, <1>3, <1>4, <1>5, <1>6, <1>7, <1>8, <1>9, <1>10, <1>11, <1>12, <1>13,
       <1>14, <1>15 DEF Next, Step

\* The port of a tunnel's datagram is not touched while the tunnel is decoded.
LEMMA PortedNext == IInv /\ Ported /\ [Next]_vars => Ported'
  <1> SUFFICES ASSUME IInv, Ported, [Next]_vars PROVE Ported'
    OBVIOUS
  <1>1. gtp \in GtpInfo
    BY DEF IInv, TypeOK
  <1>2. Decoding => gtp.nested = 0 /\ gtp.has_inner = 0
    <2> SUFFICES ASSUME Decoding PROVE gtp.nested = 0 /\ gtp.has_inner = 0
      OBVIOUS
    <2>1. gtp.is_gtpu = 0 => gtp = NoGtp
      BY DEF IInv, TunnelShape
    <2>2. gtp.is_gtpu = 1 => gtp.nested = 0 /\ gtp.has_inner = 0
      BY DEF IInv, TunnelShape, Decoding
    <2> QED BY <1>1, <2>1, <2>2 DEF NoGtp, GtpInfo, Flag
  <1>3. CASE gtp' = NoGtp
    BY <1>3 DEF Ported, NoGtp
  <1>4. CASE outer_done
    <2>1. /\ l3' = l3 /\ gtp'.nested = gtp.nested /\ gtp'.has_inner = gtp.has_inner
          /\ gtp'.is_gtpu = 1 /\ gtp.is_gtpu # 1 => decode_is_gtpu_port(l3["outer"])
      BY <1>1, <1>4 DEF outer_done, GtpInfo
    <2>2. gtp.nested = 0 /\ gtp.has_inner = 0
      BY <1>2, <1>4 DEF outer_done, Decoding
    <2> QED BY <2>1, <2>2 DEF Ported, decode_is_gtpu_port
  <1>5. CASE inner_done
    <2>1. /\ l3' = l3 /\ gtp'.is_gtpu = gtp.is_gtpu
          /\ gtp'.has_inner = l3["inner"].has_l3
          /\ gtp'.nested = 1 => decode_is_gtpu_port(l3["inner"])
      BY <1>1, <1>5 DEF inner_done, GtpInfo
    <2> QED BY <2>1 DEF Ported, decode_is_gtpu_port
  <1>6. CASE Decoding /\ Keeps
    <2>1. gtp.is_gtpu = 1 => l3'["outer"] = l3["outer"]
      BY <1>6, FrozenNext DEF Frozen
    <2> QED BY <1>2, <1>6, <2>1 DEF Ported, Keeps
  <1>7. CASE UNCHANGED vars
    BY <1>7 DEF vars, Ported
  <1> QED BY <1>3, <1>4, <1>5, <1>6, <1>7, TunnelSteps

\* A signalling message is complete when its headers are, and decoding ends there.
LEMMA SignalsNext == IInv /\ SignalsClean /\ [Next]_vars => SignalsClean'
  <1> SUFFICES ASSUME IInv, SignalsClean, [Next]_vars PROVE SignalsClean'
    OBVIOUS
  <1>1. /\ gtp \in GtpInfo
        /\ pc \in {"gtpu", "gtpopt", "gtpext"} => gtp.msg_ok = 0
        /\ pc = "inner" \/ (lvl = "inner" /\ pc = "ipdone") => gtp.msg_type = "gpdu"
    BY DEF IInv, TypeOK, TunnelShape
  <1> USE DEF SignalsClean, GtpInfo
  <1>2. ASSUME NEW c \in FrameLens, NEW w \in FrameLens, decode_frame(c, w)
        PROVE  SignalsClean'
    BY <1>2 DEF decode_frame
  <1>3. ASSUME UNCHANGED <<gtp, gtp_status>>
        PROVE  SignalsClean'
    BY <1>3
  <1>4. ASSUME NEW type \in EtherTypes, ethernet(type) \/ vlan_tag(type)
        PROVE  UNCHANGED <<gtp, gtp_status>>
    BY <1>4 DEF ethernet, vlan_tag
  <1>5. ASSUME dispatch \/ ipv6_chain_end \/ decode_icmp \/ decode_other_l4
        PROVE  UNCHANGED <<gtp, gtp_status>>
    BY <1>5 DEF dispatch, ipv6_chain_end, decode_icmp, decode_other_l4
  <1>6. ASSUME NEW version \in Versions, NEW hlen \in HdrLens, NEW len \in Len16,
               NEW frag \in frag_kind, NEW proto \in NextHdr,
               decode_ipv4(version, hlen, len, frag, proto)
        PROVE  UNCHANGED <<gtp, gtp_status>>
    BY <1>6 DEF decode_ipv4
  <1>7. ASSUME NEW version \in Versions, NEW payload \in Len16, NEW type \in NextHdr,
               decode_ipv6(version, payload, type)
        PROVE  UNCHANGED <<gtp, gtp_status>>
    BY <1>7 DEF decode_ipv6
  <1>8. ASSUME NEW kind \in frag_kind, NEW type \in NextHdr, ipv6_fragment(kind, type)
        PROVE  UNCHANGED <<gtp, gtp_status>>
    BY <1>8 DEF ipv6_fragment
  <1>9. ASSUME NEW len \in Ext6Lens, NEW type \in NextHdr, ipv6_extension(len, type)
        PROVE  UNCHANGED <<gtp, gtp_status>>
    BY <1>9 DEF ipv6_extension
  <1>10. ASSUME NEW hlen \in HdrLens, NEW port \in Flag, decode_tcp(hlen, port)
         PROVE  UNCHANGED <<gtp, gtp_status>>
    BY <1>10 DEF decode_tcp
  <1>11. ASSUME NEW ulen \in Len16, NEW port \in Flag, decode_udp(ulen, port)
         PROVE  UNCHANGED <<gtp, gtp_status>>
    BY <1>11 DEF decode_udp
  <1>12. CASE outer_done
    BY <1>1, <1>12 DEF outer_done
  <1>13. ASSUME NEW v1u \in Flag, NEW flags \in {"none", "E", "SPN"},
                NEW msg \in GtpMsgTypes, NEW len \in Len16,
                decode_gtpu(v1u, flags, msg, len)
         PROVE  SignalsClean'
    <2>1. pc = "gtpu" /\ gtp'.msg_ok = gtp.msg_ok
      BY <1>1, <1>13 DEF decode_gtpu
    <2> QED BY <1>1, <2>1
  <1>14. ASSUME NEW type \in Flag, gtpu_optional(type)
         PROVE  SignalsClean'
    BY <1>1, <1>14 DEF gtpu_optional
  <1>15. ASSUME NEW elen \in ExtGLens, NEW type \in Flag, gtpu_extension(elen, type)
         PROVE  SignalsClean'
    <2>1. pc = "gtpext" /\ gtp'.msg_ok = gtp.msg_ok
      BY <1>1, <1>15 DEF gtpu_extension
    <2> QED BY <1>1, <2>1
  <1>16. CASE gtpu_headers_done
    BY <1>1, <1>16 DEF gtpu_headers_done, FinishGtp
  <1>17. ASSUME NEW nibble \in Versions, decode_gtpu_inner(nibble)
         PROVE  SignalsClean'
    BY <1>1, <1>17 DEF decode_gtpu_inner
  <1>18. CASE inner_done
    BY <1>1, <1>18 DEF inner_done
  <1>19. CASE UNCHANGED vars
    BY <1>3, <1>19 DEF vars
  <1> HIDE DEF SignalsClean, GtpInfo
  <1> QED
    BY <1>2, <1>3, <1>4, <1>5, <1>6, <1>7, <1>8, <1>9, <1>10, <1>11, <1>12, <1>13,
       <1>14, <1>15, <1>16, <1>17, <1>18, <1>19 DEF Next, Step

\* For every frame, captured to any length, decode_frame() returns a packet_info
\* on which check_invariants() of the fuzzer cannot fail.
THEOREM FuzzerCannotFail == Spec => []OracleHolds
  <1>1. Init => OracleInv
    BY DEF Init, OracleInv, Versioned, Ported, SignalsClean, NoL3, NoGtp
  <1>2. IInv /\ OracleInv /\ [Next]_vars => OracleInv'
    BY VersionedNext, PortedNext, SignalsNext DEF OracleInv
  <1>3. IInv /\ OracleInv => OracleHolds
    <2> SUFFICES ASSUME IInv, OracleInv, Returned
                 PROVE  check_invariants(caplen = wirelen)
      BY DEF OracleHolds
    <2>1. TypeOK /\ LayersMatch(status) /\ CompleteNeverTruncated
      BY DEF IInv, OuterShape, SpanGood, Returned
    <2>2. gtp.is_gtpu = 1 => ProblemsSplit
      BY DEF IInv, TunnelShape, MsgOkSplitsProblems
    <2>3. /\ gtp.is_gtpu = 0 => gtp = NoGtp /\ gtp_status = "OK"
          /\ gtp.is_gtpu = 1 =>
               /\ status = "OK" /\ l3["outer"].has_l4 = 1
               /\ l3["outer"].frag = "NONE" /\ l3["outer"].ip_proto = "udp"
      BY DEF IInv, TunnelShape
    <2>4. /\ l2 \in L2Info /\ gtp \in GtpInfo /\ l3 \in [{"outer", "inner"} -> L3Info]
          /\ status \in decode_status /\ gtp_status \in decode_status
          /\ caplen \in Nat /\ wirelen \in Nat
      BY <2>1 DEF TypeOK
    <2>5. caplen = wirelen => /\ ~decode_status_is_truncation(status)
                              /\ ~decode_status_is_truncation(gtp_status)
      BY <2>1, <2>4 DEF CompleteNeverTruncated
    <2>6. check_layers(caplen = wirelen)
      BY <2>1, <2>4, <2>5
      DEF check_layers, LayersMatch, OracleInv, Versioned, L2Info, L3Info, Flag
    <2>7. CASE gtp.is_gtpu = 0
      <3>1. gtp = NoGtp /\ gtp_status = "OK"
        BY <2>3, <2>7
      <3>2. check_gtpu(caplen = wirelen)
        BY <2>4, <2>5, <3>1, FieldLimits DEF check_gtpu, NoGtp
      <3>3. check_inner
        BY <3>1 DEF check_inner, NoGtp
      <3> QED BY <2>6, <3>2, <3>3 DEF check_invariants
    <2>8. CASE gtp.is_gtpu = 1
      <3>1. HeaderReasons = {"TRUNC_GTPU", "TRUNC_GTPU_EXT", "BAD_GTPU_LEN",
                             "BAD_GTPU_EXT", "BAD_GTPU_EXT_LEN"}
        BY DEF HeaderReasons
      <3>2. is_gtpu_header_problem(gtp_status) <=> gtp_status \in HeaderReasons
        BY <3>1 DEF is_gtpu_header_problem
      <3>3. /\ gtp.v1u = 0 => gtp.msg_ok = 0
            /\ gtp.v1u = 1 => (gtp.msg_ok = 1 <=> ~is_gtpu_header_problem(gtp_status))
            /\ gtp.ext_count <= GTPU_MAX_EXT_HEADERS
            /\ gtp.v1u \in {0, 1}
        BY <2>2, <2>4, <2>8, <3>2, FieldLimits DEF ProblemsSplit, GtpInfo, Flag
      <3>4. decode_is_gtpu_port(l3["outer"])
        BY <2>3, <2>8 DEF decode_is_gtpu_port, OracleInv, Ported
      <3>5. check_gtpu(caplen = wirelen)
        BY <2>3, <2>4, <2>5, <2>8, <3>3, <3>4 DEF check_gtpu, OracleInv, SignalsClean
      <3>6. gtp.has_inner = 1 => l3["inner"].ip_version \in {4, 6}
        <4> SUFFICES ASSUME gtp.has_inner = 1 PROVE l3["inner"].ip_version \in {4, 6}
          OBVIOUS
        <4> QED BY DEF OracleInv, Versioned, Ported
      <3>7. check_inner
        BY <2>2, <2>8, <3>3, <3>6 DEF check_inner, ProblemsSplit, OracleInv, Ported
      <3> QED BY <2>6, <3>5, <3>7 DEF check_invariants
    <2> QED BY <2>4, <2>7, <2>8 DEF GtpInfo, Flag
  <1> QED
    BY Invariance, <1>1, <1>2, <1>3, PTL DEF Spec

-----------------------------------------------------------------------------
(***************************************************************************)
(* One frame, captured to two lengths (DecodePair)                         *)
(*                                                                         *)
(* The two calls go through the headers in step until the shorter capture  *)
(* ends.  From there on the shorter call knows a part of what the longer   *)
(* one knows, and the longer call never takes back what it has found out.  *)
(***************************************************************************)
\* The calls know the same; the shorter capture may hold less of what follows.
Alike ==
    /\ pc = c_pc /\ lvl = c_lvl /\ next = c_next /\ hops = c_hops
    /\ off = c_off /\ wire = c_wire /\ c_cap \in Nat /\ c_cap <= cap
    /\ status = c_status /\ gtp_status = c_gtp_status /\ ret = c_ret
    /\ l2 = c_l2 /\ gtp = c_gtp /\ l3 = c_l3
    /\ pc = "ipdone" /\ lvl = "outer" /\ decode_is_gtpu_port(l3["outer"])
         => UDP_HDR_LEN <= c_cap

\* The shorter capture ends in the headers of the packet.
OuterCut ==
    /\ \/ c_pc = "ipdone" /\ c_lvl = "outer" /\ c_ret \in Truncations
       \/ c_pc = "idle" /\ c_status \in Truncations
    /\ c_l2 \in L2Info /\ c_gtp = NoGtp /\ PartOfOuter

\* The IP header of the user packet has been found valid.
InnerSeen ==
    IF pc = "idle" THEN gtp.has_inner = 1
    ELSE lvl = "inner" /\ pc \in {"ext6", "l4", "ipdone"} /\ l3["inner"].has_l3 = 1

\* The GTP-U headers g are a part of those that are known in h.
PartOfHeaders(g, h) ==
    /\ h.is_gtpu = 1
    /\ g.v1u = 1 => h.v1u = 1 /\ h.msg_type = g.msg_type
    /\ g.msg_ok = 1 => h.msg_ok = 1
    /\ g.ext_count <= h.ext_count

\* The shorter capture ends in what the tunnel carries.
TunnelCut ==
    /\ status = "OK" /\ c_status = "OK"
    /\ l2 = c_l2 /\ l3["outer"] = c_l3["outer"]
    /\ c_gtp \in GtpInfo /\ PartOfHeaders(c_gtp, gtp)
    /\ \/ /\ c_pc = "ipdone" /\ c_lvl = "inner" /\ c_ret \in Truncations
          /\ c_l3["inner"] \in L3Info /\ c_l3["inner"].has_l4 = 0
          /\ c_l3["inner"].has_l3 = 1 => InnerSeen
       \/ /\ c_pc = "idle" /\ c_gtp_status \in Truncations
          /\ c_gtp.inner_has_l4 = 0
          /\ c_gtp.has_inner = 1 => InnerSeen

\* Every GTP-U extension header counted so far is one turn of the loop.
ExtsCounted == pc \in {"gtpopt", "gtpext"} => gtp.ext_count <= hops

PairInv ==
    /\ IInv /\ ExtsCounted
    /\ Alike \/ OuterCut \/ TunnelCut

\* In this step the shorter call meets the end of its capture: in a link header,
CutsFrame ==
    /\ pc \in {"eth", "vlan"}
    /\ c_pc' = "idle" /\ c_status' \in Truncations
    /\ c_l2' = l2 /\ c_gtp' = gtp /\ c_l3' = l3

\* in an IP or transport header, of the packet or of the user packet in a tunnel,
CutsIp ==
    /\ pc \in {"ip4", "ip6", "ext6", "l4"}
    /\ c_pc' = "ipdone" /\ c_lvl' = lvl /\ c_ret' \in Truncations
    /\ c_status' = status /\ c_l2' = l2 /\ c_gtp' = gtp
    /\ \E port \in Flag : c_l3' = [l3 EXCEPT ![lvl].gtp_port = port]

\* or in a GTP-U header.
CutsGtp ==
    /\ pc \in {"gtpu", "gtpopt", "gtpext", "inner"}
    /\ c_pc' = "idle" /\ c_gtp_status' \in Truncations
    /\ c_status' = status /\ c_l2' = l2 /\ c_gtp' = gtp /\ c_l3' = l3

\* Both calls have read a header.
Outcome == Alike' \/ CutsFrame \/ CutsIp \/ CutsGtp

\* What the lemmas below use of the two spans.
LEMMA PairFacts ==
    ASSUME IInv, Alike
    PROVE  /\ cap \in Nat /\ wire \in Nat /\ off \in Nat /\ cap <= wire
           /\ c_cap \in Nat /\ c_cap <= cap /\ c_wire = wire /\ c_off = off
           /\ hops \in Nat /\ lvl \in {"outer", "inner"}
           /\ l3 \in [{"outer", "inner"} -> L3Info] /\ gtp \in GtpInfo
  BY DEF IInv, TypeOK, SpanGood, SpanInside, Alike

\* Both calls read the Ethernet header.
LEMMA EthernetPair ==
    ASSUME IInv, Alike, NEW type \in EtherTypes, ethernet(type), C!ethernet(type)
    PROVE  Outcome
  <1> USE PairFacts, HeaderLens, FieldLens
  <1> DEFINE cuts == c_cap < ETH_HDR_LEN /\ ETH_HDR_LEN <= wire
  <1>1. CASE cuts
    <2>1. CutsFrame
      BY <1>1
      DEF CutsFrame, Truncations, Alike, C!ethernet, C!need, C!advance,
          C!Finish, C!span
    <2> QED BY <2>1 DEF Outcome
  <1>2. CASE ~cuts
    <2>1. Alike'
      BY <1>2
      DEF Alike, IInv, OuterShape, ethernet, C!ethernet, need, C!need,
          advance, C!advance, Finish, C!Finish, span, C!span,
          decode_is_gtpu_port, L3Info
    <2> QED BY <2>1 DEF Outcome
  <1> QED BY <1>1, <1>2

\* The calls read a VLAN tag.
LEMMA VlanPair ==
    ASSUME IInv, Alike, NEW type \in EtherTypes, vlan_tag(type), C!vlan_tag(type)
    PROVE  Outcome
  <1> USE PairFacts, HeaderLens, FieldLens
  <1> DEFINE cuts == ~vlans_full /\ c_cap < VLAN_TAG_LEN /\ VLAN_TAG_LEN <= wire
  <1>1. CASE cuts
    <2>1. CutsFrame
      BY <1>1
      DEF CutsFrame, Truncations, Alike, vlans_full, C!vlan_tag, C!need,
          C!advance, C!Finish, C!vlans_full, C!span
    <2> QED BY <2>1 DEF Outcome
  <1>2. CASE ~cuts
    <2>1. Alike'
      BY <1>2
      DEF Alike, IInv, OuterShape, vlan_tag, C!vlan_tag, need, C!need,
          advance, C!advance, Finish, C!Finish, vlans_full, C!vlans_full,
          span, C!span, decode_is_gtpu_port, L3Info
    <2> QED BY <2>1 DEF Outcome
  <1> QED BY <1>1, <1>2

\* The calls read the ethertype.
LEMMA DispatchPair ==
    ASSUME IInv, Alike, dispatch, C!dispatch
    PROVE  Outcome
  <1> USE PairFacts, HeaderLens, FieldLens
  <1>1. Alike'
    BY DEF Alike, IInv, OuterShape, dispatch, C!dispatch, span, C!span,
        decode_is_gtpu_port, L3Info
  <1> QED BY <1>1 DEF Outcome

\* The calls read an IPv4 header.
LEMMA Ipv4Pair ==
    ASSUME IInv, Alike, NEW version \in Versions, NEW hlen \in HdrLens, NEW len \in Len16,
           NEW frag \in frag_kind, NEW proto \in NextHdr,
           decode_ipv4(version, hlen, len, frag, proto),
           C!decode_ipv4(version, hlen, len, frag, proto)
    PROVE  Outcome
  <1> USE PairFacts, HeaderLens, FieldLens
  <1> DEFINE cuts ==
           \/ c_cap < IPV4_MIN_HDR /\ IPV4_MIN_HDR <= wire
           \/ /\ IPV4_MIN_HDR <= c_cap /\ version = 4 /\ IPV4_MIN_HDR <= hlen
              /\ hlen <= total_len(len) /\ total_len(len) <= wire /\ c_cap < hlen
  <1>1. CASE cuts
    <2>1. CutsIp
      BY <1>1
      DEF CutsIp, Truncations, Alike, total_len, C!decode_ipv4, C!need,
          C!total_len, C!clip, C!Return, C!span, Flag, L3Info
    <2> QED BY <2>1 DEF Outcome
  <1>2. CASE ~cuts
    <2>1. Alike'
      BY <1>2
      DEF Alike, IInv, OuterShape, decode_ipv4, C!decode_ipv4, need, C!need,
          total_len, C!total_len, clip, C!clip, Return, C!Return, span,
          C!span, decode_is_gtpu_port, L3Info
    <2> QED BY <2>1 DEF Outcome
  <1> QED BY <1>1, <1>2

\* The calls read an IPv6 header.
LEMMA Ipv6Pair ==
    ASSUME IInv, Alike, NEW version \in Versions, NEW payload \in Len16, NEW type \in NextHdr,
           decode_ipv6(version, payload, type), C!decode_ipv6(version, payload, type)
    PROVE  Outcome
  <1> USE PairFacts, HeaderLens, FieldLens
  <1> DEFINE cuts == c_cap < IPV6_HDR_LEN /\ IPV6_HDR_LEN <= wire
  <1>1. CASE cuts
    <2>1. CutsIp
      BY <1>1
      DEF CutsIp, Truncations, Alike, C!decode_ipv6, C!need, C!clip, C!Return,
          C!span, Flag, L3Info
    <2> QED BY <2>1 DEF Outcome
  <1>2. CASE ~cuts
    <2>1. Alike'
      BY <1>2
      DEF Alike, IInv, OuterShape, decode_ipv6, C!decode_ipv6, need, C!need,
          clip, C!clip, Return, C!Return, span, C!span, decode_is_gtpu_port,
          L3Info
    <2> QED BY <2>1 DEF Outcome
  <1> QED BY <1>1, <1>2

\* The calls read a fragment header.
LEMMA FragmentPair ==
    ASSUME IInv, Alike, NEW kind \in frag_kind, NEW type \in NextHdr,
           ipv6_fragment(kind, type), C!ipv6_fragment(kind, type)
    PROVE  Outcome
  <1> USE PairFacts, HeaderLens, FieldLens
  <1> DEFINE cuts ==
           hops # IPV6_MAX_EXT_HEADERS /\ c_cap < IPV6_FRAG_LEN /\ IPV6_FRAG_LEN <= wire
  <1>1. CASE cuts
    <2>1. CutsIp
      BY <1>1
      DEF CutsIp, Truncations, Alike, C!ipv6_fragment, C!need, C!advance,
          C!Return, C!span, Flag, L3Info
    <2> QED BY <2>1 DEF Outcome
  <1>2. CASE ~cuts
    <2>1. Alike'
      BY <1>2
      DEF Alike, IInv, OuterShape, ipv6_fragment, C!ipv6_fragment, need,
          C!need, advance, C!advance, Return, C!Return, span, C!span,
          decode_is_gtpu_port, L3Info
    <2> QED BY <2>1 DEF Outcome
  <1> QED BY <1>1, <1>2

\* The calls read an IPv6 extension header.
LEMMA ExtensionPair ==
    ASSUME IInv, Alike, NEW len \in Ext6Lens, NEW type \in NextHdr,
           ipv6_extension(len, type), C!ipv6_extension(len, type)
    PROVE  Outcome
  <1> USE PairFacts, HeaderLens, FieldLens
  <1> DEFINE cuts ==
           /\ hops # IPV6_MAX_EXT_HEADERS
           /\ \/ c_cap < IPV6_EXT_MIN /\ IPV6_EXT_MIN <= wire
              \/ IPV6_EXT_MIN <= c_cap /\ c_cap < len /\ len <= wire
  <1>1. CASE cuts
    <2>1. CutsIp
      BY <1>1
      DEF CutsIp, Truncations, Alike, C!ipv6_extension, C!need, C!advance,
          C!Return, C!span, Flag, L3Info
    <2> QED BY <2>1 DEF Outcome
  <1>2. CASE ~cuts
    <2>1. Alike'
      BY <1>2
      DEF Alike, IInv, OuterShape, ipv6_extension, C!ipv6_extension, need,
          C!need, advance, C!advance, Return, C!Return, span, C!span,
          decode_is_gtpu_port, L3Info
    <2> QED BY <2>1 DEF Outcome
  <1> QED BY <1>1, <1>2

\* The calls read the last next-header byte.
LEMMA ChainEndPair ==
    ASSUME IInv, Alike, ipv6_chain_end, C!ipv6_chain_end
    PROVE  Outcome
  <1> USE PairFacts, HeaderLens, FieldLens
  <1>1. Alike'
    BY DEF Alike, IInv, OuterShape, ipv6_chain_end, C!ipv6_chain_end,
        is_ipv6_ext, C!is_ipv6_ext, span, C!span, decode_is_gtpu_port, L3Info
  <1> QED BY <1>1 DEF Outcome

\* The calls read a TCP header.
LEMMA TcpPair ==
    ASSUME IInv, Alike, NEW hlen \in HdrLens, NEW port \in Flag,
           decode_tcp(hlen, port), C!decode_tcp(hlen, port)
    PROVE  Outcome
  <1> USE PairFacts, HeaderLens, FieldLens
  <1> DEFINE cuts ==
           \/ c_cap < TCP_MIN_HDR /\ TCP_MIN_HDR <= wire
           \/ /\ TCP_MIN_HDR <= c_cap /\ TCP_MIN_HDR <= hlen
              /\ c_cap < hlen /\ hlen <= wire
  <1>1. CASE cuts
    <2>1. CutsIp
      BY <1>1
      DEF CutsIp, Truncations, Alike, C!decode_tcp, C!need, C!Return, C!span,
          Flag, L3Info
    <2> QED BY <2>1 DEF Outcome
  <1>2. CASE ~cuts
    <2>1. Alike'
      BY <1>2
      DEF Alike, IInv, OuterShape, decode_tcp, C!decode_tcp, need, C!need,
          Return, C!Return, span, C!span, decode_is_gtpu_port, L3Info
    <2> QED BY <2>1 DEF Outcome
  <1> QED BY <1>1, <1>2

\* The calls read a UDP header.
LEMMA UdpPair ==
    ASSUME IInv, Alike, NEW ulen \in Len16, NEW port \in Flag,
           decode_udp(ulen, port), C!decode_udp(ulen, port)
    PROVE  Outcome
  <1> USE PairFacts, HeaderLens, FieldLens
  <1> DEFINE cuts == c_cap < UDP_HDR_LEN /\ UDP_HDR_LEN <= wire
  <1>1. CASE cuts
    <2>1. CutsIp
      BY <1>1
      DEF CutsIp, Truncations, Alike, C!decode_udp, C!need, C!clip, C!Return,
          C!udp_len_bad, C!span, Flag, L3Info
    <2> QED BY <2>1 DEF Outcome
  <1>2. CASE ~cuts
    <2>1. Alike'
      BY <1>2
      DEF Alike, IInv, OuterShape, decode_udp, C!decode_udp, need, C!need,
          clip, C!clip, Return, C!Return, udp_len_bad, C!udp_len_bad, span,
          C!span, decode_is_gtpu_port, L3Info
    <2> QED BY <2>1 DEF Outcome
  <1> QED BY <1>1, <1>2

\* The calls read an ICMP header.
LEMMA IcmpPair ==
    ASSUME IInv, Alike, decode_icmp, C!decode_icmp
    PROVE  Outcome
  <1> USE PairFacts, HeaderLens, FieldLens
  <1> DEFINE cuts == c_cap < ICMP_MIN_HDR /\ ICMP_MIN_HDR <= wire
  <1>1. CASE cuts
    <2>1. CutsIp
      BY <1>1
      DEF CutsIp, Truncations, Alike, C!decode_icmp, C!need, C!Return, C!span,
          Flag, L3Info
    <2> QED BY <2>1 DEF Outcome
  <1>2. CASE ~cuts
    <2>1. Alike'
      BY <1>2
      DEF Alike, IInv, OuterShape, decode_icmp, C!decode_icmp, need, C!need,
          Return, C!Return, span, C!span, decode_is_gtpu_port, L3Info
    <2> QED BY <2>1 DEF Outcome
  <1> QED BY <1>1, <1>2

\* The calls read the protocol of another transport.
LEMMA OtherPair ==
    ASSUME IInv, Alike, decode_other_l4, C!decode_other_l4
    PROVE  Outcome
  <1> USE PairFacts, HeaderLens, FieldLens
  <1>1. Alike'
    BY DEF Alike, IInv, OuterShape, decode_other_l4, C!decode_other_l4, Return,
        C!Return, span, C!span, decode_is_gtpu_port, L3Info
  <1> QED BY <1>1 DEF Outcome

\* The calls read the verdict on the packet.
LEMMA OuterDonePair ==
    ASSUME IInv, Alike, outer_done, C!outer_done
    PROVE  Outcome
  <1> USE PairFacts, HeaderLens, FieldLens
  <1>1. Alike'
    BY DEF Alike, IInv, OuterShape, outer_done, C!outer_done, advance, C!advance,
        decode_is_gtpu_port, C!decode_is_gtpu_port, span, C!span, L3Info
  <1> QED BY <1>1 DEF Outcome

\* The calls read the mandatory GTP-U header.
LEMMA GtpuPair ==
    ASSUME IInv, Alike, NEW v1u \in Flag, NEW flags \in {"none", "E", "SPN"},
           NEW msg \in GtpMsgTypes, NEW len \in Len16,
           decode_gtpu(v1u, flags, msg, len), C!decode_gtpu(v1u, flags, msg, len)
    PROVE  Outcome
  <1> USE PairFacts, HeaderLens, FieldLens
  <1> DEFINE cuts == c_cap < GTPU_HDR_LEN /\ GTPU_HDR_LEN <= wire
  <1>1. CASE cuts
    <2>1. CutsGtp
      BY <1>1
      DEF CutsGtp, Truncations, Alike, C!decode_gtpu, C!need, C!clip,
          C!FinishGtp, C!span
    <2> QED BY <2>1 DEF Outcome
  <1>2. CASE ~cuts
    <2>1. Alike'
      BY <1>2
      DEF Alike, IInv, OuterShape, decode_gtpu, C!decode_gtpu, need, C!need,
          clip, C!clip, FinishGtp, C!FinishGtp, span, C!span,
          decode_is_gtpu_port, L3Info
    <2> QED BY <2>1 DEF Outcome
  <1> QED BY <1>1, <1>2

\* The calls read the optional GTP-U fields.
LEMMA OptionalPair ==
    ASSUME IInv, Alike, NEW type \in Flag, gtpu_optional(type), C!gtpu_optional(type)
    PROVE  Outcome
  <1> USE PairFacts, HeaderLens, FieldLens
  <1> DEFINE cuts == c_cap < GTPU_OPT_LEN /\ GTPU_OPT_LEN <= wire
  <1>1. CASE cuts
    <2>1. CutsGtp
      BY <1>1
      DEF CutsGtp, Truncations, Alike, C!gtpu_optional, C!need, C!advance,
          C!FinishGtp, C!extension_follows, C!span
    <2> QED BY <2>1 DEF Outcome
  <1>2. CASE ~cuts
    <2>1. Alike'
      BY <1>2
      DEF Alike, IInv, OuterShape, gtpu_optional, C!gtpu_optional, need,
          C!need, advance, C!advance, FinishGtp, C!FinishGtp,
          extension_follows, C!extension_follows, span, C!span,
          decode_is_gtpu_port, L3Info
    <2> QED BY <2>1 DEF Outcome
  <1> QED BY <1>1, <1>2

\* The calls read a GTP-U extension header.
LEMMA GtpExtensionPair ==
    ASSUME IInv, Alike, NEW elen \in ExtGLens, NEW type \in Flag,
           gtpu_extension(elen, type), C!gtpu_extension(elen, type)
    PROVE  Outcome
  <1> USE PairFacts, HeaderLens, FieldLens
  <1> DEFINE cuts ==
           /\ hops # GTPU_MAX_EXT_HEADERS
           /\ \/ c_cap < 1 /\ 1 <= wire
              \/ 1 <= c_cap /\ elen # 0 /\ c_cap < elen /\ elen <= wire
  <1>1. CASE cuts
    <2>1. CutsGtp
      BY <1>1
      DEF CutsGtp, Truncations, Alike, C!gtpu_extension, C!need, C!advance,
          C!FinishGtp, C!span
    <2> QED BY <2>1 DEF Outcome
  <1>2. CASE ~cuts
    <2>1. Alike'
      BY <1>2
      DEF Alike, IInv, OuterShape, gtpu_extension, C!gtpu_extension, need,
          C!need, advance, C!advance, FinishGtp, C!FinishGtp, span, C!span,
          decode_is_gtpu_port, L3Info
    <2> QED BY <2>1 DEF Outcome
  <1> QED BY <1>1, <1>2

\* The calls read the last GTP-U header.
LEMMA HeadersDonePair ==
    ASSUME IInv, Alike, gtpu_headers_done, C!gtpu_headers_done
    PROVE  Outcome
  <1> USE PairFacts, HeaderLens, FieldLens
  <1>1. Alike'
    BY DEF Alike, IInv, OuterShape, gtpu_headers_done, C!gtpu_headers_done,
        FinishGtp, C!FinishGtp, span, C!span, decode_is_gtpu_port, L3Info
  <1> QED BY <1>1 DEF Outcome

\* The calls read the version of a user packet.
LEMMA InnerPair ==
    ASSUME IInv, Alike, NEW nibble \in Versions,
           decode_gtpu_inner(nibble), C!decode_gtpu_inner(nibble)
    PROVE  Outcome
  <1> USE PairFacts, HeaderLens, FieldLens
  <1> DEFINE cuts == c_cap < 1 /\ 1 <= wire
  <1>1. CASE cuts
    <2>1. CutsGtp
      BY <1>1
      DEF CutsGtp, Truncations, Alike, C!decode_gtpu_inner, C!need,
          C!FinishGtp, C!NoL3, C!span
    <2> QED BY <2>1 DEF Outcome
  <1>2. CASE ~cuts
    <2>1. Alike'
      BY <1>2
      DEF Alike, IInv, OuterShape, decode_gtpu_inner, C!decode_gtpu_inner,
          need, C!need, FinishGtp, C!FinishGtp, NoL3, C!NoL3, span, C!span,
          decode_is_gtpu_port, L3Info
    <2> QED BY <2>1 DEF Outcome
  <1> QED BY <1>1, <1>2

\* The calls read the verdict on a user packet.
LEMMA InnerDonePair ==
    ASSUME IInv, Alike, inner_done, C!inner_done
    PROVE  Outcome
  <1> USE PairFacts, HeaderLens, FieldLens
  <1>1. Alike'
    BY DEF Alike, IInv, OuterShape, inner_done, C!inner_done, FinishGtp,
        C!FinishGtp, inner_reason, C!inner_reason, decode_is_gtpu_port,
        C!decode_is_gtpu_port, span, C!span, L3Info
  <1> QED BY <1>1 DEF Outcome

-----------------------------------------------------------------------------
\* What the packet's link and IP headers are found to be is never taken back.
OuterGrows ==
    LET p == l3["outer"] q == l3'["outer"] IN
    /\ l2.has_l2 = 1 => l2' = l2
    /\ l2.vlan_count <= l2'.vlan_count
    /\ p.has_l3 = 1 => q.has_l3 = 1 /\ q.ip_version = p.ip_version
    /\ p.ip_proto # "none" => q.ip_proto = p.ip_proto /\ q.frag = p.frag

\* Every step of a call adds to the outer headers or leaves them alone.
LEMMA OuterStep ==
    ASSUME IInv, Step
    PROVE  OuterGrows
  <1> USE TypeParts, FieldLimits DEF IInv
  <1> USE DEF OuterGrows, OuterShape, ProtoShape, PlaceOK, RecordsOK, L2Info, L3Info
  <1>1. ASSUME NEW type \in EtherTypes, ethernet(type)
        PROVE  OuterGrows
    BY <1>1 DEF ethernet
  <1>2. ASSUME NEW type \in EtherTypes, vlan_tag(type)
        PROVE  OuterGrows
    BY <1>2 DEF vlan_tag
  <1>3. CASE dispatch
    BY <1>3 DEF dispatch
  <1>4. ASSUME NEW version \in Versions, NEW hlen \in HdrLens, NEW len \in Len16,
             NEW frag \in frag_kind, NEW proto \in NextHdr,
             decode_ipv4(version, hlen, len, frag, proto)
        PROVE  OuterGrows
    BY <1>4 DEF decode_ipv4, Return
  <1>5. ASSUME NEW version \in Versions, NEW payload \in Len16, NEW type \in NextHdr,
             decode_ipv6(version, payload, type)
        PROVE  OuterGrows
    BY <1>5 DEF decode_ipv6
  <1>6. ASSUME NEW kind \in frag_kind, NEW type \in NextHdr,
             ipv6_fragment(kind, type)
        PROVE  OuterGrows
    BY <1>6 DEF ipv6_fragment, Return, frag_kind
  <1>7. ASSUME NEW len \in Ext6Lens, NEW type \in NextHdr,
             ipv6_extension(len, type)
        PROVE  OuterGrows
    BY <1>7 DEF ipv6_extension
  <1>8. CASE ipv6_chain_end
    BY <1>8 DEF ipv6_chain_end
  <1>9. ASSUME NEW hlen \in HdrLens, NEW port \in Flag,
             decode_tcp(hlen, port)
        PROVE  OuterGrows
    BY <1>9 DEF decode_tcp
  <1>10. ASSUME NEW ulen \in Len16, NEW port \in Flag,
              decode_udp(ulen, port)
         PROVE  OuterGrows
    BY <1>10 DEF decode_udp
  <1>11. CASE decode_icmp
    BY <1>11 DEF decode_icmp
  <1>12. CASE decode_other_l4
    BY <1>12 DEF decode_other_l4
  <1>13. CASE outer_done
    BY <1>13 DEF outer_done
  <1>14. ASSUME NEW v1u \in Flag, NEW flags \in {"none", "E", "SPN"},
              NEW msg \in GtpMsgTypes, NEW len \in Len16,
              decode_gtpu(v1u, flags, msg, len)
         PROVE  OuterGrows
    BY <1>14 DEF decode_gtpu
  <1>15. ASSUME NEW type \in Flag, gtpu_optional(type)
         PROVE  OuterGrows
    BY <1>15 DEF gtpu_optional
  <1>16. ASSUME NEW elen \in ExtGLens, NEW type \in Flag,
              gtpu_extension(elen, type)
         PROVE  OuterGrows
    BY <1>16 DEF gtpu_extension
  <1>17. CASE gtpu_headers_done
    BY <1>17 DEF gtpu_headers_done
  <1>18. ASSUME NEW nibble \in Versions, decode_gtpu_inner(nibble)
         PROVE  OuterGrows
    BY <1>18 DEF decode_gtpu_inner
  <1>19. CASE inner_done
    BY <1>19 DEF inner_done
  <1> QED
    BY <1>1, <1>2, <1>3, <1>4, <1>5, <1>6, <1>7, <1>8, <1>9, <1>10, <1>11, <1>12,
       <1>13, <1>14, <1>15, <1>16, <1>17, <1>18, <1>19
    DEF Step

\* The mandatory header tells nothing of what the others will.
LEMMA GtpuStep ==
    ASSUME gtp \in GtpInfo,
           NEW v1u \in Flag, NEW flags \in {"none", "E", "SPN"},
           NEW msg \in GtpMsgTypes, NEW len \in Len16,
           decode_gtpu(v1u, flags, msg, len)
    PROVE  gtp'.is_gtpu = gtp.is_gtpu /\ gtp'.ext_count = gtp.ext_count
  <1>1. \/ gtp' = gtp
        \/ gtp' = [gtp EXCEPT !.v1u = 1, !.flags = flags, !.msg_type = msg]
    BY DEF decode_gtpu
  <1> QED BY <1>1 DEF GtpInfo

\* Every step in a tunnel adds to its headers or leaves them alone.
LEMMA TunnelStep ==
    ASSUME IInv, ExtsCounted, Step, gtp.is_gtpu = 1
    PROVE  PartOfHeaders(gtp, gtp')
  <1> USE FieldLimits DEF IInv, TypeOK, ExtsCounted, TunnelShape, PartOfHeaders
  <1> USE DEF GtpInfo, Flag
  <1>1. ASSUME NEW type \in EtherTypes, ethernet(type)
        PROVE  PartOfHeaders(gtp, gtp')
    BY <1>1 DEF ethernet
  <1>2. ASSUME NEW type \in EtherTypes, vlan_tag(type)
        PROVE  PartOfHeaders(gtp, gtp')
    BY <1>2 DEF vlan_tag
  <1>3. CASE dispatch
    BY <1>3 DEF dispatch
  <1>4. ASSUME NEW version \in Versions, NEW hlen \in HdrLens, NEW len \in Len16,
             NEW frag \in frag_kind, NEW proto \in NextHdr,
             decode_ipv4(version, hlen, len, frag, proto)
        PROVE  PartOfHeaders(gtp, gtp')
    BY <1>4 DEF decode_ipv4
  <1>5. ASSUME NEW version \in Versions, NEW payload \in Len16, NEW type \in NextHdr,
             decode_ipv6(version, payload, type)
        PROVE  PartOfHeaders(gtp, gtp')
    BY <1>5 DEF decode_ipv6
  <1>6. ASSUME NEW kind \in frag_kind, NEW type \in NextHdr,
             ipv6_fragment(kind, type)
        PROVE  PartOfHeaders(gtp, gtp')
    BY <1>6 DEF ipv6_fragment
  <1>7. ASSUME NEW len \in Ext6Lens, NEW type \in NextHdr,
             ipv6_extension(len, type)
        PROVE  PartOfHeaders(gtp, gtp')
    BY <1>7 DEF ipv6_extension
  <1>8. CASE ipv6_chain_end
    BY <1>8 DEF ipv6_chain_end
  <1>9. ASSUME NEW hlen \in HdrLens, NEW port \in Flag,
             decode_tcp(hlen, port)
        PROVE  PartOfHeaders(gtp, gtp')
    BY <1>9 DEF decode_tcp
  <1>10. ASSUME NEW ulen \in Len16, NEW port \in Flag,
              decode_udp(ulen, port)
         PROVE  PartOfHeaders(gtp, gtp')
    BY <1>10 DEF decode_udp
  <1>11. CASE decode_icmp
    BY <1>11 DEF decode_icmp
  <1>12. CASE decode_other_l4
    BY <1>12 DEF decode_other_l4
  <1>13. CASE outer_done
    BY <1>13 DEF outer_done
  <1>14. ASSUME NEW v1u \in Flag, NEW flags \in {"none", "E", "SPN"},
              NEW msg \in GtpMsgTypes, NEW len \in Len16,
              decode_gtpu(v1u, flags, msg, len)
         PROVE  PartOfHeaders(gtp, gtp')
    <2>1. pc = "gtpu" /\ gtp.v1u = 0 /\ gtp.msg_ok = 0 /\ gtp.ext_count = 0
      BY <1>14 DEF decode_gtpu
    <2>2. gtp'.is_gtpu = 1 /\ gtp'.ext_count = 0
      BY <1>14, <2>1, GtpuStep
    <2> QED BY <2>1, <2>2
  <1>15. ASSUME NEW type \in Flag, gtpu_optional(type)
         PROVE  PartOfHeaders(gtp, gtp')
    BY <1>15 DEF gtpu_optional
  <1>16. ASSUME NEW elen \in ExtGLens, NEW type \in Flag,
              gtpu_extension(elen, type)
         PROVE  PartOfHeaders(gtp, gtp')
    BY <1>16 DEF gtpu_extension
  <1>17. CASE gtpu_headers_done
    BY <1>17 DEF gtpu_headers_done
  <1>18. ASSUME NEW nibble \in Versions, decode_gtpu_inner(nibble)
         PROVE  PartOfHeaders(gtp, gtp')
    BY <1>18 DEF decode_gtpu_inner
  <1>19. CASE inner_done
    BY <1>19 DEF inner_done
  <1> QED
    BY <1>1, <1>2, <1>3, <1>4, <1>5, <1>6, <1>7, <1>8, <1>9, <1>10, <1>11, <1>12,
       <1>13, <1>14, <1>15, <1>16, <1>17, <1>18, <1>19
    DEF Step

\* A user packet once seen is still there when the call returns.
LEMMA InnerSeenStep ==
    ASSUME IInv, Step, InnerSeen
    PROVE  InnerSeen'
  <1> USE DEF IInv, TypeOK, InnerSeen, Steps, L3Info
  <1>1. ASSUME NEW type \in EtherTypes, ethernet(type)
        PROVE  InnerSeen'
    BY <1>1 DEF ethernet
  <1>2. ASSUME NEW type \in EtherTypes, vlan_tag(type)
        PROVE  InnerSeen'
    BY <1>2 DEF vlan_tag
  <1>3. CASE dispatch
    BY <1>3 DEF dispatch
  <1>4. ASSUME NEW version \in Versions, NEW hlen \in HdrLens, NEW len \in Len16,
             NEW frag \in frag_kind, NEW proto \in NextHdr,
             decode_ipv4(version, hlen, len, frag, proto)
        PROVE  InnerSeen'
    BY <1>4 DEF decode_ipv4
  <1>5. ASSUME NEW version \in Versions, NEW payload \in Len16, NEW type \in NextHdr,
             decode_ipv6(version, payload, type)
        PROVE  InnerSeen'
    BY <1>5 DEF decode_ipv6
  <1>6. ASSUME NEW kind \in frag_kind, NEW type \in NextHdr,
             ipv6_fragment(kind, type)
        PROVE  InnerSeen'
    BY <1>6 DEF ipv6_fragment, Return
  <1>7. ASSUME NEW len \in Ext6Lens, NEW type \in NextHdr,
             ipv6_extension(len, type)
        PROVE  InnerSeen'
    BY <1>7 DEF ipv6_extension, Return
  <1>8. CASE ipv6_chain_end
    BY <1>8 DEF ipv6_chain_end
  <1>9. ASSUME NEW hlen \in HdrLens, NEW port \in Flag,
             decode_tcp(hlen, port)
        PROVE  InnerSeen'
    BY <1>9 DEF decode_tcp, Return
  <1>10. ASSUME NEW ulen \in Len16, NEW port \in Flag,
              decode_udp(ulen, port)
         PROVE  InnerSeen'
    BY <1>10 DEF decode_udp, Return
  <1>11. CASE decode_icmp
    BY <1>11 DEF decode_icmp, Return
  <1>12. CASE decode_other_l4
    BY <1>12 DEF decode_other_l4, Return
  <1>13. CASE outer_done
    BY <1>13 DEF outer_done
  <1>14. ASSUME NEW v1u \in Flag, NEW flags \in {"none", "E", "SPN"},
              NEW msg \in GtpMsgTypes, NEW len \in Len16,
              decode_gtpu(v1u, flags, msg, len)
         PROVE  InnerSeen'
    <2>1. pc = "gtpu" /\ gtp.v1u = 0 /\ gtp.msg_ok = 0 /\ gtp.ext_count = 0
      BY <1>14 DEF decode_gtpu
    <2>2. gtp'.is_gtpu = 1 /\ gtp'.ext_count = 0
      BY <1>14, <2>1, GtpuStep
    <2> QED BY <2>1, <2>2
  <1>15. ASSUME NEW type \in Flag, gtpu_optional(type)
         PROVE  InnerSeen'
    BY <1>15 DEF gtpu_optional
  <1>16. ASSUME NEW elen \in ExtGLens, NEW type \in Flag,
              gtpu_extension(elen, type)
         PROVE  InnerSeen'
    BY <1>16 DEF gtpu_extension
  <1>17. CASE gtpu_headers_done
    BY <1>17 DEF gtpu_headers_done
  <1>18. ASSUME NEW nibble \in Versions, decode_gtpu_inner(nibble)
         PROVE  InnerSeen'
    BY <1>18 DEF decode_gtpu_inner
  <1>19. CASE inner_done
    BY <1>19 DEF inner_done, FinishGtp, GtpInfo
  <1> QED
    BY <1>1, <1>2, <1>3, <1>4, <1>5, <1>6, <1>7, <1>8, <1>9, <1>10, <1>11, <1>12,
       <1>13, <1>14, <1>15, <1>16, <1>17, <1>18, <1>19
    DEF Step

\* The count of GTP-U extension headers is that of the turns.
LEMMA CountedStep ==
    ASSUME IInv, ExtsCounted, Step
    PROVE  ExtsCounted'
  <1> USE FieldLimits DEF IInv, TypeOK, ExtsCounted, TunnelShape
  <1>1. ASSUME NEW type \in EtherTypes, ethernet(type)
        PROVE  ExtsCounted'
    BY <1>1 DEF ethernet, Finish
  <1>2. ASSUME NEW type \in EtherTypes, vlan_tag(type)
        PROVE  ExtsCounted'
    BY <1>2 DEF vlan_tag, Finish
  <1>3. CASE dispatch
    BY <1>3 DEF dispatch
  <1>4. ASSUME NEW version \in Versions, NEW hlen \in HdrLens, NEW len \in Len16,
             NEW frag \in frag_kind, NEW proto \in NextHdr,
             decode_ipv4(version, hlen, len, frag, proto)
        PROVE  ExtsCounted'
    BY <1>4 DEF decode_ipv4, Return
  <1>5. ASSUME NEW version \in Versions, NEW payload \in Len16, NEW type \in NextHdr,
             decode_ipv6(version, payload, type)
        PROVE  ExtsCounted'
    BY <1>5 DEF decode_ipv6, Return
  <1>6. ASSUME NEW kind \in frag_kind, NEW type \in NextHdr,
             ipv6_fragment(kind, type)
        PROVE  ExtsCounted'
    BY <1>6 DEF ipv6_fragment, Return
  <1>7. ASSUME NEW len \in Ext6Lens, NEW type \in NextHdr,
             ipv6_extension(len, type)
        PROVE  ExtsCounted'
    BY <1>7 DEF ipv6_extension, Return
  <1>8. CASE ipv6_chain_end
    BY <1>8 DEF ipv6_chain_end
  <1>9. ASSUME NEW hlen \in HdrLens, NEW port \in Flag,
             decode_tcp(hlen, port)
        PROVE  ExtsCounted'
    BY <1>9 DEF decode_tcp, Return
  <1>10. ASSUME NEW ulen \in Len16, NEW port \in Flag,
              decode_udp(ulen, port)
         PROVE  ExtsCounted'
    BY <1>10 DEF decode_udp, Return
  <1>11. CASE decode_icmp
    BY <1>11 DEF decode_icmp, Return
  <1>12. CASE decode_other_l4
    BY <1>12 DEF decode_other_l4, Return
  <1>13. CASE outer_done
    BY <1>13 DEF outer_done
  <1>14. ASSUME NEW v1u \in Flag, NEW flags \in {"none", "E", "SPN"},
              NEW msg \in GtpMsgTypes, NEW len \in Len16,
              decode_gtpu(v1u, flags, msg, len)
         PROVE  ExtsCounted'
    <2>1. pc = "gtpu" /\ gtp.ext_count = 0
      BY <1>14 DEF decode_gtpu
    <2>2. gtp'.ext_count = 0
      BY <1>14, <2>1, GtpuStep
    <2>3. pc' \in {"gtpopt", "gtpext"} => hops' = 0
      BY <1>14 DEF decode_gtpu, FinishGtp
    <2> QED BY <2>2, <2>3
  <1>15. ASSUME NEW type \in Flag, gtpu_optional(type)
         PROVE  ExtsCounted'
    BY <1>15 DEF gtpu_optional, FinishGtp
  <1>16. ASSUME NEW elen \in ExtGLens, NEW type \in Flag,
              gtpu_extension(elen, type)
         PROVE  ExtsCounted'
    BY <1>16 DEF gtpu_extension, FinishGtp, GtpInfo
  <1>17. CASE gtpu_headers_done
    BY <1>17 DEF gtpu_headers_done, FinishGtp, GtpInfo
  <1>18. ASSUME NEW nibble \in Versions, decode_gtpu_inner(nibble)
         PROVE  ExtsCounted'
    BY <1>18 DEF decode_gtpu_inner, FinishGtp
  <1>19. CASE inner_done
    BY <1>19 DEF inner_done, FinishGtp
  <1> QED
    BY <1>1, <1>2, <1>3, <1>4, <1>5, <1>6, <1>7, <1>8, <1>9, <1>10, <1>11, <1>12,
       <1>13, <1>14, <1>15, <1>16, <1>17, <1>18, <1>19
    DEF Step

-----------------------------------------------------------------------------
\* A step of a call begins and ends in the call.
LEMMA StepDecodes == Step => Decoding
  BY DEF Step, Decoding, ethernet, vlan_tag, dispatch, decode_ipv4, decode_ipv6,
     ipv6_fragment, ipv6_extension, ipv6_chain_end, decode_tcp, decode_udp,
     decode_icmp, decode_other_l4, outer_done, decode_gtpu, gtpu_optional,
     gtpu_extension, gtpu_headers_done, decode_gtpu_inner, inner_done

\* A call that waits to return an IP decoder's verdict can only return it.
LEMMA CutReturns ==
    ASSUME C!Step, c_pc \in {"ipdone", "idle"}
    PROVE  C!outer_done \/ C!inner_done
  BY DEF C!Step, C!ethernet, C!vlan_tag, C!dispatch, C!decode_ipv4, C!decode_ipv6,
     C!ipv6_fragment, C!ipv6_extension, C!ipv6_chain_end, C!decode_tcp, C!decode_udp,
     C!decode_icmp, C!decode_other_l4, C!decode_gtpu, C!gtpu_optional,
     C!gtpu_extension, C!gtpu_headers_done, C!decode_gtpu_inner

\* Two calls that read the same header each take a step.
LEMMA SameSteps ==
    ASSUME SameHeader \/ same_fragment_header
    PROVE  Step /\ C!Step
  <1> DEFINE Both == Step /\ C!Step
  <1> USE DEF Step, C!Step
  <1>1. /\ C!EtherTypes = EtherTypes /\ C!Versions = Versions /\ C!NextHdr = NextHdr
        /\ C!Flag = Flag /\ C!frag_kind = frag_kind
    BY DEF EtherTypes, C!EtherTypes, Versions, C!Versions, NextHdr, C!NextHdr, Ext6,
       C!Ext6, L4Proto, C!L4Proto, KnownL4, C!KnownL4, Flag, C!Flag, frag_kind, C!frag_kind
  <1>2. ASSUME NEW type \in EtherTypes,
               ethernet(type), C!ethernet(type)
        PROVE  Both
    BY <1>1, <1>2
  <1>3. ASSUME NEW type \in EtherTypes,
               vlan_tag(type), C!vlan_tag(type)
        PROVE  Both
    BY <1>1, <1>3
  <1>4. ASSUME dispatch, C!dispatch
        PROVE  Both
    BY <1>1, <1>4
  <1>5. ASSUME NEW version \in Versions, NEW hlen \in HdrLens, NEW len \in Len16,
               NEW frag \in frag_kind, NEW proto \in NextHdr,
               decode_ipv4(version, hlen, len, frag, proto),
               C!decode_ipv4(version, hlen, len, frag, proto)
        PROVE  Both
    <2>1. pc = "ip4" /\ c_pc = "ip4"
      BY <1>5 DEF decode_ipv4, C!decode_ipv4
    <2> QED BY <1>1, <2>1, <1>5
  <1>6. ASSUME NEW version \in Versions, NEW payload \in Len16, NEW type \in NextHdr,
               decode_ipv6(version, payload, type), C!decode_ipv6(version, payload, type)
        PROVE  Both
    <2>1. pc = "ip6" /\ c_pc = "ip6"
      BY <1>6 DEF decode_ipv6, C!decode_ipv6
    <2> QED BY <1>1, <2>1, <1>6
  <1>7. ASSUME NEW kind \in frag_kind, NEW type \in NextHdr,
               ipv6_fragment(kind, type), C!ipv6_fragment(kind, type)
        PROVE  Both
    BY <1>1, <1>7
  <1>8. ASSUME NEW len \in Ext6Lens, NEW type \in NextHdr,
               ipv6_extension(len, type), C!ipv6_extension(len, type)
        PROVE  Both
    BY <1>1, <1>8
  <1>9. ASSUME ipv6_chain_end, C!ipv6_chain_end
        PROVE  Both
    BY <1>1, <1>9
  <1>10. ASSUME NEW hlen \in HdrLens, NEW port \in Flag,
                decode_tcp(hlen, port), C!decode_tcp(hlen, port)
         PROVE  Both
    BY <1>1, <1>10
  <1>11. ASSUME NEW ulen \in Len16, NEW port \in Flag,
                decode_udp(ulen, port), C!decode_udp(ulen, port)
         PROVE  Both
    BY <1>1, <1>11
  <1>12. ASSUME decode_icmp, C!decode_icmp
         PROVE  Both
    BY <1>1, <1>12
  <1>13. ASSUME decode_other_l4, C!decode_other_l4
         PROVE  Both
    BY <1>1, <1>13
  <1>14. ASSUME outer_done, C!outer_done
         PROVE  Both
    BY <1>1, <1>14
  <1>15. ASSUME NEW v1u \in Flag, NEW flags \in {"none", "E", "SPN"},
                NEW msg \in GtpMsgTypes, NEW len \in Len16,
                decode_gtpu(v1u, flags, msg, len), C!decode_gtpu(v1u, flags, msg, len)
         PROVE  Both
    BY <1>1, <1>15
  <1>16. ASSUME NEW type \in Flag,
                gtpu_optional(type), C!gtpu_optional(type)
         PROVE  Both
    BY <1>1, <1>16
  <1>17. ASSUME NEW elen \in ExtGLens, NEW type \in Flag,
                gtpu_extension(elen, type), C!gtpu_extension(elen, type)
         PROVE  Both
    BY <1>1, <1>17
  <1>18. ASSUME gtpu_headers_done, C!gtpu_headers_done
         PROVE  Both
    BY <1>1, <1>18
  <1>19. ASSUME NEW nibble \in Versions,
                decode_gtpu_inner(nibble), C!decode_gtpu_inner(nibble)
         PROVE  Both
    BY <1>1, <1>19
  <1>20. ASSUME inner_done, C!inner_done
         PROVE  Both
    BY <1>1, <1>20
  <1> HIDE DEF Both, Step, C!Step
  <1>21. Both
    BY <1>2, <1>3, <1>4, <1>5, <1>6, <1>7, <1>8, <1>9, <1>10, <1>11, <1>12,
       <1>13, <1>14, <1>15, <1>16, <1>17, <1>18, <1>19, <1>20
    DEF SameHeader, same_fragment_header
  <1> QED BY <1>21 DEF Both

\* Two calls that are alike stay so, or the shorter capture ends.
LEMMA PairStep ==
    ASSUME IInv, Alike, SameHeader \/ same_fragment_header
    PROVE  Outcome
  BY EthernetPair, VlanPair, DispatchPair, Ipv4Pair, Ipv6Pair, FragmentPair,
     ExtensionPair, ChainEndPair, TcpPair, UdpPair, IcmpPair, OtherPair, OuterDonePair,
     GtpuPair, OptionalPair, GtpExtensionPair, HeadersDonePair, InnerPair, InnerDonePair
  DEF SameHeader, same_fragment_header

\* Where the shorter capture ends, its call knows a part of what the other does.
LEMMA CutStep ==
    ASSUME IInv, ExtsCounted, Step, CutsFrame \/ CutsIp \/ CutsGtp
    PROVE  OuterCut' \/ TunnelCut'
  <1>1. /\ gtp \in GtpInfo /\ l3 \in [{"outer", "inner"} -> L3Info]
        /\ l2 \in L2Info /\ lvl \in {"outer", "inner"}
    BY DEF IInv, TypeOK
  <1>2. OuterGrows
    BY OuterStep
  <1>3. CASE gtp.is_gtpu = 0
    <2>1. gtp = NoGtp
      BY <1>3 DEF IInv, TunnelShape
    <2>2. ~CutsGtp /\ (CutsIp => lvl = "outer")
      BY <1>1, <1>3 DEF CutsGtp, CutsIp, IInv, TunnelShape
    <2>3. CASE CutsFrame
      <3>1. PartOfOuter'
        BY <1>1, <1>2, <2>3 DEF PartOfOuter, OuterGrows, CutsFrame
      <3> QED BY <1>1, <2>1, <2>3, <3>1 DEF CutsFrame, OuterCut
    <2>4. CASE CutsIp
      <3>1. PICK port \in Flag : c_l3' = [l3 EXCEPT !["outer"].gtp_port = port]
        BY <2>2, <2>4 DEF CutsIp
      <3>2. /\ c_l3'["outer"].has_l3 = l3["outer"].has_l3
            /\ c_l3'["outer"].ip_version = l3["outer"].ip_version
            /\ c_l3'["outer"].ip_proto = l3["outer"].ip_proto
            /\ c_l3'["outer"].frag = l3["outer"].frag
        BY <1>1, <3>1 DEF L3Info
      <3>3. c_l2' = l2
        BY <2>4 DEF CutsIp
      <3>4. PartOfOuter'
        BY <1>1, <1>2, <3>2, <3>3 DEF PartOfOuter, OuterGrows, L2Info
      <3> QED BY <1>1, <2>1, <2>2, <2>4, <3>4 DEF CutsIp, OuterCut
    <2> QED BY <2>2, <2>3, <2>4
  <1>4. CASE gtp.is_gtpu = 1
    <2>1. /\ ~CutsFrame /\ (CutsIp => lvl = "inner") /\ status = "OK"
          /\ gtp.has_inner = 0 /\ gtp.inner_has_l4 = 0
      BY <1>4, StepDecodes DEF CutsFrame, CutsIp, IInv, TunnelShape, Decoding
    <2>2. UNCHANGED <<status, l2>> /\ l3'["outer"] = l3["outer"]
      BY <1>4, StepDecodes, FrozenNext DEF Frozen, Next
    <2>3. PartOfHeaders(gtp, gtp')
      BY <1>4, TunnelStep
    <2>4. CASE CutsGtp
      BY <1>1, <2>1, <2>2, <2>3, <2>4 DEF CutsGtp, TunnelCut
    <2>5. CASE CutsIp
      <3>1. PICK port \in Flag : c_l3' = [l3 EXCEPT !["inner"].gtp_port = port]
        BY <2>1, <2>5 DEF CutsIp
      <3>2. /\ c_l3'["outer"] = l3["outer"] /\ c_l3'["inner"] \in L3Info
            /\ c_l3'["inner"].has_l3 = l3["inner"].has_l3
            /\ c_l3'["inner"].has_l4 = l3["inner"].has_l4
        BY <1>1, <3>1 DEF L3Info
      <3>3. l3["inner"].has_l4 = 0
        BY <2>1, <2>5 DEF CutsIp, IInv, TunnelShape
      <3>4. l3["inner"].has_l3 = 1 => InnerSeen
        <4>1. pc \in {"ip4", "ip6"} => l3["inner"].has_l3 = 0
          BY <2>1, <2>5 DEF IInv, TunnelShape
        <4>2. pc \in {"ip4", "ip6", "ext6", "l4"} /\ lvl = "inner"
          BY <2>1, <2>5 DEF CutsIp
        <4> QED BY <4>1, <4>2 DEF InnerSeen
      <3>5. l3["inner"].has_l3 = 1 => InnerSeen'
        BY <3>4, InnerSeenStep
      <3> QED BY <1>1, <2>1, <2>2, <2>3, <2>5, <3>2, <3>3, <3>5 DEF CutsIp, TunnelCut
    <2> QED BY <2>1, <2>4, <2>5
  <1> QED BY <1>1, <1>3, <1>4 DEF GtpInfo, Flag

\* The shorter call returns the truncation that an IP decoder of the packet found.
LEMMA OuterVerdict ==
    ASSUME C!Step, OuterCut
    PROVE  /\ c_pc' = "idle" /\ c_status' \in Truncations
           /\ c_l2' = c_l2 /\ c_l3' = c_l3 /\ c_gtp' = c_gtp
  <1>1. C!outer_done \/ C!inner_done
    BY CutReturns DEF OuterCut
  <1>2. C!outer_done /\ c_ret \in Truncations
    BY <1>1 DEF OuterCut, C!outer_done, C!inner_done
  <1>3. c_ret # "OK"
    BY <1>2 DEF Truncations
  <1> QED BY <1>2, <1>3 DEF C!outer_done

\* It returns the one that an IP decoder of the user packet found as that of the
\* tunnel, with what was valid of the user packet.
LEMMA TunnelVerdict ==
    ASSUME C!Step, TunnelCut
    PROVE  /\ c_pc' = "idle" /\ c_gtp_status' \in Truncations
           /\ c_status' = c_status /\ c_l2' = c_l2 /\ c_l3' = c_l3
           /\ c_gtp' \in GtpInfo /\ c_gtp'.inner_has_l4 = 0
           /\ c_gtp'.has_inner = 1 => InnerSeen
           /\ PartOfHeaders(c_gtp', gtp)
  <1>1. C!outer_done \/ C!inner_done
    BY CutReturns DEF TunnelCut
  <1>2. /\ C!inner_done /\ c_ret \in Truncations
        /\ c_l3["inner"] \in L3Info /\ c_l3["inner"].has_l4 = 0
        /\ c_l3["inner"].has_l3 = 1 => InnerSeen
        /\ c_gtp \in GtpInfo /\ PartOfHeaders(c_gtp, gtp)
    BY <1>1 DEF TunnelCut, C!outer_done, C!inner_done
  <1>3. /\ c_pc' = "idle" /\ c_gtp_status' = c_ret
        /\ c_status' = c_status /\ c_l2' = c_l2 /\ c_l3' = c_l3
    BY <1>2 DEF C!inner_done, C!FinishGtp, C!inner_reason, Truncations
  <1>4. PICK n \in Flag : c_gtp' = [c_gtp EXCEPT !.has_inner = c_l3["inner"].has_l3,
                                                 !.inner_has_l4 = c_l3["inner"].has_l4,
                                                 !.nested = n]
    BY <1>2 DEF C!inner_done, Flag
  <1>5. /\ c_gtp' \in GtpInfo /\ c_gtp'.inner_has_l4 = 0
        /\ c_gtp'.has_inner = c_l3["inner"].has_l3
        /\ c_gtp'.v1u = c_gtp.v1u /\ c_gtp'.msg_type = c_gtp.msg_type
        /\ c_gtp'.msg_ok = c_gtp.msg_ok /\ c_gtp'.ext_count = c_gtp.ext_count
    BY <1>2, <1>4 DEF GtpInfo, L3Info
  <1> QED BY <1>2, <1>3, <1>5 DEF PartOfHeaders

\* Whichever call goes on, the shorter one knows a part of the packet.
LEMMA OuterCutStays ==
    ASSUME IInv, OuterCut, Step \/ UNCHANGED vars, C!Step \/ UNCHANGED cut_vars
    PROVE  OuterCut'
  <1>1. l2.vlan_count \in Nat /\ l2'.vlan_count \in Nat /\ c_l2.vlan_count \in Nat
    <2>1. l2 \in L2Info /\ l2' \in L2Info /\ c_l2 \in L2Info
      BY RecordsNext DEF IInv, TypeOK, OuterCut, RecordsOK, Next
    <2> QED BY <2>1, FieldLimits DEF L2Info
  <1>2. OuterGrows
    BY OuterStep, <1>1 DEF OuterGrows, vars
  <1>3. /\ c_l2' = c_l2 /\ c_l3' = c_l3 /\ c_gtp' = c_gtp
        /\ \/ c_pc' = "ipdone" /\ c_lvl' = "outer" /\ c_ret' \in Truncations
           \/ c_pc' = "idle" /\ c_status' \in Truncations
    BY OuterVerdict DEF OuterCut, cut_vars
  <1>4. PartOfOuter'
    BY <1>1, <1>2, <1>3 DEF OuterCut, PartOfOuter, OuterGrows
  <1> QED BY <1>3, <1>4 DEF OuterCut

\* Whichever call goes on, the shorter one knows a part of the tunnel.
LEMMA TunnelCutStays ==
    ASSUME IInv, ExtsCounted, TunnelCut,
           Step \/ UNCHANGED vars, C!Step \/ UNCHANGED cut_vars
    PROVE  TunnelCut'
  <1>1. /\ gtp \in GtpInfo /\ gtp.is_gtpu = 1
    BY DEF IInv, TypeOK, TunnelCut, PartOfHeaders
  <1>2. status' = status /\ l2' = l2 /\ l3'["outer"] = l3["outer"]
    BY <1>1, StepDecodes, FrozenNext DEF Frozen, Next, vars
  <1>3. PartOfHeaders(gtp, gtp')
    BY <1>1, FieldLimits, TunnelStep DEF PartOfHeaders, vars, GtpInfo
  <1>4. InnerSeen => InnerSeen'
    BY InnerSeenStep DEF InnerSeen, vars
  <1>5. /\ c_status' = c_status /\ c_l2' = c_l2 /\ c_l3' = c_l3
        /\ c_gtp' \in GtpInfo /\ PartOfHeaders(c_gtp', gtp)
    BY TunnelVerdict DEF TunnelCut, cut_vars
  <1>6. PartOfHeaders(c_gtp', gtp')
    <2>1. gtp' \in GtpInfo
      BY RecordsNext DEF RecordsOK, Next
    <2> QED BY <1>1, <1>3, <1>5, <2>1, FieldLimits DEF PartOfHeaders, GtpInfo
  <1>7. \/ /\ c_pc' = "ipdone" /\ c_lvl' = "inner" /\ c_ret' \in Truncations
           /\ c_l3'["inner"] \in L3Info /\ c_l3'["inner"].has_l4 = 0
           /\ c_l3'["inner"].has_l3 = 1 => InnerSeen
        \/ /\ c_pc' = "idle" /\ c_gtp_status' \in Truncations
           /\ c_gtp'.inner_has_l4 = 0
           /\ c_gtp'.has_inner = 1 => InnerSeen
    BY TunnelVerdict DEF TunnelCut, cut_vars
  <1> QED BY <1>2, <1>4, <1>5, <1>6, <1>7 DEF TunnelCut

\* Every step of the two calls keeps their invariant.
LEMMA PairNextInv == PairInv /\ [PairNext]_<<vars, cut_vars>> => PairInv'
  <1> SUFFICES ASSUME PairInv, [PairNext]_<<vars, cut_vars>> PROVE PairInv'
    OBVIOUS
  <1> USE DEF PairInv
  <1>1. ASSUME NEW c \in FrameLens, NEW k \in FrameLens, NEW w \in FrameLens,
               decode_captures(c, k, w)
        PROVE  PairInv'
    <2>1. IInv'
      BY <1>1, InvNext DEF decode_captures, Next
    <2>2. c \in Nat /\ k \in Nat /\ w \in Nat
      BY FieldLens
    <2>3. Alike' /\ ExtsCounted'
      BY <1>1, <2>2 DEF decode_captures, decode_frame, C!decode_frame, Alike, ExtsCounted,
         NoL2, C!NoL2, NoL3, C!NoL3, NoGtp, C!NoGtp
    <2> QED BY <2>1, <2>3
  <1>2. CASE SameHeader \/ same_fragment_header
    <2>1. Step /\ C!Step
      BY <1>2, SameSteps
    <2>2. IInv' /\ ExtsCounted'
      BY <2>1, InvNext, CountedStep DEF Next
    <2>3. CASE Alike
      BY <1>2, <2>1, <2>2, <2>3, PairStep, CutStep DEF Outcome
    <2> QED BY <2>1, <2>2, <2>3, OuterCutStays, TunnelCutStays
  <1>3. CASE WholeGoesOn
    <2>1. Step /\ UNCHANGED cut_vars /\ ~Alike
      BY <1>3, StepDecodes DEF WholeGoesOn, Alike, Decoding
    <2>2. IInv' /\ ExtsCounted'
      BY <2>1, InvNext, CountedStep DEF Next
    <2> QED BY <2>1, <2>2, OuterCutStays, TunnelCutStays
  <1>4. CASE CutGoesOn
    <2>1. C!Step /\ UNCHANGED vars /\ ~Alike
      BY <1>4 DEF CutGoesOn, Alike
    <2>2. IInv' /\ ExtsCounted'
      BY <2>1, InvNext DEF ExtsCounted, vars
    <2> QED BY <2>1, <2>2, OuterCutStays, TunnelCutStays
  <1>5. CASE UNCHANGED <<vars, cut_vars>>
    <2>1. UNCHANGED vars /\ UNCHANGED cut_vars
      BY <1>5
    <2>2. IInv' /\ ExtsCounted'
      BY <2>1, InvNext DEF ExtsCounted, vars
    <2>3. CASE Alike
      <3>1. Alike'
        BY <2>1, <2>3 DEF Alike, vars, cut_vars
      <3> QED BY <2>2, <3>1
    <2> QED BY <2>1, <2>2, <2>3, OuterCutStays, TunnelCutStays
  <1> QED BY <1>1, <1>2, <1>3, <1>4, <1>5 DEF PairNext

\* The two calls know the same until the shorter capture ends, and the shorter one a
\* part of what the other knows from there on, in every pair of captures of a frame.
THEOREM PairInvariance == PairSpec => []PairInv
  <1>1. PairInit => PairInv
    <2> SUFFICES ASSUME PairInit PROVE PairInv
      OBVIOUS
    <2>1. IInv
      BY InitIInv DEF PairInit
    <2>2. Alike /\ ExtsCounted
      BY DEF PairInit, Init, C!Init, Alike, ExtsCounted, NoL2, C!NoL2, NoL3, C!NoL3,
         NoGtp, C!NoGtp
    <2> QED BY <2>1, <2>2 DEF PairInv
  <1> QED BY <1>1, PairNextInv, PTL DEF PairSpec

\* Nothing decode_frame() finds out depends on how much of the frame was captured
\* behind the headers it has read, for every frame and every two snapshot lengths.
THEOREM CapturesAgree == PairSpec => []SameUntilCut
  <1>1. PairInv => SameUntilCut
    BY DEF PairInv, Alike, OuterCut, TunnelCut, SameUntilCut, CutDecoding,
       decode_status_is_truncation
  <1> QED BY <1>1, PairInvariance, PTL

\* A shorter capture can only turn a verdict into a truncation, and never makes up
\* a layer, for every frame and every two snapshot lengths.
THEOREM CutsOnlyTruncate == PairSpec => []CutOnlyTruncates
  <1>1. PairInv => CutOnlyTruncates
    <2> SUFFICES ASSUME PairInv, pc = "idle", c_pc = "idle" PROVE CutOnlyTruncates
      BY DEF CutOnlyTruncates
    <2> USE DEF CutOnlyTruncates, decode_status_is_truncation
    <2>1. CASE Alike
      BY <2>1 DEF Alike
    <2>2. CASE OuterCut
      BY <2>2 DEF OuterCut
    <2>3. CASE TunnelCut
      BY <2>3 DEF TunnelCut, PartOfTunnel, PartOfHeaders, InnerSeen
    <2> QED BY <2>1, <2>2, <2>3 DEF PairInv
  <1> QED BY <1>1, PairInvariance, PTL
=============================================================================
