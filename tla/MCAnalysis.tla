----------------------------- MODULE MCAnalysis -----------------------------
(***************************************************************************)
(* Analysis on three kinds of small captures (see Captures below): one of  *)
(* each way a frame can end in the decoder and in the tables; fragments of *)
(* datagrams that reuse an IP identification or collide in a slot; and one *)
(* conversation whose packets are not in time order.                       *)
(***************************************************************************)
EXTENDS Analysis

MCTypes == {"gpdu", "echo_request", "echo_response", "error_indication",
            "end_marker", "other_type"}

\* A clean UDP packet from 1 to 2.
Udp == [status |-> "OK", gtp_status |-> "OK",
        l2 |-> [has_l2 |-> 1, vlan_count |-> 0, ethertype |-> "ipv4"],
        l3 |-> [has_l3 |-> 1, has_l4 |-> 1, ip_version |-> 4, ip_proto |-> "udp",
                frag |-> "NONE", gtp_port |-> 0],
        gtp |-> NoGtp, seq |-> 0, inner_version |-> 0, inner_proto |-> "none",
        src |-> 1, dst |-> 2, src_port |-> 5, dst_port |-> 7, frag_id |-> 0,
        teid |-> 0, tcp_flags |-> {}, caplen |-> 1, wirelen |-> 2, ts |-> 2, dg |-> 0]

NoPorts(p) == [p EXCEPT !.src_port = 0, !.dst_port = 0]
Reply(p) == [p EXCEPT !.src = p.dst, !.dst = p.src,
                      !.src_port = p.dst_port, !.dst_port = p.src_port, !.ts = 1]
V6(p) == [p EXCEPT !.l2.ethertype = "ipv6", !.l3.ip_version = 6]
Proto(p, proto) == NoPorts([p EXCEPT !.l3.ip_proto = proto])

\* Frames that fail: before, in and after the IP header.  Only the ports and flags of
\* a TCP or UDP header that is there but wrong are filled in.
NoIp(st) == NoPorts([Udp EXCEPT !.status = st, !.l3 = NoL3])
NoFrame(st) == [NoIp(st) EXCEPT !.l2 = NoL2]
NoL4(p, st) == NoPorts([p EXCEPT !.status = st, !.l3.has_l4 = 0])

Plain ==
    {Udp, Reply(Udp),
     [Udp EXCEPT !.dst = 1], Reply([Udp EXCEPT !.dst = 1]),
     [Udp EXCEPT !.l3.ip_proto = "tcp", !.tcp_flags = {"SYN"}, !.l2.vlan_count = 1],
     Proto(Udp, "icmp"), Proto(V6(Udp), "icmpv6"),
     NoL4(Proto(Udp, "other"), "OK"),
     [NoIp("OK") EXCEPT !.l2.ethertype = "other", !.ts = 3]}

Broken ==
    {NoFrame("TRUNC_ETHERNET"),
     [NoFrame("BAD_VLAN_DEPTH") EXCEPT !.l2.vlan_count = 1],
     NoIp("BAD_IPV4_IHL"), [NoIp("TRUNC_IPV6") EXCEPT !.l2.ethertype = "ipv6"],
     NoL4([Udp EXCEPT !.l3.ip_proto = "tcp"], "TRUNC_TCP"),
     [Udp EXCEPT !.status = "BAD_TCP_DOFF", !.l3.ip_proto = "tcp", !.l3.has_l4 = 0,
                 !.tcp_flags = {"FIN"}],
     NoL4(V6([Udp EXCEPT !.l3.ip_proto = "none"]), "BAD_IPV6_EXT"),
     NoL4(V6([Udp EXCEPT !.l3.ip_proto = "none"]), "TRUNC_IPV6_EXT")}

Gtp == [Udp EXCEPT !.src_port = GTPU_PORT, !.dst_port = GTPU_PORT, !.l3.gtp_port = 1,
                   !.gtp.is_gtpu = 1]
Message(type) == [Gtp EXCEPT !.gtp.v1u = 1, !.gtp.msg_type = type, !.gtp.msg_ok = 1,
                             !.teid = 9]
Gpdu(version, proto) ==
    [Message("gpdu") EXCEPT !.gtp.has_inner = 1, !.inner_version = version,
                            !.inner_proto = proto]

Tunnelled ==
    {Gpdu(4, "tcp"), Reply(Gpdu(6, "icmpv6")),
     [Gpdu(4, "udp") EXCEPT !.gtp.nested = 1, !.gtp.inner_has_l4 = 1, !.teid = 8],
     [Gpdu(6, "none") EXCEPT !.gtp_status = "BAD_IPV6_EXT"],
     [Message("gpdu") EXCEPT !.gtp_status = "TRUNC_IPV4", !.wirelen = 3, !.src_port = 6,
                             !.ts = 1],
     [Message("gpdu") EXCEPT !.gtp_status = "BAD_GTPU_EXT_LEN", !.gtp.msg_ok = 0,
                             !.gtp.flags = "E", !.gtp.ext_count = 1, !.seq = 1],
     Message("echo_request"), Message("other_type"),
     [Message("end_marker") EXCEPT !.gtp_status = "TRUNC_GTPU", !.gtp.msg_ok = 0,
                                   !.gtp.flags = "SPN", !.seq = 1],
     Gtp, [Gtp EXCEPT !.gtp_status = "TRUNC_GTPU"]}

\* Fragments: the first of a datagram dg has its ports, the others have none.
First(dg, id, port) == [Udp EXCEPT !.l3.frag = "FIRST", !.frag_id = id,
                                   !.src_port = port, !.dg = dg,
                                   !.l3.gtp_port = One(port = GTPU_PORT)]
Later(dg, id) == NoL4([Udp EXCEPT !.l3.frag = "LATER", !.frag_id = id, !.dg = dg], "OK")

Mixed == Plain \cup Broken \cup Tunnelled \cup {First(1, 1, GTPU_PORT), Later(1, 1)}

\* Datagrams 1 and 2 have the same identification; 3 shares their slot.
Fragments ==
    {First(1, 1, 5), Later(1, 1), First(2, 1, GTPU_PORT), Later(2, 1),
     First(3, 2, 6), Later(3, 2), First(4, 3, 5), Later(4, 3),
     [First(3, 2, 6) EXCEPT !.status = "BAD_UDP_LEN", !.l3.has_l4 = 0], Udp}

\* One TCP conversation at three instants, in both directions, and another one.
Segment(flags, ts) == [Udp EXCEPT !.l3.ip_proto = "tcp", !.tcp_flags = flags, !.ts = ts]
Talk == UNION {{Segment(f, t), [Reply(Segment(f, t)) EXCEPT !.ts = t]} :
                 f \in {{"SYN"}, {"ACK"}}, t \in 1 .. 3} \cup {[Udp EXCEPT !.wirelen = 5]}

MCPackets == Mixed \cup Fragments \cup Talk

MCSlotOf == [d \in {datagram(p) : p \in MCPackets} |-> IF d[3] = 3 THEN 1 ELSE 0]

-----------------------------------------------------------------------------
\* A capture is of one of three kinds.  Few records of every kind of packet, or
\* more records of packets that depend on each other.
VARIABLE kind

Captures == [mixed |-> [packets |-> Mixed, records |-> 3],
             fragments |-> [packets |-> Fragments, records |-> 4],
             talk |-> [packets |-> Talk, records |-> 4]]

MCInit == Init /\ kind \in DOMAIN Captures

MCNext ==
    /\ UNCHANGED kind
    /\ \/ analysis_init
       \/ /\ Len(log) < Captures[kind].records
          /\ \E p \in Captures[kind].packets : analysis_account(p)
       \/ \E st \in {"EOF", "ERR"} : run_ends(st)
       \/ analysis_free

MCSpec == MCInit /\ [][MCNext]_<<vars, kind>>
=============================================================================
