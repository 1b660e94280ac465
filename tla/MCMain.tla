------------------------------- MODULE MCMain -------------------------------
(***************************************************************************)
(* The program on captures of up to two records, whole, cut, or with a bad *)
(* length or magic, with packets that end in either table, in both or in   *)
(* none, and with a few argument lists (Reports); and on an empty capture  *)
(* with all short argument lists (Arguments).                              *)
(***************************************************************************)
EXTENDS Main

MCTypes == {"gpdu", "echo_request", "other_type"}

\* A packet from address s to d, with its source port sp, at time ts.
Udp(s, d, sp, ts) ==
    [status |-> "OK", gtp_status |-> "OK",
     l2 |-> [has_l2 |-> 1, vlan_count |-> 0, ethertype |-> "ipv4"],
     l3 |-> [has_l3 |-> 1, has_l4 |-> 1, ip_version |-> 4, ip_proto |-> "udp",
             frag |-> "NONE", gtp_port |-> One(sp = GTPU_PORT)],
     gtp |-> NoGtp, seq |-> 0, inner_version |-> 0, inner_proto |-> "none",
     src |-> s, dst |-> d, src_port |-> sp, dst_port |-> 7, frag_id |-> 1,
     teid |-> 0, tcp_flags |-> {}, caplen |-> 1, wirelen |-> 2, ts |-> ts, dg |-> 0]

Tcp == [Udp(2, 1, 5, 23) EXCEPT !.l3.ip_proto = "tcp", !.tcp_flags = {"SYN", "ACK"}]
CutTcp == [Tcp EXCEPT !.status = "TRUNC_TCP", !.l3.has_l4 = 0, !.src_port = 0,
                      !.dst_port = 0, !.tcp_flags = {}]
Other == [CutTcp EXCEPT !.status = "OK", !.l3.ip_proto = "other"]
NotIp == [CutTcp EXCEPT !.status = "OK", !.l3 = NoL3, !.l2.ethertype = "other"]
Gpdu(s, d) == [Udp(s, d, GTPU_PORT, 12) EXCEPT
                 !.gtp.is_gtpu = 1, !.gtp.v1u = 1, !.gtp.msg_type = "gpdu",
                 !.gtp.msg_ok = 1, !.gtp.has_inner = 1, !.inner_version = 4,
                 !.inner_proto = "tcp", !.teid = 9]
FirstOfGtp == [Udp(1, 2, GTPU_PORT, 30) EXCEPT !.l3.frag = "FIRST"]

MCPackets == {Udp(1, 2, 5, 10), Tcp, CutTcp, Other, NotIp, Gpdu(1, 2), Gpdu(2, 1),
              FirstOfGtp}
MCSlotOf == [d \in {datagram(FirstOfGtp)} |-> 0]

CaptureFile(len, magic, caplen) ==
    [len |-> len, magic |-> magic, version |-> "2.4", linktype |-> "ethernet",
     caplen |-> [p \in PCAP_GLOBAL_HDR_LEN .. len |-> caplen]]

\* Records take PCAP_RECORD_HDR_LEN + 1 = 3 bytes each, after a header of 2.
Damaged == {CaptureFile(8, "pcap", 1), CaptureFile(7, "pcap", 1), CaptureFile(6, "pcap", 1),
            CaptureFile(8, "pcap", 3), CaptureFile(8, "pcapng", 1)}
Empty == CaptureFile(2, "pcap", 1)
MCFiles == Damaged \cup {Empty}

MCNames == {"cap", "flows", "tunnels", "0", "1", "9"}
MCNumberOf == [n \in {"0", "1", "9"} |-> IF n = "0" THEN 0 ELSE IF n = "1" THEN 1 ELSE 9]

\* Arguments for the reports; and every list of up to four words, with those of five
\* that name three files.
Reports == {<<"cap", "--csv", "flows", "--tunnels-csv", "tunnels">>,
            <<"-n", "1", "--csv", "flows", "cap">>}
Words == {"-h", "-n", "--csv", "--tunnels-csv", "-x", "0", "9", "cap", "flows"}
Arguments ==
    UNION {[1 .. n -> Words] : n \in 0 .. 4} \cup
    {<<"--csv", a, "--tunnels-csv", b, c>> : a, b, c \in {"cap", "flows", "tunnels"}}
MCArgs == Reports \cup Arguments

MCInit == MainInit /\ (file = Empty \/ argv \in Reports)
MCSpec == MCInit /\ [][MainNext]_allVars /\ Fairness
=============================================================================
