------------------------------- MODULE Stats -------------------------------
(***************************************************************************)
(* The capture-wide counters of src/src/stats.c, as functions of the       *)
(* counters so far and one decoded packet.  The C counters of one kind     *)
(* (per version, per protocol, per message type) form one function here.   *)
(*                                                                         *)
(* A packet is a packet_info (PacketInfo) with the fields that only the    *)
(* later stages look at: seq (the GTP-U S flag), inner_version and         *)
(* inner_proto, the addresses and ports, frag_id, teid, tcp_flags; and     *)
(* caplen, wirelen and ts of its record.                                   *)
(***************************************************************************)
EXTENDS PacketInfo

Versions == {4, 6}
One(b) == IF b THEN 1 ELSE 0

ZeroGtpu ==
    [packets |-> 0, fragmented |-> 0, not_v1u |-> 0,
     by_type |-> [t \in GtpMsgTypes |-> 0], with_seq |-> 0, with_ext |-> 0,
     inner_ip |-> [v \in Versions |-> 0], inner_l4 |-> [q \in L4Proto |-> 0],
     nested |-> 0, truncated |-> 0, malformed |-> 0,
     user_truncated |-> 0, user_malformed |-> 0,
     by_status |-> [st \in decode_status |-> 0]]

\* stats_init()
ZeroStats ==
    [packets |-> 0, wire_bytes |-> 0, captured_bytes |-> 0,
     first_ts |-> 0, last_ts |-> 0,
     ip |-> [v \in Versions |-> 0], non_ip |-> 0, vlan_tagged |-> 0,
     l4 |-> [q \in L4Proto |-> 0],
     frag_first |-> 0, frag_later |-> 0, frag_matched |-> 0,
     truncated |-> 0, malformed |-> 0,
     by_status |-> [st \in decode_status |-> 0], gtpu |-> ZeroGtpu]

\* The counter that an IP protocol number selects.
l4_counter(proto) == IF proto \in KnownL4 THEN proto ELSE "other"

is_malformation(st) == st # "OK" /\ ~decode_status_is_truncation(st)

-----------------------------------------------------------------------------
\* How a GTP-U message decoded, and whose fault it was.
count_verdict(g, pi) ==
    LET cut == decode_status_is_truncation(pi.gtp_status)
        bad == is_malformation(pi.gtp_status)
        user == pi.gtp.msg_ok = 1 IN
    [g EXCEPT !.packets = @ + 1,
              !.by_status[pi.gtp_status] = @ + 1,
              !.truncated = @ + One(cut), !.user_truncated = @ + One(cut /\ user),
              !.malformed = @ + One(bad), !.user_malformed = @ + One(bad /\ user)]

count_message(g, pi) ==
    [g EXCEPT !.by_type[pi.gtp.msg_type] = @ + 1,
              !.with_seq = @ + pi.seq,
              !.with_ext = @ + One(pi.gtp.ext_count > 0)]

\* The user packet; its transport is unknown if its extension chain is broken.
count_user(g, pi) ==
    LET known == pi.gtp_status \notin ChainReasons IN
    [g EXCEPT !.inner_ip[pi.inner_version] = @ + 1,
              !.inner_l4[l4_counter(pi.inner_proto)] = @ + One(known),
              !.nested = @ + One(known /\ pi.gtp.nested = 1)]

add_gtpu(g, pi) ==
    LET v == count_verdict(g, pi)
        m == count_message(v, pi) IN
    IF pi.l3.frag = "FIRST" /\ decode_is_gtpu_port(pi.l3)
      THEN [g EXCEPT !.fragmented = @ + 1]
    ELSE IF pi.gtp.is_gtpu = 0 THEN g
    ELSE IF pi.gtp.v1u = 0
      THEN [v EXCEPT !.not_v1u = @ + One(pi.gtp_status = "OK")]
    ELSE IF pi.gtp.has_inner = 0 THEN m
    ELSE count_user(m, pi)

-----------------------------------------------------------------------------
\* A valid L2 header with an ethertype that is not IP.  A broken IP header is not
\* "non-IP": it has been counted as truncated or malformed.
is_non_ip(pi) == pi.l2.has_l2 = 1 /\ pi.l2.ethertype \notin {"ipv4", "ipv6"}

\* Mutant: every packet with an IP header has a transport protocol to count.
transport_after_ip(pi) == TRUE

\* A packet with a broken extension chain never reached its transport header.
transport_known(pi) == pi.status \notin ChainReasons

\* Mutant: the timestamps start from zero, not from the first packet.
starts_span_never(s) == FALSE

starts_span(s) == s.packets = 0

\* Every frame, whatever its verdict.
count_frame(s, pi) ==
    [s EXCEPT !.first_ts = IF starts_span(s) \/ pi.ts < @ THEN pi.ts ELSE @,
              !.last_ts = IF starts_span(s) \/ pi.ts > @ THEN pi.ts ELSE @,
              !.packets = @ + 1,
              !.wire_bytes = @ + pi.wirelen,
              !.captured_bytes = @ + pi.caplen,
              !.by_status[pi.status] = @ + 1,
              !.truncated = @ + One(decode_status_is_truncation(pi.status)),
              !.malformed = @ + One(is_malformation(pi.status)),
              !.vlan_tagged = @ + One(pi.l2.vlan_count > 0),
              !.gtpu = add_gtpu(@, pi)]

count_ip(s, pi) ==
    [s EXCEPT !.ip[pi.l3.ip_version] = @ + 1,
              !.frag_first = @ + One(pi.l3.frag = "FIRST"),
              !.frag_later = @ + One(pi.l3.frag = "LATER"),
              !.l4[l4_counter(pi.l3.ip_proto)] = @ + One(transport_known(pi))]

stats_add(s, pi) ==
    LET c == count_frame(s, pi) IN
    IF pi.l3.has_l3 = 1 THEN count_ip(c, pi)
    ELSE [c EXCEPT !.non_ip = @ + One(is_non_ip(pi))]
=============================================================================
