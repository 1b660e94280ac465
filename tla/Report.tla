------------------------------- MODULE Report -------------------------------
(***************************************************************************)
(* What src/src/report.c prints of the counters and the tables.  A line of *)
(* a table or of a CSV file is the record of its columns; how the columns  *)
(* are laid out is not kept.  An address stands for its text.              *)
(*                                                                         *)
(* A flow here is an entry of one of the maps of Analysis with its key.    *)
(***************************************************************************)
EXTENDS Stats, FlowRank, FiniteSets

CONSTANTS
    NS_PER_SEC, NS_PER_MS, NS_PER_US

ASSUME UnitsAssumption ==
    /\ NS_PER_US \in Nat \ {0} /\ NS_PER_MS \in Nat \ {0} /\ NS_PER_SEC \in Nat \ {0}
    /\ NS_PER_MS % NS_PER_US = 0 /\ NS_PER_SEC % NS_PER_MS = 0

-----------------------------------------------------------------------------
(***************************************************************************)
(* Columns                                                                 *)
(***************************************************************************)
proto_name(proto) ==
    IF proto \in KnownL4 THEN <<"name", proto>> ELSE <<"number", IPPROTO_NUM[proto]>>

\* The letters FSRPAUEC, in the order of the bits.
format_tcp_flags(flags) ==
    SelectSeq(<<"FIN", "SYN", "RST", "PSH", "ACK", "URG", "ECE", "CWR">>,
              LAMBDA x : x \in flags)

has_ports(proto) == proto \in {"tcp", "udp"}

\* An endpoint with its port, if its protocol has ports ({} stands for no port).
format_endpoint(k, end) ==
    [addr |-> end.addr, port |-> IF has_ports(k.proto) THEN {end.port} ELSE {}]

\* src is the endpoint that sent the first packet.
flow_endpoints(f) ==
    IF f.first_from_b = 0
    THEN [src |-> format_endpoint(f.key, f.key.a), dst |-> format_endpoint(f.key, f.key.b)]
    ELSE [src |-> format_endpoint(f.key, f.key.b), dst |-> format_endpoint(f.key, f.key.a)]

\* Mutant: the source is endpoint A in both directions.
use_a_as_source(f, want_src) == want_src = 1

use_a(f, want_src) == IF want_src = 1 THEN f.first_from_b = 0 ELSE f.first_from_b = 1

csv_endpoint(f, want_src) == IF use_a(f, want_src) THEN f.key.a ELSE f.key.b

\* Whole seconds, and the rest in a smaller unit of time.
split(ns, unit) == <<ns \div NS_PER_SEC, (ns % NS_PER_SEC) \div unit>>

print_utc(ts) == split(ts, NS_PER_US)

duration(f) == f.last_ts - f.first_ts

-----------------------------------------------------------------------------
(***************************************************************************)
(* The tables                                                              *)
(***************************************************************************)
\* The flows of the map m, each with its key.
entry(m, k) ==
    [key |-> k, packets |-> m[k].packets, bytes |-> m[k].bytes,
     first_ts |-> m[k].first_ts, last_ts |-> m[k].last_ts,
     first_from_b |-> m[k].first_from_b, tcp_flags |-> m[k].tcp_flags]
entries(m) == {entry(m, k) : k \in DOMAIN m}

\* The flows in S, best first.
ranked(S) ==
    CHOOSE s \in [1 .. Cardinality(S) -> S] :
        \A j, n \in DOMAIN s : j < n => rank_above(s[j], s[n])

\* What flow_table_top_n() gives for n flows of the map m (see TopN): the best
\* ones, best first.
top_n(m, n) ==
    LET s == ranked(entries(m)) IN
    SubSeq(s, 1, IF n < Len(s) THEN n ELSE Len(s))

flow_line(f) ==
    [proto |-> proto_name(f.key.proto),
     src |-> flow_endpoints(f).src, dst |-> flow_endpoints(f).dst,
     packets |-> f.packets, bytes |-> f.bytes,
     duration |-> split(duration(f), NS_PER_MS),
     flags |-> IF f.key.proto = "tcp" THEN format_tcp_flags(f.tcp_flags) ELSE <<"-">>]

\* A tunnel has a direction and no ports.
tunnel_endpoints(f) == [src |-> f.key.a.addr, dst |-> f.key.b.addr]

tunnel_line(f) ==
    [teid |-> f.key.teid, ends |-> tunnel_endpoints(f),
     packets |-> f.packets, bytes |-> f.bytes, duration |-> split(duration(f), NS_PER_MS)]

Lines(s, line(_)) == [n \in DOMAIN s |-> line(s[n])]

report_top_flows(m, n) ==
    [of |-> Cardinality(DOMAIN m), lines |-> Lines(top_n(m, n), flow_line)]
report_top_tunnels(m, n) ==
    [of |-> Cardinality(DOMAIN m), lines |-> Lines(top_n(m, n), tunnel_line)]

-----------------------------------------------------------------------------
(***************************************************************************)
(* The CSV files                                                           *)
(***************************************************************************)
csv_times(f) ==
    [first |-> split(f.first_ts, 1), last |-> split(f.last_ts, 1),
     duration |-> split(duration(f), 1)]

flow_row(f) ==
    [src |-> csv_endpoint(f, 1), dst |-> csv_endpoint(f, 0),
     proto |-> proto_name(f.key.proto), version |-> f.key.version,
     packets |-> f.packets, bytes |-> f.bytes, times |-> csv_times(f),
     flags |-> IF f.key.proto = "tcp" THEN format_tcp_flags(f.tcp_flags) ELSE << >>]

tunnel_row(f) ==
    [teid |-> f.key.teid, ends |-> tunnel_endpoints(f),
     version |-> f.key.version, packets |-> f.packets, bytes |-> f.bytes,
     times |-> csv_times(f)]

report_csv(m) == Lines(top_n(m, Cardinality(DOMAIN m)), flow_row)
report_tunnels_csv(m) == Lines(top_n(m, Cardinality(DOMAIN m)), tunnel_row)

-----------------------------------------------------------------------------
(***************************************************************************)
(* The summary                                                             *)
(***************************************************************************)
\* The reasons that are printed: those that occurred, "OK" left out.
reasons(by_status) ==
    LET S == {st \in decode_status \ {"OK"} : by_status[st] > 0} IN
    [st \in S |-> by_status[st]]

report_summary(s, flow_count) ==
    [packets |-> s.packets, wire |-> s.wire_bytes, captured |-> s.captured_bytes,
     times |-> IF s.packets = 0 THEN << >>
               ELSE <<print_utc(s.first_ts), print_utc(s.last_ts),
                      split(s.last_ts - s.first_ts, NS_PER_US)>>,
     ip |-> s.ip, non_ip |-> s.non_ip, l4 |-> s.l4, vlan |-> s.vlan_tagged,
     fragments |-> <<s.frag_first, s.frag_later, s.frag_matched>>,
     flows |-> flow_count, truncated |-> s.truncated, malformed |-> s.malformed,
     reasons |-> reasons(s.by_status)]

has_gtpu(g) == g.packets # 0 \/ g.fragmented # 0

\* The GTP-U part.  The problems in the GTP-U headers are what is left of the
\* totals without those of the user packets.
report_gtpu(g, m) ==
    [packets |-> g.packets, by_type |-> g.by_type,
     options |-> <<g.with_seq, g.with_ext>>,
     inner_ip |-> g.inner_ip, inner_l4 |-> g.inner_l4,
     tunnels |-> Cardinality(DOMAIN m), teids |-> Cardinality({k.teid : k \in DOMAIN m}),
     skipped |-> <<g.not_v1u, g.nested, g.fragmented>>,
     headers |-> [truncated |-> g.truncated - g.user_truncated,
                  malformed |-> g.malformed - g.user_malformed],
     user |-> [truncated |-> g.user_truncated, malformed |-> g.user_malformed],
     reasons |-> reasons(g.by_status)]
=============================================================================
