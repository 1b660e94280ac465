------------------------------ MODULE Analysis ------------------------------
(***************************************************************************)
(* The accounting pipeline of src/src/analyze.c.  Each record that the     *)
(* reader returns is decoded, given its datagram's ports if it is a later  *)
(* fragment, counted, and added to its flow and to its tunnel; either      *)
(* table may run out of memory.                                            *)
(*                                                                         *)
(* The two tables are the maps that FlowTable is shown to implement.  The  *)
(* packets are packet_infos that Decode is proved to return (Consistent).  *)
(***************************************************************************)
EXTENDS Stats, FragCache, FlowEntry, Sums, Sequences

CONSTANTS
    Packets,               \* decoded packets, each with its record's lengths and time
    MaxRecords             \* bound on the records read, for model checking

\* dg tells which datagram a fragment really belongs to; nothing looks at it.
Packet == [status : decode_status, gtp_status : decode_status,
           l2 : L2Info, l3 : L3Info, gtp : GtpInfo, seq : Flag,
           inner_version : {0, 4, 6}, inner_proto : NextHdr \cup {"none"},
           src : Nat, dst : Nat, src_port : Nat, dst_port : Nat,
           frag_id : Nat, teid : Nat, tcp_flags : SUBSET TcpFlags,
           caplen : Nat, wirelen : Nat, ts : Nat, dg : Nat]

ASSUME PacketsAssumption ==
    \A p \in Packets :
        /\ p \in Packet /\ Consistent(p)
        /\ p.caplen <= p.wirelen
        /\ p.gtp.has_inner = 1 => p.inner_version \in Versions
        /\ p.gtp.nested = 1 => p.inner_proto = "udp"
        /\ p.l3.has_l4 = 1 => (p.l3.gtp_port = 1 <=> GTPU_PORT \in {p.src_port, p.dst_port})
        /\ p.l3.frag = "LATER" => p.src_port = 0 /\ p.dst_port = 0
        /\ p.status = "OK" /\ ~(p.l3.ip_proto = "tcp" /\ p.l3.has_l4 = 1) => p.tcp_flags = {}
        /\ p.l3.frag # "NONE" => datagram(p) \in DOMAIN SlotOf
ASSUME RecordsAssumption == MaxRecords \in Nat
ASSUME TypesAssumption == IsFiniteSet(GtpMsgTypes) /\ "gpdu" \in GtpMsgTypes

VARIABLES
    phase,                 \* "none": nothing allocated; "run"; "stopped"
    ret,                   \* what the last call returned
    stats, frags,          \* struct analysis
    flows, tunnels,        \*   and its two tables
    held,                  \* which of the three arrays are allocated
    log,                   \* history: the packets accounted, as attributed
    lost                   \* history: the table that the last packet did not get into

vars == <<phase, ret, stats, frags, flows, tunnels, held, log, lost>>

Init ==
    /\ phase = "none" /\ ret = "OK" /\ stats = ZeroStats /\ frags = EmptyCache
    /\ flows = NoFlows /\ tunnels = NoFlows /\ held = {}
    /\ log = << >> /\ lost = "none"

\* The arrays that are allocated before an array, and all of them.
before == [flows |-> {}, tunnels |-> {"flows"}, frags |-> {"flows", "tunnels"}]
Arrays == DOMAIN before

\* Mutant: the flow table is forgotten when the fragment cache cannot be allocated.
undone_tunnels_only == [flows |-> {}, tunnels |-> {"flows"}, frags |-> {"tunnels"}]

\* What is freed when the allocation of an array fails.
undone == [flows |-> {}, tunnels |-> {"flows"}, frags |-> {"tunnels", "flows"}]

\* Any of the three allocations may fail; those before it are then undone.
analysis_init ==
    /\ phase = "none"
    /\ stats' = ZeroStats
    /\ \/ phase' = "run" /\ ret' = "OK" /\ held' = held \cup Arrays
       \/ /\ phase' = "none" /\ ret' = "NOMEM"
          /\ \E a \in Arrays : held' = (held \cup before[a]) \ undone[a]
    /\ log' = << >> /\ lost' = "none"
    /\ UNCHANGED <<frags, flows, tunnels>>

-----------------------------------------------------------------------------
(***************************************************************************)
(* Keys of the two tables                                                  *)
(***************************************************************************)
\* The endpoints are ordered by address, then by port.
endpoints_reversed(pi) ==
    \/ pi.src > pi.dst
    \/ pi.src = pi.dst /\ pi.src_port > pi.dst_port

flow_key_from_packet(pi) ==
    LET s == [addr |-> pi.src, port |-> pi.src_port]
        d == [addr |-> pi.dst, port |-> pi.dst_port]
        r == endpoints_reversed(pi) IN
    [teid |-> 0, version |-> pi.l3.ip_version, proto |-> pi.l3.ip_proto,
     a |-> IF r THEN d ELSE s, b |-> IF r THEN s ELSE d]

flow_add(pi) ==
    [key |-> flow_key_from_packet(pi), reversed |-> One(endpoints_reversed(pi)),
     flags |-> IF pi.l3.ip_proto = "tcp" /\ pi.l3.has_l4 = 1 THEN pi.tcp_flags ELSE {},
     len |-> pi.wirelen, ts |-> pi.ts]

\* A tunnel has a direction: the endpoints stay in packet order.
tunnel_add(pi) ==
    [key |-> [teid |-> pi.teid, version |-> pi.l3.ip_version, proto |-> pi.l3.ip_proto,
              a |-> [addr |-> pi.src, port |-> 0], b |-> [addr |-> pi.dst, port |-> 0]],
     reversed |-> 0, flags |-> {}, len |-> pi.wirelen, ts |-> pi.ts]

\* Mutant: a packet joins a flow as soon as its IP header is valid.
joins_flow_with_ip(pi) == pi.l3.has_l3 = 1

joins_flow(pi) == pi.status = "OK" /\ pi.l3.has_l3 = 1

\* Mutant: a G-PDU joins a tunnel although its GTP-U headers are broken.
joins_tunnel_any_header(pi) ==
    /\ pi.status = "OK" /\ pi.gtp.is_gtpu = 1 /\ pi.gtp.v1u = 1
    /\ pi.gtp.msg_type = "gpdu"

\* Mutant: only a G-PDU without any problem joins its tunnel.
joins_tunnel_if_clean(pi) ==
    pi.gtp.v1u = 1 /\ pi.gtp_status = "OK" /\ pi.gtp.msg_type = "gpdu"

joins_tunnel(pi) ==
    /\ pi.status = "OK" /\ pi.gtp.is_gtpu = 1 /\ pi.gtp.v1u = 1
    /\ pi.gtp.msg_ok = 1 /\ pi.gtp.msg_type = "gpdu"

-----------------------------------------------------------------------------
\* One turn of analysis_run(): a record p was read and decoded, and
\* analysis_account() accounts it.  When a table cannot grow the run stops.
analysis_account(p) ==
    /\ phase = "run" /\ Len(log) < MaxRecords
    /\ LET pi == attributed(frags, p)
           matched == One(borrows_ports(frags, p)) IN
       /\ frags' = fed(frags, p)
       /\ stats' = stats_add([stats EXCEPT !.frag_matched = @ + matched], pi)
       /\ log' = Append(log, pi) /\ UNCHANGED held
       /\ \/ /\ ~joins_flow(pi)
             /\ UNCHANGED <<phase, ret, flows, tunnels, lost>>
          \/ /\ joins_flow(pi)
             /\ phase' = "stopped" /\ ret' = "NOMEM" /\ lost' = "flow"
             /\ UNCHANGED <<flows, tunnels>>
          \/ /\ joins_flow(pi) /\ ~joins_tunnel(pi)
             /\ flows' = account_in(flows, flow_add(pi))
             /\ UNCHANGED <<phase, ret, tunnels, lost>>
          \/ /\ joins_flow(pi) /\ joins_tunnel(pi)
             /\ flows' = account_in(flows, flow_add(pi))
             /\ tunnels' = account_in(tunnels, tunnel_add(pi))
             /\ UNCHANGED <<phase, ret, lost>>
          \/ /\ joins_flow(pi) /\ joins_tunnel(pi)
             /\ flows' = account_in(flows, flow_add(pi))
             /\ phase' = "stopped" /\ ret' = "NOMEM" /\ lost' = "tunnel"
             /\ UNCHANGED tunnels

\* pcap_next() has no further record: analysis_run() returns its status.
run_ends(st) ==
    /\ phase = "run"
    /\ phase' = "stopped" /\ ret' = st
    /\ UNCHANGED <<stats, frags, flows, tunnels, held, log, lost>>

analysis_free ==
    /\ phase \in {"run", "stopped"}
    /\ phase' = "none"
    /\ flows' = NoFlows /\ tunnels' = NoFlows /\ frags' = EmptyCache
    /\ held' = held \ {"flows", "tunnels", "frags"}
    /\ UNCHANGED <<ret, stats, log, lost>>

Next ==
    \/ analysis_init
    \/ \E p \in Packets : analysis_account(p)
    \/ \E st \in {"EOF", "ERR"} : run_ends(st)
    \/ analysis_free

Spec == Init /\ [][Next]_vars

-----------------------------------------------------------------------------
(***************************************************************************)
(* Properties                                                              *)
(***************************************************************************)
\* The packets in all flows of a table.
PacketsIn(m) == Total([k \in DOMAIN m |-> m[k].packets])

\* The problems add up: each frame is clean, truncated or malformed, and the two
\* totals of the summary are the sums of the reasons printed below them.
VerdictsAddUp ==
    /\ stats.packets = stats.by_status["OK"] + stats.truncated + stats.malformed
    /\ stats.truncated = TotalOver(stats.by_status, Truncations)
    /\ stats.malformed = TotalOver(stats.by_status, Malformations)
    /\ stats.gtpu.packets =
         stats.gtpu.by_status["OK"] + stats.gtpu.truncated + stats.gtpu.malformed
    /\ stats.gtpu.truncated = TotalOver(stats.gtpu.by_status, Truncations)

\* The transport counters partition the IP packets, but for those whose extension
\* chain is broken; the same one level down, for the user packets in tunnels.
TransportAddsUp ==
    /\ Total(stats.l4) = Total(stats.ip) - TotalOver(stats.by_status, ChainReasons)
    /\ Total(stats.gtpu.inner_l4) =
         Total(stats.gtpu.inner_ip) - TotalOver(stats.gtpu.by_status, ChainReasons)
    /\ stats.gtpu.nested <= stats.gtpu.inner_l4["udp"]

\* The messages add up: every GTP-U packet has a type, or is not GTPv1-U, or its
\* header was cut; and the tunnelled and the fragmented ones are UDP packets.
MessagesAddUp ==
    LET g == stats.gtpu
        known == Total(g.by_type) + g.not_v1u IN
    /\ known <= g.packets /\ g.packets <= known + g.by_status["TRUNC_GTPU"]
    /\ Total(g.inner_ip) <= g.by_type["gpdu"]
    /\ g.packets + g.fragmented <= stats.l4["udp"]

\* The counters of the summary partition the packets: the lines that are printed
\* below a total add up to it, for the frames and for the packets in tunnels, along
\* every path of early returns of stats_add().
CountersAddUp == VerdictsAddUp /\ TransportAddsUp /\ MessagesAddUp

\* The capture's first and last timestamps are the extremes of all records, and
\* the times of every flow and tunnel lie between them.
TimesWithinCapture ==
    LET times == {log[n].ts : n \in DOMAIN log} IN
    /\ log # << >> => stats.first_ts = Min(times) /\ stats.last_ts = Max(times)
    /\ \A m \in {flows, tunnels} : \A k \in DOMAIN m :
         /\ stats.first_ts <= m[k].first_ts /\ m[k].first_ts <= m[k].last_ts
         /\ m[k].last_ts <= stats.last_ts

\* The records whose packet is clean IP and had room in the flow table.
Accounted ==
    {n \in DOMAIN log : /\ log[n].status = "OK" /\ log[n].l2.ethertype \in {"ipv4", "ipv6"}
                        /\ lost = "flow" => n # Len(log)}

Sender(p) == [addr |-> p.src, port |-> p.src_port]
Receiver(p) == [addr |-> p.dst, port |-> p.dst_port]

\* What the packets of one conversation have in common, in either direction.
Conversation(p) == <<p.l3.ip_version, p.l3.ip_proto, {Sender(p), Receiver(p)}>>
ConversationOf(k) == <<k.version, k.proto, {k.a, k.b}>>

\* The records of a flow, and the first of the records s with the smallest time.
Of(k) == {n \in Accounted : Conversation(log[n]) = ConversationOf(k)}
Earliest(s) == CHOOSE n \in s : \A m \in s : /\ log[n].ts <= log[m].ts
                                             /\ m < n => log[n].ts < log[m].ts

\* Whether p went from B to A in the flow k.
FromB(k, p) == One(k.a # k.b /\ Sender(p) = k.b)

\* The flow table is what a second pass over the capture would compute, whatever the
\* order of the packets and wherever the run stopped: one flow per conversation of
\* clean IP packets, both directions together, with its totals, the extremes of its
\* times, all TCP flags, and the sender of its earliest packet.
FlowsSummariseHistory ==
    phase # "none" =>
        /\ {ConversationOf(k) : k \in DOMAIN flows} = {Conversation(log[n]) : n \in Accounted}
        /\ \A k, m \in DOMAIN flows : ConversationOf(k) = ConversationOf(m) => k = m
        /\ \A k \in DOMAIN flows :
             LET s == Of(k)
                 f == flows[k] IN
             /\ f.packets = Cardinality(s)
             /\ f.bytes = Total([n \in s |-> log[n].wirelen])
             /\ f.first_ts = Min({log[n].ts : n \in s})
             /\ f.last_ts = Max({log[n].ts : n \in s})
             /\ f.tcp_flags = UNION {log[n].tcp_flags : n \in s}
             /\ f.first_from_b = FromB(k, log[Earliest(s)])

\* The reasons that are about the user packet, not about the GTP-U headers.
UserReasons == (Truncations \cup Malformations) \ HeaderReasons

\* The records that a tunnel carried: a G-PDU without a problem, or with one in the
\* user packet only, that had room in both tables.
Carried ==
    {n \in DOMAIN log :
        /\ \/ log[n].gtp_status \in UserReasons
           \/ log[n].gtp_status = "OK" /\ log[n].gtp.msg_type = "gpdu"
        /\ lost # "none" => n # Len(log)}

\* What the packets of one tunnel have in common: where they come from, where they
\* go and the TEID; neither the ports nor anything in the user packet.
Bearer(p) == <<p.l3.ip_version, p.src, p.dst, p.teid>>
BearerOf(k) == <<k.version, k.a.addr, k.b.addr, k.teid>>
Through(k) == {n \in Carried : Bearer(log[n]) = BearerOf(k)}

\* The GTP-U packets whose problem is one of the reasons S.
Problems(S) == {n \in DOMAIN log : log[n].gtp_status \in S}

\* The two lines of the report on GTP-U problems tell the truth.  A problem in the
\* GTP-U headers keeps a packet out of the tunnels and one in the user packet does
\* not: the tunnel table is what a second pass over the capture would compute, with
\* one tunnel per direction and TEID and the totals and times of the packets that it
\* carried.  The counters are those of the two kinds of problems, so that their
\* differences never wrap.
TunnelsHoldSoundGpdus ==
    LET g == stats.gtpu IN
    phase # "none" =>
        /\ {BearerOf(k) : k \in DOMAIN tunnels} = {Bearer(log[n]) : n \in Carried}
        /\ \A k, m \in DOMAIN tunnels : BearerOf(k) = BearerOf(m) => k = m
        /\ \A k \in DOMAIN tunnels :
             LET s == Through(k)
                 f == tunnels[k] IN
             /\ f.packets = Cardinality(s)
             /\ f.bytes = Total([n \in s |-> log[n].wirelen])
             /\ f.first_ts = Min({log[n].ts : n \in s})
             /\ f.last_ts = Max({log[n].ts : n \in s})
             /\ f.tcp_flags = {} /\ f.first_from_b = 0
        /\ g.user_truncated = Cardinality(Problems(Truncations \ HeaderReasons))
        /\ g.user_malformed = Cardinality(Problems(Malformations \ HeaderReasons))
        /\ g.truncated - g.user_truncated =
             Cardinality(Problems(Truncations \cap HeaderReasons))
        /\ g.malformed - g.user_malformed =
             Cardinality(Problems(Malformations \cap HeaderReasons))

\* What flow.h says of first_from_b: 1 if the first packet seen went B -> A.
FirstSeenGivesDirection ==
    \A k \in DOMAIN flows : flows[k].first_from_b = FromB(k, log[Min(Of(k))])

\* The latest first fragment read before record n whose entry is in n's slot.
LastFirst(n) ==
    Max({0} \cup {m \in 1 .. n - 1 :
                    records_ports(log[m]) /\ slot_for(log[m]) = slot_for(log[n])})

\* Whether record n is a clean later fragment whose entry is in its slot.
Owned(n) ==
    /\ log[n].status = "OK" /\ log[n].l3.frag = "LATER"
    /\ LastFirst(n) # 0 /\ datagram(log[LastFirst(n)]) = datagram(log[n])

\* A later fragment is counted in the flow of the latest first fragment of its
\* key, unless a colliding one came between; otherwise it has no ports.  And
\* frag_matched counts the first case.
FragmentsAttributed ==
    /\ \A n \in DOMAIN log : log[n].l3.has_l3 = 1 /\ log[n].l3.frag = "LATER" =>
         LET m == LastFirst(n) IN
         IF Owned(n)
         THEN flow_key_from_packet(log[n]) = flow_key_from_packet(log[m])
         ELSE log[n].src_port = 0 /\ log[n].dst_port = 0
    /\ stats.frag_matched = Cardinality({n \in DOMAIN log : Owned(n)})
    /\ stats.frag_matched <= stats.frag_later

\* What frag.h says of a later fragment that arrives before its first fragment: it
\* is left port-less.  dg tells which datagram a fragment really belongs to.
PortlessBeforeFirst ==
    \A n \in DOMAIN log :
        /\ log[n].l3.frag = "LATER"
        /\ \A m \in 1 .. n - 1 : ~(records_ports(log[m]) /\ log[m].dg = log[n].dg)
        => log[n].src_port = 0 /\ log[n].dst_port = 0
=============================================================================
