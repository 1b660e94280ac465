------------------------------ MODULE FlowRank ------------------------------
(***************************************************************************)
(* The order in which flows and tunnels are listed (key_cmp() and          *)
(* rank_cmp() of src/src/flow.c).  Addresses are numbers here.             *)
(***************************************************************************)
EXTENDS Integers, Sequences

\* The first difference between the tuples a and b decides.
LexBefore(a, b) ==
    \E n \in DOMAIN a : a[n] < b[n] /\ \A m \in 1 .. n - 1 : a[m] = b[m]

\* The protocol numbers; one stands for those that decode_l4() does not know, one
\* for the extension headers that a later fragment may name.
IPPROTO_NUM == [none |-> 0, icmp |-> 1, tcp |-> 6, udp |-> 17, frag6 |-> 44,
                icmpv6 |-> 58, ext |-> 60, other |-> 89]

\* The fields of a key, in the order key_cmp() compares them.
key_fields(k) ==
    <<k.teid, k.version, IPPROTO_NUM[k.proto],
      k.a.addr, k.a.port, k.b.addr, k.b.port>>

\* What the order looks at: three numbers and the fields of the key.
Endpoint == [addr : Nat, port : Nat]
Key == [teid : Nat, version : Nat, proto : DOMAIN IPPROTO_NUM, a : Endpoint, b : Endpoint]
Rankable(f) == f.bytes \in Nat /\ f.packets \in Nat /\ f.first_ts \in Nat /\ f.key \in Key

\* rank_cmp(f, g) < 0: most bytes, then most packets, then earliest, then by key.
rank_above(f, g) ==
    LexBefore(<<-f.bytes, -f.packets, f.first_ts>> \o key_fields(f.key),
              <<-g.bytes, -g.packets, g.first_ts>> \o key_fields(g.key))
=============================================================================
