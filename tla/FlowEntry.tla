----------------------------- MODULE FlowEntry -----------------------------
(***************************************************************************)
(* What a flow table keeps about one flow (struct flow of flow.h) and how  *)
(* a packet is added to it (the second half of account() in flow.c).  Both *)
(* the table and its abstract specification use these operators.           *)
(***************************************************************************)
EXTENDS Integers

TcpFlags == {"FIN", "SYN", "RST", "PSH", "ACK", "URG", "ECE", "CWR"}

Flow == [packets : Nat, bytes : Nat, first_ts : Nat, last_ts : Nat,
         first_from_b : {0, 1}, tcp_flags : SUBSET TcpFlags]

\* What account() is given of a packet.
AddOf(Keys) == [key : Keys, reversed : {0, 1}, flags : SUBSET TcpFlags,
                len : Nat, ts : Nat]

\* A slot as calloc() leaves it.
ZeroFlow == [packets |-> 0, bytes |-> 0, first_ts |-> 0, last_ts |-> 0,
             first_from_b |-> 0, tcp_flags |-> {}]

\* The flow that find_or_insert() has just inserted, as account() starts it.
new_flow(p) == [ZeroFlow EXCEPT !.first_ts = p.ts, !.last_ts = p.ts,
                                !.first_from_b = p.reversed]

\* Mutant: the capture is taken to be in time order.
accounted_in_order(f, p) ==
    [f EXCEPT !.packets = @ + 1, !.bytes = @ + p.len, !.last_ts = p.ts,
              !.tcp_flags = @ \cup p.flags]

\* One more packet: a true minimum and maximum of the timestamps, since a
\* capture need not be in time order.
accounted(f, p) ==
    [packets |-> f.packets + 1,
     bytes |-> f.bytes + p.len,
     first_ts |-> IF p.ts < f.first_ts THEN p.ts ELSE f.first_ts,
     last_ts |-> IF p.ts > f.last_ts THEN p.ts ELSE f.last_ts,
     first_from_b |-> IF p.ts < f.first_ts THEN p.reversed ELSE f.first_from_b,
     tcp_flags |-> f.tcp_flags \cup p.flags]

\* A packet is added to the flow of its key in the map m, which starts empty,
\* and to no other.
account_in(m, p) ==
    [k \in DOMAIN m \cup {p.key} |->
        IF k # p.key THEN m[k]
        ELSE accounted(IF k \in DOMAIN m THEN m[k] ELSE new_flow(p), p)]

NoFlows == [k \in {} |-> ZeroFlow]
=============================================================================
