------------------------------- MODULE MCTopN -------------------------------
(***************************************************************************)
(* TopN on every table of five slots that holds some of five flows, in any  *)
(* places.  The flows tie with each other in bytes, in packets, in start   *)
(* time, and share TEIDs.                                                  *)
(***************************************************************************)
EXTENDS TopN

CONSTANTS Empty            \* a model value

F(bytes, packets, ts, teid, addr) ==
    [bytes |-> bytes, packets |-> packets, first_ts |-> ts,
     key |-> [teid |-> teid, version |-> 4, proto |-> "udp",
              a |-> [addr |-> addr, port |-> 0], b |-> [addr |-> 9, port |-> 0]]]

MCFlows == {F(9, 1, 5, 1, 1), F(5, 2, 1, 2, 1), F(5, 2, 1, 2, 2), F(5, 2, 2, 1, 2),
            F(5, 1, 1, 3, 1)}

MCSlots == 0 .. 4
MCTables == {t \in [MCSlots -> MCFlows \cup {Empty}] :
               \A p, q \in MCSlots : t[p] = t[q] => p = q \/ t[p] = Empty}
=============================================================================
