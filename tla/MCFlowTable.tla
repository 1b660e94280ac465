---------------------------- MODULE MCFlowTable ----------------------------
(***************************************************************************)
(* FlowTable with arrays of 4, 8 and 16 slots.  The six keys collide: four *)
(* share a home in the smallest array (its last slot, so that probes wrap  *)
(* around), and they separate in different ways when the array doubles.    *)
(***************************************************************************)
EXTENDS FlowTable

MCKeys == 1..6
MCHash == <<3, 7, 3, 15, 0, 8>>
MCCapacities == {4, 8, 16}
MCPackets == {[key |-> k, reversed |-> 0, flags |-> {}, len |-> 1, ts |-> 1] : k \in MCKeys}
=============================================================================
