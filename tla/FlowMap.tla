------------------------------ MODULE FlowMap ------------------------------
(***************************************************************************)
(* What a flow table promises: it is a map from keys to flows, to which    *)
(* packets are added one at a time.                                        *)
(* added counts the packets whose call succeeded, so that a call which     *)
(* succeeds without adding its packet is not a step of this specification. *)
(***************************************************************************)
EXTENDS FlowEntry

CONSTANT Packets

VARIABLES flows, added

mapVars == <<flows, added>>

Init == flows = NoFlows /\ added = 0

Account(p) == flows' = account_in(flows, p) /\ added' = added + 1

Free == flows' = NoFlows /\ UNCHANGED added

Next == (\E p \in Packets : Account(p)) \/ Free

Spec == Init /\ [][Next]_mapVars
=============================================================================
