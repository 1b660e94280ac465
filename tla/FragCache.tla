----------------------------- MODULE FragCache -----------------------------
(***************************************************************************)
(* The direct-mapped fragment cache of src/src/frag.c: a function from     *)
(* slots to entries, and what frag_cache_apply() does to it and to a       *)
(* packet.                                                                 *)
(***************************************************************************)
EXTENDS PacketInfo

CONSTANTS
    FragSlots,             \* 0 .. FRAG_CACHE_SLOTS - 1
    SlotOf,                \* datagram keys to slots: the hash and its mask
    GTPU_PORT

ASSUME SlotAssumption == \A d \in DOMAIN SlotOf : SlotOf[d] \in FragSlots

EmptyEntry == [in_use |-> 0, datagram |-> << >>, src_port |-> 0, dst_port |-> 0]

\* frag_cache_init()
EmptyCache == [n \in FragSlots |-> EmptyEntry]

\* What the fragments of one datagram have in common.
datagram(pi) == <<pi.l3.ip_version, pi.l3.ip_proto, pi.frag_id, pi.src, pi.dst>>

slot_for(pi) == SlotOf[datagram(pi)]

\* Mutant: an entry serves whatever falls into its slot.
same_slot(e, pi) == e.in_use = 1

same_datagram(e, pi) == e.in_use = 1 /\ e.datagram = datagram(pi)

records_ports(pi) ==
    pi.status = "OK" /\ pi.l3.has_l3 = 1 /\ pi.l3.frag = "FIRST" /\ pi.l3.has_l4 = 1

borrows_ports(c, pi) ==
    /\ pi.status = "OK" /\ pi.l3.has_l3 = 1 /\ pi.l3.frag = "LATER"
    /\ same_datagram(c[slot_for(pi)], pi)

\* The cache after frag_cache_apply(): a new entry overwrites the old one.
fed(c, pi) ==
    IF ~records_ports(pi) THEN c
    ELSE [c EXCEPT ![slot_for(pi)] =
            [in_use |-> 1, datagram |-> datagram(pi),
             src_port |-> pi.src_port, dst_port |-> pi.dst_port]]

with_ports(pi, s, d) ==
    [pi EXCEPT !.src_port = s, !.dst_port = d,
               !.l3.gtp_port = IF GTPU_PORT \in {s, d} THEN 1 ELSE 0]

\* The packet after frag_cache_apply().
attributed(c, pi) ==
    IF ~borrows_ports(c, pi) THEN pi
    ELSE with_ports(pi, c[slot_for(pi)].src_port, c[slot_for(pi)].dst_port)
=============================================================================
