---------------------------- MODULE MCPcapReader ----------------------------
(***************************************************************************)
(* Every capture of up to eight bytes, with headers of two bytes (a magic  *)
(* of one) and records of at most two: up to three records, records that   *)
(* end early, late, or exactly with the file, and lengths that are too     *)
(* large; and, with a fixed caplen, every kind of bad global header.       *)
(***************************************************************************)
EXTENDS PcapReader

MaxLen == 8
CapLens == 0 .. PCAP_MAX_CAPLEN + 1

Capture(len, magic, version, linktype, caplen) ==
    [len |-> len, magic |-> magic, version |-> version, linktype |-> linktype,
     caplen |-> caplen]

Good == UNION {{Capture(len, "pcap", "2.4", "ethernet", c) :
                  c \in [PCAP_GLOBAL_HDR_LEN .. len - PCAP_RECORD_HDR_LEN -> CapLens]} :
               len \in 0 .. MaxLen}

Bad == {Capture(len, m, v, l, [p \in PCAP_GLOBAL_HDR_LEN .. len |-> 0]) :
          len \in 0 .. PCAP_GLOBAL_HDR_LEN + 1, m \in {"pcap", "pcapng", "other"},
          v \in {"2.4", "other"}, l \in {"ethernet", "other"}}

MCFiles == Good \cup Bad
=============================================================================
