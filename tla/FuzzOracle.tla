----------------------------- MODULE FuzzOracle -----------------------------
(***************************************************************************)
(* What the fuzzer of the repository (src/fuzz/fuzz_decode.c) demands of   *)
(* the decoder: check_invariants(), which runs on the packet_info of every *)
(* mutated frame and ends the fuzzer where a demand is not met.  Decode    *)
(* takes every frame, so the frames of the fuzzer are among its own.       *)
(***************************************************************************)
EXTENDS Decode

\* The reasons that stop decode_gtpu() before it has read every GTP-U header.
is_gtpu_header_problem(st) ==
    st \in {"TRUNC_GTPU", "TRUNC_GTPU_EXT", "BAD_GTPU_LEN", "BAD_GTPU_EXT_LEN",
            "BAD_GTPU_EXT"}

\* The demands on the layers.
check_layers(complete) ==
    LET p == l3["outer"] IN
    /\ status \in decode_status
    /\ l2.vlan_count <= DECODE_MAX_VLANS
    /\ p.has_l4 = 1 => p.has_l3 = 1
    /\ p.has_l3 = 1 => l2.has_l2 = 1 /\ p.ip_version \in {4, 6}
    /\ p.frag = "LATER" => p.has_l4 = 0
    /\ status = "OK" => l2.has_l2 = 1
    /\ complete => ~decode_status_is_truncation(status)

\* The demands on a GTP-U message: what it sits on, and what its headers allow.
check_gtpu(complete) ==
    /\ gtp_status \in decode_status
    /\ gtp.is_gtpu = 1 => /\ status = "OK" /\ l3["outer"].frag = "NONE"
                          /\ decode_is_gtpu_port(l3["outer"])
    /\ gtp.is_gtpu = 0 => /\ gtp_status = "OK" /\ gtp.v1u = 0
                          /\ gtp.msg_ok = 0 /\ gtp.has_inner = 0
    /\ gtp.msg_ok = 1 => gtp.v1u = 1
    /\ gtp.v1u = 1 => (gtp.msg_ok = 1 <=> ~is_gtpu_header_problem(gtp_status))
    /\ gtp.msg_ok = 1 /\ gtp.msg_type # "gpdu" => gtp_status = "OK"
    /\ gtp.ext_count <= GTPU_MAX_EXT_HEADERS
    /\ complete => ~decode_status_is_truncation(gtp_status)

\* The demands on the user packet, which decode_gtpu_inner() left in the scratch.
check_inner ==
    LET in == l3["inner"] IN
    /\ gtp.has_inner = 1 => /\ gtp.msg_ok = 1 /\ gtp.v1u = 1 /\ gtp.msg_type = "gpdu"
                            /\ in.ip_version \in {4, 6}
    /\ gtp.inner_has_l4 = 1 => gtp.has_inner = 1
    /\ gtp.nested = 1 => /\ gtp.inner_has_l4 = 1
                         /\ in.ip_proto = "udp" /\ in.gtp_port = 1
    /\ gtp.v1u = 1 /\ gtp_status = "OK" /\ gtp.msg_type = "gpdu" => gtp.has_inner = 1

check_invariants(complete) ==
    check_layers(complete) /\ check_gtpu(complete) /\ check_inner

\* The fuzzer never fails on the decoder: whatever the frame and wherever it was
\* cut, the result of decode_frame() meets every demand of check_invariants().
OracleHolds == Returned => check_invariants(caplen = wirelen)
=============================================================================
