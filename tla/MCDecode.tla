------------------------------ MODULE MCDecode ------------------------------
(***************************************************************************)
(* Decode on small frames.  Headers are one or two units long, so that a   *)
(* frame of eleven units can hold every layer to the transport header      *)
(* of a tunnelled packet, and the shorter lengths cut it before and inside *)
(* the IP header, the GTP-U header and the IP header in the tunnel.        *)
(***************************************************************************)
EXTENDS FuzzOracle

MCFrameLens == {0, 1, 3, 5, 7, 9, 11}
MCLen16 == {0, 1, 2, 3, 4, 8}
MCHdrLens == 1..3
=============================================================================
