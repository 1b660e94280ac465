---------------------------- MODULE MCDecodePair ----------------------------
(***************************************************************************)
(* DecodePair on frames long enough for a tunnelled packet, cut anywhere.  *)
(***************************************************************************)
EXTENDS DecodePair

MCFrameLens == {1, 3, 5, 6, 7, 9}
MCLen16 == {0, 2, 3, 6}
MCHdrLens == {1, 2, 3}

FragFrameLens == {6}
=============================================================================
