-------------------------------- MODULE Sums --------------------------------
(***************************************************************************)
(* Sums of the numbers that a function holds, as the properties of the     *)
(* counters use them.                                                      *)
(***************************************************************************)
EXTENDS Integers, FiniteSetsExt

\* The sum of f over the indices in S, and over all its indices.
TotalOver(f, S) == MapThenSumSet(LAMBDA x : f[x], S)
Total(f) == TotalOver(f, DOMAIN f)
=============================================================================
