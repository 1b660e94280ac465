--------------------------- MODULE MCConversions ---------------------------
(***************************************************************************)
(* The two conversions of the program, checked in one run: a behaviour     *)
(* either formats an address (Addr) or writes and reads the headers of a   *)
(* capture file (HeaderBytes).  They share no state.                       *)
(*                                                                         *)
(* Addresses have groups that are zero, a number of one digit or the       *)
(* largest number: all patterns of zero runs, with the shortest and the    *)
(* longest text of each, and the IPv4-mapped ones.                         *)
(*                                                                         *)
(* Bytes have four values: 16-bit fields go to 15, 32-bit fields to 255.   *)
(* Magics are four-digit numbers in base 4 that are no palindromes (2130,  *)
(* 2103), and one that is (pcapng).  A second has 128 ns, a microsecond 8, *)
(* and the largest timestamp still fits in "64 bits".                      *)
(***************************************************************************)
EXTENDS Addr, HeaderBytes

MCAddresses == [0 .. 7 -> {0, 1, 65535}]

MCWriters ==
    [be : {0, 1}, magic : {MAGIC_USEC, MAGIC_NSEC, MAGIC_PCAPNG, 27},
     major : {2, 4, 8}, minor : {4, 1}, snaplen : {0, 27, 255}, linktype : {1, 4, 65}]

MCRecords ==
    [sec : {0, 1, 27, 254, 255}, frac : {0, 1, 15, 16, 255},
     caplen : {0, 27, 28, 255}, wirelen : {0, 28, 255}]

MCInit == Init /\ FormatInit

\* Headers are read next to one address only, which is not formatted then.
MCNext ==
    \/ pc = "write" /\ FormatNext /\ UNCHANGED vars
    \/ loop = "start" /\ groups = [n \in 0 .. 7 |-> 0] /\ Next /\ UNCHANGED format_vars

MCSpec == MCInit /\ [][MCNext]_<<vars, format_vars>>
=============================================================================
