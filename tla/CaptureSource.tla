--------------------------- MODULE CaptureSource ---------------------------
(***************************************************************************)
(* What pcap_reader.h promises of a reader, whatever it reads from: a      *)
(* capture is a sequence of records, returned one by one from its start,   *)
(* and then, for ever, one verdict that the bytes of the capture alone     *)
(* decide.  Only the system may break that off, and only for a stream.     *)
(*                                                                         *)
(* PcapReader is shown to implement this specification, both from memory   *)
(* and from a file.                                                        *)
(***************************************************************************)
EXTENDS Integers

CONSTANTS
    PCAP_GLOBAL_HDR_LEN, PCAP_RECORD_HDR_LEN, PCAP_MAX_CAPLEN, MAGIC_LEN

VARIABLES
    file,                  \* the capture
    at,                    \* where the next record begins
    status,                \* "closed", "OK", or the verdict
    stream                 \* 1 if an open stream is read

vars == <<file, at, status, stream>>

\* The verdict on the global header; the magic number comes before the rest.
HeaderVerdict ==
    IF file.len < MAGIC_LEN THEN "ERR_SHORT_HEADER"
    ELSE IF file.magic = "pcapng" THEN "ERR_PCAPNG"
    ELSE IF file.magic = "other" THEN "ERR_BAD_MAGIC"
    ELSE IF file.len < PCAP_GLOBAL_HDR_LEN THEN "ERR_SHORT_HEADER"
    ELSE IF file.version # "2.4" THEN "ERR_BAD_VERSION"
    ELSE IF file.linktype # "ethernet" THEN "ERR_BAD_LINKTYPE"
    ELSE "OK"

Left == file.len - at
RecordEnd == at + PCAP_RECORD_HDR_LEN + file.caplen[at]

\* A whole record begins at `at'.
HasRecord ==
    /\ Left >= PCAP_RECORD_HDR_LEN
    /\ file.caplen[at] <= PCAP_MAX_CAPLEN
    /\ RecordEnd <= file.len

\* The verdict where none does.
Verdict ==
    IF Left = 0 THEN "EOF"
    ELSE IF Left < PCAP_RECORD_HDR_LEN THEN "ERR_TRUNC_RECORD_HDR"
    ELSE IF file.caplen[at] > PCAP_MAX_CAPLEN THEN "ERR_BAD_CAPLEN"
    ELSE "ERR_TRUNC_RECORD"

Init == at = 0 /\ status = "closed" /\ stream = 0

\* A reader that holds no stream is opened; what it was does not matter.
Opens ==
    /\ stream = 0
    /\ IF HeaderVerdict = "OK"
       THEN status' = "OK" /\ at' = PCAP_GLOBAL_HDR_LEN /\ stream' \in {0, 1}
       ELSE status' = HeaderVerdict /\ at' = 0 /\ stream' = 0
    /\ UNCHANGED file

\* The system does not let it be opened.
CannotOpen ==
    /\ stream = 0
    /\ status' \in {"ERR_OPEN", "ERR_NOMEM", "ERR_IO"} /\ at' = 0
    /\ UNCHANGED <<file, stream>>

Returns ==
    /\ status = "OK" /\ HasRecord
    /\ at' = RecordEnd
    /\ UNCHANGED <<file, status, stream>>

Ends ==
    /\ status = "OK" /\ ~HasRecord
    /\ status' = Verdict
    /\ UNCHANGED <<file, at, stream>>

\* A read of the stream fails.
Breaks ==
    /\ status = "OK" /\ stream = 1
    /\ status' = "ERR_IO"
    /\ UNCHANGED <<file, at, stream>>

Closes ==
    /\ status' = "closed" /\ at' = 0 /\ stream' = 0
    /\ UNCHANGED file

Next == Opens \/ CannotOpen \/ Returns \/ Ends \/ Breaks \/ Closes

Spec == Init /\ [][Next]_vars
=============================================================================
