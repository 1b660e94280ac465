----------------------------- MODULE PcapReader -----------------------------
(***************************************************************************)
(* The capture file reader of src/src/pcap_reader.c: opening a file, a     *)
(* stream or a buffer, reading records one at a time, and closing.  fopen, *)
(* malloc and every fread may fail.                                        *)
(*                                                                         *)
(* A capture is its length, what its global header says, and the caplen    *)
(* that a record header would hold at each offset, whether or not a record *)
(* starts there: a reader that lost its place would read that.             *)
(***************************************************************************)
EXTENDS Integers

CONSTANTS
    PCAP_GLOBAL_HDR_LEN, PCAP_RECORD_HDR_LEN, PCAP_MAX_CAPLEN,
    MAGIC_LEN,             \* the 4 bytes of the magic number
    Files,                 \* captures to read
    WireLens               \* what the origlen field of a record may hold

ASSUME LenAssumption ==
    /\ PCAP_GLOBAL_HDR_LEN \in Nat /\ PCAP_RECORD_HDR_LEN \in Nat \ {0}
    /\ PCAP_MAX_CAPLEN \in Nat /\ MAGIC_LEN \in Nat
    /\ MAGIC_LEN <= PCAP_GLOBAL_HDR_LEN
    /\ PCAP_GLOBAL_HDR_LEN <= PCAP_MAX_CAPLEN
    /\ PCAP_RECORD_HDR_LEN <= PCAP_MAX_CAPLEN
ASSUME FilesAssumption ==
    /\ WireLens \subseteq Nat
    /\ \A f \in Files :
         /\ f.len \in Nat
         /\ \A p \in PCAP_GLOBAL_HDR_LEN .. f.len - PCAP_RECORD_HDR_LEN :
              f.caplen[p] \in Nat

VARIABLES
    file,                  \* the capture behind the stream or the buffer, always
                           \* the same
    fp, buf,               \* r->fp and r->buf: 1 if not NULL
    mem_len,               \* r->mem_len
    pos,                   \* r->mem_pos, or the position of the stream
    records, error,        \* r->records, r->error
    sys_errno,             \* r->sys_errno: 1 if it was set
    pc,                    \* "data": pcap_next() has read a record header
    rec,                   \* the record being filled in, and where its bytes start
    ret,                   \* what the last call returned
    streams,               \* history: streams that are open
    asked,                 \* history: the largest fread() into r->buf
    covered,               \* history: the end of the last record returned
    faults                 \* history: failures of the system since the last open

reader == <<fp, buf, mem_len, pos, records, error, sys_errno>>
vars == <<file, fp, buf, mem_len, pos, records, error, sys_errno, pc, rec, ret,
          streams, asked, covered, faults>>

pcap_status ==
    {"OK", "EOF", "ERR_OPEN", "ERR_IO", "ERR_NOMEM", "ERR_SHORT_HEADER",
     "ERR_BAD_MAGIC", "ERR_PCAPNG", "ERR_BAD_VERSION", "ERR_BAD_LINKTYPE",
     "ERR_TRUNC_RECORD_HDR", "ERR_TRUNC_RECORD", "ERR_BAD_CAPLEN"}

NoRecord == [at |-> 0, caplen |-> 0, wirelen |-> 0]
Least(m, n) == IF m < n THEN m ELSE n

-----------------------------------------------------------------------------
(***************************************************************************)
(* Helpers                                                                 *)
(***************************************************************************)
\* What take() may find when it asks for n bytes and left remain: got bytes, and
\* for a stream possibly a read error (ferror) before the n-th.
Answers(stream, left, n) ==
    {[got |-> Least(n, left), io |-> 0]} \cup
    {[got |-> g, io |-> 1] : g \in IF stream = 1 THEN 0 .. Least(n - 1, left) ELSE {}}

\* A short read is the end of the input or an I/O error.
short_read_status(a, at_eof) == IF a.io = 1 THEN "ERR_IO" ELSE at_eof

\* pcap_parse_global_header() on the first n bytes: the magic comes first.
pcap_parse_global_header(n) ==
    IF n < MAGIC_LEN THEN "ERR_SHORT_HEADER"
    ELSE IF file.magic = "pcapng" THEN "ERR_PCAPNG"
    ELSE IF file.magic = "other" THEN "ERR_BAD_MAGIC"
    ELSE IF n < PCAP_GLOBAL_HDR_LEN THEN "ERR_SHORT_HEADER"
    ELSE IF file.version # "2.4" THEN "ERR_BAD_VERSION"
    ELSE IF file.linktype # "ethernet" THEN "ERR_BAD_LINKTYPE"
    ELSE "OK"

\* A short header whose magic is there but wrong is "not a pcap file".
read_global_header(a) ==
    LET st == short_read_status(a, "ERR_SHORT_HEADER") IN
    IF a.got = PCAP_GLOBAL_HDR_LEN THEN pcap_parse_global_header(a.got)
    ELSE IF st = "ERR_SHORT_HEADER" /\ a.got >= MAGIC_LEN
         THEN pcap_parse_global_header(a.got)
    ELSE st

\* Mutant: the length is believed.
caplen_trusted(c) == FALSE

\* pcap_parse_record_header(): the check of the one length that sizes a read.
caplen_bad(c) == c > PCAP_MAX_CAPLEN

\* The record of a header that ends at `at': once its caplen is accepted, an
\* origlen smaller than that is raised to it.
parsed_record(at, c, w) ==
    [at |-> at, caplen |-> c, wirelen |-> IF ~caplen_bad(c) /\ w < c THEN c ELSE w]

-----------------------------------------------------------------------------
Init ==
    /\ file \in Files
    /\ fp = 0 /\ buf = 0 /\ mem_len = 0 /\ pos = 0
    /\ records = 0 /\ error = "OK" /\ sys_errno = 0
    /\ pc = "closed" /\ rec = NoRecord /\ ret = "OK"
    /\ streams = 0 /\ asked = 0 /\ covered = 0 /\ faults = 0

\* reader_reset(), after which the caller stores the error st and errno e.
reader_reset(st, e) ==
    /\ fp' = 0 /\ buf' = 0 /\ mem_len' = 0 /\ pos' = 0
    /\ records' = 0 /\ error' = st /\ sys_errno' = e

\* No capture could be opened: fopen() failed or the stream is NULL.
not_opened(e) ==
    /\ reader_reset("ERR_OPEN", e)
    /\ ret' = "ERR_OPEN" /\ pc' = "idle" /\ faults' = 1
    /\ rec' = NoRecord /\ covered' = 0
    /\ UNCHANGED <<streams, asked>>

\* Mutant: the errno of the failed read is lost when the reader is closed.
errno_after_close(st) == 0

\* The errno kept across the pcap_close() of a failed open.
errno_kept(st) == IF st = "ERR_IO" THEN 1 ELSE 0

\* Mutant: only the buffer is freed.
stream_kept(n, owned) == n

\* pcap_close() closes the stream if the reader owns one; n streams were open.
stream_closed(n, owned) == n - owned

\* open_stream(): own the stream, allocate the record buffer, read the global
\* header; if any of that fails, close again.
open_stream ==
    /\ rec' = NoRecord
    /\ pc' = "idle"
    /\ \/ /\ reader_reset("ERR_NOMEM", 0)
          /\ ret' = "ERR_NOMEM" /\ faults' = 1
          /\ streams' = stream_closed(streams + 1, 1)
          /\ covered' = 0
          /\ UNCHANGED asked
       \/ \E a \in Answers(1, file.len, PCAP_GLOBAL_HDR_LEN) :
            LET st == read_global_header(a) IN
            /\ ret' = st /\ faults' = a.io
            /\ asked' = IF asked < PCAP_GLOBAL_HDR_LEN THEN PCAP_GLOBAL_HDR_LEN ELSE asked
            /\ \/ /\ st = "OK"
                  /\ fp' = 1 /\ buf' = 1 /\ mem_len' = 0 /\ pos' = a.got
                  /\ records' = 0 /\ error' = "OK" /\ sys_errno' = 0
                  /\ streams' = streams + 1
                  /\ covered' = a.got
               \/ /\ st # "OK"
                  /\ reader_reset(st, errno_kept(st))
                  /\ streams' = stream_closed(streams + 1, 1)
                  /\ covered' = 0

\* The caller opens a reader that owns no stream: a new one, one that was closed
\* or failed to open, or one on a buffer.
MayOpen == pc \in {"closed", "idle"} /\ fp = 0

pcap_open_file ==
    /\ MayOpen
    /\ not_opened(1) \/ open_stream
    /\ UNCHANGED file

pcap_open_stream ==
    /\ MayOpen
    /\ not_opened(0) \/ open_stream
    /\ UNCHANGED file

pcap_open_mem ==
    /\ MayOpen
    /\ \E a \in Answers(0, file.len, PCAP_GLOBAL_HDR_LEN) :
         LET st == read_global_header(a) IN
         /\ fp' = 0 /\ buf' = 0 /\ mem_len' = file.len /\ pos' = a.got
         /\ records' = 0 /\ error' = st /\ sys_errno' = 0
         /\ ret' = st
         /\ covered' = IF st = "OK" THEN a.got ELSE 0
    /\ pc' = "idle" /\ rec' = NoRecord /\ faults' = 0
    /\ UNCHANGED <<file, streams, asked>>

-----------------------------------------------------------------------------
End == IF fp = 1 THEN file.len ELSE mem_len

\* take(n) found the answer a; short_read_status() keeps errno after an error.
take(n, a) ==
    /\ pos' = pos + a.got
    /\ asked' = IF fp = 1 /\ asked < n THEN n ELSE asked
    /\ faults' = IF a.io = 1 THEN 1 ELSE faults
    /\ sys_errno' = IF a.io = 1 THEN 1 ELSE sys_errno

\* pcap_next() returns st, and so will every later call.
fail(st) ==
    /\ error' = st /\ ret' = st
    /\ pc' = "idle"

\* Mutant: a cut record header is reported like a cut record.
header_end_any(a) == IF a.got = 0 THEN "EOF" ELSE "ERR_TRUNC_RECORD"

\* The status of a record header that is not there, or not whole.
header_end(a) == IF a.got = 0 THEN "EOF" ELSE "ERR_TRUNC_RECORD_HDR"

\* pcap_next(), up to the record header.
pcap_next ==
    /\ pc = "idle"
    /\ \/ /\ error # "OK"
          /\ ret' = error
          /\ UNCHANGED <<pos, asked, faults, sys_errno, error, pc, rec>>
       \/ /\ error = "OK"
          /\ \E a \in Answers(fp, End - pos, PCAP_RECORD_HDR_LEN), w \in WireLens :
               /\ take(PCAP_RECORD_HDR_LEN, a)
               /\ \/ /\ a.got < PCAP_RECORD_HDR_LEN
                     /\ fail(short_read_status(a, header_end(a)))
                     /\ UNCHANGED rec
                  \/ /\ a.got = PCAP_RECORD_HDR_LEN
                     /\ rec' = parsed_record(pos + a.got, file.caplen[pos], w)
                     /\ \/ /\ caplen_bad(file.caplen[pos])
                           /\ fail("ERR_BAD_CAPLEN")
                        \/ /\ ~caplen_bad(file.caplen[pos])
                           /\ pc' = "data"
                           /\ UNCHANGED <<error, ret>>
    /\ UNCHANGED <<file, fp, buf, mem_len, records, streams, covered>>

\* The rest of pcap_next(): the bytes of the packet.
pcap_next_data ==
    /\ pc = "data"
    /\ \E a \in Answers(fp, End - pos, rec.caplen) :
         /\ take(rec.caplen, a)
         /\ \/ /\ a.got < rec.caplen
               /\ fail(short_read_status(a, "ERR_TRUNC_RECORD"))
               /\ UNCHANGED <<records, covered>>
            \/ /\ a.got = rec.caplen
               /\ records' = records + 1
               /\ covered' = pos + a.got
               /\ ret' = "OK" /\ pc' = "idle"
               /\ UNCHANGED error
    /\ UNCHANGED <<file, fp, buf, mem_len, rec, streams>>

pcap_close ==
    /\ pc = "idle"
    /\ reader_reset("OK", 0)
    /\ streams' = stream_closed(streams, fp)
    /\ pc' = "closed" /\ ret' = "OK" /\ rec' = NoRecord /\ covered' = 0 /\ faults' = 0
    /\ UNCHANGED <<file, asked>>

Next ==
    \/ pcap_open_file \/ pcap_open_stream \/ pcap_open_mem
    \/ pcap_next
    \/ pcap_next_data
    \/ pcap_close

Spec == Init /\ [][Next]_vars

-----------------------------------------------------------------------------
(***************************************************************************)
(* Properties                                                              *)
(***************************************************************************)
\* Type correctness; in particular the position stays inside the input, so that
\* mem_len - mem_pos never wraps.
TypeOK ==
    /\ file \in Files
    /\ fp \in {0, 1} /\ buf \in {0, 1} /\ sys_errno \in {0, 1} /\ faults \in {0, 1}
    /\ mem_len \in Nat /\ pos \in Nat /\ records \in Nat /\ asked \in Nat
    /\ covered \in Nat
    /\ pos <= End
    /\ pc \in {"closed", "idle", "data"}
    /\ error \in pcap_status /\ ret \in pcap_status
    /\ rec \in [at : Nat, caplen : Nat, wirelen : Nat]
    /\ streams \in Int

\* No read is larger than r->buf, whatever length a record header claims.
ReadsFitBuffer == asked <= PCAP_MAX_CAPLEN

\* "End of file" means that the whole input was returned: the last record ends
\* where the input ends.  Neither a cut file nor a read error at a record
\* boundary passes for a clean end.
CleanEndIsWholeFile == error = "EOF" => covered = End

\* Records are read from where the last one ended, and from nowhere else: after
\* an error the reader does not go on in the middle of a record.
RecordsAreContiguous ==
    [][records' = records + 1 => /\ rec'.at = covered + PCAP_RECORD_HDR_LEN
                                 /\ covered' = rec'.at + rec'.caplen
                                 /\ rec'.caplen <= rec'.wirelen]_vars

\* S is a chain of record boundaries of f, from the global header to the end.
Chain(f, S) ==
    /\ PCAP_GLOBAL_HDR_LEN \in S /\ f.len \in S
    /\ \A p \in S \ {f.len} :
         /\ p + PCAP_RECORD_HDR_LEN <= f.len
         /\ f.caplen[p] <= PCAP_MAX_CAPLEN
         /\ p + PCAP_RECORD_HDR_LEN + f.caplen[p] <= f.len
         /\ p + PCAP_RECORD_HDR_LEN + f.caplen[p] \in S

WellFormed(f) ==
    /\ f.magic = "pcap" /\ f.version = "2.4" /\ f.linktype = "ethernet"
    /\ PCAP_GLOBAL_HDR_LEN <= f.len
    /\ \E S \in SUBSET (PCAP_GLOBAL_HDR_LEN .. f.len) : Chain(f, S)

\* A well-formed capture is never refused: only a failure of the system stops the
\* reader before its end, from a file as from memory.
WellFormedIsReadToEnd ==
    WellFormed(file) /\ faults = 0 => error \in {"OK", "EOF"}

\* Streams do not leak and are not closed twice: the streams that are open are
\* the one the reader owns, and a failed open owns nothing.
StreamsOwned ==
    /\ streams = fp /\ buf = fp
    /\ error \notin {"OK", "EOF", "ERR_IO", "ERR_BAD_CAPLEN",
                     "ERR_TRUNC_RECORD_HDR", "ERR_TRUNC_RECORD"} => fp = 0

\* The errno of a failed read survives until it is reported, also when the open
\* that met it has closed the reader again.
ReadErrorsHaveErrno == error = "ERR_IO" => sys_errno = 1

\* The reader as its callers see it: the records returned so far, and its status.
Source == INSTANCE CaptureSource WITH
            at <- covered,
            status <- IF pc = "closed" THEN "closed" ELSE error,
            stream <- fp

\* The reader implements CaptureSource: from memory as from a file, the records and
\* the verdict after them are those of the bytes, whatever reads came up short.
ImplementsSource == Source!Spec
=============================================================================
