-------------------------- MODULE PcapReaderProofs --------------------------
(***************************************************************************)
(* Proofs of the reader's properties, for captures of every length and     *)
(* content and for every choice of the header lengths.                     *)
(*                                                                         *)
(* The inductive invariant says where the reader stands: between two calls *)
(* without an error it is at the end of the last record returned, which is *)
(* a boundary of every chain of records the capture can be cut into; after *)
(* a record header it is that header's length further on.                  *)
(***************************************************************************)
EXTENDS PcapReader, TLAPS

GH == PCAP_GLOBAL_HDR_LEN
RH == PCAP_RECORD_HDR_LEN

\* A record may follow: the reader is open and has met no error.
Reading == pc \in {"idle", "data"} /\ error = "OK"

InPlace ==
    /\ Reading => /\ GH <= covered /\ covered <= file.len
                  /\ End = file.len
    /\ Reading /\ pc = "idle" => pos = covered
    /\ pc = "data" => /\ error = "OK"
                      /\ covered + RH <= file.len
                      /\ pos = covered + RH /\ rec.at = pos
                      /\ rec.caplen = file.caplen[covered]
                      /\ rec.caplen <= PCAP_MAX_CAPLEN
                      /\ rec.caplen <= rec.wirelen
    /\ pc = "closed" => error = "OK" /\ fp = 0

OnChains == Reading => \A S : Chain(file, S) => covered \in S

IInv ==
    /\ TypeOK /\ ReadsFitBuffer /\ CleanEndIsWholeFile
    /\ InPlace /\ OnChains
    /\ WellFormedIsReadToEnd
    /\ StreamsOwned /\ ReadErrorsHaveErrno

-----------------------------------------------------------------------------
\* What take() can answer: no more than is asked for or left; a read error is
\* always short, and a short read without one has reached the end.
LEMMA AnswerCases ==
    ASSUME NEW s \in {0, 1}, NEW left \in Nat, NEW n \in Nat,
           NEW a \in Answers(s, left, n)
    PROVE  /\ a.got \in Nat /\ a.io \in {0, 1}
           /\ a.got <= n /\ a.got <= left
           /\ a.io = 1 => a.got < n /\ s = 1
           /\ a.io = 0 /\ a.got < n => a.got = left
BY DEF Answers, Least

\* The statuses of a global header are statuses, and the header is accepted only
\* if it was read whole, from a file that is long enough.
LEMMA HeaderCases ==
    ASSUME NEW a \in Answers(1, file.len, GH) \cup Answers(0, file.len, GH),
           file \in Files
    PROVE  LET st == read_global_header(a) IN
           /\ a.got \in Nat /\ a.io \in {0, 1} /\ a.got <= file.len /\ a.got <= GH
           /\ st \in {"OK", "ERR_IO", "ERR_SHORT_HEADER", "ERR_BAD_MAGIC", "ERR_PCAPNG",
                      "ERR_BAD_VERSION", "ERR_BAD_LINKTYPE"}
           /\ st = "OK" => a.got = GH /\ a.io = 0
           /\ st = "ERR_IO" => a.io = 1
           /\ WellFormed(file) /\ a.io = 0 => st = "OK"
<1>1. /\ a.got \in Nat /\ a.io \in {0, 1} /\ a.got <= GH /\ a.got <= file.len
      /\ a.io = 1 => a.got < GH
      /\ a.io = 0 /\ a.got < GH => a.got = file.len
  BY AnswerCases, LenAssumption, FilesAssumption DEF GH
<1>2. QED
  BY <1>1, LenAssumption, FilesAssumption
     DEF read_global_header, short_read_status, pcap_parse_global_header, WellFormed, GH

\* The global header ends at a boundary of every chain.
LEMMA ChainStarts == \A S : Chain(file, S) => GH \in S
BY DEF Chain, GH

\* The invariant holds before anything is opened.
LEMMA InitInv == Init => IInv
BY LenAssumption, FilesAssumption
   DEF Init, IInv, TypeOK, ReadsFitBuffer, CleanEndIsWholeFile, InPlace, OnChains,
       Reading, WellFormedIsReadToEnd, StreamsOwned, ReadErrorsHaveErrno, NoRecord,
       End, pcap_status

\* A failed open that keeps nothing preserves the invariant.
LEMMA FailedOpenInv ==
    ASSUME IInv, NEW st \in pcap_status \ {"OK", "EOF"}, NEW e \in {0, 1},
           reader_reset(st, e), ret' = st, pc' = "idle", rec' = NoRecord, covered' = 0,
           UNCHANGED file, streams' = 0, asked' \in Nat, asked' <= PCAP_MAX_CAPLEN,
           faults' \in {0, 1}, faults' = 0 => ~WellFormed(file),
           st = "ERR_IO" => e = 1
    PROVE  IInv'
BY LenAssumption, FilesAssumption
   DEF IInv, TypeOK, ReadsFitBuffer, CleanEndIsWholeFile, InPlace, OnChains,
       Reading, WellFormedIsReadToEnd, StreamsOwned, ReadErrorsHaveErrno, NoRecord,
       End, pcap_status, reader_reset, WellFormed, Chain

\* Opening a file or a stream keeps the invariant, however far it gets.
LEMMA OpenStreamInv ==
    ASSUME IInv, fp = 0, open_stream, UNCHANGED file
    PROVE  IInv'
<1>0. streams = 0 /\ asked \in Nat /\ asked <= PCAP_MAX_CAPLEN /\ file \in Files
  BY DEF IInv, StreamsOwned, TypeOK, ReadsFitBuffer
<1>1. CASE /\ reader_reset("ERR_NOMEM", 0) /\ ret' = "ERR_NOMEM" /\ faults' = 1
           /\ streams' = stream_closed(streams + 1, 1) /\ covered' = 0 /\ UNCHANGED asked
  <2>1. streams' = 0 /\ pc' = "idle" /\ rec' = NoRecord
    BY <1>0, <1>1 DEF stream_closed, open_stream
  <2>2. "ERR_NOMEM" \in pcap_status \ {"OK", "EOF"}
    BY DEF pcap_status
  <2>3. QED
    BY <1>0, <1>1, <2>1, <2>2, FailedOpenInv
<1>2. ASSUME NEW a \in Answers(1, file.len, PCAP_GLOBAL_HDR_LEN),
             ret' = read_global_header(a), faults' = a.io,
             asked' = IF asked < PCAP_GLOBAL_HDR_LEN THEN PCAP_GLOBAL_HDR_LEN ELSE asked,
             \/ /\ read_global_header(a) = "OK"
                /\ fp' = 1 /\ buf' = 1 /\ mem_len' = 0 /\ pos' = a.got
                /\ records' = 0 /\ error' = "OK" /\ sys_errno' = 0
                /\ streams' = streams + 1
                /\ covered' = a.got
             \/ /\ read_global_header(a) # "OK"
                /\ reader_reset(read_global_header(a), errno_kept(read_global_header(a)))
                /\ streams' = stream_closed(streams + 1, 1)
                /\ covered' = 0
      PROVE  IInv'
  <2> DEFINE st == read_global_header(a)
  <2>0. pc' = "idle" /\ rec' = NoRecord
    BY DEF open_stream
  <2>1. /\ a.got \in Nat /\ a.io \in {0, 1} /\ a.got <= file.len
        /\ st \in {"OK", "ERR_IO", "ERR_SHORT_HEADER", "ERR_BAD_MAGIC", "ERR_PCAPNG",
                   "ERR_BAD_VERSION", "ERR_BAD_LINKTYPE"}
        /\ st = "OK" => a.got = GH /\ a.io = 0
        /\ st = "ERR_IO" => a.io = 1
        /\ WellFormed(file) /\ a.io = 0 => st = "OK"
    BY <1>0, HeaderCases DEF GH
  <2>2. asked' \in Nat /\ asked' <= PCAP_MAX_CAPLEN
    BY <1>0, <1>2, LenAssumption
  <2> HIDE DEF st
  <2>3. CASE st = "OK"
    <3>1. /\ fp' = 1 /\ buf' = 1 /\ mem_len' = 0 /\ pos' = GH
          /\ records' = 0 /\ error' = "OK" /\ sys_errno' = 0 /\ streams' = 1
          /\ covered' = GH /\ ret' = "OK" /\ faults' = 0
      BY <1>0, <1>2, <2>1, <2>3 DEF st
    <3>2. OnChains'
      BY <3>1, ChainStarts DEF OnChains, Reading, Chain
    <3>3. GH <= file.len /\ file.len \in Nat /\ file' = file
      BY <1>0, <2>1, <2>3, FilesAssumption
    <3>4. TypeOK'
      BY <1>0, <2>0, <2>2, <3>1, <3>3, LenAssumption DEF TypeOK, End, NoRecord, pcap_status, GH
    <3>5. InPlace' /\ CleanEndIsWholeFile' /\ WellFormedIsReadToEnd' /\ StreamsOwned'
          /\ ReadErrorsHaveErrno' /\ ReadsFitBuffer'
      BY <2>0, <2>2, <3>1, <3>3, LenAssumption
         DEF InPlace, Reading, End, CleanEndIsWholeFile, WellFormedIsReadToEnd,
             StreamsOwned, ReadErrorsHaveErrno, ReadsFitBuffer, GH
    <3>6. QED
      BY <3>2, <3>4, <3>5 DEF IInv
  <2>4. CASE st # "OK"
    <3>1. reader_reset(st, errno_kept(st)) /\ streams' = 0 /\ covered' = 0 /\ ret' = st
      BY <1>0, <1>2, <2>4 DEF st, stream_closed
    <3>2. st \in pcap_status \ {"OK", "EOF"}
      BY <2>1, <2>4 DEF pcap_status
    <3>3. errno_kept(st) \in {0, 1} /\ (st = "ERR_IO" => errno_kept(st) = 1)
      BY DEF errno_kept
    <3>4. faults' \in {0, 1} /\ (faults' = 0 => ~WellFormed(file))
      BY <1>2, <2>1, <2>4
    <3>5. QED
      BY <2>0, <2>2, <3>1, <3>2, <3>3, <3>4, FailedOpenInv
  <2>5. QED
    BY <2>3, <2>4
<1>3. QED
  BY <1>1, <1>2 DEF open_stream

\* A file that fopen() does not open leaves nothing behind.
LEMMA NotOpenedInv ==
    ASSUME IInv, fp = 0, NEW e \in {0, 1}, not_opened(e), UNCHANGED file
    PROVE  IInv'
<1>1. streams = 0 /\ asked \in Nat /\ asked <= PCAP_MAX_CAPLEN
  BY DEF IInv, StreamsOwned, TypeOK, ReadsFitBuffer
<1>2. "ERR_OPEN" \in pcap_status \ {"OK", "EOF"}
  BY DEF pcap_status
<1>3. QED
  BY <1>1, <1>2, FailedOpenInv DEF not_opened

\* Opening a capture in memory keeps the invariant.
LEMMA OpenMemInv ==
    ASSUME IInv, pcap_open_mem
    PROVE  IInv'
<1>0. fp = 0 /\ streams = 0 /\ asked \in Nat /\ asked <= PCAP_MAX_CAPLEN /\ file \in Files
  BY DEF IInv, StreamsOwned, TypeOK, ReadsFitBuffer, pcap_open_mem, MayOpen
<1>1. PICK a \in Answers(0, file.len, PCAP_GLOBAL_HDR_LEN) :
         LET st == read_global_header(a) IN
         /\ fp' = 0 /\ buf' = 0 /\ mem_len' = file.len /\ pos' = a.got
         /\ records' = 0 /\ error' = st /\ sys_errno' = 0
         /\ ret' = st
         /\ covered' = IF st = "OK" THEN a.got ELSE 0
  BY DEF pcap_open_mem
<1> DEFINE st == read_global_header(a)
<1>2. /\ a.got \in Nat /\ a.io = 0 /\ a.got <= file.len
      /\ st \in {"OK", "ERR_SHORT_HEADER", "ERR_BAD_MAGIC", "ERR_PCAPNG",
                 "ERR_BAD_VERSION", "ERR_BAD_LINKTYPE"}
      /\ st = "OK" => a.got = GH
      /\ WellFormed(file) => st = "OK"
  <2>1. a.io = 0
    BY DEF Answers
  <2>2. QED
    BY <1>0, <2>1, HeaderCases DEF GH
<1>3. /\ pc' = "idle" /\ rec' = NoRecord /\ faults' = 0 /\ UNCHANGED <<file, streams, asked>>
      /\ fp' = 0 /\ buf' = 0 /\ mem_len' = file.len /\ pos' = a.got
      /\ records' = 0 /\ error' = st /\ sys_errno' = 0 /\ ret' = st
      /\ covered' = IF st = "OK" THEN a.got ELSE 0
  BY <1>1 DEF pcap_open_mem
<1> HIDE DEF st
<1>4. OnChains'
  BY <1>2, <1>3, ChainStarts DEF OnChains, Reading, Chain
<1>5. TypeOK'
  BY <1>0, <1>2, <1>3, LenAssumption, FilesAssumption DEF TypeOK, End, NoRecord, pcap_status
<1>6. InPlace' /\ CleanEndIsWholeFile' /\ WellFormedIsReadToEnd' /\ StreamsOwned'
      /\ ReadErrorsHaveErrno' /\ ReadsFitBuffer'
  <2>1. WellFormed(file)' <=> WellFormed(file)
    BY <1>3 DEF WellFormed, Chain
  <2>2. QED
    BY <1>0, <1>2, <1>3, <2>1, LenAssumption, FilesAssumption
     DEF InPlace, Reading, End, CleanEndIsWholeFile, WellFormedIsReadToEnd,
         StreamsOwned, ReadErrorsHaveErrno, ReadsFitBuffer, GH
<1>7. QED
  BY <1>4, <1>5, <1>6 DEF IInv

\* pcap_close() keeps the invariant.
LEMMA CloseInv ==
    ASSUME IInv, pcap_close
    PROVE  IInv'
BY LenAssumption, FilesAssumption
   DEF IInv, pcap_close, reader_reset, stream_closed, TypeOK, ReadsFitBuffer,
       CleanEndIsWholeFile, InPlace, OnChains, Reading, WellFormedIsReadToEnd,
       StreamsOwned, ReadErrorsHaveErrno, NoRecord, End, pcap_status

-----------------------------------------------------------------------------
\* A call that stops the reader with st leaves the invariant intact, if the end it
\* reports is real and a well-formed capture is stopped by nothing but a fault.
LEMMA FailInv ==
    ASSUME IInv, NEW st \in pcap_status \ {"OK"}, fail(st), pc # "closed",
           UNCHANGED <<file, fp, buf, mem_len, records, streams, covered>>,
           rec' \in [at : Nat, caplen : Nat, wirelen : Nat],
           pos' \in Nat, pos' <= End, asked' \in Nat, asked' <= PCAP_MAX_CAPLEN,
           faults' \in {0, 1}, sys_errno' \in {0, 1},
           st \in {"EOF", "ERR_IO", "ERR_BAD_CAPLEN", "ERR_TRUNC_RECORD_HDR",
                   "ERR_TRUNC_RECORD"},
           st = "EOF" => covered = End,
           st = "ERR_IO" => sys_errno' = 1,
           WellFormed(file) /\ faults' = 0 => st = "EOF"
    PROVE  IInv'
<1>1. TypeOK'
  BY DEF IInv, TypeOK, fail, End
<1>2. InPlace' /\ OnChains'
  BY DEF InPlace, OnChains, Reading, fail
<1>3. WellFormedIsReadToEnd'
  <2>1. WellFormed(file)' => WellFormed(file)
    BY DEF WellFormed, Chain
  <2>2. QED
    BY <2>1 DEF WellFormedIsReadToEnd, fail
<1>4. CleanEndIsWholeFile' /\ StreamsOwned' /\ ReadErrorsHaveErrno' /\ ReadsFitBuffer'
  BY DEF IInv, CleanEndIsWholeFile, StreamsOwned, ReadErrorsHaveErrno, ReadsFitBuffer,
         End, fail
<1>5. QED
  BY <1>1, <1>2, <1>3, <1>4 DEF IInv

\* In a well-formed capture a boundary before the end is followed by a whole
\* record whose length is accepted, and its end is a boundary again.
LEMMA NextBoundary ==
    ASSUME IInv, Reading, WellFormed(file), covered # file.len
    PROVE  /\ covered + RH <= file.len
           /\ file.caplen[covered] <= PCAP_MAX_CAPLEN
           /\ covered + RH + file.caplen[covered] <= file.len
<1>1. PICK S \in SUBSET (PCAP_GLOBAL_HDR_LEN .. file.len) : Chain(file, S)
  BY DEF WellFormed
<1>2. covered \in S
  BY <1>1 DEF IInv, OnChains
<1>3. QED
  BY <1>1, <1>2 DEF Chain, RH

\* Reading a record header keeps the invariant.
LEMMA NextInv ==
    ASSUME IInv, pcap_next
    PROVE  IInv'
<1>1. CASE error # "OK"
  <2>1. /\ ret' = error /\ UNCHANGED <<file, fp, buf, mem_len, records, streams, covered,
           pos, asked, faults, sys_errno, error, pc, rec>>
    BY <1>1 DEF pcap_next
  <2>2. WellFormed(file)' => WellFormed(file)
    BY <2>1 DEF WellFormed, Chain
  <2>3. QED
    BY <1>1, <2>1, <2>2
       DEF IInv, TypeOK, ReadsFitBuffer, CleanEndIsWholeFile, InPlace, OnChains,
           Reading, WellFormedIsReadToEnd, StreamsOwned, ReadErrorsHaveErrno, End
<1>2. CASE error = "OK"
  <2>0. /\ Reading /\ pc = "idle" /\ pos = covered /\ GH <= covered
        /\ covered <= file.len /\ End = file.len /\ file.len \in Nat /\ pos \in Nat
        /\ fp \in {0, 1} /\ file \in Files
        /\ UNCHANGED <<file, fp, buf, mem_len, records, streams, covered>>
    BY <1>2, FilesAssumption DEF pcap_next, IInv, InPlace, Reading, TypeOK
  <2>1. PICK a \in Answers(fp, End - pos, PCAP_RECORD_HDR_LEN), w \in WireLens :
               /\ take(PCAP_RECORD_HDR_LEN, a)
               /\ \/ /\ a.got < PCAP_RECORD_HDR_LEN
                     /\ fail(short_read_status(a, header_end(a)))
                     /\ UNCHANGED rec
                  \/ /\ a.got = PCAP_RECORD_HDR_LEN
                     /\ rec' = parsed_record(pos + a.got, file.caplen[pos], w)
                     /\ \/ /\ caplen_bad(file.caplen[pos])
                           /\ fail("ERR_BAD_CAPLEN")
                        \/ /\ ~caplen_bad(file.caplen[pos])
                           /\ pc' = "data"
                           /\ UNCHANGED <<error, ret>>
    BY <1>2 DEF pcap_next
  <2>2. /\ a.got \in Nat /\ a.io \in {0, 1}
        /\ a.got <= RH /\ a.got <= file.len - covered
        /\ a.io = 1 => a.got < RH /\ fp = 1
        /\ a.io = 0 /\ a.got < RH => a.got = file.len - covered
    BY <2>0, AnswerCases, LenAssumption DEF RH
  <2>3. /\ pos' = covered + a.got /\ pos' \in Nat /\ pos' <= End
        /\ asked' \in Nat /\ asked' <= PCAP_MAX_CAPLEN
        /\ faults' \in {0, 1} /\ sys_errno' \in {0, 1}
        /\ a.io = 1 => faults' = 1 /\ sys_errno' = 1
    BY <2>0, <2>1, <2>2, LenAssumption DEF take, IInv, TypeOK, ReadsFitBuffer, RH
  <2>4. CASE a.got < RH
    <3> DEFINE st == short_read_status(a, header_end(a))
    <3>1. fail(st) /\ UNCHANGED rec
      BY <2>1, <2>2, <2>4, LenAssumption DEF RH
    <3>2. /\ st \in {"EOF", "ERR_IO", "ERR_TRUNC_RECORD_HDR"}
          /\ st = "ERR_IO" => a.io = 1
          /\ st = "EOF" => a.got = 0 /\ a.io = 0
          /\ a.io = 0 /\ a.got = 0 => st = "EOF"
      BY <2>2 DEF short_read_status, header_end
    <3> HIDE DEF st
    <3>3. st = "EOF" => covered = End
      BY <2>0, <2>2, <2>4, <3>2, LenAssumption DEF RH
    <3>4. WellFormed(file) /\ faults' = 0 => st = "EOF"
      <4>1. SUFFICES ASSUME WellFormed(file), faults' = 0 PROVE st = "EOF"
        OBVIOUS
      <4>2. a.io = 0 /\ a.got = file.len - covered
        BY <2>2, <2>3, <2>4, <4>1
      <4>3. covered = file.len
        BY <2>0, <2>2, <2>4, <4>1, <4>2, NextBoundary, LenAssumption DEF RH, IInv, TypeOK
      <4>4. QED
        BY <2>0, <3>2, <4>2, <4>3
    <3>5. /\ st \in pcap_status \ {"OK"} /\ pc # "closed"
          /\ rec' \in [at : Nat, caplen : Nat, wirelen : Nat]
      BY <2>0, <3>1, <3>2 DEF pcap_status, IInv, TypeOK
    <3>6. QED
      BY <2>0, <2>3, <3>1, <3>2, <3>3, <3>4, <3>5, FailInv
  <2>5. CASE a.got = RH
    <3>1. /\ covered \in PCAP_GLOBAL_HDR_LEN .. file.len - PCAP_RECORD_HDR_LEN
          /\ covered + RH <= file.len
      BY <2>0, <2>2, <2>5, LenAssumption DEF GH, RH, IInv, TypeOK
    <3>2. file.caplen[covered] \in Nat /\ w \in Nat
      BY <2>0, <3>1, FilesAssumption
    <3>3. rec' = parsed_record(covered + RH, file.caplen[covered], w)
      BY <2>0, <2>1, <2>5, LenAssumption DEF RH
    <3>4. /\ rec' \in [at : Nat, caplen : Nat, wirelen : Nat]
          /\ rec'.at = covered + RH /\ rec'.caplen = file.caplen[covered]
          /\ ~caplen_bad(file.caplen[covered]) => rec'.caplen <= rec'.wirelen
      BY <2>0, <3>2, <3>3, LenAssumption DEF parsed_record, RH
    <3>5. CASE caplen_bad(file.caplen[covered])
      <4>1. fail("ERR_BAD_CAPLEN")
        BY <2>0, <2>1, <2>5, <3>5, LenAssumption DEF RH
      <4>2. ~WellFormed(file)
        BY <2>0, <3>1, <3>2, <3>5, NextBoundary, LenAssumption DEF caplen_bad, RH, IInv, TypeOK
      <4>3. "ERR_BAD_CAPLEN" \in pcap_status \ {"OK"}
        BY DEF pcap_status
      <4>4. QED
        BY <2>0, <2>3, <3>4, <4>1, <4>2, <4>3, FailInv
    <3>6. CASE ~caplen_bad(file.caplen[covered])
      <4>1. pc' = "data" /\ UNCHANGED <<error, ret>>
        BY <2>0, <2>1, <2>5, <3>6, LenAssumption DEF RH
      <4>2. TypeOK'
        BY <2>0, <2>3, <3>4, <4>1 DEF IInv, TypeOK, End
      <4>3. InPlace'
        BY <1>2, <2>0, <2>3, <2>5, <3>1, <3>2, <3>4, <3>6, <4>1, LenAssumption
           DEF InPlace, Reading, End, caplen_bad, RH
      <4>4. OnChains' /\ WellFormedIsReadToEnd' /\ CleanEndIsWholeFile'
        BY <1>2, <2>0, <4>1 DEF IInv, OnChains, Reading, Chain, WellFormedIsReadToEnd,
                                CleanEndIsWholeFile
      <4>5. StreamsOwned' /\ ReadErrorsHaveErrno' /\ ReadsFitBuffer'
        BY <1>2, <2>0, <2>3, <4>1 DEF IInv, StreamsOwned, ReadErrorsHaveErrno, ReadsFitBuffer
      <4>6. QED
        BY <4>2, <4>3, <4>4, <4>5 DEF IInv
    <3>7. QED
      BY <3>5, <3>6
  <2>6. QED
    BY <2>1, <2>2, <2>4, <2>5, LenAssumption DEF RH
<1>3. QED
  BY <1>1, <1>2

\* Reading the data of a record keeps the invariant.
LEMMA DataInv ==
    ASSUME IInv, pcap_next_data
    PROVE  IInv'
<1>0. /\ Reading /\ pc = "data" /\ error = "OK" /\ pos = covered + RH /\ GH <= covered
      /\ covered + RH <= file.len /\ End = file.len /\ file.len \in Nat
      /\ pos \in Nat /\ covered \in Nat /\ fp \in {0, 1} /\ file \in Files
      /\ rec.caplen \in Nat /\ rec.caplen = file.caplen[covered]
      /\ rec.caplen <= PCAP_MAX_CAPLEN
      /\ UNCHANGED <<file, fp, buf, mem_len, rec, streams>>
  BY FilesAssumption DEF pcap_next_data, IInv, InPlace, Reading, TypeOK
<1>1. PICK a \in Answers(fp, End - pos, rec.caplen) :
         /\ take(rec.caplen, a)
         /\ \/ /\ a.got < rec.caplen
               /\ fail(short_read_status(a, "ERR_TRUNC_RECORD"))
               /\ UNCHANGED <<records, covered>>
            \/ /\ a.got = rec.caplen
               /\ records' = records + 1
               /\ covered' = pos + a.got
               /\ ret' = "OK" /\ pc' = "idle"
               /\ UNCHANGED error
  BY DEF pcap_next_data
<1>2. /\ a.got \in Nat /\ a.io \in {0, 1}
      /\ a.got <= rec.caplen /\ a.got <= file.len - pos
      /\ a.io = 1 => a.got < rec.caplen /\ fp = 1
      /\ a.io = 0 /\ a.got < rec.caplen => a.got = file.len - pos
  BY <1>0, AnswerCases, LenAssumption DEF RH
<1>3. /\ pos' = pos + a.got /\ pos' \in Nat /\ pos' <= End
      /\ asked' \in Nat /\ asked' <= PCAP_MAX_CAPLEN
      /\ faults' \in {0, 1} /\ sys_errno' \in {0, 1}
      /\ a.io = 1 => faults' = 1 /\ sys_errno' = 1
      /\ a.io = 0 => faults' = faults
  BY <1>0, <1>1, <1>2, LenAssumption DEF take, IInv, TypeOK, ReadsFitBuffer
<1>4. CASE a.got < rec.caplen
  <2> DEFINE st == short_read_status(a, "ERR_TRUNC_RECORD")
  <2>1. fail(st) /\ UNCHANGED <<records, covered>>
    BY <1>0, <1>1, <1>2, <1>4
  <2>2. st \in {"ERR_IO", "ERR_TRUNC_RECORD"} /\ (st = "ERR_IO" => a.io = 1)
    BY <1>2 DEF short_read_status
  <2> HIDE DEF st
  <2>3. WellFormed(file) => faults' = 1
    BY <1>0, <1>2, <1>3, <1>4, NextBoundary, LenAssumption DEF RH, IInv, TypeOK
  <2>4. /\ st \in pcap_status \ {"OK"}
        /\ rec' \in [at : Nat, caplen : Nat, wirelen : Nat]
    BY <1>0, <2>2 DEF pcap_status, IInv, TypeOK
  <2>5. QED
    BY <1>0, <1>3, <2>1, <2>2, <2>3, <2>4, FailInv
<1>5. CASE a.got = rec.caplen
  <2>1. /\ records' = records + 1 /\ covered' = covered + RH + file.caplen[covered]
        /\ covered' = pos' /\ ret' = "OK" /\ pc' = "idle" /\ error' = "OK"
        /\ faults' = faults
    BY <1>0, <1>1, <1>2, <1>3, <1>5, LenAssumption
  <2>2. TypeOK'
    BY <1>0, <1>3, <2>1 DEF IInv, TypeOK, End, pcap_status
  <2>3. InPlace'
    BY <1>0, <1>2, <1>3, <2>1, LenAssumption DEF InPlace, Reading, End, GH, RH
  <2>4. OnChains'
    <3>1. ASSUME NEW S, Chain(file, S) PROVE covered' \in S
      <4>1. covered \in S /\ covered # file.len
        BY <1>0, <3>1, LenAssumption DEF IInv, OnChains, RH
      <4>2. QED
        BY <2>1, <3>1, <4>1 DEF Chain, RH
    <3>2. \A S : Chain(file, S)' => covered' \in S
      BY <1>0, <3>1 DEF Chain
    <3>3. QED
      BY <3>2 DEF OnChains, Chain
  <2>5. WellFormedIsReadToEnd' /\ CleanEndIsWholeFile' /\ StreamsOwned'
        /\ ReadErrorsHaveErrno' /\ ReadsFitBuffer'
    BY <1>0, <1>3, <2>1 DEF IInv, WellFormedIsReadToEnd, CleanEndIsWholeFile,
                            StreamsOwned, ReadErrorsHaveErrno, ReadsFitBuffer
  <2>6. QED
    BY <2>2, <2>3, <2>4, <2>5 DEF IInv
<1>6. QED
  BY <1>1, <1>2, <1>4, <1>5

-----------------------------------------------------------------------------
(***************************************************************************)
(* The theorems                                                            *)
(***************************************************************************)

\* The inductive invariant holds in every state the reader can be in.
THEOREM Invariance == Spec => []IInv
<1>1. ASSUME IInv, Next PROVE IInv'
  <2>1. ASSUME pcap_open_file \/ pcap_open_stream PROVE IInv'
    <3>1. fp = 0 /\ UNCHANGED file /\ (open_stream \/ \E e \in {0, 1} : not_opened(e))
      BY <2>1 DEF pcap_open_file, pcap_open_stream, MayOpen
    <3>2. QED
      BY <1>1, <3>1, OpenStreamInv, NotOpenedInv
  <2>2. QED
    BY <1>1, <2>1, OpenMemInv, NextInv, DataInv, CloseInv DEF Next
<1>2. ASSUME IInv, UNCHANGED vars PROVE IInv'
  <2>1. UNCHANGED <<TypeOK, ReadsFitBuffer, CleanEndIsWholeFile, InPlace, OnChains,
                    WellFormedIsReadToEnd, StreamsOwned, ReadErrorsHaveErrno>>
    BY <1>2 DEF vars, TypeOK, ReadsFitBuffer, CleanEndIsWholeFile, InPlace, OnChains,
       Reading, WellFormedIsReadToEnd, StreamsOwned, ReadErrorsHaveErrno, End, WellFormed,
       Chain
  <2>2. QED
    BY <1>2, <2>1 DEF IInv
<1>3. QED
  BY InitInv, <1>1, <1>2, PTL DEF Spec

\* Type correctness; mem_pos never passes mem_len (take() of pcap_reader.c).
THEOREM TypeCorrect == Spec => []TypeOK
<1>1. IInv => TypeOK
  BY DEF IInv
<1>2. QED
  BY Invariance, <1>1, PTL

\* No fread() overruns the record buffer, whatever a record header claims.
THEOREM BufferNeverOverrun == Spec => []ReadsFitBuffer
<1>1. IInv => ReadsFitBuffer
  BY DEF IInv
<1>2. QED
  BY Invariance, <1>1, PTL

\* PCAP_EOF is returned only when every byte of the capture was in a record.
THEOREM EofIsTheEnd == Spec => []CleanEndIsWholeFile
<1>1. IInv => CleanEndIsWholeFile
  BY DEF IInv
<1>2. QED
  BY Invariance, <1>1, PTL

\* A capture that can be cut into records is read to its end, unless the system
\* fails: the reader refuses no well-formed file.
THEOREM WellFormedAccepted == Spec => []WellFormedIsReadToEnd
<1>1. IInv => WellFormedIsReadToEnd
  BY DEF IInv
<1>2. QED
  BY Invariance, <1>1, PTL

\* Every stream is closed once, by pcap_close() or by the open that failed.
THEOREM NoStreamLeaks == Spec => []StreamsOwned
<1>1. IInv => StreamsOwned
  BY DEF IInv
<1>2. QED
  BY Invariance, <1>1, PTL

\* A read error is reported with the errno of the read.
THEOREM ErrnoSurvives == Spec => []ReadErrorsHaveErrno
<1>1. IInv => ReadErrorsHaveErrno
  BY DEF IInv
<1>2. QED
  BY Invariance, <1>1, PTL

\* The records returned follow each other without a gap or an overlap.
THEOREM RecordsFollow == Spec => RecordsAreContiguous
<1>1. ASSUME IInv, [Next]_vars
      PROVE  [records' = records + 1 => /\ rec'.at = covered + PCAP_RECORD_HDR_LEN
                                        /\ covered' = rec'.at + rec'.caplen
                                        /\ rec'.caplen <= rec'.wirelen]_vars
  <2>1. SUFFICES ASSUME records' = records + 1, Next
                 PROVE  /\ rec'.at = covered + PCAP_RECORD_HDR_LEN
                        /\ covered' = rec'.at + rec'.caplen
                        /\ rec'.caplen <= rec'.wirelen
    BY <1>1
  <2>2. records \in Nat
    BY <1>1 DEF IInv, TypeOK
  <2>3. pcap_next_data
    BY <2>1, <2>2 DEF Next, pcap_open_file, pcap_open_stream, pcap_open_mem, not_opened,
       open_stream, reader_reset, pcap_next, pcap_close
  <2>4. QED
    BY <1>1, <2>1, <2>2, <2>3, LenAssumption
       DEF pcap_next_data, IInv, InPlace, RH, TypeOK
<1>2. QED
  BY Invariance, <1>1, PTL DEF Spec, RecordsAreContiguous

-----------------------------------------------------------------------------
(***************************************************************************)
(* The reader implements CaptureSource                                     *)
(***************************************************************************)

\* Without a read error, the status of the global header is the verdict on the
\* file, although only its first bytes were read; and a read error is the only
\* other outcome.
LEMMA HeaderIsVerdict ==
    ASSUME NEW a \in Answers(1, file.len, GH) \cup Answers(0, file.len, GH),
           file \in Files
    PROVE  /\ a.io = 0 => read_global_header(a) = Source!HeaderVerdict
           /\ a.io = 1 => read_global_header(a) = "ERR_IO"
<1>1. /\ a.got \in Nat /\ a.io \in {0, 1} /\ a.got <= GH /\ a.got <= file.len
      /\ a.io = 1 => a.got < GH
      /\ a.io = 0 /\ a.got < GH => a.got = file.len
  BY AnswerCases, LenAssumption, FilesAssumption DEF GH
<1>2. file.len \in Nat /\ GH \in Nat /\ MAGIC_LEN \in Nat /\ MAGIC_LEN <= GH
  BY LenAssumption, FilesAssumption DEF GH
<1>3. QED
  BY <1>1, <1>2
     DEF read_global_header, short_read_status, pcap_parse_global_header,
         Source!HeaderVerdict, GH

\* Opening a file or a stream is a step of CaptureSource or none.
LEMMA OpenStreamRefines ==
    ASSUME IInv, fp = 0, open_stream, UNCHANGED file
    PROVE  Source!Next
<1>0. file \in Files /\ pc' = "idle"
  BY DEF IInv, TypeOK, open_stream
<1>1. CASE reader_reset("ERR_NOMEM", 0) /\ covered' = 0
  BY <1>0, <1>1 DEF reader_reset, Source!Next, Source!CannotOpen
<1>2. ASSUME NEW a \in Answers(1, file.len, PCAP_GLOBAL_HDR_LEN),
             \/ /\ read_global_header(a) = "OK"
                /\ fp' = 1 /\ error' = "OK" /\ covered' = a.got
             \/ /\ read_global_header(a) # "OK"
                /\ reader_reset(read_global_header(a), errno_kept(read_global_header(a)))
                /\ covered' = 0
      PROVE  Source!Next
  <2> DEFINE st == read_global_header(a)
  <2>1. /\ a.io \in {0, 1} /\ (st = "OK" => a.got = GH /\ a.io = 0)
        /\ a.io = 0 => st = Source!HeaderVerdict
        /\ a.io = 1 => st = "ERR_IO"
    BY <1>0, HeaderCases, HeaderIsVerdict DEF GH
  <2>2. CASE st = "OK"
    <3>1. Source!HeaderVerdict = "OK" /\ fp' = 1 /\ error' = "OK" /\ covered' = GH
      BY <1>2, <2>1, <2>2
    <3>2. QED
      BY <1>0, <3>1 DEF Source!Next, Source!Opens, GH
  <2>3. CASE st # "OK"
    <3>1. fp' = 0 /\ error' = st /\ covered' = 0
      BY <1>2, <2>3 DEF reader_reset
    <3>2. CASE a.io = 0
      BY <1>0, <2>1, <2>3, <3>1, <3>2 DEF Source!Next, Source!Opens
    <3>3. CASE a.io = 1
      BY <1>0, <2>1, <3>1, <3>3 DEF Source!Next, Source!CannotOpen
    <3>4. QED
      BY <2>1, <3>2, <3>3
  <2>4. QED
    BY <2>2, <2>3
<1>3. QED
  BY <1>1, <1>2 DEF open_stream

\* Opening memory is a step of CaptureSource.
LEMMA OpenMemRefines ==
    ASSUME IInv, pcap_open_mem
    PROVE  Source!Next
<1>1. PICK a \in Answers(0, file.len, PCAP_GLOBAL_HDR_LEN) :
         /\ fp' = 0 /\ error' = read_global_header(a)
         /\ covered' = IF read_global_header(a) = "OK" THEN a.got ELSE 0
  BY DEF pcap_open_mem
<1>2. file \in Files /\ fp = 0 /\ pc' = "idle" /\ UNCHANGED file
  BY DEF pcap_open_mem, MayOpen, IInv, TypeOK
<1>3. a.io = 0
  BY DEF Answers
<1>4. /\ read_global_header(a) = Source!HeaderVerdict
      /\ read_global_header(a) = "OK" => a.got = GH
  BY <1>2, <1>3, HeaderCases, HeaderIsVerdict DEF GH
<1>5. QED
  BY <1>1, <1>2, <1>4 DEF Source!Next, Source!Opens, GH

\* pcap_next() up to the record header: a stutter, or the verdict.
LEMMA NextRefines ==
    ASSUME IInv, pcap_next
    PROVE  Source!Next \/ UNCHANGED Source!vars
<1>0. pc = "idle" /\ UNCHANGED <<file, fp, covered>>
  BY DEF pcap_next
<1>1. CASE error # "OK"
  BY <1>0, <1>1 DEF pcap_next, Source!vars
<1>2. CASE error = "OK"
  <2>0. /\ pos = covered /\ GH <= covered /\ covered <= file.len /\ End = file.len
        /\ file.len \in Nat /\ covered \in Nat /\ fp \in {0, 1} /\ file \in Files
    BY <1>0, <1>2, FilesAssumption DEF IInv, InPlace, Reading, TypeOK
  <2>1. PICK a \in Answers(fp, End - pos, PCAP_RECORD_HDR_LEN) :
               \/ /\ a.got < PCAP_RECORD_HDR_LEN
                  /\ fail(short_read_status(a, header_end(a)))
               \/ /\ a.got = PCAP_RECORD_HDR_LEN
                  /\ \/ caplen_bad(file.caplen[pos]) /\ fail("ERR_BAD_CAPLEN")
                     \/ pc' = "data" /\ UNCHANGED error
    BY <1>2 DEF pcap_next
  <2>2. /\ a.got \in Nat /\ a.io \in {0, 1}
        /\ a.got <= RH /\ a.got <= file.len - covered
        /\ a.io = 1 => a.got < RH /\ fp = 1
        /\ a.io = 0 /\ a.got < RH => a.got = file.len - covered
        /\ RH \in Nat
    BY <2>0, AnswerCases, LenAssumption DEF RH
  <2>3. CASE a.got < RH /\ a.io = 1
    <3>1. pc' = "idle" /\ error' = "ERR_IO"
      BY <2>1, <2>2, <2>3 DEF fail, short_read_status, RH
    <3>2. QED
      BY <1>0, <1>2, <2>2, <2>3, <3>1 DEF Source!Next, Source!Breaks
  <2>4. CASE a.got < RH /\ a.io = 0
    <3>1. pc' = "idle" /\ error' = header_end(a)
      BY <2>1, <2>2, <2>4 DEF fail, short_read_status, RH
    <3>2. Source!Left = a.got
      BY <2>2, <2>4 DEF Source!Left
    <3>3. ~Source!HasRecord /\ Source!Verdict = header_end(a)
      BY <2>2, <2>4, <3>2 DEF Source!HasRecord, Source!Verdict, header_end, RH
    <3>4. QED
      BY <1>0, <1>2, <3>1, <3>3 DEF Source!Next, Source!Ends
  <2>5. CASE a.got = RH /\ caplen_bad(file.caplen[covered]) /\ fail("ERR_BAD_CAPLEN")
    <3>1. covered \in PCAP_GLOBAL_HDR_LEN .. file.len - PCAP_RECORD_HDR_LEN
      BY <2>0, <2>2, <2>5, LenAssumption DEF GH, RH
    <3>2. file.caplen[covered] \in Nat /\ PCAP_MAX_CAPLEN \in Nat
      BY <2>0, <3>1, FilesAssumption, LenAssumption
    <3>3. Source!Left >= RH /\ Source!Left # 0 /\ Source!Left \in Int
      BY <2>0, <2>2, <2>5, LenAssumption DEF Source!Left, RH
    <3>4. ~Source!HasRecord /\ Source!Verdict = "ERR_BAD_CAPLEN"
      BY <2>2, <2>5, <3>2, <3>3 DEF Source!HasRecord, Source!Verdict, caplen_bad, RH
    <3>5. QED
      BY <1>0, <1>2, <2>5, <3>4 DEF Source!Next, Source!Ends, fail
  <2>6. CASE pc' = "data" /\ UNCHANGED error
    BY <1>0, <2>6 DEF Source!vars
  <2>7. QED
    BY <2>0, <2>1, <2>2, <2>3, <2>4, <2>5, <2>6 DEF RH
<1>3. QED
  BY <1>1, <1>2

\* The rest of pcap_next(): the record is returned, or the verdict is that it is cut.
LEMMA DataRefines ==
    ASSUME IInv, pcap_next_data
    PROVE  Source!Next
<1>0. /\ pc = "data" /\ error = "OK" /\ pos = covered + RH /\ GH <= covered
      /\ covered + RH <= file.len /\ End = file.len /\ file.len \in Nat
      /\ covered \in Nat /\ fp \in {0, 1} /\ RH \in Nat \ {0} /\ PCAP_MAX_CAPLEN \in Nat
      /\ rec.caplen \in Nat /\ rec.caplen = file.caplen[covered]
      /\ rec.caplen <= PCAP_MAX_CAPLEN
      /\ UNCHANGED <<file, fp>>
  BY FilesAssumption, LenAssumption DEF pcap_next_data, IInv, InPlace, Reading, TypeOK, RH
<1>1. PICK a \in Answers(fp, End - pos, rec.caplen) :
         \/ /\ a.got < rec.caplen
            /\ fail(short_read_status(a, "ERR_TRUNC_RECORD"))
            /\ UNCHANGED covered
         \/ /\ a.got = rec.caplen
            /\ covered' = pos + a.got
            /\ pc' = "idle"
            /\ UNCHANGED error
  BY DEF pcap_next_data
<1>2. /\ a.got \in Nat /\ a.io \in {0, 1}
      /\ a.got <= rec.caplen /\ a.got <= file.len - pos
      /\ a.io = 1 => a.got < rec.caplen /\ fp = 1
      /\ a.io = 0 /\ a.got < rec.caplen => a.got = file.len - pos
  BY <1>0, AnswerCases
<1>3. Source!Left >= RH /\ Source!Left # 0 /\ Source!Left \in Int
  BY <1>0 DEF Source!Left
<1>4. CASE a.got < rec.caplen /\ a.io = 1
  BY <1>0, <1>1, <1>2, <1>4 DEF fail, short_read_status, Source!Next, Source!Breaks
<1>5. CASE a.got < rec.caplen /\ a.io = 0
  <2>1. pc' = "idle" /\ error' = "ERR_TRUNC_RECORD" /\ UNCHANGED covered
    BY <1>1, <1>2, <1>5 DEF fail, short_read_status
  <2>2. ~(Source!RecordEnd <= file.len)
    BY <1>0, <1>2, <1>5 DEF Source!RecordEnd, RH
  <2>3. Source!Verdict = "ERR_TRUNC_RECORD"
    BY <1>0, <1>3 DEF Source!Verdict, RH
  <2>4. QED
    BY <1>0, <2>1, <2>2, <2>3 DEF Source!Next, Source!Ends, Source!HasRecord
<1>6. CASE a.got = rec.caplen
  <2>1. covered' = pos + rec.caplen /\ pc' = "idle" /\ UNCHANGED error
    BY <1>1, <1>2, <1>6
  <2>2. covered' = Source!RecordEnd /\ Source!RecordEnd <= file.len
    BY <1>0, <1>2, <1>6, <2>1 DEF Source!RecordEnd, RH
  <2>3. QED
    BY <1>0, <1>3, <2>1, <2>2 DEF Source!Next, Source!Returns, Source!HasRecord, RH
<1>7. QED
  BY <1>1, <1>2, <1>4, <1>5, <1>6

\* From memory as from a file, pcap_next() returns the records that the bytes of
\* the capture hold, and then the verdict that those bytes deserve: PcapReader
\* implements CaptureSource.
THEOREM ReaderImplementsSource == Spec => ImplementsSource
<1>1. Init => Source!Init
  BY DEF Init, Source!Init
<1>2. ASSUME IInv, [Next]_vars PROVE [Source!Next]_(Source!vars)
  <2>1. CASE UNCHANGED vars
    BY <2>1 DEF vars, Source!vars
  <2>2. CASE pcap_open_file \/ pcap_open_stream
    <3>1. fp = 0 /\ UNCHANGED file /\ (open_stream \/ \E e \in {0, 1} : not_opened(e))
      BY <2>2 DEF pcap_open_file, pcap_open_stream, MayOpen
    <3>2. CASE open_stream
      BY <1>2, <3>1, <3>2, OpenStreamRefines
    <3>3. ASSUME NEW e \in {0, 1}, not_opened(e) PROVE Source!Next
      BY <3>1, <3>3 DEF not_opened, reader_reset, Source!Next, Source!CannotOpen
    <3>4. QED
      BY <3>1, <3>2, <3>3
  <2>3. CASE pcap_close
    BY <2>3 DEF pcap_close, reader_reset, Source!Next, Source!Closes
  <2>4. QED
    BY <1>2, <2>1, <2>2, <2>3, OpenMemRefines, NextRefines, DataRefines DEF Next
<1>3. QED
  BY Invariance, <1>1, <1>2, PTL DEF Spec, ImplementsSource, Source!Spec
=============================================================================
