----------------------------- MODULE MainProofs -----------------------------
(***************************************************************************)
(* What main() does with its components, for every capture, every list of  *)
(* arguments and every failure of the system.                              *)
(*                                                                         *)
(* The program is shown to be a behaviour of Analysis and of PcapReader;   *)
(* the invariant of Analysis then holds in it.  tlapm cannot use the       *)
(* theorems of a module that is instantiated, so the few facts about the   *)
(* reader that are needed here are proved from its actions.                *)
(***************************************************************************)
EXTENDS Main, AnalysisProofs

-----------------------------------------------------------------------------
(***************************************************************************)
(* The program drives its components as they allow                         *)
(***************************************************************************)
\* main() calls the analysis as Analysis says it may be called, and changes its
\* state in no other way.
LEMMA StepOfAnalysis == ASSUME [MainNext]_allVars PROVE [Next]_vars
<1>1. CASE UNCHANGED allVars
  BY <1>1 DEF allVars, analysis
<1>2. CASE init_tables
  BY <1>2 DEF init_tables, Next
<1>3. CASE account_record
  <2>1. PICK p \in Packets : analysis_account(p)
    BY <1>3 DEF account_record
  <2> QED BY <2>1 DEF Next
<1>4. CASE stop
  <2>1. run_ends("EOF") \/ run_ends("ERR")
    BY <1>4 DEF stop
  <2> QED BY <2>1 DEF Next
<1>5. CASE release
  BY <1>5 DEF release, Next
<1>6. CASE help \/ count_option \/ csv_option \/ unknown_option \/ input_file \/ args_done
  BY <1>6 DEF help, count_option, csv_option, unknown_option, input_file, args_done, parsing,
     analysis
<1>7. CASE open_capture \/ next_record \/ next_data \/ run_returned
  BY <1>7 DEF open_capture, next_record, next_data, run_returned, analysis
<1>8. CASE summary \/ top_flows \/ gtpu \/ top_tunnels \/ flows_csv \/ tunnels_csv \/ flush
  BY <1>8 DEF summary, top_flows, gtpu, top_tunnels, flows_csv, tunnels_csv, flush, unread,
     analysis
<1> QED BY <1>1, <1>2, <1>3, <1>4, <1>5, <1>6, <1>7, <1>8 DEF MainNext

\* The same of the reader.
LEMMA StepOfReader == ASSUME [MainNext]_allVars PROVE [R!Next]_capture
<1>1. CASE UNCHANGED allVars
  BY <1>1 DEF allVars
<1>2. CASE open_capture \/ next_record \/ next_data \/ release
  BY <1>2 DEF open_capture, next_record, next_data, release, R!Next
<1>3. CASE init_tables
  BY <1>3 DEF init_tables, init_failed, R!Next
<1>4. CASE account_record \/ stop \/ run_returned
  BY <1>4 DEF account_record, stop, run_returned
<1>6. CASE help \/ count_option \/ csv_option \/ unknown_option \/ input_file \/ args_done
  BY <1>6 DEF help, count_option, csv_option, unknown_option, input_file, args_done, parsing
<1>8. CASE summary \/ top_flows \/ gtpu \/ top_tunnels \/ flows_csv \/ tunnels_csv \/ flush
  BY <1>8 DEF summary, top_flows, gtpu, top_tunnels, flows_csv, tunnels_csv, flush, unread
<1> QED BY <1>1, <1>2, <1>3, <1>4, <1>6, <1>8 DEF MainNext

\* The program is a behaviour of the accounting pipeline, so that the theorems of
\* AnalysisProofs hold in it.
THEOREM ProgramRunsAnalysis == MainSpec => Spec
<1>1. MainInit => Init
  BY DEF MainInit
<1>2. [MainNext]_allVars => [Next]_vars
  BY StepOfAnalysis
<1> QED BY <1>1, <1>2, PTL DEF MainSpec, Spec

\* The program is a behaviour of the capture reader, of which PcapReaderProofs shows
\* that it returns the records of the file and leaks no stream.
THEOREM ProgramRunsReader == MainSpec => R!Spec
<1>1. MainInit => R!Init
  BY DEF MainInit
<1>2. [MainNext]_allVars => [R!Next]_(R!vars)
  BY StepOfReader DEF R!vars, capture
<1> QED BY <1>1, <1>2, PTL DEF MainSpec, R!Spec

-----------------------------------------------------------------------------
(***************************************************************************)
(* The invariant of main()                                                 *)
(***************************************************************************)
Looping == {"next", "data", "account", "stop"}
Reporting == {"summary", "flows", "gtpu", "tunnels", "csv", "tunnels_csv", "flush", "free"}

\* Which resources main() holds at each of its steps.
ResourcesHold ==
    /\ pc \in {"args", "open", "init", "ran", "exit"} \cup Looping \cup Reporting
    /\ pc \in {"args", "open"} =>
         r_pc = "closed" /\ fp = 0 /\ buf = 0 /\ streams = 0 /\ asked = 0
    /\ pc \notin {"args", "open", "exit"} =>
         /\ fp = 1 /\ buf = 1 /\ streams = 1
         /\ r_pc = IF pc = "data" THEN "data" ELSE "idle"
    /\ pc = "exit" => fp = 0 /\ buf = 0 /\ streams = 0
    /\ phase = IF pc \in Looping THEN "run"
               ELSE IF pc \in {"ran"} \cup Reporting THEN "stopped" ELSE "none"

\* Where the reader stands in the file, and how many records it has handed over.
ReadingHolds ==
    /\ file \in Files
    /\ pc \notin {"args", "open", "exit"} =>
         /\ pos \in Nat /\ PCAP_GLOBAL_HDR_LEN <= pos /\ pos <= file.len
         /\ error = "OK" /\ pc # "data" => covered = pos
         /\ error = "EOF" => covered = file.len
    /\ pc \in {"init", "next", "data", "account"} => error = "OK"
    /\ pc = "data" => rec.caplen \in Nat
    /\ pc = "stop" => r_ret = error
    /\ pc = "init" => records = 0
    /\ pc \in {"ran"} \cup Looping \cup Reporting =>
         records = stats.packets + One(pc = "account")
    /\ pc = "ran" /\ ret = "EOF" => error = "EOF" /\ lost = "none"

\* The exit status so far, and the files that were opened for writing.
NamesHold ==
    /\ pc # "exit" => status \in {EXIT_OK, EXIT_INPUT}
    /\ pc \in Reporting /\ status = EXIT_OK => error = "EOF" /\ lost = "none"
    /\ pc \notin {"tunnels_csv", "flush", "free", "exit"} => DOMAIN csvs = {}
    /\ pc = "exit" /\ status = EXIT_USAGE => DOMAIN csvs = {} /\ asked = 0
    /\ csvs = [n \in DOMAIN csvs |-> csvs[n]]
    /\ pc \notin {"args", "exit"} \/ DOMAIN csvs # {} => ~paths_clash(opts)
    /\ DOMAIN csvs \subseteq {opts.csv, opts.tunnels} \ {NULL}
    /\ opts.pcap \notin DOMAIN csvs

\* The sections printed so far and the files written so far, but for
\* those that failed; as long as the status is good, none has.
OutputHolds ==
    /\ DOMAIN printed = {"summary", "flows", "gtpu", "tunnels"}
    /\ pc \notin {"gtpu", "tunnels", "csv", "tunnels_csv", "flush", "free", "exit"} =>
         printed.flows = << >>
    /\ pc \notin {"tunnels", "csv", "tunnels_csv", "flush", "free", "exit"} =>
         printed.gtpu = << >>
    /\ pc \notin {"csv", "tunnels_csv", "flush", "free", "exit"} => printed.tunnels = << >>
    /\ pc \in Reporting \ {"summary"} =>
         printed.summary = <<report_summary(stats, Cardinality(DOMAIN flows))>>
    /\ "flows" \notin failed /\ pc \in {"gtpu", "tunnels", "csv", "tunnels_csv", "flush", "free"} =>
         TopPrinted(flows, printed.flows)
    /\ "gtpu" \notin failed /\ pc \in {"tunnels", "csv", "tunnels_csv", "flush", "free"} =>
         (has_gtpu(stats.gtpu) <=> printed.gtpu # << >>)
    /\ "tunnels" \notin failed /\ pc \in {"csv", "tunnels_csv", "flush", "free"} =>
         TopPrinted(tunnels, printed.tunnels)
    /\ "csv" \notin failed /\ pc \in {"tunnels_csv", "flush", "free"} =>
         Written(opts.csv, report_csv(flows))
    /\ "tunnels_csv" \notin failed /\ pc \in {"flush", "free"} =>
         Written(opts.tunnels, report_tunnels_csv(tunnels))
    /\ status = EXIT_OK \/ pc = "args" => failed = {}

-----------------------------------------------------------------------------
(***************************************************************************)
(* The reader, as main() uses it                                           *)
(***************************************************************************)
\* What take() can answer from a stream: no more than is asked for or left, and a
\* short read without an error has reached the end.
LEMMA StreamAnswers ==
    ASSUME NEW left \in Nat, NEW n \in Nat, NEW a \in R!Answers(1, left, n)
    PROVE  /\ a.got \in Nat /\ a.io \in {0, 1} /\ a.got <= n /\ a.got <= left
           /\ a.io = 0 /\ a.got < n => a.got = left
BY DEF R!Answers, R!Least

\* A capture is opened, with the whole global header read, or nothing is held.
LEMMA OpenFile ==
    ASSUME file \in Files, fp = 0, buf = 0, streams = 0, R!pcap_open_file
    PROVE  /\ file' = file /\ r_pc' = "idle"
           /\ r_ret' = "OK" => /\ fp' = 1 /\ buf' = 1 /\ streams' = 1
                               /\ pos' = PCAP_GLOBAL_HDR_LEN /\ pos' <= file.len
                               /\ records' = 0 /\ error' = "OK" /\ covered' = pos'
           /\ r_ret' # "OK" => fp' = 0 /\ buf' = 0 /\ streams' = 0
<1>1. file' = file /\ (R!not_opened(1) \/ R!open_stream)
  BY DEF R!pcap_open_file
<1>2. CASE R!not_opened(1)
  BY <1>1, <1>2 DEF R!not_opened, R!reader_reset
<1>3. CASE R!open_stream
  <2>1. r_pc' = "idle"
    BY <1>3 DEF R!open_stream
  <2>2. CASE /\ R!reader_reset("ERR_NOMEM", 0)
             /\ r_ret' = "ERR_NOMEM" /\ faults' = 1
             /\ streams' = R!stream_closed(streams + 1, 1)
    BY <1>1, <2>1, <2>2 DEF R!reader_reset, R!stream_closed
  <2>3. ASSUME NEW a \in R!Answers(1, file.len, PCAP_GLOBAL_HDR_LEN),
               r_ret' = R!read_global_header(a),
               \/ /\ r_ret' = "OK"
                  /\ fp' = 1 /\ buf' = 1 /\ mem_len' = 0 /\ pos' = a.got
                  /\ records' = 0 /\ error' = "OK" /\ sys_errno' = 0
                  /\ streams' = streams + 1
                  /\ covered' = a.got
               \/ /\ r_ret' # "OK"
                  /\ R!reader_reset(r_ret', R!errno_kept(r_ret'))
                  /\ streams' = R!stream_closed(streams + 1, 1)
        PROVE  /\ r_ret' = "OK" => /\ fp' = 1 /\ buf' = 1 /\ streams' = 1
                               /\ pos' = PCAP_GLOBAL_HDR_LEN /\ pos' <= file.len
                               /\ records' = 0 /\ error' = "OK" /\ covered' = pos'
               /\ r_ret' # "OK" => fp' = 0 /\ buf' = 0 /\ streams' = 0
    <3>1. file.len \in Nat /\ PCAP_GLOBAL_HDR_LEN \in Nat
      BY CaptureAssumption
    <3>2. a.got \in Nat /\ a.got <= PCAP_GLOBAL_HDR_LEN /\ a.got <= file.len
      BY <3>1, StreamAnswers
    <3>3. r_ret' = "OK" => a.got = PCAP_GLOBAL_HDR_LEN
      BY <2>3, <3>1, <3>2
         DEF R!read_global_header, R!pcap_parse_global_header, R!short_read_status
    <3> QED BY <2>3, <3>2, <3>3 DEF R!reader_reset, R!stream_closed
  <2> QED BY <1>1, <1>3, <2>1, <2>2, <2>3 DEF R!open_stream
<1> QED BY <1>1, <1>2, <1>3

\* A record header is read, or the end of the file or an error is found.
LEMMA NextHeader ==
    ASSUME file \in Files, fp = 1, error = "OK", R!pcap_next,
           pos \in Nat, PCAP_GLOBAL_HDR_LEN <= pos, pos <= file.len, covered = pos
    PROVE  /\ UNCHANGED <<file, fp, buf, records, streams, covered>>
           /\ pos' \in Nat /\ pos <= pos' /\ pos' <= file.len
           /\ \/ r_pc' = "data" /\ error' = "OK" /\ rec'.caplen \in Nat
              \/ r_pc' = "idle" /\ error' # "OK" /\ r_ret' = error'
           /\ error' = "EOF" => covered = file.len
<1>1. PICK a \in R!Answers(1, file.len - pos, PCAP_RECORD_HDR_LEN), w \in WireLens :
        /\ R!take(PCAP_RECORD_HDR_LEN, a)
        /\ \/ /\ a.got < PCAP_RECORD_HDR_LEN
              /\ R!fail(R!short_read_status(a, R!header_end(a)))
           \/ /\ a.got = PCAP_RECORD_HDR_LEN
              /\ rec' = R!parsed_record(pos + a.got, file.caplen[pos], w)
              /\ \/ R!fail("ERR_BAD_CAPLEN")
                 \/ r_pc' = "data" /\ UNCHANGED <<error, r_ret>>
  BY DEF R!pcap_next, R!End
<1>2. /\ file.len \in Nat /\ PCAP_RECORD_HDR_LEN \in Nat \ {0} /\ file.len - pos \in Nat
      /\ PCAP_GLOBAL_HDR_LEN \in Nat
      /\ \A p \in PCAP_GLOBAL_HDR_LEN .. file.len - PCAP_RECORD_HDR_LEN : file.caplen[p] \in Nat
  BY CaptureAssumption
<1>3. /\ a.got \in Nat /\ a.io \in {0, 1} /\ a.got <= file.len - pos
      /\ a.io = 0 /\ a.got < PCAP_RECORD_HDR_LEN => a.got = file.len - pos
  BY <1>2, StreamAnswers
<1>4. pos' = pos + a.got
  BY <1>1 DEF R!take
<1>5. UNCHANGED <<file, fp, buf, records, streams, covered>>
  BY DEF R!pcap_next
<1>6. pos' \in Nat /\ pos <= pos' /\ pos' <= file.len
  BY <1>2, <1>3, <1>4
<1>7. CASE /\ a.got < PCAP_RECORD_HDR_LEN
           /\ R!fail(R!short_read_status(a, R!header_end(a)))
  BY <1>2, <1>3, <1>5, <1>6, <1>7 DEF R!fail, R!short_read_status, R!header_end
<1>8. CASE a.got = PCAP_RECORD_HDR_LEN /\ R!fail("ERR_BAD_CAPLEN")
  BY <1>5, <1>6, <1>8 DEF R!fail
<1>9. CASE /\ a.got = PCAP_RECORD_HDR_LEN
           /\ rec' = R!parsed_record(pos + a.got, file.caplen[pos], w)
           /\ r_pc' = "data" /\ UNCHANGED <<error, r_ret>>
  <2>1. file.caplen[pos] \in Nat
    BY <1>2, <1>3, <1>9
  <2>2. rec'.caplen = file.caplen[pos]
    BY <1>9 DEF R!parsed_record
  <2> QED BY <1>5, <1>6, <1>9, <2>1, <2>2
<1> QED BY <1>1, <1>7, <1>8, <1>9

\* The bytes of a record are read, or the file is cut or unreadable there.
LEMMA NextBytes ==
    ASSUME file \in Files, fp = 1, error = "OK", R!pcap_next_data, records \in Int,
           rec.caplen \in Nat, pos \in Nat, PCAP_GLOBAL_HDR_LEN <= pos, pos <= file.len
    PROVE  /\ UNCHANGED <<file, fp, buf, streams>> /\ r_pc' = "idle"
           /\ pos' \in Nat /\ pos <= pos' /\ pos' <= file.len
           /\ \/ /\ r_ret' = "OK" /\ error' = "OK" /\ covered' = pos'
                 /\ records' = records + 1
              \/ /\ r_ret' # "OK" /\ error' = r_ret' /\ error' # "EOF"
                 /\ records' = records
<1>1. PICK a \in R!Answers(1, file.len - pos, rec.caplen) :
        /\ R!take(rec.caplen, a)
        /\ \/ /\ R!fail(R!short_read_status(a, "ERR_TRUNC_RECORD"))
              /\ UNCHANGED <<records, covered>>
           \/ /\ records' = records + 1
              /\ covered' = pos + a.got
              /\ r_ret' = "OK" /\ r_pc' = "idle"
              /\ UNCHANGED error
  BY DEF R!pcap_next_data, R!End
<1>2. file.len \in Nat /\ file.len - pos \in Nat
  BY CaptureAssumption
<1>3. a.got \in Nat /\ a.got <= file.len - pos
  BY <1>2, StreamAnswers
<1>4. pos' = pos + a.got
  BY <1>1 DEF R!take
<1>5. UNCHANGED <<file, fp, buf, streams>>
  BY DEF R!pcap_next_data
<1>6. pos' \in Nat /\ pos <= pos' /\ pos' <= file.len
  BY <1>2, <1>3, <1>4
<1> QED BY <1>1, <1>4, <1>5, <1>6 DEF R!fail, R!short_read_status

\* The reader is closed.
LEMMA CloseReader ==
    ASSUME R!pcap_close, fp = 1, streams = 1
    PROVE  file' = file /\ fp' = 0 /\ buf' = 0 /\ streams' = 0 /\ asked' = asked
BY DEF R!pcap_close, R!reader_reset, R!stream_closed

-----------------------------------------------------------------------------
(***************************************************************************)
(* Every step preserves the invariant                                      *)
(***************************************************************************)
\* The inductive invariant of main().
ProgramInv == ResourcesHold /\ ReadingHolds /\ NamesHold /\ OutputHolds

\* A step that looks at the arguments changes opts only, ends the program, or finds
\* that the names do not clash.
LEMMA ArgsStep ==
    ASSUME help \/ count_option \/ csv_option \/ unknown_option \/ input_file \/ args_done
    PROVE  /\ pc = "args" /\ UNCHANGED <<analysis, capture, printed, failed, csvs>>
           /\ \/ pc' = "args" /\ status' = status
              \/ pc' = "exit" /\ status' \in {EXIT_OK, EXIT_USAGE}
              \/ pc' = "open" /\ status' = status /\ opts' = opts /\ ~paths_clash(opts)
<1>1. CASE args_done
  BY <1>1 DEF args_done, usage_error, Exit, silent
<1>2. CASE help \/ count_option \/ csv_option \/ unknown_option \/ input_file
  BY <1>2 DEF help, count_option, csv_option, unknown_option, input_file, parsing, option,
     usage_error, Exit, Prints, silent
<1> QED BY <1>1, <1>2

\* The arguments are read: the invariant holds on.
LEMMA ArgsInv ==
    ASSUME ProgramInv,
           help \/ count_option \/ csv_option \/ unknown_option \/ input_file \/ args_done
    PROVE  ProgramInv'
<1>1. /\ pc = "args" /\ UNCHANGED <<analysis, capture, printed, failed, csvs>>
      /\ \/ pc' = "args" /\ status' = status
         \/ pc' = "exit" /\ status' \in {EXIT_OK, EXIT_USAGE}
         \/ pc' = "open" /\ status' = status /\ opts' = opts /\ ~paths_clash(opts)
  BY ArgsStep
<1>2. ResourcesHold'
  BY <1>1 DEF ProgramInv, ResourcesHold, Looping, Reporting, analysis, vars, capture
<1>3. ReadingHolds'
  BY <1>1 DEF ProgramInv, ReadingHolds, Looping, Reporting, analysis, vars, capture
<1>4. NamesHold'
  BY <1>1 DEF ProgramInv, NamesHold, ResourcesHold, Looping, Reporting, capture, paths_clash,
     EXIT_OK, EXIT_USAGE, EXIT_INPUT
<1>5. OutputHolds'
  BY <1>1 DEF ProgramInv, OutputHolds, Reporting, EXIT_OK, EXIT_USAGE
<1> QED BY <1>2, <1>3, <1>4, <1>5 DEF ProgramInv

\* The capture is opened, or the program exits without it.
LEMMA OpenInv == ASSUME ProgramInv, open_capture PROVE ProgramInv'
<1>1. /\ pc = "open" /\ R!pcap_open_file /\ UNCHANGED <<analysis, opts, printed, failed, csvs>>
      /\ \/ r_ret' = "OK" /\ pc' = "init" /\ status' = status
         \/ r_ret' # "OK" /\ pc' = "exit" /\ status' = EXIT_INPUT
  BY DEF open_capture, quiet, Exit
<1>2. file \in Files /\ fp = 0 /\ buf = 0 /\ streams = 0 /\ phase = "none"
  BY <1>1 DEF ProgramInv, ResourcesHold, ReadingHolds, Looping, Reporting
<1>3. /\ file' = file /\ r_pc' = "idle"
      /\ r_ret' = "OK" => /\ fp' = 1 /\ buf' = 1 /\ streams' = 1
                          /\ pos' = PCAP_GLOBAL_HDR_LEN /\ pos' <= file.len
                          /\ records' = 0 /\ error' = "OK" /\ covered' = pos'
      /\ r_ret' # "OK" => fp' = 0 /\ buf' = 0 /\ streams' = 0
  BY <1>1, <1>2, OpenFile
<1>4. ResourcesHold'
  BY <1>1, <1>2, <1>3 DEF ResourcesHold, Looping, Reporting, analysis, vars
<1>5. ReadingHolds'
  <2>1. PCAP_GLOBAL_HDR_LEN \in Nat
    BY CaptureAssumption
  <2> QED BY <1>1, <1>2, <1>3, <2>1 DEF ReadingHolds, Looping, Reporting, analysis, vars
<1>6. NamesHold'
  BY <1>1 DEF ProgramInv, NamesHold, Looping, Reporting, paths_clash,
     EXIT_OK, EXIT_USAGE, EXIT_INPUT
<1>7. OutputHolds'
  BY <1>1 DEF ProgramInv, OutputHolds, Reporting, EXIT_OK, EXIT_INPUT
<1> QED BY <1>4, <1>5, <1>6, <1>7 DEF ProgramInv

\* The tables are allocated, or the reader is closed again.
LEMMA InitTablesInv == ASSUME ProgramInv, init_tables PROVE ProgramInv'
<1>1. /\ pc = "init" /\ analysis_init /\ UNCHANGED <<opts, printed, failed, csvs>>
      /\ \/ ret' = "OK" /\ pc' = "next" /\ UNCHANGED <<status, capture>>
         \/ ret' # "OK" /\ pc' = "exit" /\ status' = EXIT_INPUT /\ R!pcap_close
  BY DEF init_tables, init_failed, quiet, Exit
<1>2. /\ stats' = ZeroStats
      /\ \/ phase' = "run" /\ ret' = "OK"
         \/ phase' = "none" /\ ret' = "NOMEM"
  BY <1>1 DEF analysis_init
<1>3. fp = 1 /\ buf = 1 /\ streams = 1 /\ r_pc = "idle" /\ file \in Files
  BY <1>1 DEF ProgramInv, ResourcesHold, ReadingHolds
<1>4. R!pcap_close => file' = file /\ fp' = 0 /\ buf' = 0 /\ streams' = 0 /\ asked' = asked
  BY <1>3, CloseReader
<1>5. ResourcesHold'
  BY <1>1, <1>2, <1>3, <1>4 DEF ResourcesHold, Looping, Reporting, capture
<1>6. ReadingHolds'
  <2>1. ZeroStats.packets = 0
    BY DEF ZeroStats
  <2> QED BY <1>1, <1>2, <1>3, <1>4, <2>1
         DEF ProgramInv, ReadingHolds, Looping, Reporting, capture, One
<1>7. NamesHold'
  BY <1>1 DEF ProgramInv, NamesHold, Looping, Reporting, paths_clash,
     EXIT_OK, EXIT_USAGE, EXIT_INPUT
<1>8. OutputHolds'
  BY <1>1 DEF ProgramInv, OutputHolds, Reporting, EXIT_OK, EXIT_INPUT
<1> QED BY <1>5, <1>6, <1>7, <1>8 DEF ProgramInv

\* The header of the next record is read, or the loop ends.
LEMMA NextRecordInv == ASSUME ProgramInv, next_record PROVE ProgramInv'
<1>1. /\ pc = "next" /\ R!pcap_next /\ pc' = IF r_pc' = "data" THEN "data" ELSE "stop"
      /\ UNCHANGED <<analysis, status, opts, printed, failed, csvs>>
  BY DEF next_record, quiet
<1>2. /\ fp = 1 /\ buf = 1 /\ streams = 1 /\ r_pc = "idle" /\ file \in Files /\ error = "OK"
      /\ pos \in Nat /\ PCAP_GLOBAL_HDR_LEN <= pos /\ pos <= file.len /\ covered = pos
      /\ phase = "run"
  BY <1>1 DEF ProgramInv, ResourcesHold, ReadingHolds, Looping, Reporting
<1>3. /\ UNCHANGED <<file, fp, buf, records, streams, covered>>
      /\ pos' \in Nat /\ pos <= pos' /\ pos' <= file.len
      /\ \/ r_pc' = "data" /\ error' = "OK" /\ rec'.caplen \in Nat
         \/ r_pc' = "idle" /\ error' # "OK" /\ r_ret' = error'
      /\ error' = "EOF" => covered = file.len
  BY <1>1, <1>2, NextHeader
<1>4. ResourcesHold'
  BY <1>1, <1>2, <1>3 DEF ResourcesHold, Looping, Reporting, analysis, vars
<1>5. ReadingHolds'
  <2>1. PCAP_GLOBAL_HDR_LEN <= pos' /\ file.len \in Nat
    BY <1>2, <1>3, CaptureAssumption
  <2>2. records' = stats'.packets + One(pc' = "account")
    BY <1>1, <1>3 DEF ProgramInv, ReadingHolds, Looping, Reporting, analysis, vars, One
  <2> QED BY <1>1, <1>2, <1>3, <2>1, <2>2 DEF ReadingHolds, Looping, Reporting
<1>6. NamesHold'
  BY <1>1 DEF ProgramInv, NamesHold, Looping, Reporting, paths_clash,
     EXIT_OK, EXIT_USAGE, EXIT_INPUT
<1>7. OutputHolds'
  BY <1>1 DEF ProgramInv, OutputHolds, Reporting, EXIT_OK, EXIT_INPUT
<1> QED BY <1>4, <1>5, <1>6, <1>7 DEF ProgramInv

\* The bytes of the record are read, or the loop ends.
LEMMA NextDataInv == ASSUME ProgramInv, IInv, next_data PROVE ProgramInv'
<1>1. /\ pc = "data" /\ R!pcap_next_data /\ pc' = IF r_ret' = "OK" THEN "account" ELSE "stop"
      /\ UNCHANGED <<analysis, status, opts, printed, failed, csvs>>
  BY DEF next_data, quiet
<1>2. /\ fp = 1 /\ buf = 1 /\ streams = 1 /\ file \in Files /\ error = "OK"
      /\ pos \in Nat /\ PCAP_GLOBAL_HDR_LEN <= pos /\ pos <= file.len
      /\ rec.caplen \in Nat /\ phase = "run" /\ records = stats.packets + One(FALSE)
  BY <1>1 DEF ProgramInv, ResourcesHold, ReadingHolds, Looping, Reporting
<1>3. stats.packets \in Nat
  BY DEF IInv, TypesHold, StatsType
<1>4. records = stats.packets /\ records \in Int
  BY <1>2, <1>3 DEF One
<1>5. /\ UNCHANGED <<file, fp, buf, streams>> /\ r_pc' = "idle"
      /\ pos' \in Nat /\ pos <= pos' /\ pos' <= file.len
      /\ \/ /\ r_ret' = "OK" /\ error' = "OK" /\ covered' = pos'
            /\ records' = records + 1
         \/ /\ r_ret' # "OK" /\ error' = r_ret' /\ error' # "EOF"
            /\ records' = records
  BY <1>1, <1>2, <1>4, NextBytes
<1>6. ResourcesHold'
  BY <1>1, <1>2, <1>5 DEF ResourcesHold, Looping, Reporting, analysis, vars
<1>7. ReadingHolds'
  <2>1. PCAP_GLOBAL_HDR_LEN <= pos' /\ file.len \in Nat
    BY <1>2, <1>5, CaptureAssumption
  <2>2. records' = stats'.packets + One(pc' = "account")
    BY <1>1, <1>3, <1>4, <1>5 DEF analysis, vars, One
  <2> QED BY <1>1, <1>2, <1>5, <2>1, <2>2 DEF ReadingHolds, Looping, Reporting
<1>8. NamesHold'
  BY <1>1 DEF ProgramInv, NamesHold, Looping, Reporting, paths_clash,
     EXIT_OK, EXIT_USAGE, EXIT_INPUT
<1>9. OutputHolds'
  BY <1>1 DEF ProgramInv, OutputHolds, Reporting, EXIT_OK, EXIT_INPUT
<1> QED BY <1>6, <1>7, <1>8, <1>9 DEF ProgramInv

\* The record is accounted; the counters catch up with the reader.
LEMMA AccountInv == ASSUME ProgramInv, IInv, IInv', account_record PROVE ProgramInv'
<1>1. PICK p \in Packets : analysis_account(p)
  BY DEF account_record
<1>2. /\ pc = "account" /\ pc' = IF phase' = "stopped" THEN "ran" ELSE "next"
      /\ UNCHANGED <<capture, status, opts, printed, failed, csvs>>
  BY DEF account_record, quiet
<1>3. /\ phase = "run" /\ log' = Append(log, attributed(frags, p))
      /\ \/ phase' = phase
         \/ phase' = "stopped" /\ ret' = "NOMEM"
  BY <1>1 DEF analysis_account
<1>4. stats'.packets = stats.packets + 1 /\ stats.packets \in Nat
  <2>1. log \in Seq(Packet) /\ stats.packets = Len(log) /\ stats'.packets = Len(log')
    BY DEF IInv, TypesHold, PhasesHold
  <2>2. Len(log') = Len(log) + 1 /\ Len(log) \in Nat
    BY <1>3, <2>1
  <2> QED BY <2>1, <2>2
<1>5. ResourcesHold'
  BY <1>2, <1>3 DEF ProgramInv, ResourcesHold, Looping, Reporting, capture
<1>6. ReadingHolds'
  <2>1. records' = stats'.packets
    BY <1>2, <1>4 DEF ProgramInv, ReadingHolds, Looping, Reporting, One, capture
  <2>2. stats'.packets = stats'.packets + One(FALSE)
    BY <1>4 DEF One
  <2> QED BY <1>2, <1>3, <2>1, <2>2 DEF ProgramInv, ReadingHolds, Looping, Reporting, capture
<1>7. NamesHold'
  BY <1>2 DEF ProgramInv, NamesHold, Looping, Reporting, paths_clash, capture,
     EXIT_OK, EXIT_USAGE, EXIT_INPUT
<1>8. OutputHolds'
  BY <1>2 DEF ProgramInv, OutputHolds, Reporting, EXIT_OK, EXIT_INPUT
<1> QED BY <1>5, <1>6, <1>7, <1>8 DEF ProgramInv

\* The loop ends, and main() looks at the reason.
LEMMA StopInv == ASSUME ProgramInv, IInv, stop \/ run_returned PROVE ProgramInv'
<1>1. CASE stop
  <2>1. /\ pc = "stop" /\ run_ends(IF r_ret = "EOF" THEN "EOF" ELSE "ERR") /\ pc' = "ran"
        /\ UNCHANGED <<capture, status, opts, printed, failed, csvs>>
    BY <1>1 DEF stop, quiet
  <2>2. /\ phase' = "stopped" /\ stats' = stats /\ lost' = "none"
        /\ ret' = IF r_ret = "EOF" THEN "EOF" ELSE "ERR"
    BY <2>1 DEF run_ends, IInv, PhasesHold
  <2>3. ResourcesHold'
    BY <2>1, <2>2 DEF ProgramInv, ResourcesHold, Looping, Reporting, capture
  <2>4. ReadingHolds'
    BY <2>1, <2>2 DEF ProgramInv, ReadingHolds, Looping, Reporting, capture, One
  <2>5. NamesHold'
    BY <2>1 DEF ProgramInv, NamesHold, Looping, Reporting, paths_clash, capture,
       EXIT_OK, EXIT_USAGE, EXIT_INPUT
  <2>6. OutputHolds'
    BY <2>1 DEF ProgramInv, OutputHolds, Reporting, EXIT_OK, EXIT_INPUT
  <2> QED BY <2>3, <2>4, <2>5, <2>6 DEF ProgramInv
<1>2. CASE run_returned
  <2>1. /\ pc = "ran" /\ pc' = "summary"
        /\ status' = IF ret = "EOF" THEN status ELSE EXIT_INPUT
        /\ UNCHANGED <<analysis, capture, opts, printed, failed, csvs>>
    BY <1>2 DEF run_returned, quiet
  <2>3. ResourcesHold'
    BY <2>1 DEF ProgramInv, ResourcesHold, Looping, Reporting, capture, analysis, vars
  <2>4. ReadingHolds'
    BY <2>1 DEF ProgramInv, ReadingHolds, Looping, Reporting, capture, One, analysis, vars
  <2>5. NamesHold'
    BY <2>1 DEF ProgramInv, NamesHold, ReadingHolds, Looping, Reporting, paths_clash, capture,
       analysis, vars, EXIT_OK, EXIT_USAGE, EXIT_INPUT
  <2>6. OutputHolds'
    BY <2>1 DEF ProgramInv, OutputHolds, Reporting, EXIT_OK, EXIT_INPUT
  <2> QED BY <2>3, <2>4, <2>5, <2>6 DEF ProgramInv
<1> QED BY <1>1, <1>2

\* The order of the reports.
After(p) == CASE p = "summary" -> "flows" [] p = "flows" -> "gtpu" [] p = "gtpu" -> "tunnels"
              [] p = "tunnels" -> "csv" [] p = "csv" -> "tunnels_csv"
              [] p = "tunnels_csv" -> "flush" [] p = "flush" -> "free"

\* A report reads nothing more and releases nothing, and once the status is bad it
\* remains so.
LEMMA ReportStep ==
    ASSUME summary \/ top_flows \/ gtpu \/ top_tunnels \/ flows_csv \/ tunnels_csv \/ flush,
           NamesHold
    PROVE  /\ pc \in Reporting \ {"free"} /\ pc' = After(pc)
           /\ UNCHANGED <<analysis, capture, opts>>
           /\ status' \in {status, EXIT_INPUT} /\ status \in {EXIT_OK, EXIT_INPUT}
           /\ failed \subseteq failed' /\ (status' = EXIT_OK => failed' = failed)
<1>1. CASE summary \/ top_flows \/ gtpu \/ top_tunnels
  BY <1>1 DEF summary, top_flows, gtpu, top_tunnels, unread, Reporting, After, NamesHold,
     print_top, Prints, nothing_to_print, silent, out_of_memory, EXIT_OK, EXIT_INPUT
<1>2. CASE flows_csv \/ tunnels_csv
  BY <1>2 DEF flows_csv, tunnels_csv, unread, Reporting, After, NamesHold, write_csv,
     csv_returned, csv_status, EXIT_OK, EXIT_INPUT
<1>3. CASE flush
  BY <1>3 DEF flush, unread, Reporting, After, NamesHold
<1> QED BY <1>1, <1>2, <1>3

\* The reports hold on to the reader and the tables.
LEMMA ReportKeeps ==
    ASSUME ProgramInv,
           summary \/ top_flows \/ gtpu \/ top_tunnels \/ flows_csv \/ tunnels_csv \/ flush
    PROVE  ResourcesHold' /\ ReadingHolds'
<1>1. /\ pc \in Reporting \ {"free"} /\ pc' = After(pc)
      /\ UNCHANGED <<analysis, capture, opts>>
  BY ReportStep DEF ProgramInv
<1>2. pc' \in Reporting /\ pc' # "summary"
  BY <1>1 DEF After, Reporting
<1>3. ResourcesHold'
  BY <1>1, <1>2 DEF ProgramInv, ResourcesHold, Looping, Reporting, capture, analysis, vars
<1>4. ReadingHolds'
  BY <1>1, <1>2 DEF ProgramInv, ReadingHolds, Looping, Reporting, capture, analysis, vars, One
<1> QED BY <1>3, <1>4

\* The sections: one more of them is printed, or has nothing to say, or the status
\* becomes bad.
LEMMA PrintInv ==
    ASSUME ProgramInv, summary \/ top_flows \/ gtpu \/ top_tunnels
    PROVE  NamesHold' /\ OutputHolds'
<1>1. /\ pc \in Reporting \ {"free"} /\ pc' = After(pc)
      /\ UNCHANGED <<analysis, capture, opts>>
      /\ status' \in {status, EXIT_INPUT} /\ status \in {EXIT_OK, EXIT_INPUT}
      /\ failed \subseteq failed' /\ (status' = EXIT_OK => failed' = failed)
  BY ReportStep DEF ProgramInv
<1>2. csvs' = csvs /\ pc \in {"summary", "flows", "gtpu", "tunnels"}
  BY DEF summary, top_flows, gtpu, top_tunnels
<1>3. NamesHold'
  BY <1>1, <1>2 DEF ProgramInv, NamesHold, Looping, Reporting, After, paths_clash, capture,
     analysis, vars, EXIT_OK, EXIT_USAGE, EXIT_INPUT
<1>4. /\ DOMAIN printed = {"summary", "flows", "gtpu", "tunnels"}
      /\ UNCHANGED <<stats, flows, tunnels, opts>>
      /\ status' = EXIT_OK => failed' = {}
      /\ pc' # "args" /\ failed \subseteq failed'
  BY <1>1 DEF ProgramInv, OutputHolds, analysis, vars, EXIT_OK, EXIT_INPUT, After, Reporting
<1>5. CASE summary
  <2>1. /\ pc = "summary" /\ pc' = "flows"
        /\ printed' = [printed EXCEPT
                         !.summary = <<report_summary(stats, Cardinality(DOMAIN flows))>>]
    BY <1>5 DEF summary, Prints
  <2> QED BY <1>3, <1>4, <2>1 DEF ProgramInv, OutputHolds, Reporting, EXIT_OK, EXIT_INPUT
<1>6. CASE top_flows
  <2>1. /\ pc = "flows" /\ pc' = "gtpu"
        /\ print_top("flows", flows,
                     [printed EXCEPT !.flows = <<report_top_flows(flows, opts.top_n)>>])
    BY <1>6 DEF top_flows
  <2>2. /\ printed'.flows = << >> \/ printed'.flows = <<report_top_flows(flows, opts.top_n)>>
        /\ "flows" \notin failed' => TopPrinted(flows, printed'.flows)
        /\ DOMAIN printed' = DOMAIN printed
        /\ \A x \in {"summary", "gtpu", "tunnels"} : printed'[x] = printed[x]
    <3> DEFINE t == report_top_flows(flows, opts.top_n)
    <3>1. printed.flows = << >> /\ <<t>> # << >>
      BY <2>1 DEF ProgramInv, OutputHolds
    <3> HIDE DEF t
    <3>2. CASE (opts.top_n = 0 \/ DOMAIN flows = {}) /\ nothing_to_print
      BY <3>1, <3>2 DEF nothing_to_print, silent, TopPrinted
    <3>3. CASE out_of_memory("flows")
      BY <3>1, <3>3 DEF out_of_memory
    <3>4. CASE /\ opts.top_n # 0 /\ DOMAIN flows # {} /\ Prints([printed EXCEPT !.flows = <<t>>])
      <4>1. printed' = [printed EXCEPT !.flows = <<t>>]
        BY <3>4 DEF Prints
      <4>2. /\ printed'.flows = <<t>> /\ DOMAIN printed' = DOMAIN printed
            /\ \A x \in {"summary", "gtpu", "tunnels"} : printed'[x] = printed[x]
        BY <1>4, <4>1
      <4> QED BY <3>1, <3>4, <4>2 DEF TopPrinted, t
    <3> QED BY <2>1, <3>2, <3>3, <3>4 DEF print_top, t
  <2>3. TopPrinted(flows, printed'.flows) => TopPrinted(flows, printed.flows)'
    BY <1>4 DEF TopPrinted
  <2> QED BY <1>3, <1>4, <2>1, <2>2, <2>3
       DEF ProgramInv, OutputHolds, Reporting, EXIT_OK, EXIT_INPUT
<1>7. CASE gtpu
  <2>1. /\ pc = "gtpu" /\ pc' = "tunnels"
        /\ \/ ~has_gtpu(stats.gtpu) /\ nothing_to_print
           \/ out_of_memory("gtpu")
           \/ /\ has_gtpu(stats.gtpu)
              /\ Prints([printed EXCEPT !.gtpu = <<report_gtpu(stats.gtpu, tunnels)>>])
    BY <1>7 DEF gtpu
  <2>2. /\ "gtpu" \notin failed' => (has_gtpu(stats.gtpu) <=> printed'.gtpu # << >>)
        /\ DOMAIN printed' = DOMAIN printed
        /\ \A x \in {"summary", "flows", "tunnels"} : printed'[x] = printed[x]
    BY <1>4, <2>1 DEF ProgramInv, OutputHolds, Prints, nothing_to_print, silent,
       out_of_memory
  <2>3. TopPrinted(flows, printed.flows) => TopPrinted(flows, printed.flows)'
    BY <1>4, <2>2 DEF TopPrinted
  <2> QED BY <1>3, <1>4, <2>1, <2>2, <2>3
       DEF ProgramInv, OutputHolds, Reporting, EXIT_OK, EXIT_INPUT
<1>8. CASE top_tunnels
  <2>1. /\ pc = "tunnels" /\ pc' = "csv"
        /\ print_top("tunnels", tunnels,
                     [printed EXCEPT !.tunnels = <<report_top_tunnels(tunnels, opts.top_n)>>])
    BY <1>8 DEF top_tunnels
  <2>2. /\ "tunnels" \notin failed' => TopPrinted(tunnels, printed'.tunnels)
        /\ DOMAIN printed' = DOMAIN printed
        /\ \A x \in {"summary", "gtpu", "flows"} : printed'[x] = printed[x]
    <3> DEFINE t == report_top_tunnels(tunnels, opts.top_n)
    <3>1. printed.tunnels = << >> /\ <<t>> # << >>
      BY <2>1 DEF ProgramInv, OutputHolds
    <3> HIDE DEF t
    <3>2. CASE (opts.top_n = 0 \/ DOMAIN tunnels = {}) /\ nothing_to_print
      BY <3>1, <3>2 DEF nothing_to_print, silent, TopPrinted
    <3>3. CASE out_of_memory("tunnels")
      BY <3>1, <3>3 DEF out_of_memory
    <3>4. CASE /\ opts.top_n # 0 /\ DOMAIN tunnels # {}
               /\ Prints([printed EXCEPT !.tunnels = <<t>>])
      <4>1. printed' = [printed EXCEPT !.tunnels = <<t>>]
        BY <3>4 DEF Prints
      <4>2. /\ printed'.tunnels = <<t>> /\ DOMAIN printed' = DOMAIN printed
            /\ \A x \in {"summary", "gtpu", "flows"} : printed'[x] = printed[x]
        BY <1>4, <4>1
      <4> QED BY <3>1, <3>4, <4>2 DEF TopPrinted, t
    <3> QED BY <2>1, <3>2, <3>3, <3>4 DEF print_top, t
  <2>3. /\ TopPrinted(tunnels, printed'.tunnels) => TopPrinted(tunnels, printed.tunnels)'
        /\ TopPrinted(flows, printed.flows) => TopPrinted(flows, printed.flows)'
    BY <1>4, <2>2 DEF TopPrinted
  <2> QED BY <1>3, <1>4, <2>1, <2>2, <2>3
       DEF ProgramInv, OutputHolds, Reporting, EXIT_OK, EXIT_INPUT
<1> QED BY <1>5, <1>6, <1>7, <1>8

\* A CSV file is written whole, or it has failed; no other file changes.
LEMMA WriteCsv ==
    ASSUME NEW x, NEW path, NEW m, NEW rows, write_csv(x, path, m, rows),
           csvs = [n \in DOMAIN csvs |-> csvs[n]]
    PROVE  /\ csvs' = [n \in DOMAIN csvs' |-> csvs'[n]]
           /\ DOMAIN csvs' \subseteq DOMAIN csvs \cup {path}
           /\ \A n \in DOMAIN csvs : n # path => n \in DOMAIN csvs' /\ csvs'[n] = csvs[n]
           /\ x \notin failed' => /\ path \in DOMAIN csvs'
                                  /\ csvs'[path] = [rows |-> rows, whole |-> 1]
<1>1. CASE csv_returned(x, 1) /\ UNCHANGED csvs
  BY <1>1 DEF csv_returned
<1>2. CASE csvs' = WithFile(path, << >>, 0) /\ csv_returned(x, 1)
  BY <1>2 DEF csv_returned, WithFile
<1>3. ASSUME NEW werr \in {0, 1}, NEW cerr \in {0, 1},
             csvs' = WithFile(path, rows, IF werr = 0 /\ cerr = 0 THEN 1 ELSE 0),
             csv_returned(x, csv_rc(werr, cerr))
      PROVE  /\ csvs' = [n \in DOMAIN csvs' |-> csvs'[n]]
             /\ DOMAIN csvs' \subseteq DOMAIN csvs \cup {path}
             /\ \A n \in DOMAIN csvs : n # path => n \in DOMAIN csvs' /\ csvs'[n] = csvs[n]
             /\ x \notin failed' => /\ path \in DOMAIN csvs'
                                    /\ csvs'[path] = [rows |-> rows, whole |-> 1]
  BY <1>3 DEF csv_returned, csv_rc, WithFile
<1> QED BY <1>1, <1>2, <1>3 DEF write_csv

\* A new CSV file that is whole holds the rows of the table.
LEMMA WholeCsv ==
    ASSUME NEW x, NEW path, NEW m, NEW rows, write_csv(x, path, m, rows),
           path \notin DOMAIN csvs, path \in DOMAIN csvs', csvs'[path].whole = 1
    PROVE  csvs'[path].rows = rows
BY DEF write_csv, WithFile

\* The CSV files: each is written whole, or it has failed.
LEMMA CsvInv ==
    ASSUME ProgramInv, flows_csv \/ tunnels_csv \/ flush
    PROVE  NamesHold' /\ OutputHolds'
<1>1. /\ pc \in Reporting \ {"free"} /\ pc' = After(pc)
      /\ UNCHANGED <<analysis, capture, opts>>
      /\ status' \in {status, EXIT_INPUT} /\ status \in {EXIT_OK, EXIT_INPUT}
      /\ failed \subseteq failed' /\ (status' = EXIT_OK => failed' = failed)
  BY ReportStep DEF ProgramInv
<1>2. printed' = printed /\ pc \in {"csv", "tunnels_csv", "flush"}
  BY DEF flows_csv, tunnels_csv, flush
<1>3. /\ UNCHANGED <<stats, flows, tunnels, opts, error, asked, lost>>
      /\ status' = EXIT_OK => status = EXIT_OK /\ failed' = {}
  BY <1>1 DEF ProgramInv, OutputHolds, analysis, vars, capture, EXIT_OK, EXIT_INPUT
<1>4. /\ csvs = [n \in DOMAIN csvs |-> csvs[n]] /\ ~paths_clash(opts)
      /\ DOMAIN csvs \subseteq {opts.csv, opts.tunnels} \ {NULL}
      /\ pc = "csv" => DOMAIN csvs = {}
  BY <1>2 DEF ProgramInv, NamesHold
<1>5. ASSUME csvs' = [n \in DOMAIN csvs' |-> csvs'[n]],
             DOMAIN csvs' \subseteq {opts.csv, opts.tunnels} \ {NULL}
      PROVE  NamesHold'
  <2>1. opts.pcap \notin DOMAIN csvs'
    BY <1>4, <1>5 DEF paths_clash
  <2>2. pc' \in {"tunnels_csv", "flush", "free"} /\ pc' \in Reporting
    BY <1>1, <1>2 DEF After, Reporting
  <2>3. ~paths_clash(opts)'
    BY <1>3, <1>4 DEF paths_clash
  <2>4. status' \in {EXIT_OK, EXIT_INPUT}
    BY <1>1
  <2>5. status' = EXIT_OK => error' = "EOF" /\ lost' = "none"
    BY <1>1, <1>3 DEF ProgramInv, NamesHold
  <2> QED BY <1>3, <1>5, <2>1, <2>2, <2>3, <2>4, <2>5 DEF NamesHold
<1>6. ASSUME "csv" \notin failed' => Written(opts.csv, report_csv(flows))',
             "tunnels_csv" \notin failed' /\ pc # "csv" =>
               Written(opts.tunnels, report_tunnels_csv(tunnels))'
      PROVE  OutputHolds'
  <2>1. (TopPrinted(flows, printed.flows)' <=> TopPrinted(flows, printed.flows))
        /\ (TopPrinted(tunnels, printed.tunnels)' <=> TopPrinted(tunnels, printed.tunnels))
    BY <1>2, <1>3 DEF TopPrinted
  <2>2. pc' \in {"tunnels_csv", "flush", "free"} /\ pc' \in Reporting
        /\ (pc = "csv" <=> pc' = "tunnels_csv")
    BY <1>1, <1>2 DEF After, Reporting
  <2> HIDE DEF Written
  <2> QED BY <1>1, <1>2, <1>3, <1>6, <2>1, <2>2 DEF ProgramInv, OutputHolds, Reporting
<1>7. CASE flows_csv
  <2>1. /\ pc = "csv"
        /\ \/ opts.csv = NULL /\ UNCHANGED <<status, failed, csvs>>
           \/ opts.csv # NULL /\ write_csv("csv", opts.csv, flows, report_csv(flows))
    BY <1>7 DEF flows_csv
  <2>2. CASE opts.csv = NULL /\ UNCHANGED <<status, failed, csvs>>
    <3>1. Written(opts.csv, report_csv(flows))'
      BY <1>3, <2>2 DEF Written
    <3> QED BY <1>4, <1>5, <1>6, <2>1, <2>2, <3>1
  <2>3. CASE opts.csv # NULL /\ write_csv("csv", opts.csv, flows, report_csv(flows))
    <3>1. /\ csvs' = [n \in DOMAIN csvs' |-> csvs'[n]]
          /\ DOMAIN csvs' \subseteq DOMAIN csvs \cup {opts.csv}
          /\ "csv" \notin failed' =>
               /\ opts.csv \in DOMAIN csvs'
               /\ csvs'[opts.csv] = [rows |-> report_csv(flows), whole |-> 1]
      BY <1>1, <1>4, <2>3, WriteCsv
    <3>2. "csv" \notin failed' => Written(opts.csv, report_csv(flows))'
      BY <1>3, <3>1 DEF Written
    <3> QED BY <1>4, <1>5, <1>6, <2>1, <2>3, <3>1, <3>2
  <2> QED BY <2>1, <2>2, <2>3
<1>8. CASE tunnels_csv
  <2>1. /\ pc = "tunnels_csv"
        /\ \/ opts.tunnels = NULL /\ UNCHANGED <<status, failed, csvs>>
           \/ /\ opts.tunnels # NULL
              /\ write_csv("tunnels_csv", opts.tunnels, tunnels, report_tunnels_csv(tunnels))
    BY <1>8 DEF tunnels_csv
  <2>2. "csv" \notin failed => Written(opts.csv, report_csv(flows))
    BY <2>1 DEF ProgramInv, OutputHolds
  <2>3. CASE opts.tunnels = NULL /\ UNCHANGED <<status, failed, csvs>>
    <3>1. Written(opts.tunnels, report_tunnels_csv(tunnels))'
      BY <1>3, <2>3 DEF Written
    <3>2. "csv" \notin failed' => Written(opts.csv, report_csv(flows))'
      BY <1>3, <2>2, <2>3 DEF Written
    <3> QED BY <1>4, <1>5, <1>6, <2>1, <2>3, <3>1, <3>2
  <2>4. CASE /\ opts.tunnels # NULL
             /\ write_csv("tunnels_csv", opts.tunnels, tunnels, report_tunnels_csv(tunnels))
    <3>1. /\ csvs' = [n \in DOMAIN csvs' |-> csvs'[n]]
          /\ DOMAIN csvs' \subseteq DOMAIN csvs \cup {opts.tunnels}
          /\ \A n \in DOMAIN csvs : n # opts.tunnels => n \in DOMAIN csvs' /\ csvs'[n] = csvs[n]
          /\ "tunnels_csv" \notin failed' =>
               /\ opts.tunnels \in DOMAIN csvs'
               /\ csvs'[opts.tunnels] = [rows |-> report_tunnels_csv(tunnels), whole |-> 1]
      BY <1>1, <1>4, <2>4, WriteCsv
    <3>2. "tunnels_csv" \notin failed' => Written(opts.tunnels, report_tunnels_csv(tunnels))'
      BY <1>3, <3>1 DEF Written
    <3>3. opts.csv # NULL => opts.csv # opts.tunnels
      BY <1>4 DEF paths_clash
    <3>4. "csv" \notin failed' => Written(opts.csv, report_csv(flows))'
      BY <1>1, <1>3, <2>2, <3>1, <3>3 DEF Written
    <3> QED BY <1>4, <1>5, <1>6, <2>1, <2>4, <3>1, <3>2, <3>4
  <2> QED BY <2>1, <2>3, <2>4
<1>9. CASE flush
  <2>1. pc = "flush" /\ UNCHANGED <<failed, csvs>>
    BY <1>9 DEF flush
  <2>2. /\ "csv" \notin failed => Written(opts.csv, report_csv(flows))
        /\ "tunnels_csv" \notin failed => Written(opts.tunnels, report_tunnels_csv(tunnels))
    BY <2>1 DEF ProgramInv, OutputHolds
  <2>3. /\ "csv" \notin failed' => Written(opts.csv, report_csv(flows))'
        /\ "tunnels_csv" \notin failed' => Written(opts.tunnels, report_tunnels_csv(tunnels))'
    BY <1>3, <2>1, <2>2 DEF Written
  <2> QED BY <1>4, <1>5, <1>6, <2>1, <2>3
<1> QED BY <1>7, <1>8, <1>9

\* The tables are freed and the reader is closed.
LEMMA ReleaseInv == ASSUME ProgramInv, release PROVE ProgramInv'
<1>1. /\ pc = "free" /\ pc' = "exit" /\ analysis_free /\ R!pcap_close
      /\ UNCHANGED <<status, opts, printed, failed, csvs>>
  BY DEF release, quiet
<1>2. fp = 1 /\ streams = 1 /\ file \in Files
  BY <1>1 DEF ProgramInv, ResourcesHold, ReadingHolds
<1>3. file' = file /\ fp' = 0 /\ buf' = 0 /\ streams' = 0
  BY <1>1, <1>2, CloseReader
<1>4. ResourcesHold'
  BY <1>1, <1>3 DEF ResourcesHold, Looping, Reporting, analysis_free
<1>5. ReadingHolds'
  BY <1>1, <1>2, <1>3 DEF ReadingHolds, Looping, Reporting
<1>6. NamesHold'
  BY <1>1 DEF ProgramInv, NamesHold, Looping, Reporting, paths_clash,
     EXIT_OK, EXIT_USAGE, EXIT_INPUT
<1>7. OutputHolds'
  BY <1>1 DEF ProgramInv, OutputHolds, Reporting, EXIT_OK, EXIT_INPUT
<1> QED BY <1>4, <1>5, <1>6, <1>7 DEF ProgramInv

\* Nothing is held and nothing is written when the program starts.
LEMMA ProgramStarts == MainInit => ProgramInv
<1> SUFFICES ASSUME MainInit PROVE ProgramInv
  OBVIOUS
<1>1. ResourcesHold
  BY DEF MainInit, Init, R!Init, ResourcesHold, Looping, Reporting
<1>2. ReadingHolds
  BY DEF MainInit, R!Init, ReadingHolds, Looping, Reporting
<1>3. NamesHold
  BY DEF MainInit, NamesHold, Reporting, EXIT_OK, EXIT_INPUT
<1>4. OutputHolds
  BY DEF MainInit, OutputHolds, NothingPrinted, Reporting
<1> QED BY <1>1, <1>2, <1>3, <1>4 DEF ProgramInv

\* The program's invariant is inductive, with the one of the analysis.
LEMMA ProgramStep == ASSUME ProgramInv, IInv, IInv', [MainNext]_allVars PROVE ProgramInv'
<1>1. CASE UNCHANGED allVars
  <2>1. UNCHANGED <<analysis, capture, pc, opts, status, printed, failed, csvs>>
    BY <1>1 DEF allVars, cli
  <2>2. ResourcesHold' /\ ReadingHolds'
    BY <2>1 DEF ProgramInv, ResourcesHold, ReadingHolds, analysis, vars, capture
  <2>3. NamesHold'
    BY <2>1 DEF ProgramInv, NamesHold, paths_clash, capture, analysis, vars
  <2>4. OutputHolds'
    BY <2>1 DEF ProgramInv, OutputHolds, TopPrinted, Written, analysis, vars
  <2> QED BY <2>2, <2>3, <2>4 DEF ProgramInv
<1>2. CASE help \/ count_option \/ csv_option \/ unknown_option \/ input_file \/ args_done
  BY <1>2, ArgsInv
<1>3. CASE open_capture
  BY <1>3, OpenInv
<1>4. CASE init_tables
  BY <1>4, InitTablesInv
<1>5. CASE next_record
  BY <1>5, NextRecordInv
<1>6. CASE next_data
  BY <1>6, NextDataInv
<1>7. CASE account_record
  BY <1>7, AccountInv
<1>8. CASE stop \/ run_returned
  BY <1>8, StopInv
<1>9. CASE summary \/ top_flows \/ gtpu \/ top_tunnels
  BY <1>9, ReportKeeps, PrintInv DEF ProgramInv
<1>10. CASE flows_csv \/ tunnels_csv \/ flush
  BY <1>10, ReportKeeps, CsvInv DEF ProgramInv
<1>11. CASE release
  BY <1>11, ReleaseInv
<1> QED
  BY <1>1, <1>2, <1>3, <1>4, <1>5, <1>6, <1>7, <1>8, <1>9, <1>10, <1>11 DEF MainNext

\* The invariant holds in every state of the program, next to the one of the
\* analysis, which the theorem of AnalysisProofs gives.
THEOREM ProgramInvariant == MainSpec => [](ProgramInv /\ IInv)
<1>1. MainInit => ProgramInv
  BY ProgramStarts
<1>2. ProgramInv /\ IInv /\ IInv' /\ [MainNext]_allVars => ProgramInv'
  BY ProgramStep
<1>3. MainSpec => []IInv
  BY ProgramRunsAnalysis, InvariantHolds, PTL
<1> QED BY <1>1, <1>2, <1>3, PTL DEF MainSpec

\* Whichever way the program exits, the capture is closed and every array of the
\* analysis is free, also when only some of them could be allocated.
THEOREM AlwaysReleased == MainSpec => []ReleasedAtExit
<1>1. ProgramInv /\ IInv => ReleasedAtExit
  BY DEF ProgramInv, ResourcesHold, IInv, PhasesHold, ReleasedAtExit, Looping, Reporting
<1> QED BY <1>1, ProgramInvariant, PTL

\* Whatever the arguments, no name is used for two files and none is touched after a
\* usage error.
THEOREM NamesAreKeptApart == MainSpec => []NamesNeverClash
<1>1. ASSUME ProgramInv PROVE NamesNeverClash
  <2>1. opts.pcap \notin DOMAIN csvs
    BY <1>1 DEF ProgramInv, NamesHold
  <2>2. ASSUME pc = "flush", opts.csv \in DOMAIN csvs, opts.tunnels \in DOMAIN csvs
        PROVE  Cardinality(DOMAIN csvs) = 2
    <3>1. opts.csv # opts.tunnels /\ DOMAIN csvs = {opts.csv, opts.tunnels}
      BY <1>1, <2>2 DEF ProgramInv, NamesHold, paths_clash
    <3>2. /\ IsFiniteSet({opts.csv}) /\ Cardinality({opts.csv}) = 1
          /\ {opts.csv} \cup {opts.tunnels} = {opts.csv, opts.tunnels}
          /\ opts.tunnels \notin {opts.csv}
      BY <3>1, FS_Singleton
    <3> QED BY <3>1, <3>2, FS_AddElement
  <2>3. ASSUME pc = "exit", status = EXIT_USAGE PROVE csvs = << >> /\ asked = 0 /\ fp = 0
    <3>1. DOMAIN csvs = {} /\ csvs = [n \in DOMAIN csvs |-> csvs[n]] /\ asked = 0 /\ fp = 0
      BY <1>1, <2>3 DEF ProgramInv, NamesHold, ResourcesHold
    <3> QED BY <3>1
  <2> QED BY <2>1, <2>2, <2>3 DEF NamesNeverClash
<1>2. ProgramInv => NamesNeverClash
  BY <1>1
<1> QED BY <1>2, ProgramInvariant, PTL

\* Each section and each CSV file is complete unless it failed itself, whatever failed
\* before it, and a clean exit status means that none did and that the capture was read
\* to its end: for every capture, every list of arguments and every failure.
THEOREM CleanExitIsComplete == MainSpec => []ExitOkMeansComplete
<1>1. ASSUME ProgramInv, IInv, Reported PROVE ExitOkMeansComplete
  <2>1. pc = "free" /\ pc \in Reporting
    BY <1>1 DEF Reported, Reporting
  <2>2. printed.summary = <<report_summary(stats, Cardinality(DOMAIN flows))>>
    BY <1>1, <2>1 DEF ProgramInv, OutputHolds
  <2>3. printed.summary # << >> /\ printed.summary[1].packets = stats.packets
    BY <2>2 DEF report_summary
  <2>4. records = stats.packets
    BY <1>1, <2>1 DEF ProgramInv, ReadingHolds, One, IInv, TypesHold, StatsType
  <2>5. status = EXIT_OK => failed = {} /\ error = "EOF" /\ covered = file.len
    BY <1>1, <2>1 DEF ProgramInv, NamesHold, ReadingHolds, OutputHolds
  <2>6. /\ "flows" \notin failed => TopPrinted(flows, printed.flows)
        /\ "gtpu" \notin failed => (has_gtpu(stats.gtpu) <=> printed.gtpu # << >>)
        /\ "tunnels" \notin failed => TopPrinted(tunnels, printed.tunnels)
        /\ "csv" \notin failed => Written(opts.csv, report_csv(flows))
        /\ "tunnels_csv" \notin failed => Written(opts.tunnels, report_tunnels_csv(tunnels))
    BY <1>1, <2>1 DEF ProgramInv, OutputHolds
  <2> QED BY <2>3, <2>4, <2>5, <2>6 DEF ExitOkMeansComplete
<1>2. ProgramInv /\ IInv => ExitOkMeansComplete
  BY <1>1 DEF ExitOkMeansComplete
<1> QED BY <1>2, ProgramInvariant, PTL

-----------------------------------------------------------------------------
(***************************************************************************)
(* What the table of flows and the flow CSV hold                           *)
(***************************************************************************)
\* A table whose flows can be ranked.
Listable(m) == IsTable(m) /\ DOMAIN m \subseteq Key

\* The flows of a table, each with its key, can be ranked.
LEMMA EntriesRankable ==
    ASSUME NEW m, Listable(m)
    PROVE  /\ RankableSet(entries(m)) /\ IsFiniteSet(DOMAIN m)
           /\ Cardinality(entries(m)) = Cardinality(DOMAIN m)
<1> DEFINE D == DOMAIN m
           e == [k \in D |-> entry(m, k)]
<1>1. \A k \in D : entry(m, k).key = k /\ Rankable(entry(m, k))
  BY DEF Listable, IsTable, Flow, entry, Rankable
<1>2. IsFiniteSet(D)
  BY DEF Listable, IsTable
<1>3. e \in Bijection(D, entries(m))
  <2>1. e \in [D -> entries(m)]
    BY DEF entries
  <2>2. \A j, k \in D : e[j] = e[k] => j = k
    BY <1>1
  <2>3. \A x \in entries(m) : \E k \in D : e[k] = x
    BY DEF entries
  <2> HIDE DEF e, D
  <2> QED BY <2>1, <2>2, <2>3 DEF Bijection, Injection, IsInjective, Surjection
<1>4. IsFiniteSet(entries(m)) /\ Cardinality(entries(m)) = Cardinality(D)
  <2>1. ExistsBijection(D, entries(m))
    BY <1>3 DEF ExistsBijection
  <2> QED BY <1>2, <2>1, FS_Bijection
<1>5. \A x \in entries(m) : \E k \in D : x = entry(m, k)
  BY DEF entries
<1>6. RankableSet(entries(m))
  BY <1>1, <1>4, <1>5 DEF RankableSet
<1> QED BY <1>2, <1>4, <1>6

\* What a listing of the n best flows of a table holds: the listing s of all of them,
\* cut after n.
LEMMA TopIs ==
    ASSUME NEW m, Listable(m), NEW n \in Nat
    PROVE  LET s == ranked(entries(m))
               N == Cardinality(DOMAIN m)
               t == top_n(m, n) IN
           /\ N \in Nat /\ BestFirst(s, entries(m))
           /\ t = [j \in 1 .. (IF n < N THEN n ELSE N) |-> s[j]]
<1> DEFINE S == entries(m)
           s == ranked(S)
           N == Cardinality(DOMAIN m)
           K == IF n < N THEN n ELSE N
<1>1. RankableSet(S) /\ N \in Nat /\ Cardinality(S) = N
  BY EntriesRankable, FS_CardinalityType
<1>2. BestFirst(s, S)
  <2>1. PICK u : BestFirst(u, S)
    BY <1>1, ListingExists
  <2>2. u \in [1 .. Cardinality(S) -> S] /\ DOMAIN u = 1 .. Cardinality(S)
        /\ \A j, k \in DOMAIN u : j < k => rank_above(u[j], u[k])
    BY <2>1 DEF BestFirst
  <2> HIDE DEF S
  <2>3. /\ s \in [1 .. Cardinality(S) -> S]
        /\ \A j, k \in DOMAIN s : j < k => rank_above(s[j], s[k])
    BY <2>2 DEF ranked
  <2> QED BY <2>3 DEF BestFirst
<1>3. s \in [1 .. N -> S]
  BY <1>1, <1>2 DEF BestFirst
<1> HIDE DEF s, S, N
<1>4. s \in Seq(S) /\ Len(s) = N
  BY <1>1, <1>3
<1>5. top_n(m, n) = SubSeq(s, 1, K)
  BY <1>4 DEF top_n, s, S
<1>6. SubSeq(s, 1, K) = [j \in 1 .. K |-> s[j]]
  BY <1>1, <1>3, <1>4
<1> QED BY <1>1, <1>2, <1>5, <1>6 DEF s, S, N

\* The rows of the flow CSV are the flows of the table, each once, best first, so that
\* their columns add up to the totals of the table.
LEMMA CsvHoldsTable ==
    ASSUME NEW m, Listable(m)
    PROVE  LET rows == report_csv(m) IN
           /\ Len(rows) = Cardinality(DOMAIN m)
           /\ PacketsOf(rows) = PacketsIn(m) /\ BytesOf(rows) = BytesIn(m)
<1> DEFINE s == ranked(entries(m))
           N == Cardinality(DOMAIN m)
           rows == report_csv(m)
           b == [j \in 1 .. N |-> s[j].key]
<1>1. N \in Nat /\ BestFirst(s, entries(m)) /\ top_n(m, N) = [j \in 1 .. N |-> s[j]]
  <2>1. N \in Nat
    BY EntriesRankable, FS_CardinalityType
  <2> HIDE DEF N
  <2> QED BY <2>1, TopIs DEF N
<1>2. /\ RankableSet(entries(m)) /\ Cardinality(entries(m)) = N
  BY EntriesRankable
<1>3. /\ s \in [1 .. N -> entries(m)]
      /\ \A j, k \in 1 .. N : s[j] = s[k] => j = k
      /\ \A x \in entries(m) : \E j \in 1 .. N : s[j] = x
  <2> HIDE DEF s, N
  <2>1. PICK S : S = entries(m)
    OBVIOUS
  <2>2. RankableSet(S) /\ Cardinality(S) = N /\ BestFirst(s, S)
    BY <1>1, <1>2, <2>1
  <2>3. /\ \A j, k \in 1 .. Cardinality(S) : s[j] = s[k] => j = k
        /\ \A x \in S : \E j \in 1 .. Cardinality(S) : s[j] = x
    BY ONLY <2>2, ListingIsWhole
  <2> QED BY <2>1, <2>2, <2>3 DEF BestFirst
<1>4. rows = [j \in 1 .. N |-> flow_row(s[j])]
  BY <1>1 DEF report_csv, Lines
<1> HIDE DEF s, N, rows
<1>5. Len(rows) = N
  BY <1>1, <1>4
<1>6. \A j \in 1 .. N : /\ b[j] \in DOMAIN m
                        /\ rows[j].packets = m[b[j]].packets /\ rows[j].bytes = m[b[j]].bytes
  <2> SUFFICES ASSUME NEW j \in 1 .. N
               PROVE  /\ b[j] \in DOMAIN m
                      /\ rows[j].packets = m[b[j]].packets /\ rows[j].bytes = m[b[j]].bytes
    OBVIOUS
  <2>1. PICK k \in DOMAIN m : s[j] = entry(m, k)
    BY <1>3 DEF entries
  <2>2. b[j] = k /\ s[j].packets = m[k].packets /\ s[j].bytes = m[k].bytes
    BY <2>1 DEF entry
  <2>3. rows[j].packets = s[j].packets /\ rows[j].bytes = s[j].bytes
    BY <1>4 DEF flow_row
  <2> QED BY <2>2, <2>3
<1>7. \A k \in DOMAIN m : \E j \in 1 .. N : b[j] = k
  <2> SUFFICES ASSUME NEW k \in DOMAIN m PROVE \E j \in 1 .. N : b[j] = k
    OBVIOUS
  <2>1. entry(m, k) \in entries(m) /\ entry(m, k).key = k
    BY DEF entries, entry
  <2> QED BY <1>3, <2>1
<1>8. \A j, k \in 1 .. N : b[j] = b[k] => j = k
  BY <1>2, <1>3 DEF RankableSet
<1>9. IsFiniteSet(1 .. N) /\ DOMAIN rows = 1 .. N
  BY <1>1, <1>4, FS_Interval
<1>10. \A k \in DOMAIN m : m[k].packets \in Int /\ m[k].bytes \in Int
  BY DEF Listable, IsTable, Flow
<1>11. PacketsOf(rows) = PacketsIn(m)
  <2> DEFINE f == [k \in DOMAIN m |-> m[k].packets]
             g == [j \in 1 .. N |-> rows[j].packets]
  <2>1. \A j \in 1 .. N : g[j] = f[b[j]] /\ g[j] \in Int
    BY <1>6, <1>10
  <2>2. PacketsOf(rows) = TotalOver(g, 1 .. N) /\ PacketsIn(m) = TotalOver(f, DOMAIN m)
    BY <1>9 DEF PacketsOf, PacketsIn, Total
  <2> HIDE DEF f, g, b
  <2>3. PICK I, D : I = 1 .. N /\ D = DOMAIN m
    OBVIOUS
  <2>4. /\ IsFiniteSet(I)
        /\ \A j \in I : b[j] \in D
        /\ \A k \in D : \E j \in I : b[j] = k
        /\ \A j, k \in I : b[j] = b[k] => j = k
        /\ \A j \in I : g[j] = f[b[j]] /\ g[j] \in Int
    BY <1>6, <1>7, <1>8, <1>9, <2>1, <2>3
  <2>5. TotalOver(g, I) = TotalOver(f, D)
    BY ONLY <2>4, TotalRenamed
  <2> QED BY <2>2, <2>3, <2>5
<1>12. BytesOf(rows) = BytesIn(m)
  <2> DEFINE f == [k \in DOMAIN m |-> m[k].bytes]
             g == [j \in 1 .. N |-> rows[j].bytes]
  <2>1. \A j \in 1 .. N : g[j] = f[b[j]] /\ g[j] \in Int
    BY <1>6, <1>10
  <2>2. BytesOf(rows) = TotalOver(g, 1 .. N) /\ BytesIn(m) = TotalOver(f, DOMAIN m)
    BY <1>9 DEF BytesOf, BytesIn, Total
  <2> HIDE DEF f, g, b
  <2>3. PICK I, D : I = 1 .. N /\ D = DOMAIN m
    OBVIOUS
  <2>4. /\ IsFiniteSet(I)
        /\ \A j \in I : b[j] \in D
        /\ \A k \in D : \E j \in I : b[j] = k
        /\ \A j, k \in I : b[j] = b[k] => j = k
        /\ \A j \in I : g[j] = f[b[j]] /\ g[j] \in Int
    BY <1>6, <1>7, <1>8, <1>9, <2>1, <2>3
  <2>5. TotalOver(g, I) = TotalOver(f, D)
    BY ONLY <2>4, TotalRenamed
  <2> QED BY <2>2, <2>3, <2>5
<1> QED BY <1>5, <1>11, <1>12 DEF N, rows

\* The two formatters of a flow agree.
LEMMA FormattersAgree ==
    ASSUME NEW m, Listable(m), NEW f \in entries(m)
    PROVE  LET line == flow_line(f)
               row == flow_row(f) IN
           /\ line.proto = row.proto
           /\ line.src.addr = row.src.addr /\ line.dst.addr = row.dst.addr
           /\ line.src.port \subseteq {row.src.port} /\ line.dst.port \subseteq {row.dst.port}
           /\ line.packets = row.packets /\ line.bytes = row.bytes
           /\ line.duration =
                <<row.times.duration[1], row.times.duration[2] \div NS_PER_MS>>
<1> DEFINE line == flow_line(f)
           row == flow_row(f)
<1>1. f.first_from_b \in {0, 1} /\ duration(f) \in Int
  <2>1. PICK k \in DOMAIN m : f = entry(m, k)
    BY DEF entries
  <2> QED BY <2>1 DEF Listable, IsTable, Flow, entry, duration
<1>2. /\ line.src = flow_endpoints(f).src /\ line.dst = flow_endpoints(f).dst
      /\ row.src = csv_endpoint(f, 1) /\ row.dst = csv_endpoint(f, 0)
      /\ line.duration = split(duration(f), NS_PER_MS)
      /\ row.times.duration = split(duration(f), 1)
      /\ line.proto = row.proto /\ line.packets = row.packets /\ line.bytes = row.bytes
  BY DEF flow_line, flow_row, csv_times
<1>3. PICK x, y : /\ x = csv_endpoint(f, 1) /\ y = csv_endpoint(f, 0)
                  /\ flow_endpoints(f).src = format_endpoint(f.key, x)
                  /\ flow_endpoints(f).dst = format_endpoint(f.key, y)
  BY <1>1 DEF flow_endpoints, csv_endpoint, use_a
<1>4. \A z : /\ format_endpoint(f.key, z).addr = z.addr
             /\ format_endpoint(f.key, z).port \subseteq {z.port}
  BY DEF format_endpoint
<1>5. split(duration(f), NS_PER_MS) =
        <<split(duration(f), 1)[1], split(duration(f), 1)[2] \div NS_PER_MS>>
  <2>1. duration(f) % NS_PER_SEC \in Int
    BY <1>1, UnitsAssumption
  <2>2. (duration(f) % NS_PER_SEC) \div 1 = duration(f) % NS_PER_SEC
    BY <2>1
  <2> QED BY <2>2 DEF split
<1> HIDE DEF line, row
<1> QED BY <1>2, <1>3, <1>4, <1>5 DEF line, row

\* The table that is printed and the rows that are written, whatever the status, if
\* they are there, and the number that was asked for.
RowsHold ==
    /\ "top_n" \in DOMAIN opts /\ opts.top_n \in Nat
    /\ pc \in Reporting =>
         /\ printed.flows # << >> =>
              printed.flows = <<report_top_flows(flows, opts.top_n)>>
         /\ opts.csv \in DOMAIN csvs /\ csvs[opts.csv].whole = 1 =>
              csvs[opts.csv].rows = report_csv(flows)

\* The arguments give a number, by default or by -n.
LEMMA CountStep ==
    ASSUME "top_n" \in DOMAIN opts, opts.top_n \in Nat,
           help \/ count_option \/ csv_option \/ unknown_option \/ input_file \/ args_done
    PROVE  "top_n" \in DOMAIN opts' /\ opts'.top_n \in Nat
<1>1. CASE count_option
  <2>1. \/ opts' = opts
        \/ parse_count(value) /\ opts' = [opts EXCEPT !.top_n = strtoul(value)]
    BY <1>1 DEF count_option, option, usage_error
  <2>2. parse_count(value) => strtoul(value) \in Nat
    BY ArgsAssumption DEF parse_count, strtoul, R!Least
  <2> QED BY <2>1, <2>2
<1>2. CASE csv_option
  BY <1>2 DEF csv_option, option, usage_error
<1>3. CASE help \/ unknown_option \/ args_done
  BY <1>3 DEF help, unknown_option, args_done, usage_error
<1>4. CASE input_file
  BY <1>4 DEF input_file, usage_error
<1> QED BY <1>1, <1>2, <1>3, <1>4

\* The rows remain what the report made them.
LEMMA RowsStep ==
    ASSUME ProgramInv, ProgramInv', RowsHold, [MainNext]_allVars PROVE RowsHold'
<1> USE DEF RowsHold
<1>1. CASE UNCHANGED allVars
  BY <1>1 DEF allVars, cli, analysis, vars
<1>2. CASE help \/ count_option \/ csv_option \/ unknown_option \/ input_file \/ args_done
  <2>1. pc' \notin Reporting
    BY <1>2, ArgsStep DEF Reporting
  <2> QED BY <1>2, <2>1, CountStep
<1>3. CASE \/ open_capture \/ init_tables \/ next_record \/ next_data \/ account_record
           \/ stop \/ release
  <2>1. opts' = opts /\ pc' \in {"init", "next", "data", "stop", "account", "ran", "exit"}
    BY <1>3 DEF open_capture, init_tables, init_failed, next_record, next_data, account_record,
       stop, release, quiet, Exit
  <2> QED BY <2>1 DEF Reporting
<1>4. ASSUME opts' = opts, pc' \in {"summary", "flows"} PROVE RowsHold'
  BY <1>4 DEF ProgramInv, OutputHolds, NamesHold
<1>5. CASE run_returned \/ summary
  BY <1>4, <1>5 DEF run_returned, summary, quiet, unread
<1>6. CASE top_flows
  <2>1. pc' = "gtpu" /\ pc = "flows" /\ UNCHANGED <<flows, opts>>
        /\ print_top("flows", flows,
                     [printed EXCEPT !.flows = <<report_top_flows(flows, opts.top_n)>>])
    BY <1>6 DEF top_flows, unread, analysis, vars
  <2>2. DOMAIN csvs' = {} /\ printed.flows = << >> /\ "flows" \in DOMAIN printed
    BY <2>1 DEF ProgramInv, NamesHold, OutputHolds
  <2> DEFINE t == report_top_flows(flows, opts.top_n)
  <2> HIDE DEF t
  <2>3. printed' = printed \/ printed' = [printed EXCEPT !.flows = <<t>>]
    BY <2>1 DEF print_top, nothing_to_print, silent, out_of_memory, Prints, t
  <2>4. printed'.flows # << >> => printed'.flows = <<t>>
    BY <2>2, <2>3
  <2>5. t' = t
    BY <2>1 DEF t
  <2> QED BY <2>1, <2>2, <2>4, <2>5 DEF t
<1>7. CASE gtpu \/ top_tunnels
  <2>1. /\ pc \in Reporting /\ pc' \in {"tunnels", "csv"} /\ UNCHANGED <<flows, opts>>
    BY <1>7 DEF gtpu, top_tunnels, unread, analysis, vars, Reporting
  <2>2. DOMAIN csvs' = {} /\ "flows" \in DOMAIN printed
    BY <2>1 DEF ProgramInv, NamesHold, OutputHolds
  <2>3. printed'.flows = printed.flows
    BY <1>7, <2>2 DEF gtpu, top_tunnels, print_top, nothing_to_print, silent,
       out_of_memory, Prints
  <2> QED BY <2>1, <2>2, <2>3
<1>8. CASE flows_csv
  <2>1. /\ pc = "csv" /\ UNCHANGED <<flows, opts, printed>>
        /\ \/ UNCHANGED csvs
           \/ write_csv("csv", opts.csv, flows, report_csv(flows))
    BY <1>8 DEF flows_csv, unread, analysis, vars
  <2>2. /\ pc \in Reporting /\ DOMAIN csvs = {} /\ csvs = [n \in DOMAIN csvs |-> csvs[n]]
    BY <2>1 DEF ProgramInv, NamesHold, Reporting
  <2>3. opts.csv \in DOMAIN csvs' /\ csvs'[opts.csv].whole = 1 =>
          csvs'[opts.csv].rows = report_csv(flows)
    <3>1. CASE UNCHANGED csvs
      BY <2>2, <3>1
    <3>2. CASE write_csv("csv", opts.csv, flows, report_csv(flows))
      BY <2>2, <3>2, WholeCsv
    <3> QED BY <2>1, <3>1, <3>2
  <2> QED BY <2>1, <2>2, <2>3
<1>9. CASE tunnels_csv
  <2>1. /\ pc = "tunnels_csv" /\ UNCHANGED <<flows, opts, printed>>
        /\ \/ UNCHANGED csvs
           \/ write_csv("tunnels_csv", opts.tunnels, tunnels, report_tunnels_csv(tunnels))
    BY <1>9 DEF tunnels_csv, unread, analysis, vars
  <2>2. /\ pc \in Reporting /\ csvs = [n \in DOMAIN csvs |-> csvs[n]]
        /\ ~paths_clash(opts)
        /\ DOMAIN csvs' \subseteq {opts.csv, opts.tunnels} \ {NULL}
    BY <2>1 DEF ProgramInv, NamesHold, Reporting
  <2>3. opts.csv \in DOMAIN csvs' => /\ opts.csv # opts.tunnels
                                     /\ opts.csv \in DOMAIN csvs
                                     /\ csvs'[opts.csv] = csvs[opts.csv]
    <3>1. opts.csv \in DOMAIN csvs' => opts.csv # opts.tunnels
      BY <2>2 DEF paths_clash
    <3>2. CASE UNCHANGED csvs
      BY <3>1, <3>2
    <3>3. CASE write_csv("tunnels_csv", opts.tunnels, tunnels, report_tunnels_csv(tunnels))
      <4>1. /\ DOMAIN csvs' \subseteq DOMAIN csvs \cup {opts.tunnels}
            /\ \A n \in DOMAIN csvs : n # opts.tunnels =>
                 n \in DOMAIN csvs' /\ csvs'[n] = csvs[n]
        BY <2>2, <3>3, WriteCsv
      <4> QED BY <3>1, <4>1
    <3> QED BY <2>1, <3>2, <3>3
  <2> QED BY <2>1, <2>2, <2>3
<1>10. CASE flush
  BY <1>10 DEF flush, unread, analysis, vars, Reporting
<1> QED BY <1>1, <1>2, <1>3, <1>5, <1>6, <1>7, <1>8, <1>9, <1>10 DEF MainNext

\* The table and the rows are those of the flow table, in every state of the program.
LEMMA RowsAlwaysHold == MainSpec => [](ProgramInv /\ IInv /\ RowsHold)
<1>1. MainInit => RowsHold
  BY ArgsAssumption DEF MainInit, RowsHold, Reporting
<1>2. ProgramInv /\ ProgramInv' /\ RowsHold /\ [MainNext]_allVars => RowsHold'
  BY RowsStep
<1> QED BY <1>1, <1>2, ProgramInvariant, PTL DEF MainSpec

\* The keys of the flow table have the fields that rank_cmp() looks at.
LEMMA FlowsListable == ASSUME IInv, phase # "none" PROVE Listable(flows)
<1>1. /\ IsTable(flows) /\ log \in Seq(Packet)
      /\ DOMAIN flows = {flow_key_from_packet(log[n]) : n \in Accounted}
  <2>1. /\ IsTable(flows) /\ log \in Seq(Packet)
        /\ DOMAIN flows = {FlowView(log)[n].key : n \in Accounted}
    BY DEF IInv, TypesHold, FlowsHold, SummarisesAll
  <2>2. \A n \in Accounted : FlowView(log)[n].key = flow_key_from_packet(log[n])
    BY DEF FlowView, flow_add, Accounted
  <2> QED BY <2>1, <2>2
<1>2. \A pi \in Packet : flow_key_from_packet(pi) \in Key
  <2> SUFFICES ASSUME NEW pi \in Packet PROVE flow_key_from_packet(pi) \in Key
    OBVIOUS
  <2>1. /\ pi.src \in Nat /\ pi.dst \in Nat /\ pi.src_port \in Nat /\ pi.dst_port \in Nat
        /\ pi.l3.ip_version \in Nat /\ pi.l3.ip_proto \in NextHdr \cup {"none"}
    BY DEF Packet, L3Info
  <2>2. pi.l3.ip_proto \in DOMAIN IPPROTO_NUM
    BY <2>1 DEF NextHdr, Ext6, L4Proto, KnownL4, IPPROTO_NUM
  <2> QED BY <2>1, <2>2 DEF flow_key_from_packet, Key, Endpoint
<1>3. \A n \in Accounted : log[n] \in Packet
  BY <1>1 DEF Accounted
<1> QED BY <1>1, <1>2, <1>3 DEF Listable

\* Every packet of the summary is in a row of the flow CSV, or is not IP, or is one of
\* the problems, for every capture, however long, and wherever memory runs out.
THEOREM RowsAlwaysAddUp == MainSpec => []RowsAddUp
<1>1. ASSUME ProgramInv, IInv, RowsHold PROVE RowsAddUp
  <2> SUFFICES ASSUME Reported, opts.csv \in DOMAIN csvs, csvs[opts.csv].whole = 1
               PROVE  LET s == printed.summary[1]
                          rows == csvs[opts.csv].rows
                          missing == s.packets - PacketsOf(rows) - s.non_ip
                                       - s.truncated - s.malformed IN
                      /\ missing = 0 \/ (missing = 1 /\ status = EXIT_INPUT)
                      /\ BytesOf(rows) <= s.wire
                      /\ Len(rows) = s.flows
    BY DEF RowsAddUp
  <2> DEFINE s == printed.summary[1]
             rows == csvs[opts.csv].rows
  <2>1. pc = "free" /\ pc \in Reporting /\ phase # "none"
    BY <1>1 DEF Reported, Reporting, ProgramInv, ResourcesHold, Looping
  <2>2. s = report_summary(stats, Cardinality(DOMAIN flows))
    BY <1>1, <2>1 DEF ProgramInv, OutputHolds
  <2>3. /\ s.packets = stats.packets /\ s.non_ip = stats.non_ip
        /\ s.truncated = stats.truncated /\ s.malformed = stats.malformed
        /\ s.wire = stats.wire_bytes /\ s.flows = Cardinality(DOMAIN flows)
    BY <2>2 DEF report_summary
  <2>4. rows = report_csv(flows)
    BY <1>1, <2>1 DEF RowsHold
  <2>5. /\ Len(rows) = Cardinality(DOMAIN flows)
        /\ PacketsOf(rows) = PacketsIn(flows) /\ BytesOf(rows) = BytesIn(flows)
    BY <1>1, <2>1, <2>4, FlowsListable, CsvHoldsTable
  <2>6. /\ stats.packets = stats.by_status["OK"] + stats.truncated + stats.malformed
        /\ stats.by_status["OK"] = PacketsIn(flows) + One(lost = "flow") + stats.non_ip
        /\ BytesIn(flows) <= stats.wire_bytes
    BY <1>1, <2>1 DEF IInv, CountersAddUp, VerdictsAddUp, TotalsHold
  <2>7. /\ stats.by_status["OK"] \in Int /\ stats.truncated \in Int
        /\ stats.malformed \in Int /\ stats.non_ip \in Int
    BY <1>1 DEF IInv, TypesHold, StatsType, decode_status
  <2>8. PacketsIn(flows) \in Int
    BY <1>1, TableTotal DEF IInv, TypesHold
  <2>9. lost = "flow" => status = EXIT_INPUT
    BY <1>1, <2>1 DEF ProgramInv, NamesHold
  <2> HIDE DEF s, rows
  <2>10. s.packets - PacketsOf(rows) - s.non_ip - s.truncated - s.malformed
           = One(lost = "flow")
    BY <2>3, <2>5, <2>6, <2>7, <2>8 DEF One
  <2>11. BytesOf(rows) <= s.wire /\ Len(rows) = s.flows
    BY <2>3, <2>5, <2>6
  <2> QED BY <2>9, <2>10, <2>11 DEF One, s, rows
<1>2. ProgramInv /\ IInv /\ RowsHold => RowsAddUp
  BY <1>1
<1> QED BY <1>2, RowsAlwaysHold, PTL

\* The table on stdout and the flow CSV agree line by line, for every capture and every
\* number of lines that is asked for.
THEOREM TableAlwaysAgrees == MainSpec => []TableAgreesWithCsv
<1>1. ASSUME ProgramInv, IInv, RowsHold, Reported, printed.flows # << >>,
             opts.csv \in DOMAIN csvs, csvs[opts.csv].whole = 1
      PROVE  LET lines == printed.flows[1].lines
                 rows == csvs[opts.csv].rows IN
             /\ Len(lines) <= Len(rows) /\ printed.flows[1].of = Len(rows)
             /\ \A n \in DOMAIN lines :
                  /\ lines[n].proto = rows[n].proto
                  /\ lines[n].src.addr = rows[n].src.addr
                  /\ lines[n].dst.addr = rows[n].dst.addr
                  /\ lines[n].src.port \subseteq {rows[n].src.port}
                  /\ lines[n].dst.port \subseteq {rows[n].dst.port}
                  /\ lines[n].packets = rows[n].packets /\ lines[n].bytes = rows[n].bytes
                  /\ lines[n].duration =
                       <<rows[n].times.duration[1], rows[n].times.duration[2] \div NS_PER_MS>>
  <2> DEFINE lines == printed.flows[1].lines
             rows == csvs[opts.csv].rows
             N == Cardinality(DOMAIN flows)
             n0 == opts.top_n
             K == IF n0 < N THEN n0 ELSE N
             s == ranked(entries(flows))
  <2>1. pc = "free" /\ pc \in Reporting /\ phase # "none"
    BY <1>1 DEF Reported, Reporting, ProgramInv, ResourcesHold, Looping
  <2>2. /\ rows = report_csv(flows) /\ printed.flows[1] = report_top_flows(flows, n0)
        /\ n0 \in Nat
    BY <1>1, <2>1 DEF RowsHold
  <2>3. Listable(flows)
    BY <1>1, <2>1, FlowsListable
  <2>4. N \in Nat
    BY <2>3, EntriesRankable, FS_CardinalityType
  <2>5. BestFirst(s, entries(flows)) /\ Cardinality(entries(flows)) = N
    BY <2>2, <2>3, TopIs, EntriesRankable
  <2>6. top_n(flows, n0) = [j \in 1 .. K |-> s[j]]
    BY <2>2, <2>3, TopIs
  <2>7. top_n(flows, N) = [j \in 1 .. N |-> s[j]]
    <3> HIDE DEF N
    <3>1. top_n(flows, N) = [j \in 1 .. (IF N < N THEN N ELSE N) |-> s[j]]
      BY <2>3, <2>4, TopIs DEF N
    <3> QED BY <2>4, <3>1
  <2>8. lines = [j \in 1 .. K |-> flow_line(s[j])] /\ printed.flows[1].of = N
    BY <2>2, <2>6 DEF report_top_flows, Lines
  <2>9. rows = [j \in 1 .. N |-> flow_row(s[j])]
    BY <2>2, <2>7 DEF report_csv, Lines
  <2>10. \A j \in 1 .. N : s[j] \in entries(flows)
    BY <2>5 DEF BestFirst
  <2> HIDE DEF lines, rows, N, n0, s
  <2>11. K \in Nat /\ K <= N
    BY <2>2, <2>4
  <2>12. Len(lines) = K /\ Len(rows) = N
    BY <2>4, <2>8, <2>9, <2>11
  <2>13. ASSUME NEW n \in DOMAIN lines
         PROVE  /\ lines[n].proto = rows[n].proto
                /\ lines[n].src.addr = rows[n].src.addr
                /\ lines[n].dst.addr = rows[n].dst.addr
                /\ lines[n].src.port \subseteq {rows[n].src.port}
                /\ lines[n].dst.port \subseteq {rows[n].dst.port}
                /\ lines[n].packets = rows[n].packets /\ lines[n].bytes = rows[n].bytes
                /\ lines[n].duration =
                     <<rows[n].times.duration[1], rows[n].times.duration[2] \div NS_PER_MS>>
    <3>1. n \in 1 .. N /\ lines[n] = flow_line(s[n]) /\ rows[n] = flow_row(s[n])
      BY <2>4, <2>8, <2>9, <2>11, <2>13
    <3>2. s[n] \in entries(flows)
      BY <2>10, <3>1
    <3> QED BY <2>3, <3>1, <3>2, FormattersAgree
  <2> QED BY <2>8, <2>11, <2>12, <2>13 DEF lines, rows
<1>2. ProgramInv /\ IInv /\ RowsHold => TableAgreesWithCsv
  BY <1>1 DEF TableAgreesWithCsv
<1> QED BY <1>2, RowsAlwaysHold, PTL

=============================================================================
