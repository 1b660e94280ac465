-------------------------------- MODULE Main --------------------------------
(***************************************************************************)
(* The command line of src/src/main.c: arguments, opening the capture,     *)
(* analysis, reports and CSV files, exit status.  It composes the capture  *)
(* reader (PcapReader) and the accounting pipeline (Analysis).             *)
(*                                                                         *)
(* The decoder is represented by the packets it may return for a record of *)
(* given lengths.  Any allocation, fopen(), fclose() and write may fail.   *)
(***************************************************************************)
EXTENDS Analysis, Report

CONSTANTS
    PCAP_GLOBAL_HDR_LEN, PCAP_RECORD_HDR_LEN, PCAP_MAX_CAPLEN, MAGIC_LEN, Files,
    WireLens,
    ArgLists,              \* the arguments the program may be started with
    Names,                 \* arguments that are not options: "-", or no leading '-'
    NumberOf,              \* the numbers that the arguments of only digits stand for
    DEFAULT_TOP_N, MAX_TOP_N, ULONG_MAX,
    NULL                   \* no path was given

ASSUME ArgsAssumption ==
    /\ DEFAULT_TOP_N \in Nat /\ MAX_TOP_N \in Nat /\ ULONG_MAX \in Nat
    /\ \A a \in DOMAIN NumberOf : NumberOf[a] \in Nat
    /\ NULL \notin Names
ASSUME CaptureAssumption ==
    /\ PCAP_GLOBAL_HDR_LEN \in Nat /\ PCAP_RECORD_HDR_LEN \in Nat \ {0}
    /\ \A f \in Files :
         /\ f.len \in Nat
         /\ \A p \in PCAP_GLOBAL_HDR_LEN .. f.len - PCAP_RECORD_HDR_LEN :
              f.caplen[p] \in Nat

VARIABLES
    file, fp, buf, mem_len, pos, records, error, sys_errno, r_pc, rec, r_ret,
    streams, asked, covered, faults,       \* the reader, see PcapReader
    pc,                    \* the step of main() that comes next
    argv, i,               \* the arguments, and the one looked at
    opts,                  \* top_n, csv_path, tunnels_path, pcap_path
    status,                \* the exit status so far
    printed,               \* the sections written to stdout: << >> or one element
    stdout_lost,           \* history: text that did not reach stdout
    failed,                \* history: the reports and CSV files that failed
    csvs                   \* the files opened for writing, and what is in them

R == INSTANCE PcapReader WITH pc <- r_pc, ret <- r_ret

analysis == vars
capture == <<file, fp, buf, mem_len, pos, records, error, sys_errno, r_pc, rec, r_ret,
             streams, asked, covered, faults>>
cli == <<pc, argv, i, opts, status, printed, stdout_lost, failed, csvs>>
allVars == <<analysis, capture, cli>>

EXIT_OK == 0
EXIT_USAGE == 1
EXIT_INPUT == 2

NothingPrinted == [summary |-> << >>, flows |-> << >>, gtpu |-> << >>, tunnels |-> << >>]

MainInit ==
    /\ Init /\ R!Init
    /\ pc = "args" /\ argv \in ArgLists /\ i = 1
    /\ opts = [top_n |-> DEFAULT_TOP_N, csv |-> NULL, tunnels |-> NULL, pcap |-> NULL]
    /\ status = EXIT_OK
    /\ printed = NothingPrinted /\ stdout_lost = 0 /\ failed = {}
    /\ csvs = [n \in {} |-> << >>]

Exit(st) == status' = st /\ pc' = "exit"

\* Text goes to stdout.  The stream may be written out at any time, and that may
\* fail; nobody looks at its error indicator.
Prints(p) ==
    /\ printed' = p
    /\ stdout_lost' \in {stdout_lost, 1}
    /\ UNCHANGED failed

silent == UNCHANGED <<printed, stdout_lost, failed>>

-----------------------------------------------------------------------------
(***************************************************************************)
(* Arguments                                                               *)
(***************************************************************************)
arg == argv[i]
has_value == i < Len(argv)
value == argv[i + 1]

\* The loop is at an argument.
parsing ==
    /\ pc = "args" /\ i <= Len(argv)
    /\ UNCHANGED <<analysis, capture, argv, csvs>>

usage_error == Exit(EXIT_USAGE) /\ UNCHANGED <<i, opts>>

\* The usage is not a section of the report.
help ==
    /\ parsing /\ arg \in {"-h", "--help"}
    /\ Prints(printed) /\ Exit(EXIT_OK)
    /\ UNCHANGED <<i, opts>>

\* An option with a value: opts becomes o if the value is good.
option(good, o) ==
    \/ ~(has_value /\ good) /\ usage_error
    \/ has_value /\ good /\ opts' = o /\ i' = i + 2 /\ UNCHANGED <<pc, status>>

\* parse_count() accepts digits only; strtoul() saturates, and then says ERANGE.
strtoul(a) == R!Least(NumberOf[a], ULONG_MAX)
parse_count(a) ==
    /\ a \in DOMAIN NumberOf
    /\ NumberOf[a] <= ULONG_MAX /\ strtoul(a) <= MAX_TOP_N

count_option ==
    /\ parsing /\ silent /\ arg = "-n"
    /\ option(parse_count(value), [opts EXCEPT !.top_n = strtoul(value)])

csv_option ==
    /\ parsing /\ silent
    /\ \/ arg = "--csv" /\ option(TRUE, [opts EXCEPT !.csv = value])
       \/ arg = "--tunnels-csv" /\ option(TRUE, [opts EXCEPT !.tunnels = value])

unknown_option ==
    /\ parsing /\ silent
    /\ arg \notin Names \cup {"-h", "--help", "-n", "--csv", "--tunnels-csv"}
    /\ usage_error

input_file ==
    /\ parsing /\ silent /\ arg \in Names
    /\ \/ opts.pcap # NULL /\ usage_error
       \/ /\ opts.pcap = NULL
          /\ opts' = [opts EXCEPT !.pcap = arg] /\ i' = i + 1
          /\ UNCHANGED <<pc, status>>

\* Mutant: the two CSV files are not compared with each other.
paths_clash_with_input(o) == o.pcap \in {o.csv, o.tunnels}

paths_clash(o) ==
    \/ o.pcap \in {o.csv, o.tunnels}
    \/ o.csv # NULL /\ o.csv = o.tunnels

args_done ==
    /\ pc = "args" /\ i > Len(argv)
    /\ \/ (opts.pcap = NULL \/ paths_clash(opts)) /\ usage_error
       \/ /\ ~(opts.pcap = NULL \/ paths_clash(opts))
          /\ pc' = "open" /\ UNCHANGED <<i, opts, status>>
    /\ silent /\ UNCHANGED <<analysis, capture, argv, csvs>>

-----------------------------------------------------------------------------
(***************************************************************************)
(* Reading the capture                                                     *)
(***************************************************************************)
quiet == <<argv, i, opts, printed, stdout_lost, failed, csvs>>

open_capture ==
    /\ pc = "open" /\ R!pcap_open_file
    /\ \/ r_ret' = "OK" /\ pc' = "init" /\ UNCHANGED status
       \/ r_ret' # "OK" /\ Exit(EXIT_INPUT)
    /\ UNCHANGED <<analysis, quiet>>

\* Mutant: the reader is not closed when the tables cannot be allocated.
init_failed_leaks == Exit(EXIT_INPUT) /\ UNCHANGED capture

init_failed == Exit(EXIT_INPUT) /\ R!pcap_close

init_tables ==
    /\ pc = "init" /\ analysis_init
    /\ \/ ret' = "OK" /\ pc' = "next" /\ UNCHANGED <<status, capture>>
       \/ ret' # "OK" /\ init_failed
    /\ UNCHANGED quiet

\* analysis_run(): pcap_next(), in its two halves,
next_record ==
    /\ pc = "next" /\ R!pcap_next
    /\ pc' = IF r_pc' = "data" THEN "data" ELSE "stop"
    /\ UNCHANGED <<analysis, status, quiet>>

next_data ==
    /\ pc = "data" /\ R!pcap_next_data
    /\ pc' = IF r_ret' = "OK" THEN "account" ELSE "stop"
    /\ UNCHANGED <<analysis, status, quiet>>

\* analysis_account() of what decode_frame() makes of the record,
account_record ==
    /\ pc = "account"
    /\ \E p \in {q \in Packets : q.caplen = rec.caplen /\ q.wirelen = rec.wirelen} :
         analysis_account(p)
    /\ pc' = IF phase' = "stopped" THEN "ran" ELSE "next"
    /\ UNCHANGED <<capture, status, quiet>>

\* Mutant: only the end of the file stops the loop.
stop_at_eof ==
    /\ pc = "stop"
    /\ \/ /\ r_ret = "EOF" /\ run_ends("EOF")
          /\ pc' = "ran"
       \/ /\ r_ret # "EOF" /\ UNCHANGED analysis
          /\ pc' = "next"
    /\ UNCHANGED <<capture, status, quiet>>

\* and the end of the loop.
stop ==
    /\ pc = "stop"
    /\ run_ends(IF r_ret = "EOF" THEN "EOF" ELSE "ERR")
    /\ pc' = "ran"
    /\ UNCHANGED <<capture, status, quiet>>

\* main() looks at what analysis_run() returned, and goes on in any case.
run_returned ==
    /\ pc = "ran"
    /\ status' = IF ret = "EOF" THEN status ELSE EXIT_INPUT
    /\ pc' = "summary"
    /\ UNCHANGED <<analysis, capture, quiet>>

-----------------------------------------------------------------------------
(***************************************************************************)
(* Reports                                                                 *)
(***************************************************************************)
unread == <<analysis, capture, argv, i, opts>>

summary ==
    /\ pc = "summary" /\ pc' = "flows"
    /\ Prints([printed EXCEPT
                 !.summary = <<report_summary(stats, Cardinality(DOMAIN flows))>>])
    /\ UNCHANGED <<unread, status, csvs>>

nothing_to_print == silent /\ UNCHANGED status

\* Section x of the report cannot be printed.
out_of_memory(x) ==
    /\ status' = EXIT_INPUT /\ failed' = failed \cup {x}
    /\ UNCHANGED <<printed, stdout_lost>>

\* print_top() of the table m in section x: p is what stdout holds with it.
print_top(x, m, p) ==
    \/ (opts.top_n = 0 \/ DOMAIN m = {}) /\ nothing_to_print
    \/ opts.top_n # 0 /\ DOMAIN m # {} /\ out_of_memory(x)
    \/ opts.top_n # 0 /\ DOMAIN m # {} /\ Prints(p) /\ UNCHANGED status

top_flows ==
    /\ pc = "flows" /\ pc' = "gtpu"
    /\ print_top("flows", flows,
                 [printed EXCEPT !.flows = <<report_top_flows(flows, opts.top_n)>>])
    /\ UNCHANGED <<unread, csvs>>

\* flow_table_distinct_teids() allocates an array unless the table is empty.
gtpu ==
    /\ pc = "gtpu" /\ pc' = "tunnels"
    /\ \/ ~has_gtpu(stats.gtpu) /\ nothing_to_print
       \/ has_gtpu(stats.gtpu) /\ DOMAIN tunnels # {} /\ out_of_memory("gtpu")
       \/ /\ has_gtpu(stats.gtpu)
          /\ Prints([printed EXCEPT !.gtpu = <<report_gtpu(stats.gtpu, tunnels)>>])
          /\ UNCHANGED status
    /\ UNCHANGED <<unread, csvs>>

top_tunnels ==
    /\ pc = "tunnels" /\ pc' = "csv"
    /\ print_top("tunnels", tunnels,
                 [printed EXCEPT !.tunnels = <<report_top_tunnels(tunnels, opts.top_n)>>])
    /\ UNCHANGED <<unread, csvs>>

WithFile(path, rows, whole) ==
    [n \in DOMAIN csvs \cup {path} |->
        IF n = path THEN [rows |-> rows, whole |-> whole] ELSE csvs[n]]

\* rc of write_csv(): the writer saw an error (ferror), or fclose() did.
csv_rc(werr, cerr) == IF werr = 1 \/ cerr = 1 THEN 1 ELSE 0

\* Mutant: a good second file makes up for a bad first one.
csv_status_of_last(rc) == IF rc = 1 THEN EXIT_INPUT ELSE EXIT_OK

csv_status(rc) == IF rc = 1 THEN EXIT_INPUT ELSE status

csv_returned(x, rc) ==
    /\ status' = csv_status(rc)
    /\ failed' = IF rc = 1 THEN failed \cup {x} ELSE failed

\* write_csv(): fopen() fails; the writer has no memory; or it writes the rows, of
\* which some may be lost on the way to the disk, before or in fclose().
write_csv(x, path, m, rows) ==
    \/ csv_returned(x, 1) /\ UNCHANGED csvs
    \/ /\ DOMAIN m # {}
       /\ csvs' = WithFile(path, << >>, 0) /\ csv_returned(x, 1)
    \/ \E werr, cerr \in {0, 1} :
         /\ csvs' = WithFile(path, rows, IF werr = 0 /\ cerr = 0 THEN 1 ELSE 0)
         /\ csv_returned(x, csv_rc(werr, cerr))

flows_csv ==
    /\ pc = "csv" /\ pc' = "tunnels_csv"
    /\ \/ opts.csv = NULL /\ UNCHANGED <<status, failed, csvs>>
       \/ opts.csv # NULL /\ write_csv("csv", opts.csv, flows, report_csv(flows))
    /\ UNCHANGED <<unread, printed, stdout_lost>>

\* Mutant: the second file is only written if nothing has failed yet.
tunnels_csv_if_ok ==
    /\ pc = "tunnels_csv" /\ pc' = "flush"
    /\ \/ (opts.tunnels = NULL \/ status # EXIT_OK) /\ UNCHANGED <<status, failed, csvs>>
       \/ /\ opts.tunnels # NULL /\ status = EXIT_OK
          /\ write_csv("tunnels_csv", opts.tunnels, tunnels, report_tunnels_csv(tunnels))
    /\ UNCHANGED <<unread, printed, stdout_lost>>

tunnels_csv ==
    /\ pc = "tunnels_csv" /\ pc' = "flush"
    /\ \/ opts.tunnels = NULL /\ UNCHANGED <<status, failed, csvs>>
       \/ /\ opts.tunnels # NULL
          /\ write_csv("tunnels_csv", opts.tunnels, tunnels, report_tunnels_csv(tunnels))
    /\ UNCHANGED <<unread, printed, stdout_lost>>

\* fflush() reports a failure to write what was still in the buffer.
flush ==
    /\ pc = "flush" /\ pc' = "free"
    /\ \/ UNCHANGED <<status, stdout_lost>>
       \/ status' = EXIT_INPUT /\ stdout_lost' = 1
    /\ UNCHANGED <<unread, printed, failed, csvs>>

\* analysis_free(), pcap_close(), return.
release ==
    /\ pc = "free" /\ pc' = "exit"
    /\ analysis_free /\ R!pcap_close
    /\ UNCHANGED <<status, quiet>>

MainNext ==
    \/ help \/ count_option \/ csv_option \/ unknown_option \/ input_file \/ args_done
    \/ open_capture \/ init_tables
    \/ next_record \/ next_data \/ account_record \/ stop \/ run_returned
    \/ summary \/ top_flows \/ gtpu \/ top_tunnels \/ flows_csv \/ tunnels_csv \/ flush
    \/ release

MainSpec == MainInit /\ [][MainNext]_allVars

\* The program runs until it exits: it waits for nobody.
Fairness == WF_allVars(MainNext)

-----------------------------------------------------------------------------
(***************************************************************************)
(* Properties                                                              *)
(***************************************************************************)
\* Everything has been reported, and nothing released yet.
Reported == pc = "free"

\* The sums of two columns of a CSV file.
PacketsOf(rows) == Total([n \in DOMAIN rows |-> rows[n].packets])
BytesOf(rows) == Total([n \in DOMAIN rows |-> rows[n].bytes])

\* The CSV file of a path that was given is there with all its rows.
Written(path, rows) ==
    path # NULL => path \in DOMAIN csvs /\ csvs[path] = [rows |-> rows, whole |-> 1]

TopPrinted(m, section) == (opts.top_n # 0 /\ DOMAIN m # {}) <=> section # << >>

\* A clean exit status means that the job was done, and a bad one that as much of it
\* was done as could be.  Whatever failed before, the summary is printed and covers
\* every record that the reader returned, each section that the capture calls for is
\* printed, and each CSV file holds all its rows, but for those that failed
\* themselves; a status of 0 means that none did and that the capture was read to its
\* last byte.
ExitOkMeansComplete ==
    Reported =>
        /\ printed.summary # << >> /\ printed.summary[1].packets = records
        /\ "flows" \notin failed => TopPrinted(flows, printed.flows)
        /\ "gtpu" \notin failed => (has_gtpu(stats.gtpu) <=> printed.gtpu # << >>)
        /\ "tunnels" \notin failed => TopPrinted(tunnels, printed.tunnels)
        /\ "csv" \notin failed => Written(opts.csv, report_csv(flows))
        /\ "tunnels_csv" \notin failed => Written(opts.tunnels, report_tunnels_csv(tunnels))
        /\ status = EXIT_OK => failed = {} /\ error = "EOF" /\ covered = file.len

\* What was written adds up across the pipeline: each record of the summary is a
\* packet of one row of the flow CSV, or not IP, or one of its problems.  Only the
\* packet for which a table had no memory may be missing, and then the status says so.
RowsAddUp ==
    Reported /\ opts.csv \in DOMAIN csvs /\ csvs[opts.csv].whole = 1 =>
        LET s == printed.summary[1]
            rows == csvs[opts.csv].rows
            missing == s.packets - PacketsOf(rows) - s.non_ip - s.truncated - s.malformed IN
        /\ missing = 0 \/ (missing = 1 /\ status = EXIT_INPUT)
        /\ BytesOf(rows) <= s.wire
        /\ Len(rows) = s.flows

\* The two formatters of a flow agree: line n of the table is row n of the CSV file,
\* with the same sender, receiver, counts and (in milliseconds) duration.
TableAgreesWithCsv ==
    Reported /\ printed.flows # << >> /\ opts.csv \in DOMAIN csvs
    /\ csvs[opts.csv].whole = 1 =>
        LET lines == printed.flows[1].lines
            rows == csvs[opts.csv].rows IN
        /\ Len(lines) <= Len(rows) /\ printed.flows[1].of = Len(rows)
        /\ \A n \in DOMAIN lines :
             /\ lines[n].proto = rows[n].proto
             /\ lines[n].src.addr = rows[n].src.addr /\ lines[n].dst.addr = rows[n].dst.addr
             /\ lines[n].src.port \subseteq {rows[n].src.port}
             /\ lines[n].dst.port \subseteq {rows[n].dst.port}
             /\ lines[n].packets = rows[n].packets /\ lines[n].bytes = rows[n].bytes
             /\ lines[n].duration =
                  <<rows[n].times.duration[1], rows[n].times.duration[2] \div NS_PER_MS>>

\* A mistaken repetition of a name overwrites nothing (README): the capture is never
\* opened for writing, the two CSV files are different ones, and after a usage
\* error no file has been touched at all.
NamesNeverClash ==
    /\ opts.pcap \notin DOMAIN csvs
    /\ pc = "flush" /\ opts.csv \in DOMAIN csvs /\ opts.tunnels \in DOMAIN csvs
         => Cardinality(DOMAIN csvs) = 2
    /\ pc = "exit" /\ status = EXIT_USAGE => csvs = << >> /\ asked = 0 /\ fp = 0

\* Whichever way the program exits, the capture is closed and every array of the
\* analysis is free, also when only some of them could be allocated.
ReleasedAtExit ==
    pc = "exit" => streams = 0 /\ fp = 0 /\ buf = 0 /\ held = {}

\* "Exit status: 0 success" (main.c): everything printed has reached stdout.
ExitOkMeansPrinted == pc = "exit" /\ status = EXIT_OK => stdout_lost = 0

\* The program exits: a reader whose error is sticky does not keep it in its loop.
Exits == <>(pc = "exit")
=============================================================================
