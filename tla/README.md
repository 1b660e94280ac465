# pcapstat in TLA+

This directory is a TLA+ model of pcapstat, the pcap statistics tool in `src/`:
its capture reader, frame decoder, fragment cache, counters, flow and tunnel
tables, the pipeline that connects them, the reports and the command line, and
the fuzzer that the repository keeps for its decoder. TLC checks the modules on small
instances; TLAPS proves every safety property of the passing runs for every value
of the parameters.

To check it, run in this directory:

    tlc -config MCDecode.cfg MCDecode        # any run of PROJECT.json
    tlapm DecodeProofs.tla                   # any of the ...Proofs modules

`PROJECT.json` lists the runs, the theorems, the hazards, and the source lines
behind every definition. Comments that begin "Mutant:" mark operators that are
not part of the model: each is a plausible bug in the definition that follows
it, and some property must fail when it takes that definition's place.

## 1. The system

pcapstat is one sequential process. It opens a capture, and for each record

    pcap_next -> decode_frame -> frag_cache_apply -> stats_add
              -> flow_table_add_packet -> flow_table_add_tunnel

until the capture ends, breaks, or a table cannot grow; then it prints reports
from the counters and the tables. Nothing runs concurrently and nothing is
persisted. What is hard is elsewhere: input that no sender has checked, lengths
that disagree with each other, loops whose end the input chooses, reads and
allocations that may fail at any point, and running summaries that must be right
whatever order the packets arrive in.

| Component | Source | State | Operations | What makes it correct |
|---|---|---|---|---|
| reader | pcap_reader.c | stream or buffer, position, sticky error, errno, record count | open file / stream / memory, next, close | a clean end means that everything was returned; a good capture is never refused; reads fit the buffer; no stream leaks |
| decoder | decode.c | the span (offset, captured and wire length), the packet_info, for a tunnel a second one | one call per frame, one step per header | no read outside the capture; no length wraps; verdicts blame the right layer; loops end |
| fragment cache | frag.c | direct-mapped array of ports by datagram | apply | a later fragment gets the ports of a first fragment of its key, or none |
| counters | stats.c | one counter per version, protocol, message type, verdict | add | the counters partition the packets, so that the report's totals are sums of its lines |
| flow, tunnel tables | flow.c, hash.h | open-addressing array, capacity, count; per flow packets, bytes, times, flags, direction | init, free, find, account (probe, insert, grow); walks, top-N | one reachable slot per key; an empty slot always remains; a failed growth loses nothing |
| pipeline | analyze.c | the four above | init, run, free | order of the stages; what is left when one of them fails |
| byte loads | bytes.h | none | loads in both byte orders | what a writer stored in its own order is what the reader loads |
| addresses | addr.c | none | formatting, RFC 5952 | the right zero run is shortened; the text fits its buffers and reads back as the address |
| report | report.c | none | summary, tables, GTP-U section, CSV | tables and CSV files agree with each other and with the totals |
| command line | main.c | options, exit status | parse, open, run, report, write, flush, release | an error of any step reaches the exit status; no file is overwritten by a slip; everything is released |
| fuzzer | fuzz/fuzz_decode.c | a frame in a fixed buffer | mutate, decode, check | its demands on the decoder are true |

The components interact by calls only. `struct packet_info` is the contract
between the decoder and everything after it, so it has a module of its own, with
the agreement (`Consistent`) that later stages rely on and that the decoder is
proved to establish.

## 2. Modules

| Module | Models | Uses |
|---|---|---|
| PacketInfo | `struct packet_info`, the verdicts, `Consistent` | |
| Decode | `decode_frame()` and the decoders below it | PacketInfo |
| FlowEntry | one flow: how a packet is added to it | |
| FlowMap | abstract specification of a table: a map from keys to flows | FlowEntry |
| FlowTable | the hash table, one step per turn of its loops | FlowEntry; implements FlowMap |
| Stats | `stats_add()` | PacketInfo |
| FragCache | `frag_cache_apply()` | PacketInfo |
| Analysis | the pipeline, composing counters, cache and two tables | Stats, FragCache, FlowEntry |
| PcapReader | the capture reader | |
| CaptureSource | abstract specification of a reader: records, then one verdict | |
| HeaderBytes | the bytes of the two file headers: writer and loads | |
| DecodePair | two calls of `decode_frame()` side by side | Decode, twice |
| FlowRank, TopN | the order of flows; walk, heap and TEID count over a table | |
| Report | what the sections and CSV rows hold | Stats, FlowRank |
| Main | the command line, composing reader, pipeline and reports | PcapReader, Analysis, Report |
| Addr | `format_ipv6()` | |
| FuzzOracle | `check_invariants()` of the fuzzer | Decode |
| Sums | totals over finite sets and sequences | |
| DecodeProofs | theorems about Decode, FuzzOracle and DecodePair | these three |
| FlowTableProofs, PcapReaderProofs, TopNProofs | theorems about one module | that module; TopNProofs also FiniteProofs |
| ConversionProofs | theorems about Addr and HeaderBytes | these two, FiniteProofs |
| AnalysisProofs | theorems about Analysis, Stats, FragCache and FlowEntry | Analysis, FiniteProofs |
| MainProofs | theorems about Main and Report | Main, AnalysisProofs |
| FiniteProofs | lemmas about induction, sums, folds and sorted lists that the others cite | Sums |
| MC... | instances for TLC | the module they instantiate; MCDecode is FuzzOracle, and with it Decode; MCConversions is Addr beside HeaderBytes |

**Decode.** The variables `off`, `cap`, `wire` are `struct span`; `status`,
`gtp_status`, `l2`, `l3["outer"]`, `gtp` are the fields of `*pi`, `l3["inner"]`
the scratch packet_info of `decode_gtpu_inner()`. `pc` names the header to be decoded
next. Each action is one header or one turn of one of the three header loops,
and takes as parameters what the bytes it reads may hold; all checks of the C
function appear in their order. Between calls `pc` is `"idle"` and the fields
hold the result. `readTo` records how far the frame has been read. Header
lengths are parameters: the model checker uses headers of one or two units, the
proofs cover the real 14, 20, 40 bytes. Addresses, ports other than "is one of
them 2152", VLAN ids and TEIDs are not kept; no control depends on them.

**FlowTable.** `slots`, `capacity`, `count` are `struct flow_table`;
`account` starts an insertion, `probe`, `grow_next`, `place`, `grow_done` are
the turns of its loops, `flow_table_find` and `find_next` the lookup.
`calloc()` may fail at `flow_table_init` and at every growth. The
hash is an arbitrary function of the key, so the proofs hold for every seed. The
same code serves flows and tunnels; so does the module.

**FlowEntry, FlowMap.** What `account()` writes into one flow is a function of
the flow and the packet (`new_flow`, `accounted`). FlowMap is the promise of the
table: a map in which a packet changes the entry of its key and no other.

**Stats, FragCache, Analysis.** Counters and cache are functions of their old
value and the packet, as the C functions are. Analysis has one action per turn of
`analysis_run()`, with every outcome: not accounted, in a flow, in a flow and a
tunnel, either table failing. The packets are `packet_info`s that satisfy
`Consistent`, which DecodeProofs proves of the decoder's results, and the tables
are FlowMaps, which FlowTableProofs proves of the arrays. Any addition may fail
here; in FlowTable only one that must grow can, so Analysis allows more failures
than the code. `held` names the arrays that are allocated, so that the undoing of a
partial `analysis_init()` can be seen (`before`, `undone`). `log` and `lost` are
history: they let flows and tunnels be compared with a second pass over the packets.
`TunnelsHoldSoundGpdus` does this for the records whose GTP-U headers are sound: a
problem of a header keeps a G-PDU out of its tunnel, one of the user packet does not.

**PcapReader.** `fp`, `buf`, `mem_len`, `pos`, `records`, `error`, `sys_errno`
are the fields of the reader. The capture is fixed in the initial state: its
length, the contents of its global header and, for every offset, the length a
record header would hold there, so that a reader that lost its place would read
something. `pcap_next` and `pcap_next_data` are the two halves of `pcap_next()`.
Any `fopen`, `malloc` or `fread` may fail, a read after any number of bytes.
It implements CaptureSource: the records and the verdict depend on the bytes of
the capture alone, so a capture read from memory and the same capture read from a
file give the same, until a read of the file fails. The fuzzer tests this by
reading captures both ways in lockstep.

**HeaderBytes.** PcapReader starts from what the headers hold; this module goes
down to the bytes. A writer (`pcap_put_global`, `pcap_put_record` of
tests/builder.c) stores fields in its own byte order, the parsers load the magic
as little-endian, learn the order from it and load the rest. A header is a
sequence of digits in the base `BYTE`. Products and sums of the timestamp are
taken modulo `U64`.

**DecodePair.** Two copies of Decode, one as it stands and one on variables with
the prefix `c_`, take their header steps together with the same contents. In
`PairSpec` they decode one frame captured to two lengths; once the shorter
capture has ended the copies go on alone. In `FragSpec` they decode the first and
a later fragment of one IPv6 datagram, whose headers agree up to the fragment
header.

**TopN.** `slots` is the array of a table; `pos`, `out`, `i`, `n` are the
variables of `flow_table_top_n()` and its two sift loops, `teids` and `count`
those of `flow_table_distinct_teids()`. `qsort()` is external: any order that the
comparison accepts.

**Report, Main.** A printed section or CSV row is the record of its columns; Report
says which. Main has one action per argument and per step of `main()`. `R` is
PcapReader on the reader's variables, and the actions of Analysis are used as they
are: `next_record`, `next_data` and `account_record` are one turn of
`analysis_run()`. Every allocation, `fopen()`, write, `fclose()` and flush may
fail. `printed` and `csvs` are what has been written. `stdout_lost` and `failed` are history:
text for stdout was dropped (that of `-h` too), and the sections and files that failed
themselves. With `failed` a property can say that a failure keeps nothing after it from
being written.

**Addr.** One action per turn of the three loops. The text is a sequence of
tokens, `pos` its length in characters.

**FuzzOracle.** States over Decode what `check_invariants()` demands of a decoded
frame.

## 3. What TLC checks

| Run | Bounds | Shows |
|---|---|---|
| decode | frames of seven lengths from 0 to 11 units, every captured and wire length of them, headers of 1-2 units, 1 VLAN tag, 2 IPv6 and 1 GTP-U extension headers | reads in bounds, spans that only shrink, layers and verdicts that agree, a tunnel that never alters the packet that carries it, the demands of the fuzzer, every call returns |
| decode_pair | six frame lengths, every pair of captured lengths | a shorter capture only turns verdicts into truncations |
| flow_table | 6 keys, arrays of 4, 8, 16 slots, 6 packets | reachability, load factor, exact lookups, implementation of FlowMap, calls return |
| top_n | every placement of 0-5 of 5 flows, with ties in every field of the order, in 5 slots; n from 0 to 5 | the heap, the documented order, the TEID count, walks and sifts that end |
| analysis | captures of three kinds: 3 records of 29 kinds of packet; 4 fragments of 4 datagrams that share keys or slots; 4 packets of 2 conversations at 3 instants, with ties | the sums of the summary, flows that are what a second pass would compute, tunnels that are the same second pass over the sound G-PDUs, attribution of later fragments |
| pcap_reader | every capture of up to 8 bytes with headers of 2, any fault | implementation of CaptureSource, buffer, streams, errno |
| main | 5 captures (whole, cut in a header and in a record, bad length, bad magic), 2 records, 8 kinds of packet, 2 argument lists, any failure; and an empty capture with every list of up to 4 of 9 words and those of 5 that name three files | exit status, nothing left out because of an earlier failure, agreement of the outputs, no file opened under two roles, release, exit |
| conversions | every address whose groups are 0, 1 or 65535; headers in base 4 with fields at their limits, both byte orders | zero run, length, reading back; what was written is what is loaded |
| first_seen, portless, fragment_pair, stdout | as analysis, analysis, decode_pair, main | four disagreements, section 5 |

Why the bounds are enough. *Decode:* a frame of 11 units holds Ethernet, an IP
header, UDP, GTP-U, an inner IP header and its transport, or GTP-U with optional
fields and an extension; the shorter lengths cut it before and inside these; all
limits (VLAN tags, extension headers of both kinds) can be reached and passed, and
every declared length can be smaller than, equal to and larger than what is there.
*FlowTable:* four keys share the last slot of the smallest array, so that probes
wrap; six keys make the table grow twice, and the keys separate differently each
time. *Analysis:* each packet changes the counters by an amount that does not
depend on the others, except through the cache, the tables and the time span; two
packets make each of these interact, a third follows the interaction. The
fragments are first and later ones of two datagrams of one key, and one of another
key in the same slot, in any order; four packets of a conversation cover every
order of three timestamps and a tie, in both directions. *PcapReader:* three empty
records, or two of which one has data, files that end inside each header and
record, and lengths at, below and above the limit. *TopN:* five flows make a heap
of three levels in which both children of the root can be the lower one, and every
field of the order decides somewhere. *DecodePair:* the lengths reach the
transport header of a tunnelled packet, and the cut may fall into any header.
*HeaderBytes:* the base only has to be large enough for the magics to differ in
their bytes; fields are 0, 1, the largest and in between, and the largest
timestamp comes close to the width. *Main:* packets end in no table, one or both,
and two of them make conversations with two directions and ranks that differ; `-n
1` and the default give tables shorter than and as long as the CSV file. *Addr:*
the zero run depends only on which groups are zero, and 1 and 65535 are the
shortest and longest groups. The words of the argument lists include numbers, which are
names of files where no number is asked for.

No state constraint and no symmetry is used. The bounds `MaxAdds` and `MaxRecords`
(and `Captures` of MCAnalysis, per kind of capture) are guards of the actions that
count. The lengths of the enumerated sets bound the rest. Deadlock checking is off
where the code really comes to an end: Main exits, and in MCConversions
`format_ipv6()` returns and a refused or fully parsed header is the last step of
HeaderBytes. Everywhere else a program can still free, look up or start again
after its bound.

Fairness. `FairSpec` of Decode and of FlowTable assumes weak fairness of the
steps of a call in progress, and none of starting a call. The program is a
single thread without blocking calls between entering and leaving these
functions, so a step that is enabled is taken. The same holds of TopN.
`Fairness` of Main assumes weak fairness of the whole program: it waits for nobody
once a read of its input has returned or failed. PcapReader, Analysis, DecodePair,
Addr and HeaderBytes state no liveness property and assume no fairness.

## 4. What is proved

All theorems hold for every value of the constants that satisfies the `ASSUME`s
of the modules.

**Decode** (14 theorems, in DecodeProofs). Assumptions: header lengths, length fields and frame
lengths are natural numbers; nothing is assumed about their sizes. The properties
speak of what is true when a call returns, so the inductive invariant has to say
for each `pc` what has been established so far: `SpanGood` (the span lies inside
the frame, a frame captured whole has nothing missing from it, and the UDP header
that GTP-U detection steps over is there), `LoopsGood` (the loop variables suit
the loop that is running), `OuterShape`, `TunnelShape` and
`ReasonShape` (which layers may be valid and which verdicts possible at each
step), `ProtoShape` (`ip_proto` is unknown while a chain is walked). One lemma
per part shows that a step preserves it, one step per action. Besides the
invariants of the run this gives `SpanShrinks` and `OuterFrozen` (properties of
steps), `ResultsConsistent`, the assumption of Analysis, and theorems that no run
needs to repeat: the span stays inside the frame, a frame captured whole is never
truncated, GTP-U fields belong to clean UDP, `gtp_msg_ok` separates the two kinds of
problem, extension headers need the E flag.

**FlowTable** (6 theorems). Assumptions: the hash is a natural number; doubling a
capacity below the largest gives a capacity; the load factor is a fraction below
one, and the smallest array has room for one flow. The invariant adds to the
properties of the run: `ProbedPath` (the slots between the home of the key and
the probe index are occupied by other keys), `RoomToInsert` (a call that
inserts has passed the load check), `CopiedSoFar` (during growth the new array holds exactly the flows
of the slots already visited, reachable and distinct), `PlacePath` (the same for the probe of `place()`). Without
them a lookup that stops at an empty slot proves nothing, and an insertion could
duplicate a key. `Refinement` shows that every step is a step of FlowMap on
`StoredMap` or changes nothing there.

**FuzzOracle** (1 theorem, in DecodeProofs, on top of the invariant of Decode). What the
fuzzer demands beyond the properties above needs three more facts: a valid layer has
version 4 or 6 (`Versioned`), GTP-U and the nested flag come with UDP and the port
(`Ported`), and a signalling message has no problem behind its headers
(`SignalsClean`). So no input can make `check_invariants()` fail.

**DecodePair** (3 theorems, in DecodeProofs). `PairInv` says that the two calls are in
one of three relations: `Alike` (the same header, the same knowledge, spans that differ
only in what was captured), `OuterCut` (the shorter call has returned with a truncation
of the outer packet and the longer one goes on) and `TunnelCut` (the same inside a
tunnel). One lemma per header shows that a common step keeps the calls alike or makes
one of the cuts; the step lemmas (`OuterStep`, `TunnelStep`, `InnerSeenStep`,
`CountedStep`) show that the longer call, going on alone, never takes back what both
knew. `OuterVerdict` and `TunnelVerdict` read the property off the relations. The invariant
of Decode is needed of the longer call only, with one fact more, `ExtsCounted`:
every GTP-U extension header counted is a turn of the loop.

**PcapReader** (9 theorems). Assumptions: header lengths are natural numbers, a
record header is not empty, both headers fit the record buffer, the magic fits
the global header. The invariant adds `InPlace` (between records
the position is where the last record ended; inside one it is at its data) and
`OnChains`: every chain of record boundaries of the file contains the end of the
last record. The last one is what makes `WellFormedIsReadToEnd` inductive: a
file is well-formed if it has such a chain, and the reader never leaves it.
`ReaderImplementsSource` is the refinement: `at` is the end of the last record, a
half-read record does not count, and each of the error paths is a step of
CaptureSource or changes nothing there.

**HeaderBytes** (3 theorems, in ConversionProofs). Assumptions: the base is at least 2, fields fit their
widths, the swapped magics are the magics with their digits reversed, no two of
the magics are equal, no writer uses a swapped one as its own, and the largest sum of a timestamp is below `U64` (true of 2^32, 10^9,
1000 and 2^64). The lemmas compute the digits of a number, follow each field
through the concatenation that makes the header, and show that loading in the order
of storing gives the number back. `TimestampNeverWraps` then removes the modulo.

**Addr** (3 theorems, in ConversionProofs). `SearchInv` says that the search holds the best run that ends
before `i` and that `i` never stands inside a run; `LengthInv` that the text has at
most five characters for each group but the first. `PrintInv` says what has been
printed when group `i` is next: the list of the groups before it (`Listed`), or such a
list, the "::" and a second list that begins behind the run (`RunPrinted`). When the
loop ends, `Reading` splits the text at the "::" and gets both lists back
(`JoinedParts`), and the zeros between them are the run (`FilledIsAddress`). What
`FlattenSeq` makes of a text with one token more is shown from its recursion equation
(`FlattenAppend`). `ShortensFirstLongestRun`, `TextFits` and `TextAlwaysReadsBack`
hold for all 2^128 addresses.

**TopN** (3 theorems). Assumptions: an array has finitely many slots, numbered from 0;
its flows have numbers and keys that can be ordered; no key is there twice. `Better` is
first shown to be a strict total order on such flows (it compares fields in turn, the
key last).
`HeapInv` says which flow may be out of order while a sift loop runs: the one that
moves. To sift down, that is not enough; `Bridge` adds that its children are in order
with its parent. `OutInv` and `WalkInv` say that `out` holds flows of the slots
walked over, each once, as many as there can be, and that every flow left out is behind
every flow kept; `RootIsWeakest` makes the heap's root the one to compare with.
`DoneInv` is what `qsort()` makes of this, and holds until the next call. `TeidInv` and
`CountInv` are the same for the TEIDs.

**Analysis** (6 theorems). Assumptions: the packets are as the decoder returns them
(`Consistent`, proved by `ResultsConsistent`; no ports in a later fragment, TCP flags
in TCP only), with no more captured than was on the wire (the reader raises `wirelen`
to `caplen`); every datagram has a slot of the fragment cache. `IInv`
consists of the properties of the run and what makes them inductive: `PhasesHold`
(also which arrays are allocated), `LogHolds` (each record is a packet that the decoder can
return, attributed or not), `SpanHolds` (the first and last time of the capture are times of packets in it, and
those of flows lie between), `CacheHoldsLatest` (a slot holds the last first fragment
that was hashed to it, so an entry of a key is that key's latest), `FlowsHold` (each
flow summarises the accounted packets of its key: their number, bytes, first and last
time, flags, and the direction of the earliest), `TunnelsHold` (the same of the tunnels and the
tunnelled records), `ProblemsHold` (the counters of the two kinds of GTP-U problems
are the numbers of records in the log that have one), and `TotalsHold` (every clean packet is
in a flow, is not IP, or is the one that memory did not suffice for). `StatsStep` and `GtpuStep` compute what one packet
does to every counter. A second pass over `log` sees the records through a *view*: the
key, bytes, direction and flags that the table is given for each. Flows and tunnels have
different views, and the lemmas about what one more record does to a summary
(`IsSummary`, `OneMore`, `Longer`) are proved once for both. `FlowsAlwaysSummarise` and
`TunnelsAlwaysSound` then hold whatever the order of the timestamps and wherever memory
ran out.

**Main** (8 theorems). `ProgramRunsAnalysis` and `ProgramRunsReader` show that the program
is a behaviour of its two components: it calls them only as they allow, and changes
nothing of theirs otherwise. The invariant of Analysis therefore holds in it. tlapm
cannot use the theorems of a module that is instantiated, so `ReadingHolds` proves
again what is needed of the reader. `ProgramInv` adds `ResourcesHold` (what is open and allocated at
each step), `NamesHold` (files are written only when no two names are equal, and a
good status means that nothing was lost so far) and `OutputHolds` (what has been
written by each step, but for what failed itself, and that nothing failed if the status
is good). `RowsHold` ties the printed table and the
CSV file to one and the same flow table; `RowsAlwaysAddUp` then follows from
`TotalsHold`, and `TableAlwaysAgrees` from the fact that a sorted list of the first n
flows is the beginning of the sorted list of all.

**FiniteProofs** (26 lemmas). The library's induction theorems have operators as
parameters, which the provers cannot instantiate. An induction can be stated over a
*set* of numbers or of finite sets instead, and a recursive definition used through its
recursion equation, whose solution is built step by step. So the sums of Sums and
the folds and sorts of the community modules are given the equations that the other modules use.

Only model-checked: the liveness properties (`Terminates`, `CallsReturn`,
`TopNReturns`, `Exits`),
which are out of the prover's reach under fairness. The four properties of section 5
are violated.

## 5. Where the code and its documentation disagree

- `first_seen`: flow.h and README.md say that a flow records who sent the first
  packet *seen*. `account()` moves `first_from_b` with the smallest timestamp, so
  in a capture that is not in time order it names the sender of the *earliest*
  packet. `FlowsSummariseHistory` states what the code does.
- `portless`: frag.h says that a later fragment that arrives before its first
  fragment is left port-less. Entries stay in the cache, and the key of a datagram
  may be used again: such a fragment then gets the ports of the older datagram.
  `FragmentsAttributed` states what the code does.
- `fragment_pair`: frag.h and README.md say that all fragments of a datagram share
  their protocol. For IPv6 with an extension header behind the fragment header,
  `decode_ipv6()` gives a first fragment the protocol at the end of the chain and a
  later one the number of that extension header, so the cache never matches them.
- `stdout`: main.c and README.md say that exit status 0 means success. Only the
  last `fflush(stdout)` is looked at. When an earlier write has failed, its text is
  gone, the buffer is empty and the flush succeeds; the stream's error indicator,
  which would tell, is not read (the CSV writers do read theirs). After `-h` not even
  that flush is made.

## 6. What is not modelled

- Layout: column widths, headings, percentages, the calendar form of a time, and the
  texts of messages (`decode_status_str()`, `pcap_status_str()`, usage).
- The dotted form of an IPv4 address, one `snprintf()`.
- hash.h: every function from keys to numbers is allowed.
- 64-bit counters do not wrap: no capture has 2^64 packets or bytes.
- The fuzzer's seeds, the changes it makes to them and its comparison of reports;
  the tests and gen_pcap.py, which are straight-line programs with fixed inputs.
- Two spellings of one path (`./cap.pcap`): main.c says that it compares names.

## 7. Plan

Done, in the order of importance: the decoder, which faces unchecked input; the
tables with their abstract specification; the pipeline; the reader with its own;
then pairs of calls, the read-only walks, the bytes of the headers, addresses,
reports and the command line that composes everything, and what the fuzzer demands.

Then the proofs, from the leaves of the composition upwards: the decoder and the table,
the reader, the conversions, and what the fuzzer demands; the walks, the pairs of calls, the
pipeline, the whole program.

Left: nothing of the plan. Liveness stays with TLC.
