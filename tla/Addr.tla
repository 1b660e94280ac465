-------------------------------- MODULE Addr --------------------------------
(***************************************************************************)
(* How src/src/addr.c writes an IPv6 address (format_ipv6()): the search   *)
(* for the longest run of zero groups, and the loop that prints.  The text *)
(* is a sequence of tokens; pos is its length in characters, as the calls  *)
(* of snprintf() add it up.                                                *)
(***************************************************************************)
EXTENDS Integers, SequencesExt

CONSTANTS
    Addresses,             \* addresses to format: their eight 16-bit groups
    ADDR_STR_LEN, ENDPOINT_STR_LEN

GROUP_MAX == 65535

ASSUME AddressesAssumption == Addresses \subseteq [0 .. 7 -> 0 .. GROUP_MAX]
ASSUME StrLenAssumption == ADDR_STR_LEN = 46 /\ ENDPOINT_STR_LEN = ADDR_STR_LEN + 8

VARIABLES
    groups,                \* the address
    loop,                  \* "start", "scan", "run", "print", "done"
    i, j,                  \* the loop variables
    best_start, best_len,  \* the longest run of zero groups so far
    out, pos               \* tmp: the text, and its length

format_vars == <<groups, loop, i, j, best_start, best_len, out, pos>>

\* Tokens, with the groups that each stands for: "::", ":", a group in
\* hexadecimal, and the last two groups in dotted-quad form.
RunToken == [kind |-> "::", groups |-> << >>]
SepToken == [kind |-> ":", groups |-> << >>]
HexToken(g) == [kind |-> "hex", groups |-> <<g>>]
QuadToken(g, h) == [kind |-> "quad", groups |-> <<g, h>>]

\* Mutant: the groups are printed with %u.
hex_len_decimal(g) == IF g < 10 THEN 1 ELSE IF g < 1000 THEN 3 ELSE 5

\* Lengths of numbers in hexadecimal (%x) and decimal (%u) form.
hex_len(g) == IF g < 16 THEN 1 ELSE IF g < 256 THEN 2 ELSE IF g < 4096 THEN 3 ELSE 4
dec_len(b) == IF b < 10 THEN 1 ELSE IF b < 100 THEN 2 ELSE 3
quad_len(g) == dec_len(g \div 256) + 1 + dec_len(g % 256)

FormatInit ==
    /\ groups \in Addresses
    /\ loop = "start" /\ i = 0 /\ j = 0
    /\ best_start = -1 /\ best_len = 0
    /\ out = << >> /\ pos = 0

is_v4_mapped == (\A n \in 0 .. 4 : groups[n] = 0) /\ groups[5] = GROUP_MAX

format_mapped ==
    /\ loop = "start" /\ is_v4_mapped
    /\ loop' = "done"
    /\ out' = <<RunToken, HexToken(groups[5]), SepToken, QuadToken(groups[6], groups[7])>>
    /\ pos' = 7 + quad_len(groups[6]) + 1 + quad_len(groups[7])
    /\ UNCHANGED <<groups, i, j, best_start, best_len>>

load_groups ==
    /\ loop = "start" /\ ~is_v4_mapped
    /\ loop' = "scan"
    /\ UNCHANGED <<groups, i, j, best_start, best_len, out, pos>>

-----------------------------------------------------------------------------
(***************************************************************************)
(* The longest run of zero groups                                          *)
(***************************************************************************)
skip_group ==
    /\ loop = "scan" /\ i < 8 /\ groups[i] # 0
    /\ i' = i + 1 /\ j' = i
    /\ UNCHANGED <<groups, loop, best_start, best_len, out, pos>>

start_run ==
    /\ loop = "scan" /\ i < 8 /\ groups[i] = 0
    /\ j' = i /\ loop' = "run"
    /\ UNCHANGED <<groups, i, best_start, best_len, out, pos>>

grow_run ==
    /\ loop = "run" /\ j < 8 /\ groups[j] = 0
    /\ j' = j + 1
    /\ UNCHANGED <<groups, loop, i, best_start, best_len, out, pos>>

\* Mutant: the last of several longest runs is taken.
longer_or_equal == j - i >= best_len

longer == j - i > best_len

end_run ==
    /\ loop = "run" /\ ~(j < 8 /\ groups[j] = 0)
    /\ best_start' = IF longer THEN i ELSE best_start
    /\ best_len' = IF longer THEN j - i ELSE best_len
    /\ i' = j /\ loop' = "scan"
    /\ UNCHANGED <<groups, j, out, pos>>

\* A single zero group is not shortened.
scan_done ==
    /\ loop = "scan" /\ i = 8
    /\ best_start' = IF best_len < 2 THEN -1 ELSE best_start
    /\ i' = 0 /\ loop' = "print"
    /\ UNCHANGED <<groups, j, best_len, out, pos>>

-----------------------------------------------------------------------------
(***************************************************************************)
(* Printing                                                                *)
(***************************************************************************)
print_run ==
    /\ loop = "print" /\ i < 8 /\ i = best_start
    /\ out' = Append(out, RunToken) /\ pos' = pos + 2
    /\ i' = i + best_len
    /\ UNCHANGED <<groups, loop, j, best_start, best_len>>

\* Mutant: a colon before every group but the first.
needs_sep_always == i > 0

\* The "::" already separates the run from the next group.
needs_sep == i > 0 /\ ~(best_start >= 0 /\ i = best_start + best_len)

print_group ==
    /\ loop = "print" /\ i < 8 /\ i # best_start
    /\ out' = (IF needs_sep THEN Append(out, SepToken) ELSE out) \o <<HexToken(groups[i])>>
    /\ pos' = pos + (IF needs_sep THEN 1 ELSE 0) + hex_len(groups[i])
    /\ i' = i + 1
    /\ UNCHANGED <<groups, loop, j, best_start, best_len>>

print_done ==
    /\ loop = "print" /\ i >= 8
    /\ loop' = "done"
    /\ UNCHANGED <<groups, i, j, best_start, best_len, out, pos>>

FormatNext ==
    \/ format_mapped \/ load_groups
    \/ skip_group \/ start_run \/ grow_run \/ end_run \/ scan_done
    \/ print_run \/ print_group \/ print_done

FormatSpec == FormatInit /\ [][FormatNext]_format_vars

\* format_endpoint() puts an address of n characters and a port between
\* brackets: "[" "]:" and the port.
endpoint_len(n, port_len) == 1 + n + 2 + port_len

-----------------------------------------------------------------------------
(***************************************************************************)
(* Properties                                                              *)
(***************************************************************************)
\* Whether the groups s to s + n - 1 are zero.
Zeros(s, n) == \A k \in s .. s + n - 1 : groups[k] = 0

\* The search finds what RFC 5952 asks for: the first of the longest runs of at
\* least two zero groups, or none if there is no such run.
RunIsFirstLongest ==
    loop = "print" =>
        IF best_start = -1
        THEN \A s \in 0 .. 6 : ~Zeros(s, 2)
        ELSE /\ best_start \in 0 .. 6 /\ best_len \in 2 .. 8 - best_start
             /\ Zeros(best_start, best_len)
             /\ \A s \in 0 .. 7 : \A n \in 1 .. 8 - s :
                  Zeros(s, n) => n < best_len \/ (n = best_len /\ s >= best_start)

\* Whether (best_start, best_len) is the first longest run that ends by group e.
BestBefore(e) ==
    /\ IF best_len = 0 THEN best_start = -1
       ELSE best_start >= 0 /\ best_start + best_len <= e /\ Zeros(best_start, best_len)
    /\ \A s \in 0 .. 7 : \A n \in 1 .. 8 - s :
         s + n <= e /\ Zeros(s, n) => n < best_len \/ (n = best_len /\ s >= best_start)

\* What the search keeps true: it has the best run so far, and never stands inside
\* a run but where it began.
SearchInv ==
    /\ loop \in {"scan", "run"} => BestBefore(i)
    /\ loop = "start" => i = 0 /\ best_len = 0 /\ best_start = -1
    /\ loop = "scan" => i = 0 \/ i = 8 \/ groups[i - 1] # 0 \/ groups[i] # 0
    /\ loop = "run" => /\ i < 8 /\ i <= j /\ groups[i] = 0
                       /\ i = 0 \/ groups[i - 1] # 0
                       /\ Zeros(i, j - i)

\* What printing keeps true: five characters for each group but the first.
LengthInv ==
    /\ loop \in {"start", "scan", "run"} => pos = 0
    /\ loop = "print" => pos <= IF i = 0 THEN 0 ELSE 5 * i - 1
    /\ loop = "done" => pos <= 39

\* Types of the variables.
TypeOK ==
    /\ groups \in Addresses
    /\ loop \in {"start", "scan", "run", "print", "done"}
    /\ i \in 0 .. 8 /\ j \in 0 .. 8
    /\ best_start \in -1 .. 7 /\ best_len \in 0 .. 8
    /\ pos \in Nat

\* The text fits the buffers that its callers have: tmp and an address column with
\* the terminating NUL, and, with brackets and a port, an endpoint.
FitsBuffers ==
    /\ pos < ADDR_STR_LEN
    /\ endpoint_len(pos, 5) < ENDPOINT_STR_LEN

\* The groups that the tokens of a text stand for, by the rules of RFC 4291: a "::" is
\* as many zeros as are missing.
GroupsOf(s) == FlattenSeq([n \in DOMAIN s |-> s[n].groups])

Reading(text) ==
    LET runs == {n \in DOMAIN text : text[n] = RunToken}
        cut == IF runs = {} THEN Len(text) + 1 ELSE CHOOSE n \in runs : TRUE
        head == GroupsOf(SubSeq(text, 1, cut - 1))
        tail == GroupsOf(SubSeq(text, cut + 1, Len(text))) IN
    head \o [n \in 1 .. 8 - Len(head) - Len(tail) |-> 0] \o tail

\* A text is well formed if at most one "::" occurs, and otherwise exactly one ":"
\* stands between two numbers.
Separated(text) ==
    /\ \A m, n \in DOMAIN text : text[m] = RunToken /\ text[n] = RunToken => m = n
    /\ \A n \in 1 .. Len(text) - 1 :
         (text[n].kind \in {":", "::"}) # (text[n + 1].kind \in {":", "::"})
    /\ text # << >> => SepToken \notin {text[1], text[Len(text)]}

\* The text that is printed is well formed and reads back as the address: no two
\* addresses have the same text, in the tables and the CSV files.
TextReadsBack ==
    loop = "done" =>
        Separated(out) /\ Reading(out) = [n \in 1 .. 8 |-> groups[n - 1]]
=============================================================================
