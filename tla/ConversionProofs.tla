-------------------------- MODULE ConversionProofs --------------------------
(***************************************************************************)
(* Proofs about the two conversions of the program.                        *)
(*                                                                         *)
(* Addr, for every set of IPv6 addresses: format_ipv6() shortens the run   *)
(* that RFC 5952 names, its text fits the buffers of its callers, and      *)
(* reads back as the address.                                              *)
(*                                                                         *)
(* HeaderBytes, for every base and width: what a writer stores in its byte *)
(* order is what the parsers load, and the timestamp does not wrap.  The   *)
(* argument goes from digits to numbers (Bytes32), to the fields of a      *)
(* header (RecordFields, GlobalFields), to the magic (MagicTells), and     *)
(* ends with an inductive invariant.                                       *)
(***************************************************************************)
EXTENDS Addr, HeaderBytes, FiniteProofs

FormatInv == TypeOK /\ SearchInv /\ RunIsFirstLongest /\ LengthInv

\* A group takes at most four digits, half of a dotted quad at most seven characters.
LEMMA Lengths ==
    ASSUME NEW g
    PROVE  hex_len(g) \in 1 .. 4 /\ quad_len(g) \in 3 .. 7
<1>1. hex_len(g) \in 1 .. 4
  BY DEF hex_len
<1>2. \A b : dec_len(b) \in 1 .. 3
  BY DEF dec_len
<1>3. dec_len(g \div 256) \in 1 .. 3 /\ dec_len(g % 256) \in 1 .. 3
  BY <1>2
<1>4. quad_len(g) \in 3 .. 7
  BY <1>3 DEF quad_len
<1> QED BY <1>1, <1>4

\* The invariant holds before the first group is looked at.
LEMMA InitFormat == FormatInit => FormatInv
BY DEF FormatInit, FormatInv, TypeOK, SearchInv, RunIsFirstLongest, LengthInv, BestBefore

\* A group that is not zero ends no run: the best run before it is the best run
\* up to and with it.
LEMMA SkipKeepsBest ==
    ASSUME TypeOK, SearchInv, skip_group
    PROVE  BestBefore(i)'
<1>1. BestBefore(i) /\ i \in 0 .. 7 /\ groups[i] # 0
  BY DEF SearchInv, skip_group, TypeOK
<1>2. ASSUME NEW s \in 0 .. 7, NEW n \in 1 .. 8 - s, s + n <= i + 1, Zeros(s, n)
      PROVE  s + n <= i
  <2>1. i \notin s .. s + n - 1
    BY <1>1, <1>2 DEF Zeros
  <2> QED BY <2>1, <1>1, <1>2
<1> QED BY <1>1, <1>2 DEF BestBefore, Zeros, skip_group, TypeOK

\* The run from i to j ends at j and began at i, so that it is the only run of its
\* length that ends by j and not by i.
LEMMA EndKeepsBest ==
    ASSUME TypeOK, SearchInv, end_run
    PROVE  BestBefore(i)'
<1>1. /\ BestBefore(i) /\ i \in 0 .. 7 /\ j \in 0 .. 8 /\ i < j
      /\ groups[i] = 0 /\ Zeros(i, j - i) /\ (i = 0 \/ groups[i - 1] # 0)
      /\ best_len \in 0 .. 8 /\ best_start \in -1 .. 7
  BY DEF SearchInv, end_run, TypeOK
<1>2. ASSUME NEW s \in 0 .. 7, NEW n \in 1 .. 8 - s, s + n <= j, Zeros(s, n), ~(s + n <= i)
      PROVE  s >= i /\ n <= j - i
  <2>1. ASSUME s < i PROVE FALSE
    <3>1. i - 1 \in s .. s + n - 1
      BY <1>1, <1>2, <2>1
    <3>2. groups[i - 1] = 0
      BY <3>1, <1>2 DEF Zeros
    <3> QED BY <3>2, <1>1, <2>1
  <2> QED BY <2>1, <1>1, <1>2
<1>3. /\ groups' = groups /\ i' = j
      /\ best_start' = IF j - i > best_len THEN i ELSE best_start
      /\ best_len' = IF j - i > best_len THEN j - i ELSE best_len
  BY DEF end_run, longer
<1>4. ASSUME NEW s \in 0 .. 7, NEW n \in 1 .. 8 - s, s + n <= j, Zeros(s, n)
      PROVE  n < best_len' \/ (n = best_len' /\ s >= best_start')
  <2>1. CASE s + n <= i
    <3>1. n < best_len \/ (n = best_len /\ s >= best_start)
      BY <1>1, <1>4, <2>1 DEF BestBefore
    <3> QED BY <3>1, <1>1, <1>3
  <2>2. CASE ~(s + n <= i)
    <3>1. s >= i /\ n <= j - i
      BY <1>2, <1>4, <2>2
    <3>2. best_len # 0 => best_start + best_len <= i
      BY <1>1 DEF BestBefore
    <3> QED BY <3>1, <3>2, <1>1, <1>3
  <2> QED BY <2>1, <2>2
<1>5. IF best_len' = 0 THEN best_start' = -1
      ELSE best_start' >= 0 /\ best_start' + best_len' <= j
  BY <1>1, <1>3 DEF BestBefore
<1>6. best_len' # 0 => Zeros(best_start', best_len')
  <2>1. CASE j - i > best_len
    BY <2>1, <1>1, <1>3
  <2>2. CASE ~(j - i > best_len)
    BY <2>2, <1>1, <1>3 DEF BestBefore
  <2> QED BY <2>1, <2>2
<1> QED BY <1>3, <1>4, <1>5, <1>6 DEF BestBefore, Zeros

\* The search preserves its invariant, and hands the run that it found to the
\* printing loop.
LEMMA StepSearchInv == FormatInv /\ [FormatNext]_format_vars => SearchInv'
<1> SUFFICES ASSUME FormatInv, [FormatNext]_format_vars PROVE SearchInv'
  OBVIOUS
<1> USE DEF FormatInv
<1>1. CASE UNCHANGED format_vars
  BY <1>1 DEF SearchInv, BestBefore, Zeros, format_vars
<1>2. CASE format_mapped
  BY <1>2 DEF format_mapped, SearchInv
<1>3. CASE load_groups
  BY <1>3 DEF load_groups, SearchInv, BestBefore, TypeOK
<1>4. CASE skip_group
  <2>1. BestBefore(i)'
    BY <1>4, SkipKeepsBest
  <2>2. loop' = "scan" /\ i' - 1 = i /\ groups' = groups /\ groups[i] # 0
    BY <1>4 DEF skip_group, TypeOK
  <2> QED BY <2>1, <2>2 DEF SearchInv
<1>5. CASE start_run
  BY <1>5 DEF start_run, SearchInv, BestBefore, Zeros, TypeOK
<1>6. CASE grow_run
  <2>1. BestBefore(i)'
    BY <1>6 DEF grow_run, SearchInv, BestBefore, Zeros
  <2>2. Zeros(i, j - i)'
    BY <1>6 DEF grow_run, SearchInv, Zeros, TypeOK
  <2> QED BY <2>1, <2>2, <1>6 DEF grow_run, SearchInv, TypeOK
<1>7. CASE end_run
  <2>1. BestBefore(i)'
    BY <1>7, EndKeepsBest
  <2>2. loop' = "scan" /\ i' = j /\ groups' = groups /\ (j = 8 \/ groups[j] # 0)
    BY <1>7 DEF end_run, TypeOK
  <2> QED BY <2>1, <2>2 DEF SearchInv
<1>8. CASE scan_done
  BY <1>8 DEF scan_done, SearchInv
<1>9. CASE print_run \/ print_group \/ print_done
  BY <1>9 DEF print_run, print_group, print_done, SearchInv
<1> QED BY <1>1, <1>2, <1>3, <1>4, <1>5, <1>6, <1>7, <1>8, <1>9 DEF FormatNext

\* The run that is shortened stays the first longest one.
LEMMA StepRun == FormatInv /\ [FormatNext]_format_vars => RunIsFirstLongest'
<1> SUFFICES ASSUME FormatInv, [FormatNext]_format_vars PROVE RunIsFirstLongest'
  OBVIOUS
<1> USE DEF FormatInv
<1>1. CASE UNCHANGED format_vars
  BY <1>1 DEF RunIsFirstLongest, Zeros, format_vars
<1>2. CASE scan_done
  <2>1. /\ BestBefore(8) /\ groups' = groups /\ best_len' = best_len
        /\ best_start' = IF best_len < 2 THEN -1 ELSE best_start
        /\ best_len \in 0 .. 8 /\ best_start \in -1 .. 7
    BY <1>2 DEF scan_done, SearchInv, TypeOK
  <2>2. CASE best_len < 2
    <3>1. ASSUME NEW s \in 0 .. 6, Zeros(s, 2) PROVE FALSE
      <4>1. 2 < best_len \/ 2 = best_len
        BY <2>1, <3>1 DEF BestBefore
      <4> QED BY <4>1, <2>1, <2>2
    <3> QED BY <2>1, <2>2, <3>1 DEF RunIsFirstLongest, Zeros
  <2>3. CASE ~(best_len < 2)
    <3>1. best_start >= 0 /\ best_start + best_len <= 8 /\ Zeros(best_start, best_len)
      BY <2>1, <2>3 DEF BestBefore
    <3>2. \A s \in 0 .. 7 : \A n \in 1 .. 8 - s :
            Zeros(s, n) => n < best_len \/ (n = best_len /\ s >= best_start)
      BY <2>1 DEF BestBefore
    <3> QED BY <2>1, <2>3, <3>1, <3>2 DEF RunIsFirstLongest, Zeros
  <2> QED BY <2>2, <2>3
<1>3. CASE print_run \/ print_group
  BY <1>3 DEF print_run, print_group, RunIsFirstLongest, Zeros
<1>4. CASE format_mapped \/ load_groups \/ skip_group \/ start_run \/ grow_run
           \/ end_run \/ print_done
  BY <1>4 DEF format_mapped, load_groups, skip_group, start_run, grow_run, end_run,
              print_done, RunIsFirstLongest
<1> QED BY <1>1, <1>2, <1>3, <1>4 DEF FormatNext

\* Indices and lengths stay in their ranges.
LEMMA StepType == FormatInv /\ [FormatNext]_format_vars => TypeOK'
<1> SUFFICES ASSUME FormatInv, [FormatNext]_format_vars PROVE TypeOK'
  OBVIOUS
<1> USE DEF FormatInv
<1>1. CASE UNCHANGED format_vars
  BY <1>1 DEF TypeOK, format_vars
<1>2. CASE format_mapped
  <2>1. quad_len(groups[6]) \in 3 .. 7 /\ quad_len(groups[7]) \in 3 .. 7
    BY Lengths
  <2> QED BY <1>2, <2>1 DEF format_mapped, TypeOK
<1>3. CASE load_groups \/ skip_group \/ start_run \/ grow_run \/ scan_done \/ print_done
  BY <1>3 DEF load_groups, skip_group, start_run, grow_run, scan_done, print_done, TypeOK
<1>4. CASE end_run
  BY <1>4 DEF end_run, longer, TypeOK, SearchInv
<1>5. CASE print_run
  BY <1>5 DEF print_run, TypeOK, RunIsFirstLongest
<1>6. CASE print_group
  <2>1. hex_len(groups[i]) \in 1 .. 4
    BY Lengths
  <2> QED BY <1>6, <2>1 DEF print_group, TypeOK
<1> QED BY <1>1, <1>2, <1>3, <1>4, <1>5, <1>6 DEF FormatNext

\* The text grows by what each group and separator may take at most.
LEMMA StepLength == FormatInv /\ [FormatNext]_format_vars => LengthInv'
<1> SUFFICES ASSUME FormatInv, [FormatNext]_format_vars PROVE LengthInv'
  OBVIOUS
<1> USE DEF FormatInv
<1>1. CASE UNCHANGED format_vars
  BY <1>1 DEF LengthInv, format_vars
<1>2. CASE format_mapped
  <2>1. quad_len(groups[6]) \in 3 .. 7 /\ quad_len(groups[7]) \in 3 .. 7
    BY Lengths
  <2> QED BY <1>2, <2>1 DEF format_mapped, LengthInv
<1>3. CASE load_groups \/ skip_group \/ start_run \/ grow_run \/ end_run \/ scan_done
  BY <1>3 DEF load_groups, skip_group, start_run, grow_run, end_run, scan_done, LengthInv
<1>4. CASE print_run
  BY <1>4 DEF print_run, LengthInv, RunIsFirstLongest, TypeOK
<1>5. CASE print_group
  <2>1. hex_len(groups[i]) \in 1 .. 4
    BY Lengths
  <2>2. (IF needs_sep THEN 1 ELSE 0) <= IF i = 0 THEN 0 ELSE 1
    BY DEF needs_sep, TypeOK
  <2> QED BY <1>5, <2>1, <2>2 DEF print_group, LengthInv, TypeOK
<1>6. CASE print_done
  BY <1>6 DEF print_done, LengthInv, TypeOK
<1> QED BY <1>1, <1>2, <1>3, <1>4, <1>5, <1>6 DEF FormatNext

\* The invariant holds in every state of format_ipv6().
LEMMA FormatInvHolds == FormatSpec => []FormatInv
<1>1. FormatInv /\ [FormatNext]_format_vars => FormatInv'
  BY StepType, StepSearchInv, StepRun, StepLength DEF FormatInv
<1> QED BY InitFormat, <1>1, PTL DEF FormatSpec

\* The run that format_ipv6() shortens is the first of the longest runs of two or
\* more zero groups, for every address.
THEOREM ShortensFirstLongestRun == FormatSpec => []RunIsFirstLongest
<1>1. FormatInv => RunIsFirstLongest
  BY DEF FormatInv
<1> QED BY FormatInvHolds, <1>1, PTL

\* No text overflows tmp, an address column or an endpoint column: at no point are
\* there more than 39 characters, whatever the address.
THEOREM TextFits == FormatSpec => []FitsBuffers
<1>1. FormatInv => FitsBuffers
  BY StrLenAssumption DEF FormatInv, TypeOK, LengthInv, FitsBuffers, endpoint_len
<1> QED BY FormatInvHolds, <1>1, PTL

-----------------------------------------------------------------------------
(***************************************************************************)
(* The text reads back.  FlattenSeq is defined by a recursive function, so *)
(* its recursion equation is solved first; then one token more adds its    *)
(* groups, and PrintInv follows the text through the loop that prints.     *)
(***************************************************************************)
\* The recursion equation of FlattenSeq.
Flat(s, N, h) == h = [n \in 1 .. N |-> IF n = 1 THEN s[n] ELSE h[n - 1] \o s[n]]

\* What a solution holds.
LEMMA FlatAt ==
    ASSUME NEW s, NEW N \in Nat, NEW h, Flat(s, N, h), NEW n \in 1 .. N, NEW m, m = n - 1
    PROVE  h[n] = IF n = 1 THEN s[n] ELSE h[m] \o s[n]
<1>1. h[n] = [l \in 1 .. N |-> IF l = 1 THEN s[l] ELSE h[l - 1] \o s[l]][n]
  BY ONLY Flat(s, N, h) DEF Flat
<1>2. h[n] = IF n = 1 THEN s[n] ELSE h[n - 1] \o s[n]
  BY <1>1, Zenon
<1> QED BY <1>2

\* It has a solution, which is built for 0, 1, 2 ... sequences.
LEMMA FlatExists ==
    ASSUME NEW s
    PROVE  \A N \in Nat : \E h : Flat(s, N, h)
<1> DEFINE Q == {N \in Nat : \E h : Flat(s, N, h)}
<1>1. 0 \in Q
  <2> DEFINE h == [n \in 1 .. 0 |-> s[n]]
  <2>1. Flat(s, 0, h)
    BY DEF Flat
  <2> HIDE DEF h
  <2> QED BY <2>1
<1>2. ASSUME NEW N \in Nat, N \in Q PROVE N + 1 \in Q
  <2>1. PICK h : Flat(s, N, h)
    BY <1>2
  <2> DEFINE g == [n \in 1 .. N + 1 |-> IF n = 1 THEN s[n] ELSE h[n - 1] \o s[n]]
  <2>2. ASSUME NEW n \in 1 .. N PROVE g[n] = h[n]
    <3>1. h[n] = IF n = 1 THEN s[n] ELSE h[n - 1] \o s[n]
      BY <2>1, FlatAt
    <3>2. n \in 1 .. N + 1
      OBVIOUS
    <3>3. g[n] = IF n = 1 THEN s[n] ELSE h[n - 1] \o s[n]
      BY <3>2, Zenon
    <3> QED BY <3>1, <3>3
  <2>3. Flat(s, N + 1, g)
    <3>1. ASSUME NEW n \in 1 .. N + 1, n # 1 PROVE g[n] = g[n - 1] \o s[n]
      <4>1. n - 1 \in 1 .. N
        BY <3>1
      <4>2. g[n - 1] = h[n - 1]
        BY <2>2, <4>1
      <4>3. g[n] = h[n - 1] \o s[n]
        BY <3>1
      <4> QED BY <4>2, <4>3
    <3> QED BY <3>1 DEF Flat
  <2> HIDE DEF g
  <2> QED BY <2>3
<1>3. \A N \in Nat : N \in Q
  <2> HIDE DEF Q
  <2> QED BY <1>1, <1>2, NatSetInduction
<1> QED BY <1>3

\* The first N elements of s and t agree.
Begins(s, t, N) == \A n \in 1 .. N : s[n] = t[n]

\* Solutions for sequences with a common beginning agree on it.
LEMMA FlatAgree ==
    ASSUME NEW s, NEW t, NEW N \in Nat, NEW M \in Nat, NEW h, NEW k,
           Flat(s, N, h), Flat(t, M, k), N <= M, Begins(s, t, N)
    PROVE  Begins(h, k, N)
<1> USE DEF Begins
<1> DEFINE Q == {n \in Nat : n \in 1 .. N => h[n] = k[n]}
<1>1. 0 \in Q
  OBVIOUS
<1>2. ASSUME NEW n \in Nat, n \in Q PROVE n + 1 \in Q
  <2>1. CASE n + 1 \notin 1 .. N
    BY <2>1
  <2>2. CASE n + 1 \in 1 .. N /\ n = 0
    BY <2>2 DEF Flat
  <2>3. CASE n + 1 \in 1 .. N /\ n # 0
    <3>1. PICK m \in 1 .. N : m = n + 1 /\ n = m - 1 /\ m # 1 /\ m \in 1 .. M /\ n \in 1 .. N
      BY <2>3
    <3>2. h[n] = k[n] /\ s[m] = t[m]
      BY <1>2, <3>1
    <3>3. n = m - 1 /\ m \in 1 .. N /\ m \in 1 .. M
      BY <3>1
    <3>4. h[m] = IF m = 1 THEN s[m] ELSE h[n] \o s[m]
      BY ONLY <3>3, Flat(s, N, h), N \in Nat, FlatAt
    <3>5. k[m] = IF m = 1 THEN t[m] ELSE k[n] \o t[m]
      BY ONLY <3>3, Flat(t, M, k), M \in Nat, FlatAt
    <3>6. h[m] = k[m]
      BY <3>1, <3>2, <3>4, <3>5
    <3> QED BY <3>1, <3>6
  <2> QED BY <2>1, <2>2, <2>3
<1>3. \A n \in Nat : n \in Q
  <2> HIDE DEF Q
  <2> QED BY <1>1, <1>2, NatSetInduction
<1> QED BY <1>3

\* FlattenSeq is that solution.
LEMMA FlattenIsFlat ==
    ASSUME NEW S, NEW s \in Seq(S), Len(s) # 0
    PROVE  \E h : Flat(s, Len(s), h) /\ FlattenSeq(s) = h[Len(s)]
<1> DEFINE g == CHOOSE h : Flat(s, Len(s), h)
<1>1. Len(s) \in Nat
  OBVIOUS
<1>2. \E h : Flat(s, Len(s), h)
  BY ONLY <1>1, FlatExists
<1>3. Flat(s, Len(s), g)
  BY ONLY <1>2
<1>4. FlattenSeq(s) = g[Len(s)]
  BY Zenon DEF FlattenSeq, Flat
<1> HIDE DEF g
<1> QED BY ONLY <1>3, <1>4

\* One more sequence is put behind the others.
LEMMA FlattenAppend ==
    ASSUME NEW S, NEW s \in Seq(Seq(S)), NEW x \in Seq(S)
    PROVE  FlattenSeq(Append(s, x)) = FlattenSeq(s) \o x
<1>1. PICK t \in Seq(Seq(S)), N \in Nat, M \in Nat \ {0} :
        /\ t = Append(s, x) /\ N = Len(s) /\ M = Len(t) /\ M = N + 1 /\ N = M - 1
        /\ \A n \in 1 .. N : t[n] = s[n]
        /\ t[M] = x
  <2> DEFINE u == Append(s, x)
  <2>1. /\ u \in Seq(Seq(S)) /\ Len(u) = Len(s) + 1 /\ u[Len(s) + 1] = x
        /\ \A n \in 1 .. Len(s) : u[n] = s[n]
    BY ONLY AppendProperties, s \in Seq(Seq(S)), x \in Seq(S)
  <2>2. Len(s) \in Nat
    OBVIOUS
  <2> HIDE DEF u
  <2>3. Len(u) \in Nat \ {0} /\ Len(s) = Len(u) - 1 /\ u[Len(u)] = x
    BY <2>1, <2>2
  <2> QED BY <2>1, <2>2, <2>3 DEF u
<1>2. PICK k : Flat(t, M, k) /\ FlattenSeq(t) = k[M]
  <2>1. Len(t) # 0
    BY <1>1
  <2>2. \E k : Flat(t, Len(t), k) /\ FlattenSeq(t) = k[Len(t)]
    BY ONLY <2>1, FlattenIsFlat, t \in Seq(Seq(S))
  <2> QED BY ONLY <1>1, <2>2
<1>3. k[M] = IF M = 1 THEN t[M] ELSE k[N] \o t[M]
  <2>1. M \in 1 .. M /\ M \in Nat /\ N = M - 1
    BY <1>1
  <2>2. Flat(t, M, k)
    BY <1>2
  <2> QED BY ONLY <2>1, <2>2, FlatAt
<1>4. CASE N = 0
  <2>1. FlattenSeq(s) = s /\ s = << >>
    BY <1>1, <1>4 DEF FlattenSeq
  <2>2. k[M] = x
    BY <1>1, <1>3, <1>4
  <2>3. << >> \o x = x
    BY ConcatEmptySeq
  <2> QED BY <1>1, <1>2, <2>1, <2>2, <2>3
<1>5. CASE N # 0
  <2>1. PICK h : Flat(s, N, h) /\ FlattenSeq(s) = h[N]
    <3>1. Len(s) # 0
      BY <1>1, <1>5
    <3>2. \E h : Flat(s, Len(s), h) /\ FlattenSeq(s) = h[Len(s)]
      BY ONLY <3>1, FlattenIsFlat, s \in Seq(Seq(S))
    <3> QED BY ONLY <1>1, <3>2
  <2>2. Begins(h, k, N)
    <3>1. M \in Nat /\ N <= M /\ Begins(s, t, N)
      BY <1>1 DEF Begins
    <3>2. Flat(t, M, k) /\ Flat(s, N, h)
      BY <1>2, <2>1
    <3> QED BY ONLY <3>1, <3>2, FlatAgree, N \in Nat
  <2>3. h[N] = k[N] /\ M # 1
    BY <1>1, <1>5, <2>2 DEF Begins
  <2>4. FlattenSeq(t) = FlattenSeq(s) \o x
    BY ONLY <1>1, <1>2, <1>3, <2>1, <2>3
  <2> QED BY ONLY <1>1, <2>4
<1> QED BY <1>4, <1>5

\* The tokens of a text.
Token == [kind : {"::", ":", "hex", "quad"}, groups : Seq(Nat)]

\* Their groups and kinds.
LEMMA TokensAre ==
    ASSUME NEW g \in Nat, NEW h \in Nat
    PROVE  /\ RunToken \in Token /\ SepToken \in Token
           /\ HexToken(g) \in Token /\ QuadToken(g, h) \in Token
           /\ RunToken.groups = << >> /\ SepToken.groups = << >>
           /\ HexToken(g).groups = <<g>> /\ QuadToken(g, h).groups = <<g, h>>
           /\ RunToken.kind = "::" /\ SepToken.kind = ":"
           /\ HexToken(g).kind = "hex" /\ QuadToken(g, h).kind = "quad"
<1>1. << >> \in Seq(Nat) /\ <<g>> \in Seq(Nat) /\ <<g, h>> \in Seq(Nat)
  OBVIOUS
<1> QED BY <1>1 DEF RunToken, SepToken, HexToken, QuadToken, Token

\* No tokens stand for no groups.
LEMMA GroupsOfNone == GroupsOf(<< >>) = << >>
<1>1. [n \in DOMAIN << >> |-> << >>[n].groups] = << >>
  OBVIOUS
<1>2. Len(<< >>) = 0
  OBVIOUS
<1> QED BY <1>1, <1>2 DEF GroupsOf, FlattenSeq

\* One more token adds its groups.
LEMMA GroupsOfAppend ==
    ASSUME NEW s \in Seq(Token), NEW x \in Token
    PROVE  /\ Append(s, x) \in Seq(Token)
           /\ GroupsOf(Append(s, x)) = GroupsOf(s) \o x.groups
<1> DEFINE t == Append(s, x)
           p == [n \in DOMAIN s |-> s[n].groups]
           q == [n \in DOMAIN t |-> t[n].groups]
<1>1. /\ t \in Seq(Token) /\ Len(t) = Len(s) + 1 /\ t[Len(s) + 1] = x
      /\ \A n \in 1 .. Len(s) : t[n] = s[n]
  BY ONLY AppendProperties, s \in Seq(Token), x \in Token
<1>2. /\ Len(s) \in Nat /\ DOMAIN s = 1 .. Len(s) /\ DOMAIN t = 1 .. Len(s) + 1
      /\ \A n \in 1 .. Len(s) : s[n] \in Token
  BY <1>1
<1>3. x.groups \in Seq(Nat) /\ \A n \in 1 .. Len(s) : s[n].groups \in Seq(Nat)
  BY <1>2 DEF Token
<1>4. p \in Seq(Seq(Nat)) /\ Len(p) = Len(s) /\ \A n \in 1 .. Len(s) : p[n] = s[n].groups
  <2>1. p \in [1 .. Len(s) -> Seq(Nat)]
    BY <1>2, <1>3
  <2> QED BY <1>2, <2>1, IsASeq
<1>5. \A n \in 1 .. Len(s) + 1 : q[n] = IF n = Len(s) + 1 THEN x.groups ELSE p[n]
  BY <1>1, <1>2, <1>4
<1> HIDE DEF p
<1>6. q = Append(p, x.groups)
  <2> DEFINE r == Append(p, x.groups)
  <2>1. /\ r \in Seq(Seq(Nat)) /\ Len(r) = Len(p) + 1 /\ r[Len(p) + 1] = x.groups
        /\ \A n \in 1 .. Len(p) : r[n] = p[n]
    BY ONLY AppendProperties, <1>3, <1>4
  <2>2. DOMAIN q = 1 .. Len(s) + 1
    BY <1>2
  <2> HIDE DEF q, r
  <2>3. DOMAIN r = 1 .. Len(s) + 1 /\ r = [n \in 1 .. Len(s) + 1 |-> r[n]]
    BY <2>1, <1>4
  <2>4. ASSUME NEW n \in 1 .. Len(s) + 1 PROVE q[n] = r[n]
    <3>1. q[n] = IF n = Len(s) + 1 THEN x.groups ELSE p[n]
      BY <1>5
    <3>2. CASE n = Len(s) + 1
      <4>1. r[n] = x.groups
        BY <1>4, <2>1, <3>2
      <4> QED BY <3>1, <3>2, <4>1
    <3>3. CASE n # Len(s) + 1
      <4>1. n \in 1 .. Len(p)
        BY <1>2, <1>4, <3>3
      <4> QED BY <2>1, <3>1, <3>3, <4>1
    <3> QED BY <3>2, <3>3
  <2>5. q = [n \in 1 .. Len(s) + 1 |-> q[n]]
    BY <1>2 DEF q
  <2> QED BY <2>3, <2>4, <2>5 DEF r
<1>7. FlattenSeq(q) = FlattenSeq(p) \o x.groups
  BY ONLY <1>3, <1>4, <1>6, FlattenAppend
<1> QED BY <1>1, <1>7 DEF GroupsOf, p

\* The k groups from a on.
Slice(gr, a, k) == [n \in 1 .. k |-> gr[a + n - 1]]

\* All groups are numbers.
LEMMA GroupsAreNumbers ==
    ASSUME NEW gr \in Addresses
    PROVE  \A n \in 0 .. 7 : gr[n] \in Nat
<1>1. gr \in [0 .. 7 -> 0 .. GROUP_MAX]
  BY ONLY AddressesAssumption, gr \in Addresses
<1>2. GROUP_MAX \in Nat
  BY DEF GROUP_MAX
<1> QED BY ONLY <1>1, <1>2

\* Its length and its elements.
LEMMA SliceIs ==
    ASSUME NEW gr \in Addresses, NEW a \in Nat, NEW k \in Nat, a + k <= 8
    PROVE  /\ Slice(gr, a, k) \in Seq(Nat) /\ Len(Slice(gr, a, k)) = k
           /\ \A n \in 1 .. k : Slice(gr, a, k)[n] = gr[a + n - 1]
<1>1. ASSUME NEW n \in 1 .. k PROVE gr[a + n - 1] \in Nat
  <2>1. a + n - 1 \in 0 .. 7
    OBVIOUS
  <2> QED BY ONLY <2>1, GroupsAreNumbers, gr \in Addresses
<1>2. Slice(gr, a, k) \in [1 .. k -> Nat]
  BY <1>1 DEF Slice
<1>3. \A n \in 1 .. k : Slice(gr, a, k)[n] = gr[a + n - 1]
  BY DEF Slice
<1>4. PICK p : p = Slice(gr, a, k)
  OBVIOUS
<1>5. p \in Seq(Nat) /\ Len(p) = k
  BY <1>2, <1>4, IsASeq
<1> QED BY <1>3, <1>4, <1>5

\* One group more.
LEMMA SliceGrows ==
    ASSUME NEW gr \in Addresses, NEW a \in Nat, NEW k \in Nat, a + k <= 7
    PROVE  Slice(gr, a, k) \o <<gr[a + k]>> = Slice(gr, a, k + 1)
<1>1. PICK m \in Nat, x \in Nat : m = k + 1 /\ x = gr[a + k]
  <2>1. a + k \in 0 .. 7
    OBVIOUS
  <2>2. gr[a + k] \in Nat
    BY ONLY <2>1, GroupsAreNumbers, gr \in Addresses
  <2>3. k + 1 \in Nat
    OBVIOUS
  <2> QED BY ONLY <2>2, <2>3
<1>2. PICK p \in Seq(Nat) : /\ p = Slice(gr, a, k) /\ Len(p) = k
                            /\ \A n \in 1 .. k : p[n] = gr[a + n - 1]
  <2>1. a + k <= 8
    OBVIOUS
  <2> QED BY ONLY <2>1, SliceIs, gr \in Addresses, a \in Nat, k \in Nat
<1>3. PICK q \in Seq(Nat) : /\ q = Slice(gr, a, m) /\ Len(q) = m
                            /\ \A n \in 1 .. m : q[n] = gr[a + n - 1]
  <2>1. a + m <= 8
    BY <1>1
  <2> QED BY <2>1, SliceIs
<1>4. p \o <<x>> = Append(p, x)
  BY AppendIsConcat
<1>5. PICK r \in Seq(Nat) : /\ r = Append(p, x) /\ Len(r) = k + 1 /\ r[k + 1] = x
                            /\ \A n \in 1 .. k : r[n] = p[n]
  <2> DEFINE u == Append(p, x)
  <2>1. /\ u \in Seq(Nat) /\ Len(u) = Len(p) + 1 /\ u[Len(p) + 1] = x
        /\ \A n \in 1 .. Len(p) : u[n] = p[n]
    BY ONLY AppendProperties, x \in Nat, p \in Seq(Nat)
  <2> HIDE DEF u
  <2>2. u \in Seq(Nat) /\ Len(u) = k + 1 /\ u[k + 1] = x /\ \A n \in 1 .. k : u[n] = p[n]
    BY ONLY <1>2, <2>1
  <2> QED BY ONLY <2>2 DEF u
<1>6. ASSUME NEW n \in 1 .. m PROVE q[n] = r[n]
  <2>1. CASE n = k + 1
    <3>1. a + n - 1 = a + k
      BY <2>1
    <3> QED BY <1>1, <1>3, <1>5, <2>1, <3>1
  <2>2. CASE n \in 1 .. k
    BY <1>2, <1>3, <1>5, <2>2
  <2> QED BY <1>1, <2>1, <2>2
<1>7. q = r
  BY ONLY <1>1, <1>3, <1>5, <1>6, SeqEqual, q \in Seq(Nat), r \in Seq(Nat)
<1> QED BY <1>1, <1>2, <1>3, <1>4, <1>5, <1>7

\* The text h, of L tokens, is that of the k groups from a on: numbers with a colon
\* between each two.
Listed(gr, h, L, a, k) ==
    /\ h \in Seq(Token) /\ Len(h) = L /\ GroupsOf(h) = Slice(gr, a, k)
    /\ k = 0 <=> L = 0
    /\ \A n \in 1 .. L : h[n].kind \in {":", "hex"}
    /\ k # 0 => h[1].kind = "hex" /\ h[L].kind = "hex"
    /\ \A n \in 1 .. L - 1 : (h[n].kind = ":") # (h[n + 1].kind = ":")

\* The sequence t is s, of L elements, with x behind it.
Grown(t, s, L, x) ==
    /\ t = Append(s, x) /\ t = s \o <<x>> /\ Len(t) = L + 1
    /\ t[L + 1] = x /\ \A n \in 1 .. L : t[n] = s[n]

\* Append(), in the words of the lemmas below.
LEMMA GrownIs ==
    ASSUME NEW S, NEW s \in Seq(S), NEW L \in Nat, Len(s) = L, NEW x \in S
    PROVE  \E t \in Seq(S) : Grown(t, s, L, x)
<1> DEFINE u == Append(s, x)
<1>1. /\ u \in Seq(S) /\ Len(u) = Len(s) + 1 /\ u[Len(s) + 1] = x
      /\ \A n \in 1 .. Len(s) : u[n] = s[n]
  BY ONLY AppendProperties, x \in S, s \in Seq(S)
<1>2. u = s \o <<x>>
  BY ONLY AppendIsConcat, x \in S, s \in Seq(S)
<1> HIDE DEF u
<1>3. u \in Seq(S) /\ Len(u) = L + 1 /\ u[L + 1] = x /\ \A n \in 1 .. L : u[n] = s[n]
  BY ONLY <1>1, Len(s) = L
<1>4. Grown(u, s, L, x)
  BY ONLY <1>2, <1>3 DEF u, Grown
<1> QED BY ONLY <1>3, <1>4

\* A group is put behind the text, with a colon unless it is the first.
LEMMA ListedGrows ==
    ASSUME NEW gr \in Addresses, NEW a \in Nat, NEW k \in Nat, a + k <= 7,
           NEW h, NEW L \in Nat, Listed(gr, h, L, a, k)
    PROVE  \E t : \E M \in Nat :
             /\ t = (IF k = 0 THEN h ELSE Append(h, SepToken)) \o <<HexToken(gr[a + k])>>
             /\ Listed(gr, t, M, a, k + 1)
<1>1. PICK g \in Nat, m \in Nat : g = gr[a + k] /\ m = k + 1
  <2>1. a + k \in 0 .. 7
    OBVIOUS
  <2>2. gr[a + k] \in Nat
    BY ONLY <2>1, GroupsAreNumbers, gr \in Addresses
  <2>3. k + 1 \in Nat
    OBVIOUS
  <2> QED BY ONLY <2>2, <2>3
<1>2. PICK x \in Token, e \in Token :
        /\ x = HexToken(g) /\ x.kind = "hex" /\ x.groups = <<g>>
        /\ e = SepToken /\ e.kind = ":" /\ e.groups = << >>
  BY TokensAre
<1>3. h \in Seq(Token) /\ Len(h) = L /\ GroupsOf(h) = Slice(gr, a, k)
  BY DEF Listed
<1>4. PICK p \in Seq(Nat) : p = Slice(gr, a, k)
  BY ONLY SliceIs, gr \in Addresses, a \in Nat, k \in Nat, a + k <= 7
<1>5. p \o <<g>> = Slice(gr, a, m)
  BY ONLY <1>1, <1>4, SliceGrows, gr \in Addresses, a \in Nat, k \in Nat, a + k <= 7
<1>6. CASE k = 0
  <2>1. h \in Seq(Token) /\ Len(h) = L /\ L = 0
    BY <1>3, <1>6 DEF Listed
  <2>2. PICK t \in Seq(Token) : Grown(t, h, L, x)
    BY ONLY <2>1, GrownIs, x \in Token, L \in Nat
  <2>3. GroupsOf(t) = p \o <<g>>
    BY ONLY <1>2, <1>3, <1>4, <2>2, GroupsOfAppend DEF Grown
  <2>4. Len(t) = 1 /\ t[1] = x
    BY ONLY <2>1, <2>2 DEF Grown
  <2>5. Listed(gr, t, 1, a, m)
    <3>1. GroupsOf(t) = Slice(gr, a, m)
      BY ONLY <1>5, <2>3
    <3>3. m # 0
      BY <1>1
    <3>2. \A n \in 1 .. 1 : t[n].kind \in {":", "hex"}
      BY <1>2, <2>4
    <3> QED BY ONLY <1>2, <2>4, <3>1, <3>2, <3>3, t \in Seq(Token) DEF Listed
  <2>6. t = h \o <<x>> /\ 1 \in Nat
    BY ONLY <2>2 DEF Grown
  <2>7. t = (IF k = 0 THEN h ELSE Append(h, SepToken)) \o <<HexToken(gr[a + k])>>
    BY ONLY <1>1, <1>2, <1>6, <2>6
  <2>8. Listed(gr, t, 1, a, k + 1)
    BY ONLY <1>1, <2>5
  <2> QED BY ONLY <2>6, <2>7, <2>8
<1>7. CASE k # 0
  <2>1. PICK s \in Seq(Token) : Grown(s, h, L, e)
    BY ONLY <1>3, GrownIs, e \in Token, L \in Nat
  <2>2. PICK N \in Nat : N = L + 1
    OBVIOUS
  <2>3. Len(s) = N
    BY ONLY <2>1, <2>2 DEF Grown
  <2>4. PICK t \in Seq(Token) : Grown(t, s, N, x)
    BY ONLY <2>3, GrownIs, x \in Token, N \in Nat, s \in Seq(Token)
  <2>5. GroupsOf(t) = Slice(gr, a, m)
    <3>1. GroupsOf(s) = p \o << >>
      BY ONLY <1>2, <1>3, <1>4, <2>1, GroupsOfAppend, e \in Token DEF Grown
    <3>2. p \o << >> = p
      BY ONLY ConcatEmptySeq, p \in Seq(Nat)
    <3>3. GroupsOf(t) = p \o <<g>>
      <4>1. GroupsOf(Append(s, x)) = GroupsOf(s) \o x.groups
        BY ONLY GroupsOfAppend, s \in Seq(Token), x \in Token
      <4>2. t = Append(s, x) /\ GroupsOf(s) = p
        BY ONLY <2>4, <3>1, <3>2 DEF Grown
      <4> QED BY ONLY <1>2, <4>1, <4>2
    <3> QED BY <1>5, <3>3
  <2>6. /\ L # 0 /\ h[1].kind = "hex" /\ h[L].kind = "hex"
        /\ \A n \in 1 .. L : h[n].kind \in {":", "hex"}
        /\ \A n \in 1 .. L - 1 : (h[n].kind = ":") # (h[n + 1].kind = ":")
    BY ONLY <1>7, Listed(gr, h, L, a, k) DEF Listed
  <2>7. /\ t[L + 1] = e /\ t[L + 2] = x /\ \A n \in 1 .. L : t[n] = h[n]
    BY ONLY <2>1, <2>2, <2>4, L \in Nat DEF Grown
  <2>8. PICK M \in Nat : M = L + 2
    OBVIOUS
  <2>9. Len(t) = M
    BY ONLY <2>2, <2>4, <2>8, L \in Nat DEF Grown
  <2>10. ASSUME NEW n \in 1 .. M PROVE t[n].kind \in {":", "hex"}
    <3>1. CASE n \in 1 .. L
      BY ONLY <2>6, <2>7, <3>1
    <3>2. CASE n = L + 1
      <4>1. t[n] = e
        BY ONLY <2>7, <3>2
      <4> QED BY ONLY <1>2, <4>1
    <3>3. CASE n = L + 2
      <4>1. t[n] = x
        BY ONLY <2>7, <3>3
      <4> QED BY ONLY <1>2, <4>1
    <3> QED BY ONLY <2>8, <3>1, <3>2, <3>3, L \in Nat, n \in 1 .. M
  <2>11. t[1].kind = "hex" /\ t[M].kind = "hex" /\ M # 0 /\ m # 0
    BY ONLY <1>1, <1>2, <2>6, <2>7, <2>8, L \in Nat, k \in Nat
  <2>12. ASSUME NEW n \in 1 .. M - 1 PROVE (t[n].kind = ":") # (t[n + 1].kind = ":")
    <3>1. CASE n \in 1 .. L - 1
      <4>1. t[n] = h[n] /\ t[n + 1] = h[n + 1]
        BY ONLY <2>7, <3>1, L \in Nat
      <4> QED BY ONLY <2>6, <3>1, <4>1
    <3>2. CASE n = L
      BY ONLY <1>2, <2>6, <2>7, <3>2, L \in Nat
    <3>3. CASE n = L + 1
      <4>1. t[n] = e /\ t[n + 1] = x
        BY ONLY <2>7, <3>3, L \in Nat
      <4> QED BY ONLY <1>2, <4>1
    <3> QED BY ONLY <2>8, <3>1, <3>2, <3>3, L \in Nat, n \in 1 .. M - 1
  <2>13. Listed(gr, t, M, a, m)
    BY ONLY <2>5, <2>9, <2>10, <2>11, <2>12, t \in Seq(Token) DEF Listed
  <2>14. t = s \o <<x>> /\ s = Append(h, e)
    BY ONLY <2>1, <2>4 DEF Grown
  <2>15. t = (IF k = 0 THEN h ELSE Append(h, SepToken)) \o <<HexToken(gr[a + k])>>
    BY ONLY <1>1, <1>2, <1>7, <2>14
  <2>16. Listed(gr, t, M, a, k + 1)
    BY ONLY <1>1, <2>13
  <2> QED BY ONLY <2>15, <2>16, M \in Nat
<1> QED BY <1>6, <1>7

\* The text o consists of h, "::" and t, of L and M tokens.
Joined(o, h, L, t, M) ==
    /\ o \in Seq(Token) /\ Len(o) = L + 1 + M
    /\ o = (h \o <<RunToken>>) \o t
    /\ \A n \in 1 .. L : o[n] = h[n]
    /\ o[L + 1] = RunToken
    /\ \A n \in 1 .. M : o[L + 1 + n] = t[n]

\* The tokens of such a text.
LEMMA JoinedIs ==
    ASSUME NEW h \in Seq(Token), NEW L \in Nat, Len(h) = L,
           NEW t \in Seq(Token), NEW M \in Nat, Len(t) = M,
           NEW o, o = (h \o <<RunToken>>) \o t
    PROVE  Joined(o, h, L, t, M)
<1>1. PICK x \in Token : x = RunToken
  BY TokensAre
<1>2. PICK b \in Seq(Token) : Grown(b, h, L, x)
  BY ONLY GrownIs, h \in Seq(Token), L \in Nat, Len(h) = L, x \in Token
<1>3. b = h \o <<x>> /\ Len(b) = L + 1 /\ b[L + 1] = x /\ \A n \in 1 .. L : b[n] = h[n]
  BY ONLY <1>2 DEF Grown
<1>4. o = b \o t
  BY ONLY <1>1, <1>3, o = (h \o <<RunToken>>) \o t
<1>5. /\ o \in Seq(Token) /\ Len(o) = Len(b) + Len(t)
      /\ \A n \in 1 .. Len(b) + Len(t) : o[n] = IF n <= Len(b) THEN b[n] ELSE t[n - Len(b)]
  BY ONLY <1>4, ConcatProperties, b \in Seq(Token), t \in Seq(Token)
<1>6. PICK N \in Nat : N = L + 1
  OBVIOUS
<1>7. /\ Len(o) = N + M
      /\ \A n \in 1 .. N + M : o[n] = IF n <= N THEN b[n] ELSE t[n - N]
  BY ONLY <1>3, <1>5, <1>6, Len(t) = M
<1>8. \A n \in 1 .. L : o[n] = h[n]
  BY ONLY <1>3, <1>6, <1>7, L \in Nat, M \in Nat
<1>9. o[L + 1] = RunToken
  <2>1. N \in 1 .. N + M /\ N <= N
    BY <1>6
  <2>2. o[N] = b[N]
    BY ONLY <1>7, <2>1
  <2> QED BY ONLY <1>1, <1>3, <1>6, <2>2
<1>10. ASSUME NEW n \in 1 .. M PROVE o[L + 1 + n] = t[n]
  <2>1. N + n \in 1 .. N + M /\ ~(N + n <= N) /\ N + n - N = n
    OBVIOUS
  <2>2. o[N + n] = t[n]
    BY ONLY <1>7, <2>1
  <2> QED BY ONLY <1>6, <2>2
<1> QED BY ONLY <1>5, <1>6, <1>7, <1>8, <1>9, <1>10, o = (h \o <<RunToken>>) \o t DEF Joined

\* What is put behind t is put behind the whole.
LEMMA JoinedGrows ==
    ASSUME NEW b \in Seq(Token), NEW t \in Seq(Token), NEW x \in Token
    PROVE  (b \o t) \o <<x>> = b \o (t \o <<x>>) /\ Append(b \o t, x) = b \o Append(t, x)
<1>1. <<x>> \in Seq(Token) /\ b \o t \in Seq(Token)
  OBVIOUS
<1>2. (b \o t) \o <<x>> = b \o (t \o <<x>>)
  BY ONLY <1>1, ConcatAssociative, b \in Seq(Token), t \in Seq(Token)
<1>3. Append(b \o t, x) = (b \o t) \o <<x>>
  BY ONLY <1>1, AppendIsConcat, x \in Token
<1>4. Append(t, x) = t \o <<x>>
  BY ONLY AppendIsConcat, x \in Token, t \in Seq(Token)
<1> QED BY ONLY <1>2, <1>3, <1>4

\* The text o is that of the groups before s, "::", and the r groups from e on.
RunPrinted(gr, o, s, e, r) ==
    \E h, t : \E L, M \in Nat :
        /\ o = (h \o <<RunToken>>) \o t
        /\ Listed(gr, h, L, 0, s) /\ Listed(gr, t, M, e, r)

\* What has been printed when i is the next group.
Printed ==
    IF best_start = -1 \/ i <= best_start
    THEN \E L \in Nat : Listed(groups, out, L, 0, i)
    ELSE /\ best_start + best_len <= i
         /\ RunPrinted(groups, out, best_start, best_start + best_len,
                       i - (best_start + best_len))

PrintInv ==
    /\ loop \in {"start", "scan", "run"} => out = << >>
    /\ loop = "print" => Printed
    /\ loop = "done" => TextReadsBack

\* No text stands for no groups.
LEMMA ListedNone ==
    ASSUME NEW gr, NEW a, NEW k, k = 0
    PROVE  Listed(gr, << >>, 0, a, k)
<1>1. << >> \in Seq(Token) /\ Len(<< >>) = 0
  OBVIOUS
<1>2. Slice(gr, a, k) = << >>
  BY DEF Slice
<1> QED BY ONLY <1>1, <1>2, GroupsOfNone, k = 0 DEF Listed

\* What a text stands for if p is before its "::" and q behind.
Filled(p, q) == p \o [n \in 1 .. 8 - Len(p) - Len(q) |-> 0] \o q

\* The "::" of the text o, if any, is at c.
RunOnlyAt(o, c) == \A n \in DOMAIN o : o[n] = RunToken <=> n = c

\* A text without "::" is all before it.
LEMMA ReadingPlain ==
    ASSUME NEW o, NEW c, c = Len(o) + 1, c \notin DOMAIN o, RunOnlyAt(o, c),
           NEW p, p = GroupsOf(SubSeq(o, 1, c - 1)), NEW q, q = GroupsOf(SubSeq(o, c + 1, Len(o)))
    PROVE  Reading(o) = Filled(p, q)
<1>1. {n \in DOMAIN o : o[n] = RunToken} = {}
  BY DEF RunOnlyAt
<1> QED BY ONLY <1>1, c = Len(o) + 1, p = GroupsOf(SubSeq(o, 1, c - 1)),
        q = GroupsOf(SubSeq(o, c + 1, Len(o))), Zenon DEF Reading, Filled

\* One with "::" at c: the groups before c, zeros, and the groups behind c.
LEMMA ReadingCut ==
    ASSUME NEW o, NEW c \in DOMAIN o, RunOnlyAt(o, c),
           NEW p, p = GroupsOf(SubSeq(o, 1, c - 1)), NEW q, q = GroupsOf(SubSeq(o, c + 1, Len(o)))
    PROVE  Reading(o) = Filled(p, q)
<1>1. {n \in DOMAIN o : o[n] = RunToken} = {c}
  BY DEF RunOnlyAt
<1>2. {n \in DOMAIN o : o[n] = RunToken} # {}
  BY <1>1
<1>3. (CHOOSE n \in {n \in DOMAIN o : o[n] = RunToken} : TRUE) = c
  BY <1>1
<1> QED BY ONLY <1>2, <1>3, p = GroupsOf(SubSeq(o, 1, c - 1)),
        q = GroupsOf(SubSeq(o, c + 1, Len(o))), Zenon DEF Reading, Filled

\* The address of which gr are the groups.
Address(gr) == [n \in 1 .. 8 |-> gr[n - 1]]

\* A list of all groups reads back.
LEMMA PlainReadsBack ==
    ASSUME NEW gr \in Addresses, NEW o, NEW L \in Nat, Listed(gr, o, L, 0, 8)
    PROVE  Separated(o) /\ Reading(o) = Address(gr)
<1>1. /\ o \in Seq(Token) /\ Len(o) = L /\ GroupsOf(o) = Slice(gr, 0, 8) /\ L # 0
      /\ \A n \in 1 .. L : o[n].kind \in {":", "hex"}
      /\ o[1].kind = "hex" /\ o[L].kind = "hex"
      /\ \A n \in 1 .. L - 1 : (o[n].kind = ":") # (o[n + 1].kind = ":")
  BY DEF Listed
<1>2. DOMAIN o = 1 .. L /\ o # << >>
  BY ONLY <1>1, L \in Nat
<1>3. \A n \in DOMAIN o : o[n] # RunToken
  BY ONLY <1>1, <1>2 DEF RunToken
<1>4. Separated(o)
  <2>1. ASSUME NEW n \in 1 .. L - 1
        PROVE  (o[n].kind \in {":", "::"}) # (o[n + 1].kind \in {":", "::"})
    <3>1. o[n].kind \in {":", "hex"} /\ o[n + 1].kind \in {":", "hex"}
      BY ONLY <1>1, <2>1, L \in Nat
    <3> QED BY ONLY <1>1, <2>1, <3>1
  <2>2. SepToken \notin {o[1], o[L]}
    BY ONLY <1>1 DEF SepToken
  <2> QED BY ONLY <1>1, <1>3, <2>1, <2>2 DEF Separated
<1>5. PICK p \in Seq(Nat) : p = Slice(gr, 0, 8) /\ Len(p) = 8
                            /\ \A n \in 1 .. 8 : p[n] = gr[0 + n - 1]
  <2>1. 0 \in Nat /\ 8 \in Nat /\ 0 + 8 <= 8
    OBVIOUS
  <2> QED BY ONLY <2>1, SliceIs, gr \in Addresses
<1>6. PICK c \in Nat : c = Len(o) + 1
  BY <1>1
<1>7. p = GroupsOf(SubSeq(o, 1, c - 1))
  <2>1. c - 1 = Len(o)
    BY ONLY <1>1, <1>6, L \in Nat
  <2>2. SubSeq(o, 1, Len(o)) = o
    BY ONLY <1>1, SubSeqFull
  <2> QED BY ONLY <1>1, <1>5, <2>1, <2>2
<1>8. PICK q : q = << >> /\ q = GroupsOf(SubSeq(o, c + 1, Len(o)))
  <2>1. c + 1 \in Int /\ Len(o) \in Int /\ Len(o) < c + 1
    BY ONLY <1>1, <1>6, L \in Nat
  <2>2. SubSeq(o, c + 1, Len(o)) = << >>
    BY ONLY <2>1, SubSeqEmpty
  <2> QED BY ONLY <2>2, GroupsOfNone
<1>9. Reading(o) = Filled(p, q)
  <2>1. c = Len(o) + 1 /\ q = GroupsOf(SubSeq(o, c + 1, Len(o)))
    BY ONLY <1>6, <1>8
  <2>2. c \notin DOMAIN o
    BY ONLY <1>1, <1>2, <1>6, L \in Nat
  <2>3. RunOnlyAt(o, c)
    BY ONLY <1>3, <2>2 DEF RunOnlyAt
  <2> QED BY ONLY <1>7, <2>1, <2>2, <2>3, ReadingPlain
<1>10. [n \in 1 .. 8 - Len(p) - Len(q) |-> 0] = << >>
  <2>1. Len(q) = 0
    BY ONLY <1>8
  <2>2. 8 - Len(p) - Len(q) = 0
    BY ONLY <1>5, <2>1
  <2>3. 1 .. 8 - Len(p) - Len(q) = {}
    BY ONLY <2>2
  <2> QED BY ONLY <2>3
<1>11. p \o << >> \o << >> = p
  BY ONLY ConcatEmptySeq, p \in Seq(Nat)
<1>12. p = Address(gr)
  <2>1. p = [n \in 1 .. 8 |-> p[n]]
    BY <1>5
  <2>2. ASSUME NEW n \in 1 .. 8 PROVE p[n] = gr[n - 1]
    <3>1. 0 + n - 1 = n - 1
      OBVIOUS
    <3>2. p[n] = gr[0 + n - 1]
      BY ONLY <1>5, <2>2
    <3> QED BY ONLY <3>1, <3>2
  <2> QED BY ONLY <2>1, <2>2 DEF Address
<1> QED BY ONLY <1>4, <1>8, <1>9, <1>10, <1>11, <1>12 DEF Filled

\* The sequence v is p and then q, of a and b elements.
OneAfterTheOther(v, p, a, q, b) ==
    /\ v = p \o q /\ Len(v) = a + b
    /\ \A n \in 1 .. a : v[n] = p[n]
    /\ \A n \in 1 .. b : v[a + n] = q[n]

\* ConcatProperties, in these words.
LEMMA Concatenated ==
    ASSUME NEW S, NEW p \in Seq(S), NEW q \in Seq(S), NEW a \in Nat, NEW b \in Nat,
           Len(p) = a, Len(q) = b
    PROVE  \E v \in Seq(S) : OneAfterTheOther(v, p, a, q, b)
<1> DEFINE v == p \o q
<1>1. /\ v \in Seq(S) /\ Len(v) = Len(p) + Len(q)
      /\ \A n \in 1 .. Len(p) + Len(q) : v[n] = IF n <= Len(p) THEN p[n] ELSE q[n - Len(p)]
  BY ONLY ConcatProperties, p \in Seq(S), q \in Seq(S)
<1> HIDE DEF v
<1>2. /\ Len(v) = a + b
      /\ \A n \in 1 .. a + b : v[n] = IF n <= a THEN p[n] ELSE q[n - a]
  BY ONLY <1>1, Len(p) = a, Len(q) = b
<1>3. ASSUME NEW n \in 1 .. a PROVE v[n] = p[n]
  BY ONLY <1>2, <1>3, a \in Nat, b \in Nat
<1>4. ASSUME NEW n \in 1 .. b PROVE v[a + n] = q[n]
  <2>1. a + n \in 1 .. a + b /\ ~(a + n <= a) /\ a + n - a = n
    OBVIOUS
  <2> QED BY ONLY <1>2, <2>1
<1>5. OneAfterTheOther(v, p, a, q, b)
  BY ONLY <1>2, <1>3, <1>4 DEF v, OneAfterTheOther
<1> QED BY ONLY <1>1, <1>5

\* The groups s to e - 1 are zero.
ZeroFrom(gr, s, e) == \A n \in s .. e - 1 : gr[n] = 0

\* The groups before a run of zeros and those behind make up the address.
LEMMA FilledIsAddress ==
    ASSUME NEW gr \in Addresses, NEW s \in Nat, NEW e \in Nat, NEW r \in Nat, s <= e, e + r = 8,
           ZeroFrom(gr, s, e), NEW p, p = Slice(gr, 0, s), NEW q, q = Slice(gr, e, r)
    PROVE  Filled(p, q) = Address(gr)
<1>1. PICK z \in Nat : e = s + z /\ e + r = 8 /\ e + r <= 8
  <2>1. e - s \in Nat /\ e = s + (e - s)
    OBVIOUS
  <2> QED BY <2>1
<1>2. p \in Seq(Nat) /\ Len(p) = s /\ \A n \in 1 .. s : p[n] = gr[0 + n - 1]
  <2>1. 0 \in Nat /\ 0 + s <= 8
    OBVIOUS
  <2> QED BY ONLY <2>1, SliceIs, gr \in Addresses, s \in Nat, p = Slice(gr, 0, s)
<1>3. q \in Seq(Nat) /\ Len(q) = r /\ \A n \in 1 .. r : q[n] = gr[e + n - 1]
  BY ONLY <1>1, SliceIs, gr \in Addresses, e \in Nat, r \in Nat, q = Slice(gr, e, r)
<1>4. PICK o \in Seq(Nat) : /\ o = [n \in 1 .. 8 - Len(p) - Len(q) |-> 0] /\ Len(o) = z
                            /\ \A n \in 1 .. z : o[n] = 0
  <2>1. 8 - Len(p) - Len(q) = z
    BY ONLY <1>1, <1>2, <1>3, s \in Nat, z \in Nat
  <2>2. PICK o : o = [n \in 1 .. z |-> 0]
    OBVIOUS
  <2>3. o \in [1 .. z -> Nat] /\ \A n \in 1 .. z : o[n] = 0
    BY ONLY <2>2
  <2>4. o \in Seq(Nat) /\ Len(o) = z
    BY ONLY <2>3, IsASeq, z \in Nat
  <2>5. o = [n \in 1 .. 8 - Len(p) - Len(q) |-> 0]
    BY ONLY <2>1, <2>2
  <2> QED BY ONLY <2>3, <2>4, <2>5
<1>5. PICK w \in Seq(Nat) : OneAfterTheOther(w, p, s, o, z)
  BY ONLY <1>2, <1>4, Concatenated, s \in Nat, z \in Nat, o \in Seq(Nat)
<1>6. PICK v \in Seq(Nat) : OneAfterTheOther(v, w, e, q, r)
  <2>1. Len(w) = e
    BY ONLY <1>1, <1>5 DEF OneAfterTheOther
  <2> QED BY ONLY <1>3, <2>1, Concatenated, e \in Nat, r \in Nat, w \in Seq(Nat)
<1>7. v = Filled(p, q)
  BY ONLY <1>4, <1>5, <1>6 DEF Filled, OneAfterTheOther
<1>8. ASSUME NEW n \in 1 .. 8 PROVE v[n] = gr[n - 1]
  <2>1. CASE n \in 1 .. s
    <3>1. 0 + n - 1 = n - 1 /\ n \in 1 .. e
      BY ONLY <1>1, <2>1, s \in Nat, z \in Nat
    <3>2. p[n] = gr[0 + n - 1]
      BY ONLY <1>2, <2>1
    <3> QED BY ONLY <1>5, <1>6, <2>1, <3>1, <3>2 DEF OneAfterTheOther
  <2>2. CASE n \in s + 1 .. e
    <3>1. PICK m \in 1 .. z : n = s + m
      <4>1. n - s \in 1 .. z /\ n = s + (n - s)
        BY ONLY <1>1, <2>2, s \in Nat, z \in Nat
      <4> QED BY ONLY <4>1
    <3>2. n \in 1 .. e
      BY ONLY <2>2, s \in Nat
    <3>3. n - 1 \in s .. e - 1
      BY ONLY <1>1, <2>2, s \in Nat, z \in Nat
    <3>4. gr[n - 1] = 0
      BY ONLY <3>3, ZeroFrom(gr, s, e) DEF ZeroFrom
    <3>5. w[n] = 0
      BY ONLY <1>4, <1>5, <3>1 DEF OneAfterTheOther
    <3> QED BY ONLY <1>6, <3>2, <3>4, <3>5 DEF OneAfterTheOther
  <2>3. CASE n \in e + 1 .. 8
    <3>1. PICK m \in 1 .. r : n = e + m /\ e + m - 1 = n - 1
      <4>1. n - e \in 1 .. r /\ n = e + (n - e) /\ e + (n - e) - 1 = n - 1
        BY ONLY <1>1, <2>3, e \in Nat
      <4> QED BY ONLY <4>1
    <3>2. q[m] = gr[n - 1]
      BY ONLY <1>3, <3>1
    <3> QED BY ONLY <1>6, <3>1, <3>2 DEF OneAfterTheOther
  <2> QED BY ONLY <1>1, <2>1, <2>2, <2>3, n \in 1 .. 8, s \in Nat, z \in Nat
<1>9. v = [n \in 1 .. 8 |-> v[n]]
  <2>1. Len(v) = 8
    BY ONLY <1>1, <1>6 DEF OneAfterTheOther
  <2> QED BY ONLY <2>1, v \in Seq(Nat)
<1> QED BY ONLY <1>7, <1>8, <1>9 DEF Address

\* The text o is h before its token c, and t behind.
Around(o, c, h, t) == SubSeq(o, 1, c - 1) = h /\ SubSeq(o, c + 1, Len(o)) = t

\* The beginning and the end of a text around its "::".
LEMMA JoinedParts ==
    ASSUME NEW h \in Seq(Token), NEW t \in Seq(Token), NEW L \in Nat, NEW M \in Nat,
           Len(h) = L, Len(t) = M, NEW o, Joined(o, h, L, t, M), NEW c, c = L + 1
    PROVE  Around(o, c, h, t)
<1>1. /\ o \in Seq(Token) /\ Len(o) = L + 1 + M
      /\ \A n \in 1 .. L : o[n] = h[n]
      /\ \A n \in 1 .. M : o[L + 1 + n] = t[n]
  BY DEF Joined
<1>2. \A n \in 1 .. L + 1 + M : o[n] \in Token
  BY ONLY <1>1, ElementOfSeq
<1>3. SubSeq(o, 1, c - 1) = h
  <2>1. PICK a \in Int, b \in Int : a = 1 /\ b = c - 1 /\ b = L
    OBVIOUS
  <2>2. \A n \in a .. b : o[n] \in Token
    BY ONLY <1>2, <2>1, L \in Nat, M \in Nat
  <2>3. PICK u : u = SubSeq(o, a, b)
    OBVIOUS
  <2>4. /\ u \in Seq(Token) /\ Len(u) = IF a <= b THEN b - a + 1 ELSE 0
        /\ \A n \in 1 .. b - a + 1 : u[n] = o[a + n - 1]
    BY ONLY <2>2, <2>3, SubSeqProperties, a \in Int, b \in Int
  <2>5. Len(u) = L
    BY ONLY <2>1, <2>4, L \in Nat
  <2>6. ASSUME NEW n \in 1 .. L PROVE u[n] = h[n]
    <3>1. n \in 1 .. b - a + 1 /\ a + n - 1 = n
      BY ONLY <2>1, <2>6
    <3> QED BY ONLY <1>1, <2>4, <2>6, <3>1
  <2>7. u = h
    BY ONLY <2>4, <2>5, <2>6, SeqEqual, h \in Seq(Token), Len(h) = L
  <2> QED BY ONLY <2>1, <2>3, <2>7
<1>4. SubSeq(o, c + 1, Len(o)) = t
  <2>1. PICK a \in Int, b \in Int : a = c + 1 /\ b = Len(o) /\ a = L + 2 /\ b = L + 1 + M
    BY <1>1
  <2>2. \A n \in a .. b : o[n] \in Token
    BY ONLY <1>2, <2>1, L \in Nat, M \in Nat
  <2>3. PICK u : u = SubSeq(o, a, b)
    OBVIOUS
  <2>4. /\ u \in Seq(Token) /\ Len(u) = IF a <= b THEN b - a + 1 ELSE 0
        /\ \A n \in 1 .. b - a + 1 : u[n] = o[a + n - 1]
    BY ONLY <2>2, <2>3, SubSeqProperties, a \in Int, b \in Int
  <2>5. Len(u) = M
    BY ONLY <2>1, <2>4, L \in Nat, M \in Nat
  <2>6. ASSUME NEW n \in 1 .. M PROVE u[n] = t[n]
    <3>1. n \in 1 .. b - a + 1
      BY ONLY <2>1, <2>6, L \in Nat, M \in Nat
    <3>2. a + n - 1 = L + 1 + n
      BY ONLY <2>1, L \in Nat, n \in 1 .. M
    <3> QED BY ONLY <1>1, <2>4, <2>6, <3>1, <3>2
  <2>7. u = t
    BY ONLY <2>4, <2>5, <2>6, SeqEqual, t \in Seq(Token), Len(t) = M
  <2> QED BY ONLY <2>1, <2>3, <2>7
<1> QED BY <1>3, <1>4 DEF Around

\* A "::" between two lists, for a run of zeros, reads back.
LEMMA JoinedReadsBack ==
    ASSUME NEW gr \in Addresses, NEW s \in Nat, NEW e \in Nat, NEW r \in Nat, s <= e, e + r = 8,
           ZeroFrom(gr, s, e), NEW o, RunPrinted(gr, o, s, e, r)
    PROVE  Separated(o) /\ Reading(o) = Address(gr)
<1>0a. PICK h, t : \E L, M \in Nat :
        /\ o = (h \o <<RunToken>>) \o t
        /\ Listed(gr, h, L, 0, s) /\ Listed(gr, t, M, e, r)
  BY DEF RunPrinted
<1>0b. PICK L \in Nat, M \in Nat :
        /\ o = (h \o <<RunToken>>) \o t
        /\ Listed(gr, h, L, 0, s) /\ Listed(gr, t, M, e, r)
  BY ONLY <1>0a
<1>1. /\ h \in Seq(Token) /\ Len(h) = L /\ GroupsOf(h) = Slice(gr, 0, s)
      /\ \A n \in 1 .. L : h[n].kind \in {":", "hex"}
      /\ L # 0 => h[1].kind = "hex" /\ h[L].kind = "hex"
      /\ \A n \in 1 .. L - 1 : (h[n].kind = ":") # (h[n + 1].kind = ":")
  BY ONLY <1>0b DEF Listed
<1>2. /\ t \in Seq(Token) /\ Len(t) = M /\ GroupsOf(t) = Slice(gr, e, r)
      /\ \A n \in 1 .. M : t[n].kind \in {":", "hex"}
      /\ M # 0 => t[1].kind = "hex" /\ t[M].kind = "hex"
      /\ \A n \in 1 .. M - 1 : (t[n].kind = ":") # (t[n + 1].kind = ":")
  BY ONLY <1>0b DEF Listed
<1>3. Joined(o, h, L, t, M)
  <2>1. o = (h \o <<RunToken>>) \o t
    BY ONLY <1>0b
  <2> QED BY ONLY <1>1, <1>2, <2>1, JoinedIs, L \in Nat, M \in Nat
<1>4. /\ o \in Seq(Token) /\ Len(o) = L + 1 + M /\ o[L + 1] = RunToken
      /\ \A n \in 1 .. L : o[n] = h[n]
      /\ \A n \in 1 .. M : o[L + 1 + n] = t[n]
  BY ONLY <1>3 DEF Joined
<1>5. PICK c \in Nat, N \in Nat : c = L + 1 /\ N = L + 1 + M /\ DOMAIN o = 1 .. N /\ Len(o) = N
  BY ONLY <1>4, L \in Nat, M \in Nat
<1>6. RunToken.kind = "::" /\ SepToken.kind = ":"
  BY DEF RunToken, SepToken
<1>7. \A n \in 1 .. N : \/ n \in 1 .. L
                        \/ n = c
                        \/ \E m \in 1 .. M : n = L + 1 + m
  <2>1. ASSUME NEW n \in 1 .. N, n \notin 1 .. L, n # c PROVE \E m \in 1 .. M : n = L + 1 + m
    <3>1. n - (L + 1) \in 1 .. M /\ n = L + 1 + (n - (L + 1))
      BY ONLY <1>5, <2>1, L \in Nat, M \in Nat
    <3> QED BY ONLY <3>1
  <2> QED BY ONLY <2>1
<1>8. ASSUME NEW n \in 1 .. N PROVE n # c => o[n].kind \in {":", "hex"}
  <2>1. CASE n \in 1 .. L
    BY ONLY <1>1, <1>4, <2>1
  <2>2. ASSUME NEW m \in 1 .. M, n = L + 1 + m PROVE o[n].kind \in {":", "hex"}
    BY ONLY <1>2, <1>4, <2>2
  <2> QED BY ONLY <1>7, <2>1, <2>2, n \in 1 .. N
<1>9. RunOnlyAt(o, c)
  <2>1. o[c] = RunToken
    BY ONLY <1>4, <1>5
  <2>2. ASSUME NEW n \in DOMAIN o, o[n] = RunToken PROVE n = c
    BY ONLY <1>5, <1>6, <1>8, <2>2
  <2> QED BY ONLY <2>1, <2>2 DEF RunOnlyAt
<1>10. ASSUME NEW n \in 1 .. N - 1
       PROVE  (o[n].kind \in {":", "::"}) # (o[n + 1].kind \in {":", "::"})
  <2>1. CASE n \in 1 .. L - 1
    <3>1. o[n] = h[n] /\ o[n + 1] = h[n + 1] /\ n \in 1 .. L /\ n + 1 \in 1 .. L
      BY ONLY <1>4, <2>1, L \in Nat
    <3>2. h[n].kind \in {":", "hex"} /\ h[n + 1].kind \in {":", "hex"}
      BY ONLY <1>1, <3>1
    <3>3. (h[n].kind = ":") # (h[n + 1].kind = ":")
      BY ONLY <1>1, <2>1
    <3> QED BY ONLY <3>1, <3>2, <3>3
  <2>2. CASE n = L
    <3>1. L # 0 /\ L \in 1 .. L
      BY ONLY <2>2, L \in Nat, n \in 1 .. N - 1
    <3>2. o[n].kind = "hex"
      BY ONLY <1>1, <1>4, <2>2, <3>1
    <3>3. o[n + 1].kind = "::"
      BY ONLY <1>4, <1>6, <2>2
    <3> QED BY ONLY <3>2, <3>3
  <2>3. CASE n = L + 1
    <3>1. M # 0 /\ 1 \in 1 .. M /\ n + 1 = L + 1 + 1
      BY ONLY <1>5, <2>3, L \in Nat, M \in Nat, n \in 1 .. N - 1
    <3>2. o[n + 1] = t[1]
      BY ONLY <1>4, <3>1
    <3>3. o[n + 1].kind = "hex"
      BY ONLY <1>2, <3>1, <3>2
    <3>4. o[n].kind = "::"
      BY ONLY <1>4, <1>6, <2>3
    <3> QED BY ONLY <3>3, <3>4
  <2>4. CASE n \in L + 2 .. N - 1
    <3>1. PICK m \in 1 .. M - 1 : n = L + 1 + m
      <4>1. n - (L + 1) \in 1 .. M - 1 /\ n = L + 1 + (n - (L + 1))
        BY ONLY <1>5, <2>4, L \in Nat, M \in Nat
      <4> QED BY ONLY <4>1
    <3>2. PICK l \in 1 .. M : l = m + 1 /\ n + 1 = L + 1 + l /\ m \in 1 .. M
      <4>1. m + 1 \in 1 .. M /\ n + 1 = L + 1 + (m + 1) /\ m \in 1 .. M
        BY ONLY <3>1, L \in Nat, M \in Nat
      <4> QED BY ONLY <4>1
    <3>3. o[n] = t[m] /\ o[n + 1] = t[l]
      BY ONLY <1>4, <3>1, <3>2
    <3>4. t[m].kind \in {":", "hex"} /\ t[l].kind \in {":", "hex"}
      BY ONLY <1>2, <3>2
    <3>5. (t[m].kind = ":") # (t[l].kind = ":")
      BY ONLY <1>2, <3>1, <3>2
    <3> QED BY ONLY <3>3, <3>4, <3>5
  <2> QED BY ONLY <2>1, <2>2, <2>3, <2>4, L \in Nat, n \in 1 .. N - 1, N \in Nat
<1>11. SepToken \notin {o[1], o[N]}
  <2>1. o[1].kind # ":"
    <3>1. CASE L = 0
      BY ONLY <1>4, <1>6, <3>1
    <3>2. CASE L # 0
      <4>1. 1 \in 1 .. L
        BY ONLY <3>2, L \in Nat
      <4> QED BY ONLY <1>1, <1>4, <3>2, <4>1
    <3> QED BY ONLY <3>1, <3>2
  <2>2. o[N].kind # ":"
    <3>1. CASE M = 0
      <4>1. N = L + 1
        BY ONLY <1>5, <3>1, L \in Nat
      <4> QED BY ONLY <1>4, <1>6, <4>1
    <3>2. CASE M # 0
      <4>1. M \in 1 .. M /\ N = L + 1 + M
        BY ONLY <1>5, <3>2, M \in Nat
      <4>2. o[N] = t[M]
        BY ONLY <1>4, <4>1
      <4> QED BY ONLY <1>2, <3>2, <4>2
    <3> QED BY ONLY <3>1, <3>2
  <2> QED BY ONLY <1>6, <2>1, <2>2
<1>12. Separated(o)
  BY ONLY <1>5, <1>9, <1>10, <1>11 DEF Separated, RunOnlyAt
<1>13. SubSeq(o, 1, c - 1) = h /\ SubSeq(o, c + 1, Len(o)) = t
  <2>1. c = L + 1
    BY <1>5
  <2>2. Around(o, c, h, t)
    BY ONLY <1>1, <1>2, <1>3, <2>1, JoinedParts, L \in Nat, M \in Nat
  <2> QED BY ONLY <2>2 DEF Around
<1>14. PICK p, q : /\ p = Slice(gr, 0, s) /\ q = Slice(gr, e, r)
                   /\ p = GroupsOf(SubSeq(o, 1, c - 1)) /\ q = GroupsOf(SubSeq(o, c + 1, Len(o)))
  BY ONLY <1>1, <1>2, <1>13
<1>15. Reading(o) = Filled(p, q)
  <2>1. c \in DOMAIN o
    BY ONLY <1>5, L \in Nat, M \in Nat
  <2>2. p = GroupsOf(SubSeq(o, 1, c - 1)) /\ q = GroupsOf(SubSeq(o, c + 1, Len(o)))
    BY <1>14
  <2> QED BY ONLY <1>9, <2>1, <2>2, ReadingCut
<1>16. Filled(p, q) = Address(gr)
  <2>1. p = Slice(gr, 0, s) /\ q = Slice(gr, e, r)
    BY <1>14
  <2> QED BY ONLY <2>1, FilledIsAddress, gr \in Addresses, s \in Nat, e \in Nat, r \in Nat,
          s <= e, e + r = 8, ZeroFrom(gr, s, e)
<1> QED BY <1>12, <1>15, <1>16

\* The text of a mapped address reads back.
LEMMA MappedReadsBack ==
    ASSUME NEW gr \in Addresses, ZeroFrom(gr, 0, 5),
           NEW o, o = <<RunToken, HexToken(gr[5]), SepToken, QuadToken(gr[6], gr[7])>>
    PROVE  Separated(o) /\ Reading(o) = Address(gr)
<1>1. PICK a \in Nat, b \in Nat, d \in Nat : a = gr[5] /\ b = gr[6] /\ d = gr[7]
  <2>1. gr[5] \in Nat /\ gr[6] \in Nat /\ gr[7] \in Nat
    BY GroupsAreNumbers
  <2> QED BY <2>1
<1>2. PICK x \in Token, e \in Token, y \in Token, z \in Token :
        /\ x = HexToken(a) /\ x.kind = "hex" /\ x.groups = <<a>>
        /\ e = SepToken /\ e.kind = ":" /\ e.groups = << >>
        /\ y = QuadToken(b, d) /\ y.kind = "quad" /\ y.groups = <<b, d>>
        /\ z = RunToken /\ z.kind = "::"
  <2>1. /\ HexToken(a) \in Token /\ HexToken(a).kind = "hex" /\ HexToken(a).groups = <<a>>
        /\ SepToken \in Token /\ SepToken.kind = ":" /\ SepToken.groups = << >>
        /\ RunToken \in Token /\ RunToken.kind = "::"
    BY ONLY TokensAre, a \in Nat
  <2>2. /\ QuadToken(b, d) \in Token /\ QuadToken(b, d).kind = "quad"
        /\ QuadToken(b, d).groups = <<b, d>>
    BY ONLY TokensAre, b \in Nat, d \in Nat
  <2> QED BY ONLY <2>1, <2>2
<1>3. o = <<z, x, e, y>>
  BY ONLY <1>1, <1>2, o = <<RunToken, HexToken(gr[5]), SepToken, QuadToken(gr[6], gr[7])>>
<1>4. /\ o \in Seq(Token) /\ Len(o) = 4 /\ DOMAIN o = 1 .. 4
      /\ o[1] = z /\ o[2] = x /\ o[3] = e /\ o[4] = y
  BY <1>3
<1>5. \A n \in 1 .. 4 : n = 1 \/ n = 2 \/ n = 3 \/ n = 4
  OBVIOUS
<1>6. PICK c \in Nat : c = 1
  OBVIOUS
<1>7. RunOnlyAt(o, c)
  <2>1. x # z /\ e # z /\ y # z
    BY ONLY <1>2
  <2> QED BY ONLY <1>2, <1>4, <1>5, <1>6, <2>1 DEF RunOnlyAt
<1>8. Separated(o)
  <2>1. ASSUME NEW n \in 1 .. 3
        PROVE  (o[n].kind \in {":", "::"}) # (o[n + 1].kind \in {":", "::"})
    <3>1. n = 1 \/ n = 2 \/ n = 3
      OBVIOUS
    <3>2. CASE n = 1
      BY ONLY <1>2, <1>4, <3>2
    <3>3. CASE n = 2
      BY ONLY <1>2, <1>4, <3>3
    <3>4. CASE n = 3
      BY ONLY <1>2, <1>4, <3>4
    <3> QED BY ONLY <3>1, <3>2, <3>3, <3>4
  <2>2. SepToken \notin {o[1], o[4]}
    BY ONLY <1>2, <1>4
  <2>3. \A m, n \in DOMAIN o : o[m] = RunToken /\ o[n] = RunToken => m = n
    BY ONLY <1>7 DEF RunOnlyAt
  <2>4. Len(o) - 1 = 3
    BY ONLY <1>4
  <2> QED BY ONLY <1>4, <2>1, <2>2, <2>3, <2>4 DEF Separated
<1>9. PICK t \in Seq(Token) : t = <<x, e, y>> /\ Len(t) = 3 /\ t[1] = x /\ t[2] = e /\ t[3] = y
  <2>1. <<x, e, y>> \in Seq(Token)
    OBVIOUS
  <2>2. Len(<<x, e, y>>) = 3 /\ <<x, e, y>>[1] = x /\ <<x, e, y>>[2] = e /\ <<x, e, y>>[3] = y
    OBVIOUS
  <2> QED BY ONLY <2>1, <2>2
<1>10. PICK q : q = GroupsOf(t) /\ q = Slice(gr, 5, 3)
  <2>1. PICK u \in Seq(Token), v \in Seq(Token) :
          u = Append(<< >>, x) /\ v = Append(u, e) /\ t = Append(v, y)
    <3>1. t = Append(Append(Append(<< >>, x), e), y)
      BY <1>9
    <3>2. Append(<< >>, x) \in Seq(Token) /\ Append(Append(<< >>, x), e) \in Seq(Token)
      OBVIOUS
    <3> QED BY ONLY <3>1, <3>2
  <2>2. GroupsOf(u) = << >> \o <<a>>
    <3>1. PICK k \in Seq(Token) : k = << >>
      <4>1. << >> \in Seq(Token)
        OBVIOUS
      <4> QED BY ONLY <4>1
    <3>2. GroupsOf(Append(k, x)) = GroupsOf(k) \o x.groups
      BY ONLY GroupsOfAppend, k \in Seq(Token), x \in Token
    <3> QED BY ONLY <1>2, <2>1, <3>1, <3>2, GroupsOfNone
  <2>3. GroupsOf(v) = GroupsOf(u) \o << >>
    <3>1. GroupsOf(Append(u, e)) = GroupsOf(u) \o e.groups
      BY ONLY GroupsOfAppend, u \in Seq(Token), e \in Token
    <3> QED BY ONLY <1>2, <2>1, <3>1
  <2>4. GroupsOf(t) = GroupsOf(v) \o <<b, d>>
    <3>1. GroupsOf(Append(v, y)) = GroupsOf(v) \o y.groups
      BY ONLY GroupsOfAppend, v \in Seq(Token), y \in Token
    <3> QED BY ONLY <1>2, <2>1, <3>1
  <2>5. GroupsOf(u) = <<a>>
    BY <2>2
  <2>6. GroupsOf(v) = <<a>>
    BY <2>3, <2>5
  <2>7. GroupsOf(t) = <<a, b, d>>
    <3>0. PICK k \in Seq(Nat), l \in Seq(Nat) : k = <<a>> /\ l = <<b, d>>
      <4>1. <<a>> \in Seq(Nat) /\ <<b, d>> \in Seq(Nat)
        OBVIOUS
      <4> QED BY ONLY <4>1
    <3>1. PICK f \in Nat : k = <<a>> /\ Len(k) = f /\ f = 1 /\ k[1] = a
      BY ONLY <3>0
    <3>2. PICK r \in Nat : l = <<b, d>> /\ Len(l) = r /\ r = 2 /\ l[1] = b /\ l[2] = d
      BY ONLY <3>0
    <3>3. PICK w \in Seq(Nat) : OneAfterTheOther(w, k, f, l, r)
      BY ONLY <3>1, <3>2, Concatenated, k \in Seq(Nat), l \in Seq(Nat), f \in Nat, r \in Nat
    <3>4. w = GroupsOf(t) /\ Len(w) = 3 /\ w[1] = a /\ w[1 + 1] = b /\ w[1 + 2] = d
      BY ONLY <2>4, <2>6, <3>1, <3>2, <3>3 DEF OneAfterTheOther
    <3>5. w = <<a, b, d>>
      BY <3>4
    <3> QED BY ONLY <3>4, <3>5
  <2>8. <<a, b, d>> = Slice(gr, 5, 3)
    <3>1. PICK k \in Seq(Nat) : /\ k = Slice(gr, 5, 3) /\ Len(k) = 3
                                /\ \A n \in 1 .. 3 : k[n] = gr[5 + n - 1]
      <4>1. 5 \in Nat /\ 3 \in Nat /\ 5 + 3 <= 8
        OBVIOUS
      <4> QED BY ONLY <4>1, SliceIs, gr \in Addresses
    <3>2. k[1] = a /\ k[2] = b /\ k[3] = d
      <4>1. k[1] = gr[5 + 1 - 1] /\ k[2] = gr[5 + 2 - 1] /\ k[3] = gr[5 + 3 - 1]
        BY ONLY <3>1
      <4> QED BY <1>1, <4>1
    <3>3. k = <<a, b, d>>
      BY ONLY <3>1, <3>2
    <3> QED BY <3>1, <3>3
  <2> QED BY <2>7, <2>8
<1>11. PICK h \in Seq(Token), L \in Nat, M \in Nat :
         h = << >> /\ L = 0 /\ M = 3 /\ Len(h) = L /\ Len(t) = M /\ c = L + 1
  <2>1. << >> \in Seq(Token) /\ Len(<< >>) = 0
    OBVIOUS
  <2>2. 0 \in Nat /\ 3 \in Nat /\ 0 + 1 = 1
    OBVIOUS
  <2> QED BY ONLY <1>6, <1>9, <2>1, <2>2
<1>12. Joined(o, h, L, t, M)
  <2>1. o = (h \o <<RunToken>>) \o t
    <3>1. << >> \o <<z>> = <<z>>
      OBVIOUS
    <3>2. <<z>> \o t = <<z, x, e, y>>
      <4>0. PICK k \in Seq(Token) : k = <<z>>
        <5>1. <<z>> \in Seq(Token)
          OBVIOUS
        <5> QED BY ONLY <5>1
      <4>1. PICK l \in Nat : k = <<z>> /\ Len(k) = l /\ l = 1 /\ k[1] = z
        BY ONLY <4>0
      <4>2. PICK v \in Seq(Token) : OneAfterTheOther(v, k, l, t, M)
        BY ONLY <1>11, <4>1, Concatenated, t \in Seq(Token), M \in Nat, l \in Nat, k \in Seq(Token)
      <4>3. /\ Len(v) = 4 /\ v[1] = z /\ v[1 + 1] = x /\ v[1 + 2] = e /\ v[1 + 3] = y
        BY ONLY <1>9, <1>11, <4>1, <4>2 DEF OneAfterTheOther
      <4>4. v = <<z, x, e, y>>
        BY <4>3
      <4>5. v = <<z>> \o t
        BY ONLY <4>1, <4>2 DEF OneAfterTheOther
      <4> QED BY ONLY <4>4, <4>5
    <3> QED BY ONLY <1>2, <1>3, <1>11, <3>1, <3>2
  <2> QED BY ONLY <1>9, <1>11, <2>1, JoinedIs, h \in Seq(Token)
<1>13. Around(o, c, h, t)
  <2>1. Len(h) = L /\ Len(t) = M /\ c = L + 1
    BY <1>11
  <2> QED BY ONLY <1>9, <1>12, <2>1, JoinedParts, h \in Seq(Token), t \in Seq(Token),
          L \in Nat, M \in Nat
<1>14. PICK s \in Nat, f \in Nat, r \in Nat :
         s = 0 /\ f = 5 /\ r = 3 /\ s <= f /\ f + r = 8 /\ ZeroFrom(gr, s, f)
  <2>1. 0 \in Nat /\ 5 \in Nat /\ 3 \in Nat /\ 0 <= 5 /\ 5 + 3 = 8
    OBVIOUS
  <2> QED BY ONLY <2>1, ZeroFrom(gr, 0, 5)
<1>15. PICK p : p = GroupsOf(h) /\ p = Slice(gr, 0, s)
  <2>1. Slice(gr, 0, s) = << >>
    BY <1>14 DEF Slice
  <2>2. GroupsOf(h) = << >>
    BY ONLY <1>11, GroupsOfNone
  <2> QED BY ONLY <2>1, <2>2
<1>16. Reading(o) = Filled(p, q)
  <2>1. c \in DOMAIN o
    BY ONLY <1>4, <1>6
  <2>2. p = GroupsOf(SubSeq(o, 1, c - 1)) /\ q = GroupsOf(SubSeq(o, c + 1, Len(o)))
    BY ONLY <1>10, <1>13, <1>15 DEF Around
  <2> QED BY ONLY <1>7, <2>1, <2>2, ReadingCut
<1>17. Filled(p, q) = Address(gr)
  <2>1. s <= f /\ f + r = 8 /\ ZeroFrom(gr, s, f) /\ q = Slice(gr, f, r) /\ p = Slice(gr, 0, s)
    BY ONLY <1>10, <1>14, <1>15
  <2> QED BY ONLY <2>1, FilledIsAddress, gr \in Addresses, s \in Nat, f \in Nat, r \in Nat
<1> QED BY ONLY <1>8, <1>16, <1>17

\* A group is printed behind a list, or behind the list that follows "::".
LEMMA RunPrintedGrows ==
    ASSUME NEW gr \in Addresses, NEW o, NEW s, NEW e \in Nat, NEW r \in Nat, e + r <= 7,
           RunPrinted(gr, o, s, e, r)
    PROVE  RunPrinted(gr, (IF r = 0 THEN o ELSE Append(o, SepToken)) \o <<HexToken(gr[e + r])>>,
                      s, e, r + 1)
<1>1. PICK h, t : \E L, M \in Nat :
        /\ o = (h \o <<RunToken>>) \o t
        /\ Listed(gr, h, L, 0, s) /\ Listed(gr, t, M, e, r)
  BY DEF RunPrinted
<1>2. PICK L \in Nat, M \in Nat :
        /\ o = (h \o <<RunToken>>) \o t
        /\ Listed(gr, h, L, 0, s) /\ Listed(gr, t, M, e, r)
  BY ONLY <1>1
<1>3. PICK u : \E N \in Nat :
        /\ u = (IF r = 0 THEN t ELSE Append(t, SepToken)) \o <<HexToken(gr[e + r])>>
        /\ Listed(gr, u, N, e, r + 1)
  BY ONLY <1>2, ListedGrows, gr \in Addresses, e \in Nat, r \in Nat, e + r <= 7, M \in Nat
<1>4. PICK N \in Nat :
        /\ u = (IF r = 0 THEN t ELSE Append(t, SepToken)) \o <<HexToken(gr[e + r])>>
        /\ Listed(gr, u, N, e, r + 1)
  BY ONLY <1>3
<1>5. h \in Seq(Token) /\ t \in Seq(Token)
  BY ONLY <1>2 DEF Listed
<1>6. PICK x \in Token, k \in Token, z \in Token :
        x = HexToken(gr[e + r]) /\ k = SepToken /\ z = RunToken
  <2>1. e + r \in 0 .. 7
    OBVIOUS
  <2>2. gr[e + r] \in Nat
    BY ONLY <2>1, GroupsAreNumbers, gr \in Addresses
  <2>3. HexToken(gr[e + r]) \in Token /\ SepToken \in Token /\ RunToken \in Token
    BY ONLY <2>2, TokensAre
  <2> QED BY ONLY <2>3
<1>7. PICK b \in Seq(Token) : b = h \o <<z>>
  <2>1. h \o <<z>> \in Seq(Token)
    BY ONLY <1>5, z \in Token
  <2> QED BY ONLY <2>1
<1>8. PICK v \in Seq(Token) : v = IF r = 0 THEN t ELSE Append(t, k)
  <2>1. Append(t, k) \in Seq(Token)
    BY ONLY <1>5, k \in Token
  <2> QED BY ONLY <1>5, <2>1
<1>9. (IF r = 0 THEN o ELSE Append(o, k)) = b \o v
  <2>1. o = b \o t
    BY ONLY <1>2, <1>6, <1>7
  <2>2. Append(b \o t, k) = b \o Append(t, k)
    BY ONLY <1>5, JoinedGrows, b \in Seq(Token), k \in Token
  <2> QED BY ONLY <1>8, <2>1, <2>2
<1>10. (b \o v) \o <<x>> = b \o (v \o <<x>>)
  BY ONLY JoinedGrows, b \in Seq(Token), v \in Seq(Token), x \in Token
<1>11. u = v \o <<x>>
  BY ONLY <1>4, <1>6, <1>8
<1>12. PICK w : w = (IF r = 0 THEN o ELSE Append(o, SepToken)) \o <<HexToken(gr[e + r])>>
  OBVIOUS
<1>13. w = (h \o <<RunToken>>) \o u
  BY ONLY <1>6, <1>7, <1>9, <1>10, <1>11, <1>12
<1>14. RunPrinted(gr, w, s, e, r + 1)
  BY ONLY <1>2, <1>4, <1>13 DEF RunPrinted
<1> QED BY ONLY <1>12, <1>14

\* Nothing is printed before the search is over, then the text grows as Printed
\* says, and in the end it is that of the address.
LEMMA StepPrint == FormatInv /\ PrintInv /\ [FormatNext]_format_vars => PrintInv'
<1> SUFFICES ASSUME FormatInv, PrintInv, [FormatNext]_format_vars PROVE PrintInv'
  OBVIOUS
<1>0. /\ groups \in Addresses /\ i \in 0 .. 8 /\ best_start \in -1 .. 7 /\ best_len \in 0 .. 8
  BY DEF FormatInv, TypeOK
<1>1. CASE UNCHANGED format_vars
  BY <1>1 DEF format_vars, PrintInv, Printed, TextReadsBack
<1>2. CASE format_mapped
  <2>1. loop' = "done" /\ groups' = groups
        /\ out' = <<RunToken, HexToken(groups[5]), SepToken, QuadToken(groups[6], groups[7])>>
    BY <1>2 DEF format_mapped
  <2>2. ZeroFrom(groups, 0, 5)
    BY <1>2 DEF format_mapped, is_v4_mapped, ZeroFrom
  <2>3. Separated(out') /\ Reading(out') = Address(groups)
    BY ONLY <1>0, <2>1, <2>2, MappedReadsBack
  <2> QED BY ONLY <2>1, <2>3 DEF PrintInv, TextReadsBack, Address
<1>3. CASE load_groups \/ skip_group \/ start_run \/ grow_run \/ end_run
  BY <1>3 DEF load_groups, skip_group, start_run, grow_run, end_run, PrintInv
<1>4. CASE scan_done
  <2>1. /\ loop' = "print" /\ out' = << >> /\ i' = 0 /\ groups' = groups
        /\ best_start' \in -1 .. 7
    BY <1>0, <1>4 DEF scan_done, PrintInv
  <2>2. Listed(groups, out', 0, 0, i')
    BY ONLY <2>1, ListedNone
  <2>3. Printed'
    BY <2>1, <2>2 DEF Printed
  <2> QED BY ONLY <2>1, <2>3 DEF PrintInv
<1>5. ASSUME loop = "print", best_start # -1
      PROVE  /\ best_start \in 0 .. 6 /\ best_len \in 2 .. 8 - best_start
             /\ ZeroFrom(groups, best_start, best_start + best_len)
  BY <1>5 DEF FormatInv, RunIsFirstLongest, Zeros, ZeroFrom
<1>6. CASE print_run
  <2>1. /\ loop = "print" /\ i = best_start /\ best_start # -1 /\ loop' = "print"
        /\ out' = Append(out, RunToken) /\ i' = i + best_len
        /\ groups' = groups /\ best_start' = best_start /\ best_len' = best_len
    BY <1>0, <1>6 DEF print_run
  <2>2. best_start \in 0 .. 6 /\ best_len \in 2 .. 8 - best_start
    BY <1>5, <2>1
  <2>3. PICK L \in Nat : Listed(groups, out, L, 0, best_start)
    BY <2>1, <2>2 DEF PrintInv, Printed
  <2>4. PICK n \in Nat, e \in Nat : n = 0 /\ e = best_start + best_len
    BY <2>2
  <2>5. PICK t : t = << >> /\ Listed(groups, t, 0, e, n)
    BY ONLY <2>4, ListedNone
  <2>6. out' = (out \o <<RunToken>>) \o t
    <3>1. PICK z \in Token : z = RunToken
      BY TokensAre
    <3>2. out \in Seq(Token)
      BY ONLY <2>3 DEF Listed
    <3>3. PICK b \in Seq(Token) : b = Append(out, z) /\ b = out \o <<z>>
      <4>1. Append(out, z) \in Seq(Token)
        BY ONLY <3>2, z \in Token
      <4>2. Append(out, z) = out \o <<z>>
        BY ONLY <3>2, AppendIsConcat, z \in Token
      <4> QED BY ONLY <4>1, <4>2
    <3>4. b \o << >> = b
      BY ONLY ConcatEmptySeq, b \in Seq(Token)
    <3> QED BY ONLY <2>1, <2>5, <3>1, <3>3, <3>4
  <2>7. RunPrinted(groups, out', best_start, e, n)
    <3>1. 0 \in Nat
      OBVIOUS
    <3> QED BY ONLY <2>3, <2>5, <2>6, <3>1 DEF RunPrinted
  <2>8. Printed'
    <3>1. i' = e /\ i' - (best_start' + best_len') = n /\ best_start' + best_len' = e
      BY <2>1, <2>2, <2>4
    <3>2. ~(best_start' = -1 \/ i' <= best_start')
      BY <2>1, <2>2, <2>4, <3>1
    <3>3. e <= e
      OBVIOUS
    <3> QED BY ONLY <2>1, <2>7, <3>1, <3>2, <3>3 DEF Printed
  <2> QED BY ONLY <2>1, <2>8 DEF PrintInv
<1>7. CASE print_group
  <2>1. /\ loop = "print" /\ i < 8 /\ i # best_start /\ loop' = "print" /\ i' = i + 1
        /\ out' = (IF needs_sep THEN Append(out, SepToken) ELSE out) \o <<HexToken(groups[i])>>
        /\ groups' = groups /\ best_start' = best_start /\ best_len' = best_len
    BY <1>7 DEF print_group
  <2>2. Printed
    BY <2>1 DEF PrintInv
  <2>3. CASE best_start = -1 \/ i <= best_start
    <3>1. PICK L \in Nat : Listed(groups, out, L, 0, i)
      BY <2>2, <2>3 DEF Printed
    <3>2. needs_sep <=> i # 0
      BY <1>0, <1>5, <2>1, <2>3 DEF needs_sep
    <3>3. PICK k \in Nat, a \in Nat : k = i /\ a = 0 /\ a + k = i /\ a + k <= 7
      BY <1>0, <2>1
    <3>4. Listed(groups, out, L, a, k)
      BY ONLY <3>1, <3>3
    <3>5. PICK t : \E M \in Nat :
            /\ t = (IF k = 0 THEN out ELSE Append(out, SepToken)) \o <<HexToken(groups[a + k])>>
            /\ Listed(groups, t, M, a, k + 1)
      BY ONLY <1>0, <3>3, <3>4, ListedGrows, L \in Nat
    <3>6. t = out'
      <4>1. groups[a + k] = groups[i]
        BY <3>3
      <4>2. (IF k = 0 THEN out ELSE Append(out, SepToken))
              = (IF needs_sep THEN Append(out, SepToken) ELSE out)
        BY ONLY <3>2, <3>3
      <4> QED BY ONLY <2>1, <3>5, <4>1, <4>2
    <3>7. \E M \in Nat : Listed(groups, out', M, 0, i')
      BY ONLY <2>1, <3>3, <3>5, <3>6
    <3>8. best_start' = -1 \/ i' <= best_start'
      BY <1>0, <2>1, <2>3
    <3> QED BY ONLY <2>1, <3>7, <3>8 DEF PrintInv, Printed
  <2>4. CASE ~(best_start = -1 \/ i <= best_start)
    <3>1. best_start \in 0 .. 6 /\ best_len \in 2 .. 8 - best_start
      BY <1>5, <2>1, <2>4
    <3>2. /\ best_start + best_len <= i
          /\ RunPrinted(groups, out, best_start, best_start + best_len,
                        i - (best_start + best_len))
      BY ONLY <2>2, <2>4 DEF Printed
    <3>3. PICK e \in Nat, r \in Nat :
            /\ e = best_start + best_len /\ r = i - (best_start + best_len)
            /\ e + r = i /\ e + r <= 7
      <4>1. /\ best_start + best_len \in Nat /\ i - (best_start + best_len) \in Nat
            /\ best_start + best_len + (i - (best_start + best_len)) = i /\ i <= 7
        BY <1>0, <2>1, <3>1, <3>2
      <4> QED BY ONLY <4>1
    <3>4. RunPrinted(groups, out, best_start, e, r)
      BY ONLY <3>2, <3>3
    <3>5. needs_sep <=> r # 0
      BY <1>0, <3>1, <3>3 DEF needs_sep
    <3>6. RunPrinted(groups, (IF r = 0 THEN out ELSE Append(out, SepToken))
                               \o <<HexToken(groups[e + r])>>, best_start, e, r + 1)
      BY ONLY <1>0, <3>3, <3>4, RunPrintedGrows
    <3>7. out' = (IF r = 0 THEN out ELSE Append(out, SepToken)) \o <<HexToken(groups[e + r])>>
      <4>1. groups[e + r] = groups[i]
        BY <3>3
      <4>2. (IF r = 0 THEN out ELSE Append(out, SepToken))
              = (IF needs_sep THEN Append(out, SepToken) ELSE out)
        BY ONLY <3>5
      <4> QED BY ONLY <2>1, <4>1, <4>2
    <3>8. RunPrinted(groups, out', best_start, e, r + 1)
      BY ONLY <3>6, <3>7
    <3>9. /\ i' - (best_start' + best_len') = r + 1 /\ best_start' + best_len' = e /\ e <= i'
          /\ ~(best_start' = -1 \/ i' <= best_start')
      BY <1>0, <2>1, <2>4, <3>1, <3>3
    <3> QED BY ONLY <2>1, <3>8, <3>9 DEF PrintInv, Printed
  <2> QED BY <2>3, <2>4
<1>8. CASE print_done
  <2>1. /\ loop = "print" /\ i = 8 /\ loop' = "done"
        /\ groups' = groups /\ out' = out
    BY <1>0, <1>8 DEF print_done
  <2>2. Printed
    BY <2>1 DEF PrintInv
  <2>3. Separated(out) /\ Reading(out) = Address(groups)
    <3>1. CASE best_start = -1 \/ i <= best_start
      <4>1. PICK L \in Nat : Listed(groups, out, L, 0, 8)
        BY ONLY <2>1, <2>2, <3>1 DEF Printed
      <4> QED BY ONLY <1>0, <4>1, PlainReadsBack
    <3>2. CASE ~(best_start = -1 \/ i <= best_start)
      <4>1. /\ best_start \in 0 .. 6 /\ best_len \in 2 .. 8 - best_start
            /\ ZeroFrom(groups, best_start, best_start + best_len)
        BY <1>5, <2>1, <3>2
      <4>2. RunPrinted(groups, out, best_start, best_start + best_len,
                       i - (best_start + best_len))
        BY ONLY <2>2, <3>2 DEF Printed
      <4>3. PICK s \in Nat, e \in Nat, r \in Nat :
              /\ s = best_start /\ e = best_start + best_len
              /\ r = i - (best_start + best_len) /\ s <= e /\ e + r = 8
        <5>1. /\ best_start \in Nat /\ best_start + best_len \in Nat
              /\ i - (best_start + best_len) \in Nat /\ best_start <= best_start + best_len
              /\ best_start + best_len + (i - (best_start + best_len)) = 8
          BY <2>1, <4>1
        <5> QED BY ONLY <5>1
      <4>4. RunPrinted(groups, out, s, e, r) /\ ZeroFrom(groups, s, e)
        BY ONLY <4>1, <4>2, <4>3
      <4>5. s <= e /\ e + r = 8
        BY ONLY <4>3
      <4> QED BY ONLY <1>0, <4>4, <4>5, JoinedReadsBack, s \in Nat, e \in Nat, r \in Nat
    <3> QED BY ONLY <3>1, <3>2
  <2> QED BY ONLY <2>1, <2>3 DEF PrintInv, TextReadsBack, Address
<1> QED BY <1>1, <1>2, <1>3, <1>4, <1>6, <1>7, <1>8 DEF FormatNext

\* The text of every address is well formed and reads back as that address, so that no
\* two addresses look alike in the tables and the CSV files.
THEOREM TextAlwaysReadsBack == FormatSpec => []TextReadsBack
<1>1. FormatInit => PrintInv
  BY DEF FormatInit, PrintInv
<1>2. PrintInv => TextReadsBack
  BY DEF PrintInv, TextReadsBack
<1> QED BY FormatInvHolds, StepPrint, <1>1, <1>2, PTL DEF FormatSpec

-----------------------------------------------------------------------------
Digit == 0 .. BYTE - 1
Word == 0 .. U32 - 1
Half == 0 .. BYTE * BYTE - 1

\* A number is its last digit and the number without it.
LEMMA LastDigit ==
    ASSUME NEW v \in Nat
    PROVE  /\ v % BYTE \in Digit /\ shifted(v) \in Nat
           /\ v = shifted(v) * BYTE + (v % BYTE)
BY WidthAssumption DEF shifted, Digit

\* Dividing takes the last digit off again, in any base.
LEMMA Divided ==
    ASSUME NEW n \in Nat \ {0}, NEW x \in Nat, NEW d \in 0 .. n - 1
    PROVE  (x * n + d) \div n = x /\ (x * n + d) % n = d
<1> DEFINE y == x * n + d   q == y \div n   r == y % n
<1>1. y \in Nat /\ x * n \in Nat
  OBVIOUS
<1>2. q \in Nat /\ r \in 0 .. n - 1 /\ y = q * n + r
  <2> HIDE DEF y
  <2> QED BY <1>1
<1>3. y = x * n + d
  OBVIOUS
<1> HIDE DEF y, q, r
<1>4. ~(q > x)
  <2> SUFFICES ASSUME q > x PROVE FALSE
    OBVIOUS
  <2>1. (q - x) * n >= n
    BY <1>2
  <2>2. (q - x) * n = d - r
    BY <1>2, <1>3
  <2> QED BY <1>2, <2>1, <2>2
<1>5. ~(x > q)
  <2> SUFFICES ASSUME x > q PROVE FALSE
    OBVIOUS
  <2>1. (x - q) * n >= n
    BY <1>2
  <2>2. (x - q) * n = r - d
    BY <1>2, <1>3
  <2> QED BY <1>2, <2>1, <2>2
<1>6. q = x
  BY <1>2, <1>4, <1>5
<1>7. r = d
  BY <1>2, <1>3, <1>6
<1> QED BY <1>6, <1>7 DEF y, q, r

\* A number below m * BYTE has a rest below m.
LEMMA ShiftedBelow ==
    ASSUME NEW m \in Nat, NEW v \in Nat, v < m * BYTE
    PROVE  shifted(v) < m
<1>1. shifted(v) * BYTE <= v /\ shifted(v) \in Nat
  <2>1. /\ v = shifted(v) * BYTE + (v % BYTE) /\ v % BYTE \in Digit
        /\ shifted(v) \in Nat
    BY LastDigit
  <2>2. shifted(v) * BYTE \in Nat /\ v % BYTE >= 0 /\ v % BYTE \in Int
    BY <2>1, WidthAssumption DEF Digit
  <2> QED BY <2>1, <2>2
<1>2. CASE shifted(v) >= m
  <2>1. shifted(v) * BYTE >= m * BYTE
    BY <1>1, <1>2, WidthAssumption
  <2> QED BY <1>1, <2>1, WidthAssumption
<1> QED BY <1>1, <1>2

\* The bytes of a 32-bit number are bytes, and loading them gives the number.
LEMMA Bytes32 ==
    ASSUME NEW v \in Word
    PROVE  LET b == bytes32(v) IN
           /\ b \in Seq(Digit) /\ Len(b) = 4
           /\ b[1] \in Digit /\ b[2] \in Digit /\ b[3] \in Digit /\ b[4] \in Digit
           /\ v = ((b[4] * BYTE + b[3]) * BYTE + b[2]) * BYTE + b[1]
<1> DEFINE v1 == shifted(v)  v2 == shifted(v1)  v3 == shifted(v2)
<1>1. v \in Nat /\ v < BYTE * BYTE * BYTE * BYTE /\ BYTE \in Nat
  BY WidthAssumption DEF Word, U32
<1>2. v1 \in Nat /\ v2 \in Nat /\ v3 \in Nat
  BY <1>1, LastDigit
<1>3. /\ v = v1 * BYTE + (v % BYTE) /\ v1 = v2 * BYTE + (v1 % BYTE)
      /\ v2 = v3 * BYTE + (v2 % BYTE)
      /\ v % BYTE \in Digit /\ v1 % BYTE \in Digit /\ v2 % BYTE \in Digit
      /\ v3 % BYTE \in Digit
  BY <1>1, <1>2, LastDigit
<1>4. BYTE * BYTE * BYTE \in Nat /\ BYTE * BYTE \in Nat
  BY <1>1
<1> HIDE DEF v1, v2, v3
<1>5. v1 < BYTE * BYTE * BYTE
  BY <1>1, <1>4, ShiftedBelow DEF v1
<1>6. v2 < BYTE * BYTE
  BY <1>2, <1>4, <1>5, ShiftedBelow DEF v2
<1>7. v3 < BYTE
  BY <1>1, <1>2, <1>6, ShiftedBelow DEF v3
<1>8. v3 % BYTE = v3
  BY <1>1, <1>2, <1>7
<1>9. bytes32(v) = <<v % BYTE, v1 % BYTE, v2 % BYTE, v3>>
  BY <1>8 DEF bytes32, v1, v2, v3
<1> QED BY <1>3, <1>8, <1>9

\* A half word is its two digits.
LEMMA Bytes16 ==
    ASSUME NEW v \in Half
    PROVE  LET b == bytes16(v) IN
           /\ b \in Seq(Digit) /\ Len(b) = 2 /\ b[1] \in Digit /\ b[2] \in Digit
           /\ v = b[2] * BYTE + b[1]
<1> DEFINE v1 == shifted(v)
<1>1. v \in Nat /\ v < BYTE * BYTE /\ BYTE \in Nat
  BY WidthAssumption DEF Half
<1>2. /\ v1 \in Nat /\ v = v1 * BYTE + (v % BYTE)
      /\ v % BYTE \in Digit /\ v1 % BYTE \in Digit
  BY <1>1, LastDigit
<1>3. v1 < BYTE
  BY <1>1, ShiftedBelow
<1>4. v1 % BYTE = v1
  BY <1>1, <1>2, <1>3
<1> QED BY <1>2, <1>4 DEF bytes16

\* What a writer stores in either byte order: four bytes, or two.
LEMMA Stored32 ==
    ASSUME NEW v \in Word, NEW be \in {0, 1}
    PROVE  /\ bb_u32(v, be) \in Seq(Digit) /\ Len(bb_u32(v, be)) = 4
           /\ \A n \in 1 .. 4 : bb_u32(v, be)[n] = bytes32(v)[IF be = 1 THEN 5 - n ELSE n]
<1> DEFINE b == bytes32(v)
<1>1. b \in Seq(Digit) /\ Len(b) = 4
  BY Bytes32
<1>2. bb_u32(v, be) = IF be = 1 THEN <<b[4], b[3], b[2], b[1]>> ELSE b
  BY DEF bb_u32
<1> HIDE DEF b
<1>3. b[1] \in Digit /\ b[2] \in Digit /\ b[3] \in Digit /\ b[4] \in Digit
  BY Bytes32 DEF b
<1>4. CASE be = 1
  <2>1. bb_u32(v, be) = <<b[4], b[3], b[2], b[1]>>
    BY <1>2, <1>4
  <2>2. /\ <<b[4], b[3], b[2], b[1]>> \in Seq(Digit)
        /\ Len(<<b[4], b[3], b[2], b[1]>>) = 4
    BY <1>3
  <2>3. ASSUME NEW n \in 1 .. 4
        PROVE  <<b[4], b[3], b[2], b[1]>>[n] = b[5 - n]
    <3>1. n = 1 \/ n = 2 \/ n = 3 \/ n = 4
      OBVIOUS
    <3> QED BY <3>1
  <2> QED BY <1>4, <2>1, <2>2, <2>3 DEF b
<1>5. CASE be = 0
  BY <1>1, <1>2, <1>5 DEF b
<1> QED BY <1>4, <1>5

\* The two digits that a writer stores, in either byte order.
LEMMA Stored16 ==
    ASSUME NEW v \in Half, NEW be \in {0, 1}
    PROVE  /\ bb_u16(v, be) \in Seq(Digit) /\ Len(bb_u16(v, be)) = 2
           /\ \A n \in 1 .. 2 : bb_u16(v, be)[n] = bytes16(v)[IF be = 1 THEN 3 - n ELSE n]
<1> DEFINE b == bytes16(v)
<1>1. b \in Seq(Digit) /\ Len(b) = 2
  BY Bytes16
<1>2. bb_u16(v, be) = IF be = 1 THEN <<b[2], b[1]>> ELSE b
  BY DEF bb_u16
<1> HIDE DEF b
<1>3. b[1] \in Digit /\ b[2] \in Digit
  BY Bytes16 DEF b
<1>4. CASE be = 1
  <2>1. bb_u16(v, be) = <<b[2], b[1]>>
    BY <1>2, <1>4
  <2>2. <<b[2], b[1]>> \in Seq(Digit) /\ Len(<<b[2], b[1]>>) = 2
    BY <1>3
  <2>3. ASSUME NEW n \in 1 .. 2
        PROVE  <<b[2], b[1]>>[n] = b[3 - n]
    <3>1. n = 1 \/ n = 2
      OBVIOUS
    <3> QED BY <3>1
  <2> QED BY <1>4, <2>1, <2>2, <2>3 DEF b
<1>5. CASE be = 0
  BY <1>1, <1>2, <1>5 DEF b
<1> QED BY <1>4, <1>5

\* Where the bytes of a number lie, the load of the same byte order finds it.
LEMMA Loaded32 ==
    ASSUME NEW v \in Word, NEW be \in {0, 1}, NEW p, NEW o \in Nat,
           \A n \in 1 .. 4 : p[o + n] = bb_u32(v, be)[n]
    PROVE  rd32(p, o, be) = v
<1>1. \A n \in 1 .. 4 : p[o + n] = bytes32(v)[IF be = 1 THEN 5 - n ELSE n]
  BY Stored32
<1>2. v = ((bytes32(v)[4] * BYTE + bytes32(v)[3]) * BYTE + bytes32(v)[2]) * BYTE
          + bytes32(v)[1]
  BY Bytes32
<1>3. CASE be = 1
  <2>1. /\ p[o + 1] = bytes32(v)[4] /\ p[o + 2] = bytes32(v)[3]
        /\ p[o + 3] = bytes32(v)[2] /\ p[o + 4] = bytes32(v)[1]
    BY <1>1, <1>3
  <2> QED BY <1>2, <1>3, <2>1 DEF rd32, load_be32
<1>4. CASE be = 0
  <2>1. /\ p[o + 1] = bytes32(v)[1] /\ p[o + 2] = bytes32(v)[2]
        /\ p[o + 3] = bytes32(v)[3] /\ p[o + 4] = bytes32(v)[4]
    BY <1>1, <1>4
  <2> QED BY <1>2, <1>4, <2>1 DEF rd32, load_le32
<1> QED BY <1>3, <1>4

\* A half word that was stored loads as it was.
LEMMA Loaded16 ==
    ASSUME NEW v \in Half, NEW be \in {0, 1}, NEW p, NEW o \in Nat,
           \A n \in 1 .. 2 : p[o + n] = bb_u16(v, be)[n]
    PROVE  rd16(p, o, be) = v
<1>1. \A n \in 1 .. 2 : p[o + n] = bytes16(v)[IF be = 1 THEN 3 - n ELSE n]
  BY Stored16
<1>2. v = bytes16(v)[2] * BYTE + bytes16(v)[1]
  BY Bytes16
<1>3. CASE be = 1
  <2>1. p[o + 1] = bytes16(v)[2] /\ p[o + 2] = bytes16(v)[1]
    BY <1>1, <1>3
  <2> QED BY <1>2, <1>3, <2>1 DEF rd16, load_be16
<1>4. CASE be = 0
  <2>1. p[o + 1] = bytes16(v)[1] /\ p[o + 2] = bytes16(v)[2]
    BY <1>1, <1>4
  <2> QED BY <1>2, <1>4, <2>1 DEF rd16, load_le16
<1> QED BY <1>3, <1>4

\* The sum of the two products of 32-bit fields fits in 64 bits, also when the
\* fraction is far out of range: nothing wraps (pcap_parse_record_header()).
THEOREM TimestampNeverWraps ==
    \A sec, frac \in Word, ns \in {0, 1} :
        ts_ns(sec, frac, ns) = sec * NS_PER_SEC + frac * (IF ns = 1 THEN 1 ELSE NS_PER_US)
<1> TAKE sec, frac \in Word, ns \in {0, 1}
<1> DEFINE top == U32 - 1
           S == sec * NS_PER_SEC
           F == frac * (IF ns = 1 THEN 1 ELSE NS_PER_US)
<1>1. sec \in Nat /\ frac \in Nat /\ top \in Nat /\ sec <= top /\ frac <= top
  BY WidthAssumption DEF Word, U32
<1> HIDE DEF top
<1>2. S \in Nat /\ S <= top * NS_PER_SEC
  BY <1>1, WidthAssumption
<1>3. F \in Nat /\ F <= top * NS_PER_US
  <2>1. frac * NS_PER_US <= top * NS_PER_US /\ frac <= frac * NS_PER_US
    BY <1>1, WidthAssumption
  <2> QED BY <1>1, <2>1, WidthAssumption
<1>4. top * NS_PER_SEC + top * NS_PER_US < U64 /\ U64 \in Nat
      /\ top * NS_PER_SEC \in Nat /\ top * NS_PER_US \in Nat
  BY <1>1, WidthAssumption DEF top
<1>5. frac_ns(frac, ns) = F
  <2>1. F < U64
    BY <1>3, <1>4
  <2>2. CASE ns = 1
    BY <1>1, <2>2 DEF frac_ns
  <2>3. CASE ns = 0
    <3>1. F = frac * NS_PER_US
      BY <2>3
    <3> HIDE DEF F
    <3>2. F % U64 = F
      BY <1>3, <1>4, <2>1
    <3> QED BY <2>3, <3>1, <3>2 DEF frac_ns
  <2> QED BY <2>2, <2>3
<1>6. S % U64 = S /\ (S + F) % U64 = S + F
  <2> HIDE DEF S, F
  <2> QED BY <1>2, <1>3, <1>4
<1> QED BY <1>5, <1>6 DEF ts_ns

-----------------------------------------------------------------------------
(***************************************************************************)
(* Fields in a header                                                      *)
(***************************************************************************)
\* The bytes b lie in p at offset o.
Lies(p, o, b) == o + Len(b) <= Len(p) /\ \A n \in 1 .. Len(b) : p[o + n] = b[n]

\* Bytes stay where they lie when more are written, and the new ones lie behind.
LEMMA Appended ==
    ASSUME NEW p \in Seq(Digit), NEW c \in Seq(Digit)
    PROVE  /\ p \o c \in Seq(Digit) /\ Len(p \o c) = Len(p) + Len(c)
           /\ Lies(p \o c, Len(p), c)
           /\ \A o \in Nat, b \in Seq(Digit) : Lies(p, o, b) => Lies(p \o c, o, b)
<1>1. /\ p \o c \in Seq(Digit) /\ Len(p \o c) = Len(p) + Len(c)
      /\ \A k \in 1 .. Len(p) + Len(c) : (p \o c)[k] = IF k <= Len(p) THEN p[k]
                                                     ELSE c[k - Len(p)]
  BY ConcatProperties
<1>2. Len(p) \in Nat /\ Len(c) \in Nat
  OBVIOUS
<1> DEFINE q == p \o c
<1> HIDE DEF q
<1>3. Lies(q, Len(p), c)
  BY <1>1, <1>2 DEF Lies, q
<1>4. ASSUME NEW o \in Nat, NEW b \in Seq(Digit), Lies(p, o, b)
      PROVE  Lies(q, o, b)
  <2>1. Len(b) \in Nat /\ o + Len(b) <= Len(p)
    BY <1>4 DEF Lies
  <2>2. o + Len(b) <= Len(q)
    BY <1>1, <1>2, <2>1 DEF q
  <2>3. ASSUME NEW n \in 1 .. Len(b)
        PROVE  q[o + n] = b[n]
    <3>1. o + n \in 1 .. Len(p) + Len(c) /\ o + n <= Len(p)
      BY <1>2, <2>1
    <3>2. q[o + n] = p[o + n]
      BY <1>1, <3>1 DEF q
    <3> QED BY <1>4, <3>2 DEF Lies
  <2> QED BY <2>2, <2>3 DEF Lies
<1> QED BY <1>1, <1>3, <1>4 DEF q

\* The same, with the lengths named, for the next field of a header.
LEMMA NextField ==
    ASSUME NEW k \in Nat, NEW m \in Nat, NEW p \in Seq(Digit), NEW c \in Seq(Digit),
           Len(p) = k, Len(c) = m
    PROVE  /\ p \o c \in Seq(Digit) /\ Len(p \o c) = k + m /\ Lies(p \o c, k, c)
BY Appended

\* A field stays where it lies when others follow it.
LEMMA KeptField ==
    ASSUME NEW p \in Seq(Digit), NEW c \in Seq(Digit), NEW o \in Nat,
           NEW b \in Seq(Digit), Lies(p, o, b)
    PROVE  Lies(p \o c, o, b)
BY Appended

\* A stored number that lies at o is loaded from o.
LEMMA LoadsField32 ==
    ASSUME NEW v \in Word, NEW be \in {0, 1}, NEW p, NEW o \in Nat,
           Lies(p, o, bb_u32(v, be))
    PROVE  rd32(p, o, be) = v
<1>1. \A n \in 1 .. 4 : p[o + n] = bb_u32(v, be)[n]
  BY Stored32 DEF Lies
<1> QED BY <1>1, Loaded32

\* A field of two bytes loads as what was stored.
LEMMA LoadsField16 ==
    ASSUME NEW v \in Half, NEW be \in {0, 1}, NEW p, NEW o \in Nat,
           Lies(p, o, bb_u16(v, be))
    PROVE  rd16(p, o, be) = v
<1>1. \A n \in 1 .. 2 : p[o + n] = bb_u16(v, be)[n]
  BY Stored16 DEF Lies
<1> QED BY <1>1, Loaded16

\* The header that pcap_put_record() writes.
RecordHeader(r, be) == bb_u32(r.sec, be) \o bb_u32(r.frac, be)
                       \o bb_u32(r.caplen, be) \o bb_u32(r.wirelen, be)

\* Where the fields of a record header lie.
LEMMA RecordFields ==
    ASSUME NEW r \in Records, NEW be \in {0, 1}
    PROVE  LET h == RecordHeader(r, be) IN
           /\ rd32(h, 0, be) = r.sec /\ rd32(h, 4, be) = r.frac
           /\ rd32(h, 8, be) = r.caplen /\ rd32(h, 12, be) = r.wirelen
<1> DEFINE a == bb_u32(r.sec, be)      b == bb_u32(r.frac, be)
           c == bb_u32(r.caplen, be)   d == bb_u32(r.wirelen, be)
<1>1. r.sec \in Word /\ r.frac \in Word /\ r.caplen \in Word /\ r.wirelen \in Word
  BY FieldsAssumption DEF Word
<1>2. /\ a \in Seq(Digit) /\ b \in Seq(Digit) /\ c \in Seq(Digit) /\ d \in Seq(Digit)
      /\ Len(a) = 4 /\ Len(b) = 4 /\ Len(c) = 4 /\ Len(d) = 4
  BY <1>1, Stored32
<1>3. RecordHeader(r, be) = ((a \o b) \o c) \o d
  BY DEF RecordHeader
<1> HIDE DEF a, b, c, d
<1> DEFINE ab == a \o b   abc == ab \o c   h == abc \o d
<1>4. Lies(a, 0, a)
  BY <1>2 DEF Lies
<1>5. ab \in Seq(Digit) /\ Len(ab) = 4 + 4 /\ Lies(ab, 4, b) /\ Lies(ab, 0, a)
  <2>1. ab \in Seq(Digit) /\ Len(ab) = 4 + 4 /\ Lies(ab, 4, b)
    BY <1>2, NextField
  <2> QED BY <1>2, <1>4, <2>1, KeptField
<1> HIDE DEF ab
<1>6. abc \in Seq(Digit) /\ Len(abc) = 8 + 4 /\ Lies(abc, 8, c)
      /\ Lies(abc, 0, a) /\ Lies(abc, 4, b)
  <2>1. Len(ab) = 8
    BY <1>5
  <2>2. abc \in Seq(Digit) /\ Len(abc) = 8 + 4 /\ Lies(abc, 8, c)
    BY <1>2, <1>5, <2>1, NextField
  <2> QED BY <1>2, <1>5, <2>2, KeptField
<1> HIDE DEF abc
<1>7. Lies(h, 12, d) /\ Lies(h, 0, a) /\ Lies(h, 4, b) /\ Lies(h, 8, c)
  <2>1. Len(abc) = 12
    BY <1>6
  <2>2. Lies(h, 12, d)
    BY <1>2, <1>6, <2>1, NextField
  <2> QED BY <1>2, <1>6, <2>2, KeptField
<1> HIDE DEF h
<1>8. /\ rd32(h, 0, be) = r.sec /\ rd32(h, 4, be) = r.frac
      /\ rd32(h, 8, be) = r.caplen /\ rd32(h, 12, be) = r.wirelen
  BY <1>1, <1>7, LoadsField32 DEF a, b, c, d
<1> QED BY <1>3, <1>8 DEF ab, abc, h

\* The header that pcap_put_global() writes.
GlobalHeader(w) == bb_u32(w.magic, w.be) \o bb_u16(w.major, w.be) \o bb_u16(w.minor, w.be)
                   \o bb_u32(0, w.be) \o bb_u32(0, w.be)
                   \o bb_u32(w.snaplen, w.be) \o bb_u32(w.linktype, w.be)

\* Where the fields of the global header lie.
LEMMA GlobalFields ==
    ASSUME NEW w \in Writers
    PROVE  LET h == GlobalHeader(w) IN
           /\ Lies(h, 0, bb_u32(w.magic, w.be))
           /\ rd16(h, 4, w.be) = w.major /\ rd16(h, 6, w.be) = w.minor
           /\ rd32(h, 16, w.be) = w.snaplen /\ rd32(h, 20, w.be) = w.linktype
<1> DEFINE a == bb_u32(w.magic, w.be)    b == bb_u16(w.major, w.be)
           c == bb_u16(w.minor, w.be)    z == bb_u32(0, w.be)
           d == bb_u32(w.snaplen, w.be)  e == bb_u32(w.linktype, w.be)
<1>1. /\ w.magic \in Word /\ w.snaplen \in Word /\ w.linktype \in Word
      /\ w.major \in Half /\ w.minor \in Half /\ w.be \in {0, 1}
  BY FieldsAssumption DEF Word, Half
<1>2. 0 \in Word
  BY <1>1, WidthAssumption DEF Word, U32
<1>3. /\ a \in Seq(Digit) /\ b \in Seq(Digit) /\ c \in Seq(Digit) /\ z \in Seq(Digit)
      /\ d \in Seq(Digit) /\ e \in Seq(Digit)
      /\ Len(a) = 4 /\ Len(b) = 2 /\ Len(c) = 2 /\ Len(z) = 4 /\ Len(d) = 4 /\ Len(e) = 4
  BY <1>1, <1>2, Stored32, Stored16
<1>4. GlobalHeader(w) = (((((a \o b) \o c) \o z) \o z) \o d) \o e
  BY DEF GlobalHeader
<1> HIDE DEF a, b, c, z, d, e
<1> DEFINE h1 == a \o b   h2 == h1 \o c   h3 == h2 \o z   h4 == h3 \o z
           h5 == h4 \o d  h == h5 \o e
<1>5. Lies(a, 0, a)
  BY <1>3 DEF Lies
<1>6. h1 \in Seq(Digit) /\ Len(h1) = 4 + 2 /\ Lies(h1, 4, b) /\ Lies(h1, 0, a)
  <2>1. h1 \in Seq(Digit) /\ Len(h1) = 4 + 2 /\ Lies(h1, 4, b)
    BY <1>3, NextField
  <2> QED BY <1>3, <1>5, <2>1, KeptField
<1> HIDE DEF h1
<1>7. h2 \in Seq(Digit) /\ Len(h2) = 6 + 2 /\ Lies(h2, 6, c)
      /\ Lies(h2, 0, a) /\ Lies(h2, 4, b)
  <2>1. Len(h1) = 6
    BY <1>6
  <2>2. h2 \in Seq(Digit) /\ Len(h2) = 6 + 2 /\ Lies(h2, 6, c)
    BY <1>3, <1>6, <2>1, NextField
  <2> QED BY <1>3, <1>6, <2>2, KeptField
<1> HIDE DEF h2
<1>8. h3 \in Seq(Digit) /\ Len(h3) = 8 + 4 /\ Lies(h3, 8, z)
      /\ Lies(h3, 0, a) /\ Lies(h3, 4, b) /\ Lies(h3, 6, c)
  <2>1. Len(h2) = 8
    BY <1>7
  <2>2. h3 \in Seq(Digit) /\ Len(h3) = 8 + 4 /\ Lies(h3, 8, z)
    BY <1>3, <1>7, <2>1, NextField
  <2> QED BY <1>3, <1>7, <2>2, KeptField
<1> HIDE DEF h3
<1>9. h4 \in Seq(Digit) /\ Len(h4) = 12 + 4 /\ Lies(h4, 12, z)
      /\ Lies(h4, 0, a) /\ Lies(h4, 4, b) /\ Lies(h4, 6, c)
  <2>1. Len(h3) = 12
    BY <1>8
  <2>2. h4 \in Seq(Digit) /\ Len(h4) = 12 + 4 /\ Lies(h4, 12, z)
    BY <1>3, <1>8, <2>1, NextField
  <2> QED BY <1>3, <1>8, <2>2, KeptField
<1> HIDE DEF h4
<1>10. h5 \in Seq(Digit) /\ Len(h5) = 16 + 4 /\ Lies(h5, 16, d)
      /\ Lies(h5, 0, a) /\ Lies(h5, 4, b) /\ Lies(h5, 6, c)
  <2>1. Len(h4) = 16
    BY <1>9
  <2>2. h5 \in Seq(Digit) /\ Len(h5) = 16 + 4 /\ Lies(h5, 16, d)
    BY <1>3, <1>9, <2>1, NextField
  <2> QED BY <1>3, <1>9, <2>2, KeptField
<1> HIDE DEF h5
<1>11. /\ Lies(h, 20, e) /\ Lies(h, 16, d)
       /\ Lies(h, 0, a) /\ Lies(h, 4, b) /\ Lies(h, 6, c)
  <2>1. Len(h5) = 20
    BY <1>10
  <2>2. Lies(h, 20, e)
    BY <1>3, <1>10, <2>1, NextField
  <2> QED BY <1>3, <1>10, <2>2, KeptField
<1> HIDE DEF h
<1>12. /\ rd16(h, 4, w.be) = w.major /\ rd16(h, 6, w.be) = w.minor
  BY <1>1, <1>11, LoadsField16 DEF b, c
<1>13. /\ rd32(h, 16, w.be) = w.snaplen /\ rd32(h, 20, w.be) = w.linktype
  BY <1>1, <1>11, LoadsField32 DEF d, e
<1> QED BY <1>4, <1>11, <1>12, <1>13 DEF h1, h2, h3, h4, h5, h, a

-----------------------------------------------------------------------------
(***************************************************************************)
(* The magic                                                               *)
(***************************************************************************)
\* The digits of four bytes are these bytes.
LEMMA BytesOf ==
    ASSUME NEW b1 \in Digit, NEW b2 \in Digit, NEW b3 \in Digit, NEW b4 \in Digit
    PROVE  bytes32(((b4 * BYTE + b3) * BYTE + b2) * BYTE + b1) = <<b1, b2, b3, b4>>
<1> DEFINE x3 == b4   x2 == x3 * BYTE + b3   x1 == x2 * BYTE + b2   x0 == x1 * BYTE + b1
<1>1. BYTE \in Nat \ {0} /\ Digit = 0 .. BYTE - 1
  BY WidthAssumption DEF Digit
<1>2. x3 \in Nat /\ x3 % BYTE = b4
  BY <1>1
<1>3. x2 \in Nat /\ shifted(x2) = x3 /\ x2 % BYTE = b3
  BY <1>1, <1>2, Divided DEF shifted
<1> HIDE DEF x2, x3
<1>4. x1 \in Nat /\ shifted(x1) = x2 /\ x1 % BYTE = b2
  BY <1>1, <1>3, Divided DEF shifted
<1> HIDE DEF x1
<1>5. shifted(x0) = x1 /\ x0 % BYTE = b1
  BY <1>1, <1>4, Divided DEF shifted
<1> HIDE DEF x0
<1>6. bytes32(x0) = <<b1, b2, b3, b4>>
  BY <1>2, <1>3, <1>4, <1>5 DEF bytes32
<1> QED BY <1>6 DEF x0, x1, x2, x3

\* Swapping the bytes twice gives the number back.
LEMMA SwappedTwice ==
    ASSUME NEW v \in Word
    PROVE  swapped(swapped(v)) = v
<1> DEFINE b == bytes32(v)
<1>1. /\ b[1] \in Digit /\ b[2] \in Digit /\ b[3] \in Digit /\ b[4] \in Digit
      /\ v = ((b[4] * BYTE + b[3]) * BYTE + b[2]) * BYTE + b[1]
  BY Bytes32
<1>2. bb_u32(v, 1) = <<b[4], b[3], b[2], b[1]>>
  BY DEF bb_u32
<1> HIDE DEF b
<1>3. swapped(v) = ((b[1] * BYTE + b[2]) * BYTE + b[3]) * BYTE + b[4]
  BY <1>2 DEF swapped, load_le32
<1>4. bytes32(swapped(v)) = <<b[4], b[3], b[2], b[1]>>
  BY <1>1, <1>3, BytesOf
<1>5. bb_u32(swapped(v), 1) = <<b[1], b[2], b[3], b[4]>>
  BY <1>4 DEF bb_u32
<1> QED BY <1>1, <1>5 DEF swapped, load_le32

\* What the reader loads first, in its own byte order.
LEMMA LoadedMagic ==
    ASSUME NEW w \in Writers
    PROVE  load_le32(GlobalHeader(w), 0) = IF w.be = 1 THEN swapped(w.magic) ELSE w.magic
<1> DEFINE h == GlobalHeader(w)
<1>1. Lies(h, 0, bb_u32(w.magic, w.be))
  BY GlobalFields
<1>2. w.magic \in Word /\ w.be \in {0, 1}
  BY FieldsAssumption DEF Word
<1> HIDE DEF h
<1>3. CASE w.be = 0
  <2>1. rd32(h, 0, 0) = w.magic
    BY <1>1, <1>2, <1>3, LoadsField32
  <2> QED BY <1>3, <2>1 DEF rd32, h
<1>4. CASE w.be = 1
  <2>1. \A n \in 1 .. 4 : h[0 + n] = bb_u32(w.magic, 1)[n]
    BY <1>1, <1>2, <1>4, Stored32 DEF Lies
  <2>2. /\ h[0 + 1] = bb_u32(w.magic, 1)[0 + 1] /\ h[0 + 2] = bb_u32(w.magic, 1)[0 + 2]
        /\ h[0 + 3] = bb_u32(w.magic, 1)[0 + 3] /\ h[0 + 4] = bb_u32(w.magic, 1)[0 + 4]
    BY <2>1
  <2> QED BY <1>4, <2>2 DEF swapped, load_le32, h
<1> QED BY <1>2, <1>3, <1>4

\* A magic tells the byte order and the unit, and only a magic passes for one.
LEMMA MagicTells ==
    ASSUME NEW w \in Writers
    PROVE  LET magic == load_le32(GlobalHeader(w), 0) IN
           /\ is_magic(magic) <=> w.magic \in {MAGIC_USEC, MAGIC_NSEC}
           /\ is_magic(magic) => /\ big_endian(magic) = w.be
                                 /\ (nsec(magic) = 1) <=> (w.magic = MAGIC_NSEC)
<1> DEFINE magic == load_le32(GlobalHeader(w), 0)
<1>1. /\ w.magic \in Word /\ w.be \in {0, 1} /\ MAGIC_USEC \in Word /\ MAGIC_NSEC \in Word
      /\ w.magic \notin {MAGIC_USEC_SWAPPED, MAGIC_NSEC_SWAPPED}
  BY FieldsAssumption, MagicAssumption DEF Word
<1>2. magic = IF w.be = 1 THEN swapped(w.magic) ELSE w.magic
  BY LoadedMagic
<1>3. /\ swapped(swapped(w.magic)) = w.magic
      /\ swapped(MAGIC_USEC_SWAPPED) = MAGIC_USEC /\ swapped(MAGIC_NSEC_SWAPPED) = MAGIC_NSEC
  BY <1>1, MagicAssumption, SwappedTwice
<1> HIDE DEF magic
<1>4. CASE w.be = 0
  BY <1>1, <1>2, <1>4, MagicAssumption DEF is_magic, big_endian, nsec, magic
<1>5. CASE w.be = 1
  <2>1. magic = swapped(w.magic)
    BY <1>2, <1>5
  <2>2. magic \notin {MAGIC_USEC, MAGIC_NSEC}
    BY <1>1, <1>3, <2>1, MagicAssumption
  <2>3. /\ magic = MAGIC_USEC_SWAPPED <=> w.magic = MAGIC_USEC
        /\ magic = MAGIC_NSEC_SWAPPED <=> w.magic = MAGIC_NSEC
    BY <1>3, <2>1, MagicAssumption
  <2> QED BY <1>5, <2>2, <2>3, MagicAssumption DEF is_magic, big_endian, nsec, magic
<1> QED BY <1>1, <1>4, <1>5

-----------------------------------------------------------------------------
(***************************************************************************)
(* The inductive invariant                                                 *)
(***************************************************************************)
Learnt == info.big_endian = writer.be /\ info.nsec \in {0, 1}

\* The header is what was written, and once it is accepted the byte order is known.
IInv ==
    /\ pc \in {"write", "global", "record", "header", "read", "refused"}
    /\ pc # "write" => writer \in Writers
    /\ pc = "global" => hdr = GlobalHeader(writer)
    /\ pc \in {"record", "header"} => Learnt
    /\ pc = "header" => record \in Records /\ hdr = RecordHeader(record, writer.be)
    /\ HeaderReadsBack
    /\ RecordReadsBack

\* Parsing the global header learns the byte order and the unit of its writer.
LEMMA GlobalParsed ==
    ASSUME IInv, pcap_parse_global_header
    PROVE  IInv'
<1> DEFINE magic == load_le32(hdr, 0)
           f == parsed_info(big_endian(magic), nsec(magic))
<1>1. pc = "global" /\ writer \in Writers /\ hdr = GlobalHeader(writer)
  BY DEF IInv, pcap_parse_global_header
<1>2. /\ is_magic(magic) <=> writer.magic \in {MAGIC_USEC, MAGIC_NSEC}
      /\ is_magic(magic) => /\ big_endian(magic) = writer.be
                            /\ (nsec(magic) = 1) <=> (writer.magic = MAGIC_NSEC)
  BY <1>1, MagicTells
<1>3. /\ rd16(hdr, 4, writer.be) = writer.major /\ rd16(hdr, 6, writer.be) = writer.minor
      /\ rd32(hdr, 16, writer.be) = writer.snaplen
      /\ rd32(hdr, 20, writer.be) = writer.linktype
  BY <1>1, GlobalFields
<1>4. nsec(magic) \in {0, 1}
  BY DEF nsec
<1>5. /\ info' = IF is_magic(magic) THEN f ELSE NoInfo
      /\ pc' = IF status' = "OK" THEN "record" ELSE "refused"
      /\ status' = "OK" => is_magic(magic)
      /\ UNCHANGED <<hdr, rec, writer, record>>
  BY DEF pcap_parse_global_header
<1>6. f = [big_endian |-> big_endian(magic), nsec |-> nsec(magic),
           major |-> rd16(hdr, 4, big_endian(magic)),
           minor |-> rd16(hdr, 6, big_endian(magic)),
           snaplen |-> rd32(hdr, 16, big_endian(magic)),
           linktype |-> rd32(hdr, 20, big_endian(magic)) % LINKTYPE_SPAN]
  BY DEF parsed_info
<1> HIDE DEF magic, f
<1>7. CASE is_magic(magic)
  <2>1. /\ info'.big_endian = writer.be /\ info'.nsec = nsec(magic)
        /\ info'.major = writer.major /\ info'.minor = writer.minor
        /\ info'.snaplen = writer.snaplen
        /\ info'.linktype = writer.linktype % LINKTYPE_SPAN
    BY <1>2, <1>3, <1>5, <1>6, <1>7
  <2>2. HeaderReadsBack' /\ Learnt'
    BY <1>2, <1>4, <1>5, <1>7, <2>1 DEF HeaderReadsBack, Learnt
  <2> QED BY <1>1, <1>5, <2>2 DEF IInv, RecordReadsBack
<1>8. CASE ~is_magic(magic)
  <2>1. pc' = "refused"
    BY <1>5, <1>8
  <2> QED BY <1>1, <1>2, <1>5, <1>8, <2>1 DEF IInv, HeaderReadsBack, RecordReadsBack
<1> QED BY <1>7, <1>8

\* Parsing a record header gives the fields that were written.
LEMMA RecordParsed ==
    ASSUME IInv, pcap_parse_record_header
    PROVE  IInv'
<1>1. /\ pc = "header" /\ writer \in Writers /\ Learnt /\ record \in Records
      /\ hdr = RecordHeader(record, writer.be) /\ HeaderReadsBack
  BY DEF IInv, pcap_parse_record_header
<1>2. UNCHANGED <<hdr, info, writer, record>> /\ pc' \in {"read", "refused"}
  BY DEF pcap_parse_record_header
<1>3. HeaderReadsBack'
  BY <1>1, <1>2 DEF HeaderReadsBack
<1>4. writer.be \in {0, 1} /\ info.big_endian = writer.be /\ info.nsec \in {0, 1}
  BY <1>1, FieldsAssumption DEF Learnt
<1>5. /\ record.sec \in Word /\ record.frac \in Word
      /\ record.caplen \in Word /\ record.wirelen \in Word
  BY <1>1, FieldsAssumption DEF Word
<1> DEFINE sec == rd32(hdr, 0, info.big_endian)     frac == rd32(hdr, 4, info.big_endian)
           caplen == rd32(hdr, 8, info.big_endian)  wirelen == rd32(hdr, 12, info.big_endian)
           unit == IF info.nsec = 1 THEN 1 ELSE NS_PER_US
<1>6. sec = record.sec /\ frac = record.frac /\ caplen = record.caplen
      /\ wirelen = record.wirelen
  BY <1>1, <1>4, RecordFields
<1>7. RecordReadsBack'
  <2>1. CASE pc' = "refused"
    BY <2>1 DEF RecordReadsBack
  <2>2. CASE pc' = "read"
    <3>1. rec' = [caplen |-> caplen,
                  wirelen |-> IF wirelen < caplen THEN caplen ELSE wirelen,
                  ts |-> ts_ns(sec, frac, info.nsec)]
      BY <2>2 DEF pcap_parse_record_header
    <3> HIDE DEF sec, frac, caplen, wirelen, unit
    <3>2. /\ rec'.caplen = record.caplen
          /\ rec'.wirelen = IF record.wirelen < record.caplen THEN record.caplen
                            ELSE record.wirelen
          /\ rec'.ts = ts_ns(record.sec, record.frac, info.nsec)
      BY <1>6, <3>1
    <3>3. rec'.ts = record.sec * NS_PER_SEC + record.frac * unit
      BY <1>4, <1>5, <3>2, TimestampNeverWraps DEF unit
    <3>4. ASSUME record.frac * unit < NS_PER_SEC
          PROVE  (rec'.ts \div NS_PER_SEC) = record.sec
      <4> DEFINE x == record.sec   d == record.frac * unit
      <4>1. unit \in Nat
        BY WidthAssumption DEF unit
      <4>2. record.frac \in Nat /\ x \in Nat
        BY <1>5 DEF Word
      <4>3. d \in 0 .. NS_PER_SEC - 1 /\ NS_PER_SEC \in Nat \ {0}
        BY <3>4, <4>1, <4>2, WidthAssumption
      <4> HIDE DEF x, d
      <4>4. (x * NS_PER_SEC + d) \div NS_PER_SEC = x
        BY <4>2, <4>3, Divided
      <4> QED BY <3>3, <4>4 DEF x, d
    <3> QED BY <1>2, <3>2, <3>3, <3>4 DEF RecordReadsBack, unit
  <2> QED BY <1>2, <2>1, <2>2
<1> QED BY <1>1, <1>2, <1>3, <1>7 DEF IInv

\* The invariant holds in every state.
LEMMA Invariant == Spec => []IInv
<1>1. Init => IInv
  BY DEF Init, IInv, HeaderReadsBack, RecordReadsBack
<1>2. ASSUME IInv, [Next]_vars PROVE IInv'
  <2>1. CASE \E w \in Writers : pcap_put_global(w)
    <3>1. PICK w \in Writers : pcap_put_global(w)
      BY <2>1
    <3>2. pc' = "global" /\ writer' = w /\ hdr' = GlobalHeader(w)
      BY <3>1 DEF pcap_put_global, GlobalHeader
    <3> QED BY <3>2 DEF IInv, HeaderReadsBack, RecordReadsBack
  <2>2. CASE pcap_parse_global_header
    BY <1>2, <2>2, GlobalParsed
  <2>3. CASE \E r \in Records : pcap_put_record(r)
    <3>1. PICK r \in Records : pcap_put_record(r)
      BY <2>3
    <3>2. /\ pc = "record" /\ pc' = "header" /\ record' = r
          /\ hdr' = RecordHeader(r, writer.be) /\ UNCHANGED <<info, rec, status, writer>>
      BY <3>1 DEF pcap_put_record, RecordHeader
    <3> QED BY <1>2, <3>2 DEF IInv, Learnt, HeaderReadsBack, RecordReadsBack
  <2>4. CASE pcap_parse_record_header
    BY <1>2, <2>4, RecordParsed
  <2>5. CASE UNCHANGED vars
    BY <1>2, <2>5 DEF vars, IInv, Learnt, HeaderReadsBack, RecordReadsBack
  <2> QED BY <1>2, <2>1, <2>2, <2>3, <2>4, <2>5 DEF Next
<1> QED BY <1>1, <1>2, PTL DEF Spec

\* For every base, width, magic and header: pcap_parse_global_header() learns the
\* byte order of the writer and reads every field as it was written.
THEOREM HeadersReadBack == Spec => []HeaderReadsBack
<1>1. IInv => HeaderReadsBack
  BY DEF IInv
<1> QED BY <1>1, Invariant, PTL

\* The same for pcap_parse_record_header(), whose timestamp never wraps.
THEOREM RecordsReadBack == Spec => []RecordReadsBack
<1>1. IInv => RecordReadsBack
  BY DEF IInv
<1> QED BY <1>1, Invariant, PTL
=============================================================================
