--------------------------- MODULE AnalysisProofs ---------------------------
(***************************************************************************)
(* The five invariants of the accounting pipeline, for every capture, every *)
(* hash of the fragment cache and every place where memory runs out.  They  *)
(* are proved together, as parts of the inductive invariant IInv:           *)
(*                                                                         *)
(*   - what one packet adds to the counters (GtpuStep, StatsStep), along    *)
(*     every early return of stats_add() and add_gtpu();                    *)
(*   - that the sums in CountersAddUp grow alike;                           *)
(*   - what a slot of the fragment cache holds (CacheHoldsLatest), without  *)
(*     which nothing could be said of a later fragment;                     *)
(*   - that either table is a summary of the packets that go into it, one   *)
(*     packet at a time, and which packets those are.                       *)
(***************************************************************************)
EXTENDS Analysis, FiniteProofs

\* The types of struct gtpu_stats and struct stats.
GtpuStats ==
    [packets : Nat, fragmented : Nat, not_v1u : Nat,
     by_type : [GtpMsgTypes -> Nat], with_seq : Nat, with_ext : Nat,
     inner_ip : [Versions -> Nat], inner_l4 : [L4Proto -> Nat], nested : Nat,
     truncated : Nat, malformed : Nat, user_truncated : Nat, user_malformed : Nat,
     by_status : [decode_status -> Nat]]

StatsType ==
    [packets : Nat, wire_bytes : Nat, captured_bytes : Nat,
     first_ts : Nat, last_ts : Nat, ip : [Versions -> Nat], non_ip : Nat,
     vlan_tagged : Nat, l4 : [L4Proto -> Nat],
     frag_first : Nat, frag_later : Nat, frag_matched : Nat,
     truncated : Nat, malformed : Nat, by_status : [decode_status -> Nat],
     gtpu : GtpuStats]

\* The packets that Analysis is given, before and after attribution.
Good(pi) ==
    /\ pi \in Packet /\ Consistent(pi)
    /\ pi.gtp.has_inner = 1 => pi.inner_version \in Versions
    /\ pi.gtp.nested = 1 => pi.inner_proto = "udp"
    /\ pi.status = "OK" => flow_add(pi).flags = pi.tcp_flags

\* A counter of the array f that grows by n.
Plus(f, x, n) == [f EXCEPT ![x] = @ + n]

\* A counter that grows by n adds n to every sum that it is a term of.
LEMMA PlusTotal ==
    ASSUME NEW D, NEW S, S \subseteq D, IsFiniteSet(S),
           NEW f \in [D -> Nat], NEW x \in D, NEW n \in Nat
    PROVE  /\ Plus(f, x, n) \in [D -> Nat]
           /\ TotalOver(f, S) \in Int
           /\ TotalOver(Plus(f, x, n), S) = TotalOver(f, S) + (IF x \in S THEN n ELSE 0)
<1> DEFINE g == Plus(f, x, n)
<1>1. g \in [D -> Nat] /\ g[x] = f[x] + n /\ \A y \in D : y # x => g[y] = f[y]
  BY DEF Plus
<1> HIDE DEF g
<1>2. /\ \A y \in S : f[y] \in Int /\ g[y] \in Int
      /\ \A y \in S : y # x => g[y] = f[y]
      /\ \A y \in S : f[y] \in Int
  BY <1>1
<1>3. TotalOver(f, S) \in Int
  BY <1>2, TotalTake
<1>4. TotalOver(g, S) = TotalOver(f, S) + (IF x \in S THEN g[x] - f[x] ELSE 0)
  BY <1>2, TotalStep
<1>5. TotalOver(g, S) = TotalOver(f, S) + (IF x \in S THEN n ELSE 0)
  BY <1>1, <1>3, <1>4
<1> QED BY <1>1, <1>3, <1>5 DEF g

\* The fields that count_verdict() assigns keep their types.
LEMMA VerdictType ==
    ASSUME NEW g \in GtpuStats, NEW n \in Nat, NEW f \in [decode_status -> Nat],
           NEW a \in Nat, NEW b \in Nat, NEW c \in Nat, NEW d \in Nat
    PROVE  [g EXCEPT !.packets = n, !.by_status = f, !.truncated = a, !.user_truncated = b,
                     !.malformed = c, !.user_malformed = d] \in GtpuStats
BY DEF GtpuStats

\* count_verdict() counts this, whatever the status of the message.
LEMMA VerdictFields ==
    ASSUME NEW g \in GtpuStats, NEW pi \in Packet
    PROVE  LET h == count_verdict(g, pi)
               cut == pi.gtp_status \in Truncations
               bad == pi.gtp_status \notin Truncations \cup {"OK"}
               user == pi.gtp.msg_ok = 1 IN
           /\ h \in GtpuStats
           /\ h.packets = g.packets + 1
           /\ h.by_status = Plus(g.by_status, pi.gtp_status, 1)
           /\ h.truncated = g.truncated + One(cut)
           /\ h.user_truncated = g.user_truncated + One(cut /\ user)
           /\ h.malformed = g.malformed + One(bad)
           /\ h.user_malformed = g.user_malformed + One(bad /\ user)
           /\ h.fragmented = g.fragmented /\ h.not_v1u = g.not_v1u
           /\ h.by_type = g.by_type /\ h.nested = g.nested
           /\ h.inner_ip = g.inner_ip /\ h.inner_l4 = g.inner_l4
<1> DEFINE h == count_verdict(g, pi)
           cut == pi.gtp_status \in Truncations
           bad == pi.gtp_status \notin Truncations \cup {"OK"}
           user == pi.gtp.msg_ok = 1
<1>0. pi.gtp_status \in decode_status
  BY DEF Packet
<1>1. h = [g EXCEPT !.packets = g.packets + 1,
              !.by_status = Plus(g.by_status, pi.gtp_status, 1),
              !.truncated = g.truncated + One(cut),
              !.user_truncated = g.user_truncated + One(cut /\ user),
              !.malformed = g.malformed + One(bad),
              !.user_malformed = g.user_malformed + One(bad /\ user)]
  BY DEF count_verdict, GtpuStats, Plus, is_malformation, decode_status_is_truncation
<1> HIDE DEF h, cut, bad, user
<1>2. /\ h.packets = g.packets + 1
           /\ h.by_status = Plus(g.by_status, pi.gtp_status, 1)
           /\ h.truncated = g.truncated + One(cut)
           /\ h.user_truncated = g.user_truncated + One(cut /\ user)
           /\ h.malformed = g.malformed + One(bad)
           /\ h.user_malformed = g.user_malformed + One(bad /\ user)
           /\ h.fragmented = g.fragmented /\ h.not_v1u = g.not_v1u
           /\ h.by_type = g.by_type /\ h.nested = g.nested
           /\ h.inner_ip = g.inner_ip /\ h.inner_l4 = g.inner_l4
  BY <1>1 DEF GtpuStats
<1>3. h \in GtpuStats
  <2>1. Plus(g.by_status, pi.gtp_status, 1) \in [decode_status -> Nat]
    BY <1>0 DEF GtpuStats, Plus
  <2>2. /\ One(cut) \in Nat /\ One(bad) \in Nat /\ One(cut /\ user) \in Nat
        /\ One(bad /\ user) \in Nat
    BY DEF One
  <2>3. /\ g.packets + 1 \in Nat /\ g.truncated + One(cut) \in Nat
        /\ g.user_truncated + One(cut /\ user) \in Nat
        /\ g.malformed + One(bad) \in Nat /\ g.user_malformed + One(bad /\ user) \in Nat
    BY <2>2 DEF GtpuStats
  <2> DEFINE n == g.packets + 1
             f == Plus(g.by_status, pi.gtp_status, 1)
             a == g.truncated + One(cut)
             b == g.user_truncated + One(cut /\ user)
             c == g.malformed + One(bad)
             d == g.user_malformed + One(bad /\ user)
  <2>4. h = [g EXCEPT !.packets = n, !.by_status = f, !.truncated = a, !.user_truncated = b,
                      !.malformed = c, !.user_malformed = d]
    BY <1>1
  <2>5. n \in Nat /\ f \in [decode_status -> Nat] /\ a \in Nat /\ b \in Nat /\ c \in Nat
        /\ d \in Nat
    BY <2>1, <2>3
  <2> HIDE DEF n, f, a, b, c, d
  <2> QED BY <2>4, <2>5, VerdictType
<1> QED BY <1>2, <1>3 DEF h, cut, bad, user

\* The fields that count_message() assigns keep their types.
LEMMA MessageType ==
    ASSUME NEW g \in GtpuStats, NEW f \in [GtpMsgTypes -> Nat], NEW a \in Nat, NEW b \in Nat
    PROVE  [g EXCEPT !.by_type = f, !.with_seq = a, !.with_ext = b] \in GtpuStats
BY DEF GtpuStats

\* count_message() counts the type of a GTPv1-U message, and touches no verdict.
LEMMA MessageFields ==
    ASSUME NEW g \in GtpuStats, NEW pi \in Packet, pi.gtp.msg_type \in GtpMsgTypes
    PROVE  LET h == count_message(g, pi) IN
           /\ h \in GtpuStats
           /\ h.by_type = Plus(g.by_type, pi.gtp.msg_type, 1)
           /\ \A x \in {"packets", "truncated", "user_truncated", "malformed", "user_malformed",
                   "fragmented", "not_v1u", "nested", "by_status", "inner_ip", "inner_l4"} :
                h[x] = g[x]
<1> DEFINE h == count_message(g, pi)
<1>0. pi.seq \in {0, 1}
  BY DEF Packet, Flag
<1>1. h = [g EXCEPT !.by_type = Plus(g.by_type, pi.gtp.msg_type, 1),
              !.with_seq = g.with_seq + pi.seq,
              !.with_ext = g.with_ext + One(pi.gtp.ext_count > 0)]
  BY DEF count_message, GtpuStats, Plus
<1> HIDE DEF h
<1>2. /\ h.by_type = Plus(g.by_type, pi.gtp.msg_type, 1)
           /\ \A x \in {"packets", "truncated", "user_truncated", "malformed", "user_malformed",
                   "fragmented", "not_v1u", "nested", "by_status", "inner_ip", "inner_l4"} :
                h[x] = g[x]
  BY <1>1 DEF GtpuStats
<1>3. h \in GtpuStats
  <2>1. Plus(g.by_type, pi.gtp.msg_type, 1) \in [GtpMsgTypes -> Nat]
    BY <1>0 DEF GtpuStats, Plus
  <2>2. One(pi.gtp.ext_count > 0) \in Nat
    BY DEF One
  <2>3. g.with_seq + pi.seq \in Nat /\ g.with_ext + One(pi.gtp.ext_count > 0) \in Nat
    BY <1>0, <2>2 DEF GtpuStats
  <2> QED BY <1>1, <2>1, <2>3, MessageType
<1> QED BY <1>2, <1>3 DEF h

\* The fields that count_user() assigns keep their types.
LEMMA UserType ==
    ASSUME NEW g \in GtpuStats, NEW f \in [Versions -> Nat], NEW k \in [L4Proto -> Nat],
           NEW a \in Nat
    PROVE  [g EXCEPT !.inner_ip = f, !.inner_l4 = k, !.nested = a] \in GtpuStats
BY DEF GtpuStats

\* count_user() counts the user packet's version always, its protocol and whether it is
\* nested only when its extension chain could be walked.
LEMMA UserFields ==
    ASSUME NEW g \in GtpuStats, NEW pi \in Packet, pi.inner_version \in Versions
    PROVE  LET h == count_user(g, pi)
               known == pi.gtp_status \notin ChainReasons IN
           /\ h \in GtpuStats
           /\ h.inner_ip = Plus(g.inner_ip, pi.inner_version, 1)
           /\ h.inner_l4 = Plus(g.inner_l4, l4_counter(pi.inner_proto), One(known))
           /\ h.nested = g.nested + One(known /\ pi.gtp.nested = 1)
           /\ \A x \in {"packets", "truncated", "user_truncated", "malformed", "user_malformed",
                   "fragmented", "not_v1u", "by_status", "by_type"} : h[x] = g[x]
<1> DEFINE h == count_user(g, pi)
           known == pi.gtp_status \notin ChainReasons
           f == Plus(g.inner_ip, pi.inner_version, 1)
           k == Plus(g.inner_l4, l4_counter(pi.inner_proto), One(known))
           a == g.nested + One(known /\ pi.gtp.nested = 1)
<1>1. h = [g EXCEPT !.inner_ip = f, !.inner_l4 = k, !.nested = a]
  BY DEF count_user, GtpuStats, Plus
<1>2. l4_counter(pi.inner_proto) \in L4Proto
  BY DEF l4_counter, L4Proto
<1>3. f \in [Versions -> Nat] /\ k \in [L4Proto -> Nat] /\ a \in Nat
  BY <1>2 DEF One, Plus, GtpuStats
<1> HIDE DEF h, f, k, a
<1>4. /\ h.inner_ip = f /\ h.inner_l4 = k /\ h.nested = a
      /\ \A x \in {"packets", "truncated", "user_truncated", "malformed", "user_malformed",
                   "fragmented", "not_v1u", "by_status", "by_type"} : h[x] = g[x]
  BY <1>1 DEF GtpuStats
<1>5. h \in GtpuStats
  BY <1>1, <1>3, UserType
<1> QED BY <1>4, <1>5 DEF h, f, k, a

\* What one message does to the counters: g before, h after add_gtpu().
GtpuStep(g, h, pi) ==
    LET q == pi.gtp
        st == pi.gtp_status
        cut == st \in Truncations
        bad == st \notin Truncations \cup {"OK"}
        known == st \notin ChainReasons IN
    /\ h.packets = g.packets + One(q.is_gtpu = 1)
    /\ h.by_status = IF q.is_gtpu = 1 THEN Plus(g.by_status, st, 1) ELSE g.by_status
    /\ h.truncated = g.truncated + One(cut)
    /\ h.malformed = g.malformed + One(bad)
    /\ h.user_truncated = g.user_truncated + One(cut /\ q.msg_ok = 1)
    /\ h.user_malformed = g.user_malformed + One(bad /\ q.msg_ok = 1)
    /\ h.not_v1u = g.not_v1u + One(q.is_gtpu = 1 /\ q.v1u = 0 /\ st = "OK")
    /\ h.by_type = IF q.v1u = 1 THEN Plus(g.by_type, q.msg_type, 1) ELSE g.by_type
    /\ h.inner_ip = IF q.has_inner = 1 THEN Plus(g.inner_ip, pi.inner_version, 1)
                    ELSE g.inner_ip
    /\ h.inner_l4 = IF q.has_inner = 1
                    THEN Plus(g.inner_l4, l4_counter(pi.inner_proto), One(known))
                    ELSE g.inner_l4
    /\ h.nested = g.nested + One(q.has_inner = 1 /\ known /\ q.nested = 1)
    /\ h.fragmented =
         g.fragmented + One(pi.l3.frag = "FIRST" /\ decode_is_gtpu_port(pi.l3))

\* add_gtpu() counts this, along every path of its early returns.
LEMMA GtpuFields ==
    ASSUME NEW g \in GtpuStats, NEW pi, Good(pi)
    PROVE  add_gtpu(g, pi) \in GtpuStats /\ GtpuStep(g, add_gtpu(g, pi), pi)
<1> DEFINE h == add_gtpu(g, pi)
           q == pi.gtp
           st == pi.gtp_status
           v == count_verdict(g, pi)
           m == count_message(v, pi)
           u == count_user(m, pi)
           first == pi.l3.frag = "FIRST" /\ decode_is_gtpu_port(pi.l3)
<1> SUFFICES h \in GtpuStats /\ GtpuStep(g, h, pi)
  OBVIOUS
<1>1. /\ pi \in Packet /\ OuterAgrees(pi) /\ TunnelAgrees(pi)
      /\ q.has_inner = 1 => pi.inner_version \in Versions
  BY DEF Good, Consistent
<1>2. q \in GtpInfo /\ st \in decode_status
  BY <1>1 DEF Packet
<1>3. CASE first
  <2>1. q = NoGtp /\ st = "OK"
    BY <1>1, <1>2, <1>3 DEF TunnelAgrees, GtpInfo, Flag
  <2>2. h = [g EXCEPT !.fragmented = @ + 1]
    BY <1>3 DEF add_gtpu
  <2>3. h \in GtpuStats
    BY <2>2 DEF GtpuStats
  <2> HIDE DEF h
  <2>4. GtpuStep(g, h, pi)
    BY <2>1, <2>2, <1>3 DEF GtpuStep, NoGtp, One, GtpuStats, Truncations
  <2> QED BY <2>3, <2>4
<1>4. CASE ~first /\ q.is_gtpu = 0
  <2>1. q = NoGtp /\ st = "OK"
    BY <1>1, <1>4 DEF TunnelAgrees
  <2>2. h = g
    BY <1>4 DEF add_gtpu
  <2> HIDE DEF h
  <2> QED BY <2>1, <2>2, <1>4 DEF GtpuStep, NoGtp, One, GtpuStats, Truncations
<1>5. ASSUME q.is_gtpu = 1 PROVE h \in GtpuStats /\ GtpuStep(g, h, pi)
  <2>1. /\ pi.l3.frag = "NONE"
        /\ q.v1u = 0 => q.msg_ok = 0
        /\ q.v1u = 1 => q.msg_type \in GtpMsgTypes
        /\ q.has_inner = 1 => q.msg_ok = 1
    BY <1>1, <1>5 DEF TunnelAgrees
  <2>2. /\ q.v1u \in {0, 1} /\ q.has_inner \in {0, 1}
    BY <1>2 DEF GtpInfo, Flag
  <2>3. /\ v \in GtpuStats
        /\ v.packets = g.packets + 1
        /\ v.by_status = Plus(g.by_status, st, 1)
        /\ v.truncated = g.truncated + One(st \in Truncations)
        /\ v.user_truncated = g.user_truncated + One(st \in Truncations /\ q.msg_ok = 1)
        /\ v.malformed = g.malformed + One(st \notin Truncations \cup {"OK"})
        /\ v.user_malformed =
             g.user_malformed + One(st \notin Truncations \cup {"OK"} /\ q.msg_ok = 1)
        /\ v.fragmented = g.fragmented /\ v.not_v1u = g.not_v1u
        /\ v.by_type = g.by_type /\ v.nested = g.nested
        /\ v.inner_ip = g.inner_ip /\ v.inner_l4 = g.inner_l4
    BY <1>1, VerdictFields
  <2>4. CASE q.v1u = 0
    <3>1. h = [v EXCEPT !.not_v1u = @ + One(st = "OK")]
      BY <1>5, <2>1, <2>4 DEF add_gtpu
    <3> HIDE DEF h, v
    <3>2. h \in GtpuStats
      BY <3>1, <2>3 DEF GtpuStats, One
    <3>3. /\ h.not_v1u = g.not_v1u + One(st = "OK")
          /\ \A x \in {"packets", "truncated", "user_truncated", "malformed",
                       "user_malformed", "fragmented", "nested", "by_status", "by_type",
                       "inner_ip", "inner_l4"} : h[x] = v[x]
      BY <3>1, <2>3 DEF GtpuStats
    <3> QED BY <3>2, <3>3, <2>1, <2>2, <2>3, <2>4, <1>5 DEF GtpuStep, One, GtpuStats
  <2>5. CASE q.v1u = 1
    <3> HIDE DEF v
    <3>1. /\ m \in GtpuStats
          /\ m.by_type = Plus(v.by_type, q.msg_type, 1)
          /\ \A x \in {"packets", "truncated", "user_truncated", "malformed", "user_malformed",
                   "fragmented", "not_v1u", "nested", "by_status", "inner_ip", "inner_l4"} :
               m[x] = v[x]
      BY <1>1, <2>1, <2>3, <2>5, MessageFields
    <3>2. CASE q.has_inner = 0
      <4>1. h = m
        BY <1>5, <2>1, <2>5, <3>2 DEF add_gtpu, v
      <4> HIDE DEF h, m
      <4> QED BY <4>1, <3>1, <3>2, <2>1, <2>3, <2>5, <1>5 DEF GtpuStep, One, GtpuStats
    <3>3. CASE q.has_inner = 1
      <4>1. h = u
        BY <1>5, <2>1, <2>5, <3>3 DEF add_gtpu, v
      <4> HIDE DEF h, m
      <4>2. /\ u \in GtpuStats
            /\ u.inner_ip = Plus(m.inner_ip, pi.inner_version, 1)
            /\ u.inner_l4 = Plus(m.inner_l4, l4_counter(pi.inner_proto),
                                 One(st \notin ChainReasons))
            /\ u.nested = m.nested + One(st \notin ChainReasons /\ q.nested = 1)
            /\ \A x \in {"packets", "truncated", "user_truncated", "malformed",
                   "user_malformed", "fragmented", "not_v1u", "by_status", "by_type"} :
                 u[x] = m[x]
        BY <1>1, <3>1, <3>3, UserFields
      <4> HIDE DEF u
      <4> QED BY <4>1, <4>2, <3>1, <3>3, <2>1, <2>3, <2>5, <1>5 DEF GtpuStep, One, GtpuStats
    <3> QED BY <3>2, <3>3, <2>2
  <2> QED BY <2>2, <2>4, <2>5
<1>6. q.is_gtpu \in {0, 1}
  BY <1>2 DEF GtpInfo, Flag
<1> QED BY <1>3, <1>4, <1>5, <1>6

\* What one frame does to the counters: s before, t after stats_add().
StatsStep(s, t, pi) ==
    LET p == pi.l3
        st == pi.status IN
    /\ GtpuStep(s.gtpu, t.gtpu, pi)
    /\ t.packets = s.packets + 1
    /\ t.wire_bytes = s.wire_bytes + pi.wirelen
    /\ t.by_status = Plus(s.by_status, st, 1)
    /\ t.truncated = s.truncated + One(st \in Truncations)
    /\ t.malformed = s.malformed + One(st \notin Truncations \cup {"OK"})
    /\ t.ip = IF p.has_l3 = 1 THEN Plus(s.ip, p.ip_version, 1) ELSE s.ip
    /\ t.l4 = IF p.has_l3 = 1
              THEN Plus(s.l4, l4_counter(p.ip_proto), One(st \notin ChainReasons))
              ELSE s.l4
    /\ t.non_ip = s.non_ip + One(p.has_l3 # 1 /\ is_non_ip(pi))
    /\ t.frag_later = s.frag_later + One(p.has_l3 = 1 /\ p.frag = "LATER")
    /\ t.frag_matched = s.frag_matched
    /\ t.first_ts = IF s.packets = 0 \/ pi.ts < s.first_ts THEN pi.ts ELSE s.first_ts
    /\ t.last_ts = IF s.packets = 0 \/ pi.ts > s.last_ts THEN pi.ts ELSE s.last_ts

\* count_frame() looks at every frame.
LEMMA FrameFields ==
    ASSUME NEW s \in StatsType, NEW pi, Good(pi)
    PROVE  LET t == count_frame(s, pi)
               st == pi.status IN
           /\ t \in StatsType
           /\ GtpuStep(s.gtpu, t.gtpu, pi)
           /\ t.packets = s.packets + 1
           /\ t.wire_bytes = s.wire_bytes + pi.wirelen
           /\ t.by_status = Plus(s.by_status, st, 1)
           /\ t.truncated = s.truncated + One(st \in Truncations)
           /\ t.malformed = s.malformed + One(st \notin Truncations \cup {"OK"})
           /\ t.first_ts = IF s.packets = 0 \/ pi.ts < s.first_ts THEN pi.ts ELSE s.first_ts
           /\ t.last_ts = IF s.packets = 0 \/ pi.ts > s.last_ts THEN pi.ts ELSE s.last_ts
           /\ \A x \in {"ip", "l4", "non_ip", "frag_first", "frag_later", "frag_matched"} :
                t[x] = s[x]
<1> DEFINE t == count_frame(s, pi)
           st == pi.status
           a == IF s.packets = 0 \/ pi.ts < s.first_ts THEN pi.ts ELSE s.first_ts
           b == IF s.packets = 0 \/ pi.ts > s.last_ts THEN pi.ts ELSE s.last_ts
           c == s.packets + 1
           d == s.wire_bytes + pi.wirelen
           e == s.captured_bytes + pi.caplen
           f == Plus(s.by_status, st, 1)
           k == s.truncated + One(st \in Truncations)
           m == s.malformed + One(st \notin Truncations \cup {"OK"})
           n == s.vlan_tagged + One(pi.l2.vlan_count > 0)
           h == add_gtpu(s.gtpu, pi)
<1>1. t = [s EXCEPT !.first_ts = a, !.last_ts = b, !.packets = c, !.wire_bytes = d,
                     !.captured_bytes = e, !.by_status = f, !.truncated = k,
                     !.malformed = m, !.vlan_tagged = n, !.gtpu = h]
  BY DEF count_frame, starts_span, StatsType, Plus, is_malformation,
         decode_status_is_truncation
<1>2. pi.ts \in Nat /\ pi.wirelen \in Nat /\ pi.caplen \in Nat /\ st \in decode_status
  BY DEF Good, Packet
<1>3. s.gtpu \in GtpuStats
  BY DEF StatsType
<1>4. h \in GtpuStats /\ GtpuStep(s.gtpu, h, pi)
  BY <1>3, GtpuFields
<1>5. /\ a \in Nat /\ b \in Nat /\ c \in Nat /\ d \in Nat /\ e \in Nat
      /\ k \in Nat /\ m \in Nat /\ n \in Nat
  <2>1. /\ One(st \in Truncations) \in Nat /\ One(st \notin Truncations \cup {"OK"}) \in Nat
        /\ One(pi.l2.vlan_count > 0) \in Nat
    BY DEF One
  <2> QED BY <1>2, <2>1 DEF StatsType
<1>6. f \in [decode_status -> Nat]
  BY <1>2 DEF StatsType, Plus
<1> HIDE DEF t, a, b, c, d, e, f, k, m, n, h
<1>7. t \in StatsType
  BY <1>1, <1>4, <1>5, <1>6 DEF StatsType
<1>8. /\ t.gtpu = h /\ t.packets = c /\ t.wire_bytes = d /\ t.by_status = f /\ t.truncated = k
      /\ t.malformed = m /\ t.first_ts = a /\ t.last_ts = b
      /\ \A x \in {"ip", "l4", "non_ip", "frag_first", "frag_later", "frag_matched"} :
           t[x] = s[x]
  BY <1>1 DEF StatsType
<1>9. GtpuStep(s.gtpu, t.gtpu, pi)
  BY <1>4, <1>8
<1> HIDE DEF st
<1> QED BY <1>7, <1>8, <1>9 DEF t, a, b, c, d, f, k, m, st

\* The fields that count_ip() assigns keep their types.
LEMMA IpType ==
    ASSUME NEW s \in StatsType, NEW f \in [Versions -> Nat], NEW a \in Nat, NEW b \in Nat,
           NEW k \in [L4Proto -> Nat]
    PROVE  [s EXCEPT !.ip = f, !.frag_first = a, !.frag_later = b, !.l4 = k] \in StatsType
BY DEF StatsType

\* stats_add() counts this, along both of its paths.
LEMMA StatsFields ==
    ASSUME NEW s \in StatsType, NEW pi, Good(pi)
    PROVE  stats_add(s, pi) \in StatsType /\ StatsStep(s, stats_add(s, pi), pi)
<1> DEFINE c == count_frame(s, pi)
           t == stats_add(s, pi)
           p == pi.l3
           st == pi.status
<1> SUFFICES t \in StatsType /\ StatsStep(s, t, pi)
  OBVIOUS
<1>1. /\ c \in StatsType
      /\ GtpuStep(s.gtpu, c.gtpu, pi)
      /\ c.packets = s.packets + 1
      /\ c.wire_bytes = s.wire_bytes + pi.wirelen
      /\ c.by_status = Plus(s.by_status, st, 1)
      /\ c.truncated = s.truncated + One(st \in Truncations)
      /\ c.malformed = s.malformed + One(st \notin Truncations \cup {"OK"})
      /\ c.first_ts = IF s.packets = 0 \/ pi.ts < s.first_ts THEN pi.ts ELSE s.first_ts
      /\ c.last_ts = IF s.packets = 0 \/ pi.ts > s.last_ts THEN pi.ts ELSE s.last_ts
      /\ \A x \in {"ip", "l4", "non_ip", "frag_first", "frag_later", "frag_matched"} :
           c[x] = s[x]
  BY FrameFields
<1>2. p \in L3Info /\ (p.has_l3 = 1 => p.ip_version \in Versions)
  BY DEF Good, Packet, Consistent, OuterAgrees, Versions
<1>3. CASE p.has_l3 = 1
  <2> DEFINE f == Plus(c.ip, p.ip_version, 1)
             a == c.frag_first + One(p.frag = "FIRST")
             b == c.frag_later + One(p.frag = "LATER")
             k == Plus(c.l4, l4_counter(p.ip_proto), One(st \notin ChainReasons))
  <2> HIDE DEF c
  <2>1. t = [c EXCEPT !.ip = f, !.frag_first = a, !.frag_later = b, !.l4 = k]
    BY <1>1, <1>3 DEF stats_add, count_ip, transport_known, StatsType, Plus, c
  <2>2. l4_counter(p.ip_proto) \in L4Proto
    BY DEF l4_counter, L4Proto
  <2>3. f \in [Versions -> Nat] /\ a \in Nat /\ b \in Nat /\ k \in [L4Proto -> Nat]
    BY <1>1, <1>2, <1>3, <2>2 DEF StatsType, One, Plus
  <2> HIDE DEF t, f, a, b, k
  <2>4. t \in StatsType
    BY <1>1, <2>1, <2>3, IpType
  <2>5. /\ t.ip = f /\ t.frag_later = b /\ t.l4 = k
        /\ \A x \in {"packets", "wire_bytes", "non_ip", "by_status", "truncated", "malformed",
                     "first_ts", "last_ts", "frag_matched", "gtpu"} : t[x] = c[x]
    BY <1>1, <2>1 DEF StatsType
  <2>6. GtpuStep(s.gtpu, t.gtpu, pi)
    BY <1>1, <2>5
  <2>7. c.non_ip + One(p.has_l3 # 1 /\ is_non_ip(pi)) = c.non_ip
    BY <1>1, <1>3 DEF StatsType, One
  <2> QED BY <1>1, <1>3, <2>4, <2>5, <2>6, <2>7 DEF StatsStep, f, b, k, One
<1>4. CASE p.has_l3 # 1
  <2> HIDE DEF c
  <2>1. t = [c EXCEPT !.non_ip = @ + One(is_non_ip(pi))]
    BY <1>4 DEF stats_add, c
  <2> HIDE DEF t
  <2>2. t \in StatsType
    BY <1>1, <2>1 DEF StatsType, One
  <2>3. /\ t.non_ip = c.non_ip + One(p.has_l3 # 1 /\ is_non_ip(pi))
        /\ \A x \in {"packets", "wire_bytes", "by_status", "truncated", "malformed", "first_ts",
                     "last_ts", "frag_matched", "gtpu", "ip", "l4", "frag_later"} : t[x] = c[x]
    BY <1>1, <1>4, <2>1 DEF StatsType, One
  <2>4. GtpuStep(s.gtpu, t.gtpu, pi)
    BY <1>1, <2>3
  <2>5. t.frag_later \in Nat
    BY <2>2 DEF StatsType
  <2> QED BY <1>1, <1>4, <2>2, <2>3, <2>4, <2>5 DEF StatsStep, One
<1> QED BY <1>3, <1>4

-----------------------------------------------------------------------------
(***************************************************************************)
(* The counters add up                                                     *)
(***************************************************************************)
\* A set written with four elements is finite.
LEMMA FiniteFour == ASSUME NEW a, NEW b, NEW c, NEW d PROVE IsFiniteSet({a, b, c, d})
<1>1. IsFiniteSet({} \cup {a})
  BY FS_EmptySet, FS_AddElement
<1>2. IsFiniteSet(({} \cup {a}) \cup {b})
  BY <1>1, FS_AddElement
<1>3. IsFiniteSet((({} \cup {a}) \cup {b}) \cup {c})
  BY <1>2, FS_AddElement
<1>4. IsFiniteSet(((({} \cup {a}) \cup {b}) \cup {c}) \cup {d})
  BY <1>3, FS_AddElement
<1>5. ((({} \cup {a}) \cup {b}) \cup {c}) \cup {d} = {a, b, c, d}
  OBVIOUS
<1> QED BY <1>4, <1>5

\* The union of two finite sets is finite.
LEMMA FiniteUnion ==
    ASSUME NEW S, NEW T, IsFiniteSet(S), IsFiniteSet(T) PROVE IsFiniteSet(S \cup T)
BY FS_Union

\* The enumerations are finite, and each reason has one kind.
LEMMA Enumerations ==
    /\ IsFiniteSet(Truncations) /\ IsFiniteSet(Malformations) /\ IsFiniteSet(ChainReasons)
    /\ IsFiniteSet(L4Proto) /\ IsFiniteSet(Versions)
    /\ "OK" \notin Truncations \cup Malformations \cup HeaderReasons \cup ChainReasons
    /\ \A st \in Truncations : st \notin Malformations
    /\ ChainReasons \subseteq decode_status /\ HeaderReasons \subseteq decode_status
    /\ \A st \in ChainReasons : st \notin HeaderReasons
    /\ "TRUNC_GTPU" \in Truncations
<1>1. IsFiniteSet(Truncations)
  <2> DEFINE A == {"TRUNC_ETHERNET", "TRUNC_VLAN", "TRUNC_IPV4", "TRUNC_IPV6"}
             B == {"TRUNC_IPV6_EXT", "TRUNC_TCP", "TRUNC_UDP", "TRUNC_ICMP"}
             C == {"TRUNC_GTPU", "TRUNC_GTPU_EXT", "TRUNC_GTPU_INNER", "TRUNC_GTPU"}
  <2>1. IsFiniteSet(A) /\ IsFiniteSet(B) /\ IsFiniteSet(C)
    BY FiniteFour
  <2>2. Truncations = (A \cup B) \cup C
    BY DEF Truncations
  <2> HIDE DEF A, B, C
  <2> QED BY <2>1, <2>2, FiniteUnion
<1>2. IsFiniteSet(Malformations)
  <2> DEFINE A == {"BAD_SHORT_FRAME", "BAD_VLAN_DEPTH", "BAD_IPV4_VERSION", "BAD_IPV4_IHL"}
             B == {"BAD_IPV4_TOTAL_LEN", "BAD_IPV6_VERSION", "BAD_IPV6_PAYLOAD_LEN",
                   "BAD_IPV6_EXT"}
             C == {"BAD_L4_LEN", "BAD_TCP_DOFF", "BAD_UDP_LEN", "BAD_GTPU_LEN"}
             D == {"BAD_GTPU_EXT_LEN", "BAD_GTPU_EXT", "BAD_GTPU_INNER",
                   "BAD_GTPU_INNER_SHORT"}
  <2>1. IsFiniteSet(A) /\ IsFiniteSet(B) /\ IsFiniteSet(C) /\ IsFiniteSet(D)
    BY FiniteFour
  <2>2. Malformations = ((A \cup B) \cup C) \cup D
    BY DEF Malformations
  <2> HIDE DEF A, B, C, D
  <2> QED BY <2>1, <2>2, FiniteUnion
<1>3. IsFiniteSet(ChainReasons) /\ IsFiniteSet(Versions)
  <2>1. /\ ChainReasons = {"TRUNC_IPV6_EXT", "BAD_IPV6_EXT", "BAD_IPV6_EXT", "BAD_IPV6_EXT"}
        /\ Versions = {4, 6, 6, 6}
    BY DEF ChainReasons, Versions
  <2> QED BY <2>1, FiniteFour
<1>4. IsFiniteSet(L4Proto)
  <2>1. IsFiniteSet(KnownL4) /\ IsFiniteSet({"other"})
    BY FiniteFour, FS_Singleton DEF KnownL4
  <2> QED BY <2>1, FiniteUnion DEF L4Proto
<1>5. /\ "OK" \notin Truncations \cup Malformations \cup HeaderReasons \cup ChainReasons
      /\ \A st \in ChainReasons : st \notin HeaderReasons
  BY DEF Truncations, Malformations, HeaderReasons, ChainReasons
<1>6. \A st \in Truncations : st \notin Malformations
  BY DEF Truncations, Malformations
<1>7. ChainReasons \subseteq decode_status /\ HeaderReasons \subseteq decode_status
      /\ "TRUNC_GTPU" \in Truncations
  BY DEF Truncations, Malformations, HeaderReasons, ChainReasons, decode_status
<1> QED BY <1>1, <1>2, <1>3, <1>4, <1>5, <1>6, <1>7

\* One more verdict adds one to the sum over the reasons of its kind.
LEMMA StatusTotal ==
    ASSUME NEW f \in [decode_status -> Nat], NEW st \in decode_status,
           NEW S \in {Truncations, Malformations, ChainReasons}
    PROVE  /\ TotalOver(f, S) \in Int
           /\ TotalOver(Plus(f, st, 1), S) = TotalOver(f, S) + One(st \in S)
<1>1. S \subseteq decode_status /\ IsFiniteSet(S)
  BY Enumerations DEF decode_status
<1>2. /\ TotalOver(f, S) \in Int
      /\ TotalOver(Plus(f, st, 1), S) = TotalOver(f, S) + (IF st \in S THEN 1 ELSE 0)
  BY <1>1, PlusTotal
<1> QED BY <1>2 DEF One

\* The counters that one packet pi changes, whatever becomes of frag_matched.
Counted(pi) ==
    /\ stats \in StatsType /\ stats' \in StatsType /\ Good(pi)
    /\ \E n \in {0, 1} : StatsStep([stats EXCEPT !.frag_matched = @ + n], stats', pi)

\* The same without the field that it does not look at.
LEMMA CountedFields ==
    ASSUME NEW pi, Counted(pi)
    PROVE  LET p == pi.l3
               st == pi.status IN
           /\ GtpuStep(stats.gtpu, stats'.gtpu, pi)
           /\ stats'.packets = stats.packets + 1
           /\ stats'.by_status = Plus(stats.by_status, st, 1)
           /\ stats'.truncated = stats.truncated + One(st \in Truncations)
           /\ stats'.malformed = stats.malformed + One(st \notin Truncations \cup {"OK"})
           /\ stats'.ip = IF p.has_l3 = 1 THEN Plus(stats.ip, p.ip_version, 1) ELSE stats.ip
           /\ stats'.l4 = IF p.has_l3 = 1
                          THEN Plus(stats.l4, l4_counter(p.ip_proto),
                                    One(st \notin ChainReasons))
                          ELSE stats.l4
<1>1. PICK n \in {0, 1} : StatsStep([stats EXCEPT !.frag_matched = @ + n], stats', pi)
  BY DEF Counted
<1> DEFINE s == [stats EXCEPT !.frag_matched = @ + n]
<1>2. \A x \in {"gtpu", "packets", "by_status", "truncated", "malformed", "ip", "l4"} :
        s[x] = stats[x]
  BY DEF Counted, StatsType
<1> HIDE DEF s
<1>3. StatsStep(s, stats', pi)
  BY <1>1 DEF s
<1> QED BY <1>2, <1>3 DEF StatsStep

\* Each frame, and each GTP-U message, has one verdict of one kind.
LEMMA VerdictsNext ==
    ASSUME NEW pi, Counted(pi), VerdictsAddUp PROVE VerdictsAddUp'
<1> DEFINE st == pi.status
           gs == pi.gtp_status
           g == stats.gtpu
           h == stats'.gtpu
<1>1. /\ st \in decode_status /\ gs \in decode_status
      /\ pi.gtp.is_gtpu \in {0, 1} /\ (pi.gtp.is_gtpu = 0 => gs = "OK")
  BY DEF Counted, Good, Packet, Consistent, TunnelAgrees, GtpInfo, Flag
<1>2. /\ stats.by_status \in [decode_status -> Nat] /\ g.by_status \in [decode_status -> Nat]
      /\ stats.packets \in Nat /\ stats.truncated \in Nat /\ stats.malformed \in Nat
      /\ g.packets \in Nat /\ g.truncated \in Nat /\ g.malformed \in Nat
  BY DEF Counted, StatsType, GtpuStats
<1>3. /\ Truncations \subseteq decode_status /\ Malformations \subseteq decode_status
      /\ "OK" \in decode_status
      /\ st \notin Truncations \cup {"OK"} <=> st \in Malformations
      /\ gs \notin Truncations \cup {"OK"} <=> gs \in Malformations
  BY <1>1, Enumerations DEF decode_status
<1>4. /\ TotalOver(Plus(stats.by_status, st, 1), Truncations) =
           TotalOver(stats.by_status, Truncations) + One(st \in Truncations)
      /\ TotalOver(Plus(stats.by_status, st, 1), Malformations) =
           TotalOver(stats.by_status, Malformations) + One(st \in Malformations)
      /\ TotalOver(Plus(g.by_status, gs, 1), Truncations) =
           TotalOver(g.by_status, Truncations) + One(gs \in Truncations)
  BY <1>1, <1>2, StatusTotal
<1>5. /\ Plus(stats.by_status, st, 1)["OK"] = stats.by_status["OK"] + One(st = "OK")
      /\ Plus(g.by_status, gs, 1)["OK"] = g.by_status["OK"] + One(gs = "OK")
  BY <1>1, <1>2, <1>3 DEF Plus, One
<1>6. /\ One(st = "OK") + One(st \in Truncations) + One(st \in Malformations) = 1
      /\ One(gs = "OK") + One(gs \in Truncations) + One(gs \in Malformations) = 1
  BY <1>1, Enumerations DEF One, decode_status
<1>7. GtpuStep(g, h, pi) /\ stats'.packets = stats.packets + 1
      /\ stats'.by_status = Plus(stats.by_status, st, 1)
      /\ stats'.truncated = stats.truncated + One(st \in Truncations)
      /\ stats'.malformed = stats.malformed + One(st \in Malformations)
  BY <1>3, CountedFields
<1>8. /\ h.packets = g.packets + One(pi.gtp.is_gtpu = 1)
      /\ h.by_status = IF pi.gtp.is_gtpu = 1 THEN Plus(g.by_status, gs, 1) ELSE g.by_status
      /\ h.truncated = g.truncated + One(gs \in Truncations)
      /\ h.malformed = g.malformed + One(gs \in Malformations)
  BY <1>3, <1>7 DEF GtpuStep
<1> HIDE DEF st, gs, g, h
<1>9. /\ stats'.packets = stats'.by_status["OK"] + stats'.truncated + stats'.malformed
      /\ stats'.truncated = TotalOver(stats'.by_status, Truncations)
      /\ stats'.malformed = TotalOver(stats'.by_status, Malformations)
  <2>1. /\ One(st = "OK") \in Nat /\ One(st \in Truncations) \in Nat
        /\ One(st \in Malformations) \in Nat /\ stats.by_status["OK"] \in Nat
    BY <1>2, <1>3 DEF One
  <2>2. /\ stats.packets = stats.by_status["OK"] + stats.truncated + stats.malformed
        /\ stats.truncated = TotalOver(stats.by_status, Truncations)
        /\ stats.malformed = TotalOver(stats.by_status, Malformations)
    BY DEF VerdictsAddUp
  <2> QED BY <1>2, <1>4, <1>5, <1>6, <1>7, <2>1, <2>2
<1>10. /\ h.packets = h.by_status["OK"] + h.truncated + h.malformed
       /\ h.truncated = TotalOver(h.by_status, Truncations)
  <2>1. /\ One(gs = "OK") \in Nat /\ One(gs \in Truncations) \in Nat
        /\ One(gs \in Malformations) \in Nat /\ g.by_status["OK"] \in Nat
    BY <1>2, <1>3 DEF One
  <2>2. /\ g.packets = g.by_status["OK"] + g.truncated + g.malformed
        /\ g.truncated = TotalOver(g.by_status, Truncations)
    BY DEF VerdictsAddUp, g
  <2>3. CASE pi.gtp.is_gtpu = 1
    BY <1>2, <1>4, <1>5, <1>6, <1>8, <2>1, <2>2, <2>3 DEF One
  <2>4. CASE pi.gtp.is_gtpu = 0
    BY <1>1, <1>2, <1>8, <2>2, <2>4, Enumerations DEF One
  <2> QED BY <1>1, <2>3, <2>4
<1> QED BY <1>9, <1>10 DEF VerdictsAddUp, h

\* One more packet of a protocol, or of none: the total grows by n.
LEMMA WholeTotal ==
    ASSUME NEW D, IsFiniteSet(D), NEW f \in [D -> Nat], NEW x \in D, NEW n \in Nat
    PROVE  /\ Total(f) \in Int /\ Plus(f, x, n) \in [D -> Nat]
           /\ Total(Plus(f, x, n)) = Total(f) + n
           /\ Plus(f, x, n)[x] = f[x] + n
           /\ \A y \in D : y # x => Plus(f, x, n)[y] = f[y]
<1>1. DOMAIN f = D /\ DOMAIN Plus(f, x, n) = D
  BY DEF Plus
<1>2. /\ Plus(f, x, n) \in [D -> Nat]
      /\ TotalOver(f, D) \in Int
      /\ TotalOver(Plus(f, x, n), D) = TotalOver(f, D) + (IF x \in D THEN n ELSE 0)
  BY PlusTotal
<1>3. /\ Plus(f, x, n)[x] = f[x] + n
      /\ \A y \in D : y # x => Plus(f, x, n)[y] = f[y]
  BY DEF Plus
<1> QED BY <1>1, <1>2, <1>3 DEF Total

\* The same for the two kinds of counters that are indexed by what an IP header says.
LEMMA ProtoTotal ==
    ASSUME NEW f \in [L4Proto -> Nat], NEW x \in L4Proto, NEW n \in Nat
    PROVE  /\ Total(f) \in Int /\ Plus(f, x, n) \in [L4Proto -> Nat]
           /\ Total(Plus(f, x, n)) = Total(f) + n
           /\ Plus(f, x, n)[x] = f[x] + n
           /\ \A y \in L4Proto : y # x => Plus(f, x, n)[y] = f[y]
<1>1. IsFiniteSet(L4Proto)
  BY Enumerations
<1> QED BY <1>1, WholeTotal

\* One more IP packet of either version.
LEMMA VersionTotal ==
    ASSUME NEW f \in [Versions -> Nat]
    PROVE  /\ Total(f) \in Int
           /\ \A x \in Versions : Total(Plus(f, x, 1)) = Total(f) + 1
<1>1. IsFiniteSet(Versions) /\ 4 \in Versions /\ 1 \in Nat
  BY Enumerations DEF Versions
<1>2. Total(f) \in Int
  BY <1>1, WholeTotal
<1>3. ASSUME NEW x \in Versions PROVE Total(Plus(f, x, 1)) = Total(f) + 1
  BY <1>1, WholeTotal
<1> QED BY <1>2, <1>3

\* Every protocol number has a counter.
LEMMA L4CounterKnown == ASSUME NEW q PROVE l4_counter(q) \in L4Proto
BY DEF l4_counter, L4Proto

\* An IP packet has a transport, unless its extension chain is broken.
LEMMA TransportNext ==
    ASSUME NEW pi, Counted(pi), TransportAddsUp PROVE TransportAddsUp'
<1> DEFINE st == pi.status
           gs == pi.gtp_status
           p == pi.l3
           q == pi.gtp
           g == stats.gtpu
           h == stats'.gtpu
           l == l4_counter(p.ip_proto)
           il == l4_counter(pi.inner_proto)
<1>1. /\ st \in decode_status /\ gs \in decode_status
      /\ p.has_l3 = 1 => p.ip_version \in Versions
      /\ p.has_l3 # 1 => st \notin ChainReasons
      /\ q.is_gtpu = 1 /\ q.has_inner # 1 => gs \notin ChainReasons
      /\ q.has_inner = 1 => q.is_gtpu = 1 /\ pi.inner_version \in Versions
      /\ q.nested = 1 => pi.inner_proto = "udp"
  <2>1. pi \in Packet /\ OuterAgrees(pi) /\ TunnelAgrees(pi) /\ q \in GtpInfo
    BY DEF Counted, Good, Packet, Consistent
  <2>2. /\ st \in decode_status /\ gs \in decode_status
        /\ q.has_inner = 1 => pi.inner_version \in Versions
        /\ q.nested = 1 => pi.inner_proto = "udp"
    BY DEF Counted, Good, Packet
  <2>3. /\ p.has_l3 = 1 => p.ip_version \in Versions
        /\ p.has_l3 # 1 => st \notin ChainReasons
    BY <2>1 DEF OuterAgrees, Versions
  <2>4. /\ q.is_gtpu = 1 /\ q.has_inner # 1 => gs \notin ChainReasons
        /\ q.has_inner = 1 => q.is_gtpu = 1
    BY <2>1 DEF TunnelAgrees, GtpInfo, Flag, NoGtp
  <2> QED BY <2>2, <2>3, <2>4
<1>2. /\ stats.by_status \in [decode_status -> Nat] /\ g.by_status \in [decode_status -> Nat]
      /\ stats.ip \in [Versions -> Nat] /\ stats.l4 \in [L4Proto -> Nat]
      /\ g.inner_ip \in [Versions -> Nat] /\ g.inner_l4 \in [L4Proto -> Nat]
      /\ g.nested \in Nat
  BY DEF Counted, StatsType, GtpuStats
<1>3. /\ stats'.by_status = Plus(stats.by_status, st, 1)
      /\ stats'.ip = IF p.has_l3 = 1 THEN Plus(stats.ip, p.ip_version, 1) ELSE stats.ip
      /\ stats'.l4 = IF p.has_l3 = 1 THEN Plus(stats.l4, l, One(st \notin ChainReasons))
                     ELSE stats.l4
      /\ GtpuStep(g, h, pi)
  BY CountedFields
<1>4. /\ h.by_status = IF q.is_gtpu = 1 THEN Plus(g.by_status, gs, 1) ELSE g.by_status
      /\ h.inner_ip = IF q.has_inner = 1 THEN Plus(g.inner_ip, pi.inner_version, 1)
                      ELSE g.inner_ip
      /\ h.inner_l4 = IF q.has_inner = 1 THEN Plus(g.inner_l4, il, One(gs \notin ChainReasons))
                      ELSE g.inner_l4
      /\ h.nested = g.nested + One(q.has_inner = 1 /\ gs \notin ChainReasons /\ q.nested = 1)
  BY <1>3 DEF GtpuStep
<1>5. l \in L4Proto /\ il \in L4Proto /\ (q.nested = 1 => il = "udp") /\ "udp" \in L4Proto
  BY <1>1, L4CounterKnown DEF l4_counter, KnownL4, L4Proto
<1>6. /\ TotalOver(stats.by_status, ChainReasons) \in Int
      /\ TotalOver(Plus(stats.by_status, st, 1), ChainReasons) =
           TotalOver(stats.by_status, ChainReasons) + One(st \in ChainReasons)
      /\ TotalOver(g.by_status, ChainReasons) \in Int
      /\ TotalOver(Plus(g.by_status, gs, 1), ChainReasons) =
           TotalOver(g.by_status, ChainReasons) + One(gs \in ChainReasons)
  BY <1>1, <1>2, StatusTotal
<1>7. /\ One(st \notin ChainReasons) \in Nat /\ One(gs \notin ChainReasons) \in Nat
      /\ One(st \in ChainReasons) \in Nat /\ One(gs \in ChainReasons) \in Nat
      /\ One(st \notin ChainReasons) = 1 - One(st \in ChainReasons)
      /\ One(gs \notin ChainReasons) = 1 - One(gs \in ChainReasons)
  BY DEF One
<1>8. /\ Total(stats.l4) \in Int
      /\ Total(Plus(stats.l4, l, One(st \notin ChainReasons))) =
           Total(stats.l4) + One(st \notin ChainReasons)
  <2> DEFINE n == One(st \notin ChainReasons)
  <2>1. n \in Nat
    BY <1>7
  <2> HIDE DEF n, l
  <2>2. Total(stats.l4) \in Int /\ Total(Plus(stats.l4, l, n)) = Total(stats.l4) + n
    BY <1>2, <1>5, <2>1, ProtoTotal
  <2> QED BY <2>2 DEF n
<1>9. /\ Total(stats.ip) \in Int
      /\ p.has_l3 = 1 => Total(Plus(stats.ip, p.ip_version, 1)) = Total(stats.ip) + 1
  BY <1>1, <1>2, VersionTotal
<1>10. /\ Total(g.inner_l4) \in Int
       /\ Plus(g.inner_l4, il, One(gs \notin ChainReasons)) \in [L4Proto -> Nat]
       /\ Total(Plus(g.inner_l4, il, One(gs \notin ChainReasons))) =
            Total(g.inner_l4) + One(gs \notin ChainReasons)
       /\ Plus(g.inner_l4, il, One(gs \notin ChainReasons))["udp"] =
            g.inner_l4["udp"] + (IF il = "udp" THEN One(gs \notin ChainReasons) ELSE 0)
  <2> DEFINE n == One(gs \notin ChainReasons)
  <2> HIDE DEF n, il
  <2>1. n \in Nat /\ il \in L4Proto
    BY <1>5, <1>7 DEF n
  <2>2. /\ Total(g.inner_l4) \in Int
        /\ Plus(g.inner_l4, il, n) \in [L4Proto -> Nat]
        /\ Total(Plus(g.inner_l4, il, n)) = Total(g.inner_l4) + n
        /\ Plus(g.inner_l4, il, n)[il] = g.inner_l4[il] + n
        /\ \A y \in L4Proto : y # il => Plus(g.inner_l4, il, n)[y] = g.inner_l4[y]
    BY <1>2, <2>1, ProtoTotal
  <2> QED BY <1>2, <1>5, <2>1, <2>2 DEF n
<1>11. /\ Total(g.inner_ip) \in Int
       /\ q.has_inner = 1 =>
            Total(Plus(g.inner_ip, pi.inner_version, 1)) = Total(g.inner_ip) + 1
  BY <1>1, <1>2, VersionTotal
<1>12. /\ Total(stats.l4) = Total(stats.ip) - TotalOver(stats.by_status, ChainReasons)
       /\ Total(g.inner_l4) = Total(g.inner_ip) - TotalOver(g.by_status, ChainReasons)
       /\ g.nested <= g.inner_l4["udp"]
  BY DEF TransportAddsUp
<1> HIDE DEF st, gs, p, q, g, h, l, il
<1>13. Total(stats'.l4) = Total(stats'.ip) - TotalOver(stats'.by_status, ChainReasons)
  <2>1. CASE p.has_l3 = 1
    BY <1>3, <1>6, <1>7, <1>8, <1>9, <1>12, <2>1
  <2>2. CASE p.has_l3 # 1
    BY <1>1, <1>3, <1>6, <1>12, <2>2 DEF One
  <2> QED BY <2>1, <2>2
<1>14. Total(h.inner_l4) = Total(h.inner_ip) - TotalOver(h.by_status, ChainReasons)
  <2>1. CASE q.has_inner = 1
    BY <1>1, <1>4, <1>6, <1>7, <1>10, <1>11, <1>12, <2>1
  <2>2. CASE q.has_inner # 1
    BY <1>1, <1>4, <1>6, <1>12, <2>2 DEF One
  <2> QED BY <2>1, <2>2
<1>15. h.nested <= h.inner_l4["udp"]
  <2>1. g.inner_l4["udp"] \in Nat
    BY <1>2, <1>5
  <2>2. CASE q.has_inner = 1
    BY <1>2, <1>4, <1>5, <1>10, <1>12, <2>1, <2>2 DEF One
  <2>3. CASE q.has_inner # 1
    BY <1>2, <1>4, <1>12, <2>1, <2>3 DEF One
  <2> QED BY <2>2, <2>3
<1> QED BY <1>13, <1>14, <1>15 DEF TransportAddsUp, h

\* One more GTPv1-U message of some type.
LEMMA TypeTotal ==
    ASSUME NEW f \in [GtpMsgTypes -> Nat], NEW x \in GtpMsgTypes
    PROVE  /\ Total(f) \in Int /\ Plus(f, x, 1) \in [GtpMsgTypes -> Nat]
           /\ Total(Plus(f, x, 1)) = Total(f) + 1
           /\ Plus(f, x, 1)[x] = f[x] + 1
           /\ \A y \in GtpMsgTypes : y # x => Plus(f, x, 1)[y] = f[y]
<1>1. IsFiniteSet(GtpMsgTypes) /\ 1 \in Nat
  BY TypesAssumption
<1> QED BY <1>1, WholeTotal

\* A GTP-U packet has a type, or is not GTPv1-U, or was cut; it is a UDP packet.
LEMMA MessagesNext ==
    ASSUME NEW pi, Counted(pi), MessagesAddUp PROVE MessagesAddUp'
<1> DEFINE gs == pi.gtp_status
           p == pi.l3
           q == pi.gtp
           g == stats.gtpu
           h == stats'.gtpu
           l == l4_counter(p.ip_proto)
           first == p.frag = "FIRST" /\ decode_is_gtpu_port(p)
<1>0. pi \in Packet /\ OuterAgrees(pi) /\ TunnelAgrees(pi) /\ q \in GtpInfo
      /\ gs \in decode_status
  BY DEF Counted, Good, Packet, Consistent
<1>1. /\ q.is_gtpu \in {0, 1} /\ q.v1u \in {0, 1}
      /\ q.v1u = 1 => q.is_gtpu = 1 /\ q.msg_type \in GtpMsgTypes
      /\ q.is_gtpu = 1 /\ q.v1u = 0 /\ gs # "OK" => gs = "TRUNC_GTPU"
      /\ q.has_inner = 1 => q.v1u = 1 /\ q.msg_type = "gpdu" /\ pi.inner_version \in Versions
      /\ gs \in decode_status
  <2>1. q.has_inner = 1 => pi.inner_version \in Versions
    BY DEF Counted, Good
  <2> QED BY <1>0, <2>1 DEF TunnelAgrees, GtpInfo, Flag, NoGtp
<1>2. /\ q.is_gtpu = 1 \/ first => p.has_l3 = 1 /\ l = "udp" /\ pi.status \notin ChainReasons
      /\ ~(q.is_gtpu = 1 /\ first)
  <2>1. q.is_gtpu = 1 \/ first =>
          /\ p.has_l4 = 1 /\ p.ip_proto = "udp"
          /\ ~(q.is_gtpu = 1 /\ first)
    BY <1>0 DEF TunnelAgrees, decode_is_gtpu_port
  <2>2. p.has_l4 = 1 => p.has_l3 = 1 /\ pi.status = "OK"
    BY <1>0 DEF OuterAgrees
  <2> QED BY <2>1, <2>2, Enumerations DEF l4_counter, KnownL4
<1>3. /\ g.by_status \in [decode_status -> Nat] /\ g.by_type \in [GtpMsgTypes -> Nat]
      /\ g.inner_ip \in [Versions -> Nat] /\ stats.l4 \in [L4Proto -> Nat]
      /\ g.packets \in Nat /\ g.not_v1u \in Nat /\ g.fragmented \in Nat
  BY DEF Counted, StatsType, GtpuStats
<1>4. /\ stats'.l4 = IF p.has_l3 = 1
                     THEN Plus(stats.l4, l, One(pi.status \notin ChainReasons))
                     ELSE stats.l4
      /\ GtpuStep(g, h, pi)
  BY CountedFields
<1>5. /\ h.packets = g.packets + One(q.is_gtpu = 1)
      /\ h.by_status = IF q.is_gtpu = 1 THEN Plus(g.by_status, gs, 1) ELSE g.by_status
      /\ h.not_v1u = g.not_v1u + One(q.is_gtpu = 1 /\ q.v1u = 0 /\ gs = "OK")
      /\ h.by_type = IF q.v1u = 1 THEN Plus(g.by_type, q.msg_type, 1) ELSE g.by_type
      /\ h.inner_ip = IF q.has_inner = 1 THEN Plus(g.inner_ip, pi.inner_version, 1)
                      ELSE g.inner_ip
      /\ h.fragmented = g.fragmented + One(first)
  BY <1>4 DEF GtpuStep
<1>6. /\ Total(g.by_type) \in Int /\ g.by_type["gpdu"] \in Nat
      /\ q.v1u = 1 =>
           /\ Total(Plus(g.by_type, q.msg_type, 1)) = Total(g.by_type) + 1
           /\ Plus(g.by_type, q.msg_type, 1)["gpdu"] =
                g.by_type["gpdu"] + One(q.msg_type = "gpdu")
  <2>1. Total(g.by_type) \in Int /\ g.by_type["gpdu"] \in Nat
    BY <1>3, TypesAssumption, TypeTotal
  <2>2. ASSUME q.v1u = 1
        PROVE  /\ Total(Plus(g.by_type, q.msg_type, 1)) = Total(g.by_type) + 1
               /\ Plus(g.by_type, q.msg_type, 1)[q.msg_type] = g.by_type[q.msg_type] + 1
               /\ \A y \in GtpMsgTypes :
                    y # q.msg_type => Plus(g.by_type, q.msg_type, 1)[y] = g.by_type[y]
    BY <1>1, <1>3, <2>2, TypeTotal
  <2> QED BY <2>1, <2>2, TypesAssumption DEF One
<1>7. /\ g.by_status["TRUNC_GTPU"] \in Nat
      /\ Plus(g.by_status, gs, 1)["TRUNC_GTPU"] =
           g.by_status["TRUNC_GTPU"] + One(gs = "TRUNC_GTPU")
  <2>1. "TRUNC_GTPU" \in decode_status
    BY Enumerations DEF decode_status
  <2> QED BY <1>1, <1>3, <2>1 DEF Plus, One
<1>8. /\ Total(g.inner_ip) \in Int
      /\ q.has_inner = 1 =>
           Total(Plus(g.inner_ip, pi.inner_version, 1)) = Total(g.inner_ip) + 1
  BY <1>1, <1>3, VersionTotal
<1>9. /\ stats.l4["udp"] \in Nat
      /\ stats'.l4["udp"] >= stats.l4["udp"] + One(q.is_gtpu = 1 \/ first)
  <2> DEFINE n == One(pi.status \notin ChainReasons)
  <2>1. /\ n \in Nat /\ (pi.status \notin ChainReasons => n = 1)
        /\ l \in L4Proto /\ "udp" \in L4Proto
    BY L4CounterKnown DEF One, L4Proto, KnownL4
  <2>2. /\ Plus(stats.l4, l, n) \in [L4Proto -> Nat]
        /\ Plus(stats.l4, l, n)[l] = stats.l4[l] + n
        /\ \A y \in L4Proto : y # l => Plus(stats.l4, l, n)[y] = stats.l4[y]
    <3> HIDE DEF n, l
    <3> QED BY <1>3, <2>1, ProtoTotal
  <2>3. stats'.l4 = IF p.has_l3 = 1 THEN Plus(stats.l4, l, n) ELSE stats.l4
    BY <1>4
  <2> HIDE DEF n, l, p, q, first
  <2> QED BY <1>2, <1>3, <2>1, <2>2, <2>3 DEF One
<1>10. /\ Total(g.by_type) + g.not_v1u <= g.packets
       /\ g.packets <= Total(g.by_type) + g.not_v1u + g.by_status["TRUNC_GTPU"]
       /\ Total(g.inner_ip) <= g.by_type["gpdu"]
       /\ g.packets + g.fragmented <= stats.l4["udp"]
  BY DEF MessagesAddUp
<1>11. stats'.l4["udp"] \in Nat
  BY DEF Counted, StatsType, L4Proto, KnownL4
<1> HIDE DEF gs, p, q, g, h, l, first
<1>12. /\ Total(h.by_type) + h.not_v1u <= h.packets
       /\ h.packets <= Total(h.by_type) + h.not_v1u + h.by_status["TRUNC_GTPU"]
       /\ Total(h.inner_ip) <= h.by_type["gpdu"]
       /\ h.packets + h.fragmented <= stats'.l4["udp"]
  <2>1. CASE q.is_gtpu = 0
    BY <1>1, <1>2, <1>3, <1>5, <1>6, <1>7, <1>8, <1>9, <1>10, <1>11, <2>1 DEF One
  <2>2. CASE q.is_gtpu = 1 /\ q.v1u = 0
    BY <1>1, <1>2, <1>3, <1>5, <1>6, <1>7, <1>8, <1>9, <1>10, <1>11, <2>2 DEF One
  <2>3. CASE q.is_gtpu = 1 /\ q.v1u = 1
    BY <1>1, <1>2, <1>3, <1>5, <1>6, <1>7, <1>8, <1>9, <1>10, <1>11, <2>3 DEF One
  <2> QED BY <1>1, <2>1, <2>2, <2>3
<1> QED BY <1>12 DEF MessagesAddUp, h

-----------------------------------------------------------------------------
(***************************************************************************)
(* The tables                                                              *)
(***************************************************************************)
\* A table of flows: finite, and each entry a flow.
IsTable(m) == IsFiniteSet(DOMAIN m) /\ m \in [DOMAIN m -> Flow]

\* What account() may be given.
IsAdd(a) == /\ a.ts \in Nat /\ a.len \in Nat /\ a.reversed \in {0, 1}
            /\ a.flags \subseteq TcpFlags

\* All times in the table m lie between lo and hi.
Between(m, lo, hi) ==
    \A k \in DOMAIN m : /\ lo <= m[k].first_ts /\ m[k].first_ts <= m[k].last_ts
                        /\ m[k].last_ts <= hi

\* flow_add() on a flow that exists: one packet more.
LEMMA AccountedFlow ==
    ASSUME NEW f \in Flow, NEW a, IsAdd(a)
    PROVE  /\ accounted(f, a) \in Flow
           /\ accounted(f, a).packets = f.packets + 1
           /\ accounted(f, a).bytes = f.bytes + a.len
BY DEF Flow, IsAdd, accounted

\* A flow starts with no packets and the time of the packet that opens it.
LEMMA NewFlow ==
    ASSUME NEW a, IsAdd(a)
    PROVE  /\ new_flow(a) \in Flow
           /\ new_flow(a).packets = 0 /\ new_flow(a).bytes = 0
           /\ new_flow(a).first_ts = a.ts /\ new_flow(a).last_ts = a.ts
BY DEF Flow, IsAdd, new_flow, ZeroFlow

\* The bytes in all flows of a table.
BytesIn(m) == Total([k \in DOMAIN m |-> m[k].bytes])

\* A packet is added to one flow: the table remains one, and holds one packet more and
\* its bytes.
LEMMA AccountIn ==
    ASSUME NEW m, IsTable(m), NEW a, IsAdd(a)
    PROVE  /\ IsTable(account_in(m, a))
           /\ PacketsIn(m) \in Int /\ BytesIn(m) \in Int
           /\ PacketsIn(account_in(m, a)) = PacketsIn(m) + 1
           /\ BytesIn(account_in(m, a)) = BytesIn(m) + a.len
<1> DEFINE w == account_in(m, a)
           D == DOMAIN m
           E == D \cup {a.key}
           old == IF a.key \in D THEN m[a.key] ELSE new_flow(a)
<1>1. /\ DOMAIN w = E /\ w[a.key] = accounted(old, a)
      /\ \A k \in E : k # a.key => k \in D /\ w[k] = m[k]
  BY DEF account_in
<1>2. old \in Flow /\ (a.key \notin D => old.packets = 0 /\ old.bytes = 0)
  BY NewFlow DEF IsTable
<1>3. /\ accounted(old, a) \in Flow
      /\ accounted(old, a).packets = old.packets + 1
      /\ accounted(old, a).bytes = old.bytes + a.len
  BY <1>2, AccountedFlow
<1>4. IsFiniteSet(D) /\ IsFiniteSet(E)
  BY FS_AddElement DEF IsTable
<1>5. w \in [E -> Flow]
  <2>1. \A k \in E : w[k] \in Flow
    BY <1>1, <1>3 DEF IsTable
  <2> QED BY <1>1, <2>1 DEF account_in
<1>6. IsTable(w)
  BY <1>1, <1>4, <1>5 DEF IsTable
<1>7. \A k \in D : m[k].packets \in Int /\ m[k].bytes \in Int
  BY DEF IsTable, Flow
<1>8. PacketsIn(m) \in Int /\ PacketsIn(w) = PacketsIn(m) + 1
  <2> DEFINE f == [k \in D |-> m[k].packets]
             g == [k \in E |-> w[k].packets]
  <2>1. PICK d \in Int : d = 1
    BY DEF IsAdd
  <2>2. PICK x : x = a.key
    OBVIOUS
  <2>3. /\ \A k \in D : f[k] \in Int
        /\ \A k \in D : k # x => g[k] = f[k]
        /\ g[x] = (IF x \in D THEN f[x] ELSE 0) + d
    BY <1>1, <1>2, <1>3, <1>7, <2>1, <2>2
  <2>4. PacketsIn(m) = TotalOver(f, D) /\ PacketsIn(w) = TotalOver(g, D \cup {x})
    BY <1>1, <2>2 DEF PacketsIn, Total
  <2> HIDE DEF f, g, D
  <2>5. TotalOver(f, D) \in Int /\ TotalOver(g, D \cup {x}) = TotalOver(f, D) + d
    BY ONLY <1>4, <2>3, TotalGrows
  <2> QED BY <2>1, <2>4, <2>5
<1>9. BytesIn(m) \in Int /\ BytesIn(w) = BytesIn(m) + a.len
  <2> DEFINE f == [k \in D |-> m[k].bytes]
             g == [k \in E |-> w[k].bytes]
  <2>1. PICK d \in Int : d = a.len
    BY DEF IsAdd
  <2>2. PICK x : x = a.key
    OBVIOUS
  <2>3. /\ \A k \in D : f[k] \in Int
        /\ \A k \in D : k # x => g[k] = f[k]
        /\ g[x] = (IF x \in D THEN f[x] ELSE 0) + d
    BY <1>1, <1>2, <1>3, <1>7, <2>1, <2>2
  <2>4. BytesIn(m) = TotalOver(f, D) /\ BytesIn(w) = TotalOver(g, D \cup {x})
    BY <1>1, <2>2 DEF BytesIn, Total
  <2> HIDE DEF f, g, D
  <2>5. TotalOver(f, D) \in Int /\ TotalOver(g, D \cup {x}) = TotalOver(f, D) + d
    BY ONLY <1>4, <2>3, TotalGrows
  <2> QED BY <2>1, <2>4, <2>5
<1> QED BY <1>6, <1>8, <1>9

\* The packets of a table are counted by an integer.
LEMMA TableTotal == ASSUME NEW m, IsTable(m) PROVE PacketsIn(m) \in Int
<1> DEFINE f == [k \in DOMAIN m |-> m[k].packets]
<1>1. IsFiniteSet(DOMAIN m) /\ (\A k \in DOMAIN m : f[k] \in Int)
  BY DEF IsTable, Flow
<1>2. PacketsIn(m) = TotalOver(f, DOMAIN m)
  BY DEF PacketsIn, Total
<1> HIDE DEF f
<1> QED BY <1>1, <1>2, TotalTake

\* A packet within the span keeps all times of the table within it.
LEMMA AccountBetween ==
    ASSUME NEW m, IsTable(m), NEW a, IsAdd(a), NEW lo \in Nat, NEW hi \in Nat,
           Between(m, lo, hi), lo <= a.ts, a.ts <= hi
    PROVE  Between(account_in(m, a), lo, hi)
<1> DEFINE w == account_in(m, a)
           old == IF a.key \in DOMAIN m THEN m[a.key] ELSE new_flow(a)
<1> SUFFICES ASSUME NEW k \in DOMAIN w
             PROVE  /\ lo <= w[k].first_ts /\ w[k].first_ts <= w[k].last_ts
                    /\ w[k].last_ts <= hi
  BY DEF Between
<1>1. CASE k # a.key
  <2>1. k \in DOMAIN m /\ w[k] = m[k]
    BY <1>1 DEF account_in
  <2> QED BY <2>1 DEF Between
<1>2. CASE k = a.key
  <2>1. w[k] = accounted(old, a)
    BY <1>2 DEF account_in
  <2>2. /\ old.first_ts \in Nat /\ old.last_ts \in Nat
        /\ lo <= old.first_ts /\ old.first_ts <= old.last_ts /\ old.last_ts <= hi
    BY NewFlow DEF Between, IsTable, Flow, IsAdd
  <2>3. /\ w[k].first_ts = IF a.ts < old.first_ts THEN a.ts ELSE old.first_ts
        /\ w[k].last_ts = IF a.ts > old.last_ts THEN a.ts ELSE old.last_ts
    BY <2>1 DEF accounted
  <2> HIDE DEF old, w
  <2> QED BY <2>2, <2>3 DEF IsAdd
<1> QED BY <1>1, <1>2

\* What analysis_account() gives to the tables.
LEMMA AddsTyped ==
    ASSUME NEW pi \in Packet
    PROVE  /\ IsAdd(flow_add(pi)) /\ flow_add(pi).ts = pi.ts
           /\ IsAdd(tunnel_add(pi)) /\ tunnel_add(pi).ts = pi.ts
BY DEF IsAdd, flow_add, tunnel_add, Packet, One

\* The table of flow_table_init() holds no packets.
LEMMA EmptyTable == IsTable(NoFlows) /\ PacketsIn(NoFlows) = 0 /\ BytesIn(NoFlows) = 0
<1>1. IsTable(NoFlows)
  BY FS_EmptySet DEF IsTable, NoFlows
<1>2. DOMAIN NoFlows = {}
  BY DEF NoFlows
<1> DEFINE f == [k \in DOMAIN NoFlows |-> NoFlows[k].packets]
           g == [k \in DOMAIN NoFlows |-> NoFlows[k].bytes]
<1>3. DOMAIN f = {} /\ DOMAIN g = {}
  BY <1>2
<1>4. PacketsIn(NoFlows) = TotalOver(f, {}) /\ BytesIn(NoFlows) = TotalOver(g, {})
  BY <1>3 DEF PacketsIn, BytesIn, Total
<1> HIDE DEF f, g
<1> QED BY <1>1, <1>4, TotalOfNone

-----------------------------------------------------------------------------
(***************************************************************************)
(* The inductive invariant                                                 *)
(***************************************************************************)
\* The types of the variables.  The two tables are finite, which the sums need.
TypesHold ==
    /\ phase \in {"none", "run", "stopped"} /\ lost \in {"none", "flow", "tunnel"}
    /\ stats \in StatsType /\ log \in Seq(Packet)
    /\ frags = [s \in FragSlots |-> frags[s]]
    /\ \A s \in FragSlots : frags[s].src_port \in Nat /\ frags[s].dst_port \in Nat
    /\ IsTable(flows) /\ IsTable(tunnels)

\* Nothing is allocated before the analysis or after it, nothing is lost while it
\* runs, and the tables are empty until a packet is read.
PhasesHold ==
    /\ phase = "none" => flows = NoFlows /\ tunnels = NoFlows /\ frags = EmptyCache
    /\ phase = "run" => lost = "none"
    /\ log = << >> => flows = NoFlows /\ tunnels = NoFlows
    /\ stats.packets = Len(log)
    /\ held = IF phase = "none" THEN {} ELSE Arrays

\* TimesWithinCapture without Min and Max.
SpanHolds ==
    /\ log # << >> =>
         /\ \E n \in DOMAIN log : stats.first_ts = log[n].ts
         /\ \E n \in DOMAIN log : stats.last_ts = log[n].ts
         /\ \A n \in DOMAIN log : stats.first_ts <= log[n].ts /\ log[n].ts <= stats.last_ts
    /\ Between(flows, stats.first_ts, stats.last_ts)
    /\ Between(tunnels, stats.first_ts, stats.last_ts)

\* The first fragments in the packets l whose entry goes into the slot s.
Recorders(l, s) == {m \in DOMAIN l : records_ports(l[m]) /\ slot_for(l[m]) = s}

\* The entry that frag_cache_record() writes for a first fragment.
EntryOf(pi) == [in_use |-> 1, datagram |-> datagram(pi),
                src_port |-> pi.src_port, dst_port |-> pi.dst_port]

\* A slot holds the entry of the latest first fragment that went into it.
CacheHoldsLatest ==
    phase # "none" =>
        \A s \in FragSlots :
            \/ Recorders(log, s) = {} /\ frags[s] = EmptyEntry
            \/ \E m \in Recorders(log, s) :
                 /\ \A k \in Recorders(log, s) : k <= m
                 /\ frags[s] = EntryOf(log[m])

\* What attribution leaves alone, and what it does to the ports.
LEMMA AttributedFields ==
    ASSUME NEW p \in Packets, TypesHold
    PROVE  LET pi == attributed(frags, p) IN
           /\ Good(pi)
           /\ pi.status = p.status /\ pi.l3.has_l3 = p.l3.has_l3 /\ pi.l3.frag = p.l3.frag
           /\ pi.l3.ip_version = p.l3.ip_version /\ pi.l3.ip_proto = p.l3.ip_proto
           /\ pi.l3.has_l4 = p.l3.has_l4 /\ pi.tcp_flags = p.tcp_flags
           /\ datagram(pi) = datagram(p)
           /\ ~borrows_ports(frags, p) => pi = p
           /\ borrows_ports(frags, p) => /\ pi.src_port = frags[slot_for(p)].src_port
                                         /\ pi.dst_port = frags[slot_for(p)].dst_port
<1> DEFINE pi == attributed(frags, p)
<1>1. /\ p \in Packet /\ OuterAgrees(p) /\ TunnelAgrees(p)
      /\ p.gtp.has_inner = 1 => p.inner_version \in Versions
      /\ p.gtp.nested = 1 => p.inner_proto = "udp"
      /\ p.l3.frag # "NONE" => datagram(p) \in DOMAIN SlotOf
  BY PacketsAssumption DEF Consistent
<1>0. p.status = "OK" => flow_add(p).flags = p.tcp_flags
  BY PacketsAssumption DEF flow_add
<1>2. CASE ~borrows_ports(frags, p)
  <2>1. pi = p
    BY <1>2 DEF attributed
  <2> QED BY <1>0, <1>1, <1>2, <2>1 DEF Good, Consistent
<1>3. CASE borrows_ports(frags, p)
  <2> DEFINE s == frags[slot_for(p)].src_port
             d == frags[slot_for(p)].dst_port
             b == IF GTPU_PORT \in {s, d} THEN 1 ELSE 0
  <2>1. p.l3.frag = "LATER" /\ p.status = "OK" /\ p.l3.has_l3 = 1
    BY <1>3 DEF borrows_ports
  <2>2. s \in Nat /\ d \in Nat
    BY <1>1, <2>1, SlotAssumption DEF TypesHold, slot_for
  <2>3. pi = [p EXCEPT !.src_port = s, !.dst_port = d, !.l3.gtp_port = b]
    BY <1>3 DEF attributed, with_ports
  <2>4. b \in Flag
    BY DEF Flag
  <2> HIDE DEF s, d, b, pi
  <2>5. pi.l3 = [p.l3 EXCEPT !.gtp_port = b] /\ pi.src_port = s /\ pi.dst_port = d
        /\ \A x \in {"status", "gtp_status", "l2", "gtp", "inner_version", "inner_proto",
                     "src", "dst", "frag_id", "tcp_flags"} : pi[x] = p[x]
    BY <1>1, <2>3 DEF Packet
  <2>6. /\ p.l3 \in L3Info /\ pi.l3 \in L3Info
        /\ \A x \in {"has_l3", "has_l4", "ip_version", "ip_proto", "frag"} : pi.l3[x] = p.l3[x]
    BY <1>1, <2>4, <2>5 DEF Packet, L3Info
  <2>7. pi \in Packet
    BY <1>1, <2>2, <2>3, <2>5, <2>6 DEF Packet
  <2>8. OuterAgrees(pi)
    BY <1>1, <2>5, <2>6 DEF OuterAgrees
  <2>9. TunnelAgrees(pi)
    BY <1>1, <2>5, <2>6 DEF TunnelAgrees
  <2>10. Good(pi)
    <3>1. flow_add(pi).flags = flow_add(p).flags
      BY <2>5, <2>6 DEF flow_add
    <3> QED BY <1>0, <1>1, <2>5, <2>7, <2>8, <2>9, <3>1 DEF Good, Consistent
  <2>11. datagram(pi) = datagram(p)
    BY <2>5, <2>6 DEF datagram
  <2> QED BY <1>3, <2>5, <2>6, <2>10, <2>11 DEF s, d, pi
<1> QED BY <1>2, <1>3

\* The counters change as Counted says when a packet is accounted.
LEMMA AccountCounts ==
    ASSUME NEW p \in Packets, TypesHold, analysis_account(p)
    PROVE  LET pi == attributed(frags, p)
               b == borrows_ports(frags, p) IN
           /\ Counted(pi)
           /\ stats'.wire_bytes = stats.wire_bytes + pi.wirelen
           /\ stats'.non_ip = stats.non_ip + One(pi.l3.has_l3 # 1 /\ is_non_ip(pi))
           /\ stats'.frag_matched = stats.frag_matched + One(b)
           /\ stats'.frag_later = stats.frag_later + One(pi.l3.has_l3 = 1 /\ pi.l3.frag = "LATER")
           /\ stats'.first_ts = IF stats.packets = 0 \/ pi.ts < stats.first_ts
                                THEN pi.ts ELSE stats.first_ts
           /\ stats'.last_ts = IF stats.packets = 0 \/ pi.ts > stats.last_ts
                               THEN pi.ts ELSE stats.last_ts
<1> DEFINE pi == attributed(frags, p)
           n == One(borrows_ports(frags, p))
           s == [stats EXCEPT !.frag_matched = @ + n]
<1>1. Good(pi)
  BY AttributedFields
<1>2. n \in {0, 1} /\ stats \in StatsType
  BY DEF One, TypesHold
<1>3. stats' = stats_add(s, pi)
  BY DEF analysis_account
<1> HIDE DEF pi, n
<1>4. s \in StatsType
  BY <1>2 DEF StatsType
<1>5. s.frag_matched = stats.frag_matched + n
      /\ \A x \in {"packets", "wire_bytes", "non_ip", "first_ts", "last_ts", "frag_later"} :
           s[x] = stats[x]
  BY <1>2 DEF StatsType
<1>6. stats' \in StatsType /\ StatsStep(s, stats', pi)
  <2> HIDE DEF s
  <2> QED BY <1>1, <1>3, <1>4, StatsFields
<1>7. Counted(pi)
  BY <1>1, <1>2, <1>6 DEF Counted
<1> HIDE DEF s
<1>8. /\ stats'.wire_bytes = stats.wire_bytes + pi.wirelen
      /\ stats'.non_ip = stats.non_ip + One(pi.l3.has_l3 # 1 /\ is_non_ip(pi))
      /\ stats'.frag_matched = stats.frag_matched + n
      /\ stats'.frag_later = stats.frag_later + One(pi.l3.has_l3 = 1 /\ pi.l3.frag = "LATER")
      /\ stats'.first_ts = IF stats.packets = 0 \/ pi.ts < stats.first_ts
                           THEN pi.ts ELSE stats.first_ts
      /\ stats'.last_ts = IF stats.packets = 0 \/ pi.ts > stats.last_ts
                          THEN pi.ts ELSE stats.last_ts
  BY <1>5, <1>6 DEF StatsStep
<1> QED BY <1>7, <1>8 DEF n, pi

\* What a packet may do to the tables.
TablesStep(pi) ==
    /\ flows' \in {flows, account_in(flows, flow_add(pi))}
    /\ tunnels' \in {tunnels, account_in(tunnels, tunnel_add(pi))}

\* A record that is accounted keeps the types.
LEMMA AccountTypes ==
    ASSUME NEW p \in Packets, TypesHold, analysis_account(p)
    PROVE  /\ TypesHold' /\ TablesStep(attributed(frags, p))
           /\ log' = Append(log, attributed(frags, p)) /\ frags' = fed(frags, p)
           /\ phase' \in {"run", "stopped"} /\ (phase' = "run" => lost' = lost)
<1> DEFINE pi == attributed(frags, p)
<1>1. Good(pi) /\ pi \in Packet
  BY AttributedFields DEF Good
<1>2. log' = Append(log, pi) /\ frags' = fed(frags, p)
  BY DEF analysis_account
<1>3. stats' \in StatsType
  BY AccountCounts DEF Counted
<1>4. /\ phase = "run" /\ phase' \in {"run", "stopped"} /\ lost' \in {lost, "flow", "tunnel"}
      /\ phase' = "run" => lost' = lost
      /\ TablesStep(pi)
  <2> HIDE DEF pi
  <2> QED BY DEF analysis_account, TablesStep, pi
<1>5. IsTable(flows') /\ IsTable(tunnels')
  <2>1. IsAdd(flow_add(pi)) /\ IsAdd(tunnel_add(pi))
    BY <1>1, AddsTyped
  <2>2. /\ IsTable(account_in(flows, flow_add(pi)))
        /\ IsTable(account_in(tunnels, tunnel_add(pi)))
    BY <2>1, AccountIn DEF TypesHold
  <2> QED BY <1>4, <2>2 DEF TablesStep, TypesHold
<1>6. /\ frags' = [s \in FragSlots |-> frags'[s]]
      /\ \A s \in FragSlots : frags'[s].src_port \in Nat /\ frags'[s].dst_port \in Nat
  <2>1. p.src_port \in Nat /\ p.dst_port \in Nat
    BY PacketsAssumption DEF Packet
  <2>2. CASE records_ports(p)
    <3> DEFINE e == [in_use |-> 1, datagram |-> datagram(p),
                     src_port |-> p.src_port, dst_port |-> p.dst_port]
               t == slot_for(p)
    <3>1. frags' = [frags EXCEPT ![t] = e] /\ e.src_port \in Nat /\ e.dst_port \in Nat
      BY <1>2, <2>1, <2>2 DEF fed
    <3> HIDE DEF e, t
    <3>2. \A s \in FragSlots : frags'[s] = IF s = t THEN e ELSE frags[s]
      BY <3>1 DEF TypesHold
    <3>3. frags' = [s \in FragSlots |-> frags'[s]]
      BY <3>1 DEF TypesHold
    <3> QED BY <3>1, <3>2, <3>3 DEF TypesHold
  <2>3. CASE ~records_ports(p)
    BY <1>2, <2>3 DEF fed, TypesHold
  <2> QED BY <2>2, <2>3
<1>7. log' \in Seq(Packet)
  BY <1>1, <1>2 DEF TypesHold
<1>8. TypesHold'
  BY <1>3, <1>4, <1>5, <1>6, <1>7 DEF TypesHold
<1> QED BY <1>2, <1>4, <1>8

\* What a sequence and one more packet have in common.
LEMMA AppendFields ==
    ASSUME NEW l \in Seq(Packet), NEW pi \in Packet
    PROVE  LET w == Append(l, pi) IN
           /\ w \in Seq(Packet) /\ w # << >>
           /\ Len(l) \in Nat /\ Len(w) = Len(l) + 1
           /\ DOMAIN l = 1 .. Len(l) /\ DOMAIN w = 1 .. Len(l) + 1
           /\ w[Len(l) + 1] = pi
           /\ \A n \in 1 .. Len(l) : w[n] = l[n] /\ l[n] \in Packet
OBVIOUS

\* A record is accounted only while the analysis runs.
LEMMA AccountPhases ==
    ASSUME NEW p \in Packets, TypesHold, PhasesHold, analysis_account(p)
    PROVE  PhasesHold'
<1> DEFINE pi == attributed(frags, p)
<1>1. pi \in Packet
  BY AttributedFields DEF Good
<1>2. /\ log' = Append(log, pi) /\ phase' \in {"run", "stopped"}
      /\ phase' = "run" => lost' = lost
  BY AccountTypes
<1>3. phase = "run" /\ held' = held
  BY DEF analysis_account
<1>4. stats'.packets = stats.packets + 1
  BY AccountCounts, CountedFields
<1> HIDE DEF pi
<1>5. log' # << >> /\ Len(log') = Len(log) + 1
  BY <1>1, <1>2, AppendFields DEF TypesHold
<1> QED BY <1>2, <1>3, <1>4, <1>5 DEF PhasesHold

\* The span of the capture is the span of its records.
LEMMA AccountSpan ==
    ASSUME NEW p \in Packets, TypesHold, PhasesHold, SpanHolds, analysis_account(p)
    PROVE  SpanHolds'
<1> DEFINE pi == attributed(frags, p)
           lo == stats'.first_ts
           hi == stats'.last_ts
<1>1. pi \in Packet /\ pi.ts \in Nat
  BY AttributedFields DEF Good, Packet
<1>2. log' = Append(log, pi) /\ TablesStep(pi)
  BY AccountTypes
<1>3. /\ lo = IF stats.packets = 0 \/ pi.ts < stats.first_ts THEN pi.ts ELSE stats.first_ts
      /\ hi = IF stats.packets = 0 \/ pi.ts > stats.last_ts THEN pi.ts ELSE stats.last_ts
  BY AccountCounts
<1>4. /\ stats.first_ts \in Nat /\ stats.last_ts \in Nat /\ stats.packets = Len(log)
      /\ IsTable(flows) /\ IsTable(tunnels) /\ log \in Seq(Packet)
  BY DEF TypesHold, StatsType, PhasesHold
<1> HIDE DEF pi, lo, hi
<1>5. lo \in Nat /\ hi \in Nat /\ lo <= pi.ts /\ pi.ts <= hi
  BY <1>1, <1>3, <1>4
<1>6. /\ log' # << >> /\ Len(log) \in Nat
      /\ DOMAIN log = 1 .. Len(log) /\ DOMAIN log' = 1 .. Len(log) + 1
      /\ log'[Len(log) + 1] = pi
      /\ \A n \in 1 .. Len(log) : log'[n] = log[n] /\ log[n] \in Packet
  BY <1>1, <1>2, <1>4, AppendFields
<1>7. CASE log = << >>
  <2>1. /\ Len(log) = 0 /\ lo = pi.ts /\ hi = pi.ts /\ flows = NoFlows /\ tunnels = NoFlows
    BY <1>3, <1>4, <1>7 DEF PhasesHold
  <2>2. Between(NoFlows, lo, hi)
    BY DEF Between, NoFlows
  <2>3. Between(flows', lo, hi) /\ Between(tunnels', lo, hi)
    <3>1. /\ IsAdd(flow_add(pi)) /\ flow_add(pi).ts = pi.ts
          /\ IsAdd(tunnel_add(pi)) /\ tunnel_add(pi).ts = pi.ts
      BY <1>1, AddsTyped
    <3>2. /\ Between(account_in(flows, flow_add(pi)), lo, hi)
          /\ Between(account_in(tunnels, tunnel_add(pi)), lo, hi)
      BY <1>4, <1>5, <2>1, <2>2, <3>1, AccountBetween
    <3> QED BY <1>2, <2>1, <2>2, <3>2 DEF TablesStep
  <2>4. 1 \in DOMAIN log' /\ log'[1] = pi /\ \A n \in DOMAIN log' : n = 1
    BY <1>6, <2>1
  <2>5. \A n \in DOMAIN log' : lo <= log'[n].ts /\ log'[n].ts <= hi
    BY <1>5, <2>4
  <2> QED BY <2>1, <2>3, <2>4, <2>5 DEF SpanHolds, lo, hi
<1>8. CASE log # << >>
  <2>1. /\ Len(log) # 0 /\ lo <= stats.first_ts /\ stats.last_ts <= hi
        /\ lo \in {pi.ts, stats.first_ts} /\ hi \in {pi.ts, stats.last_ts}
    BY <1>1, <1>3, <1>4, <1>8
  <2>2. Between(flows, lo, hi) /\ Between(tunnels, lo, hi)
    <3>1. ASSUME NEW m, IsTable(m), Between(m, stats.first_ts, stats.last_ts)
          PROVE  Between(m, lo, hi)
      BY <1>4, <1>5, <2>1, <3>1 DEF Between, IsTable, Flow
    <3> QED BY <1>4, <3>1 DEF SpanHolds
  <2>3. Between(flows', lo, hi) /\ Between(tunnels', lo, hi)
    <3>1. /\ IsAdd(flow_add(pi)) /\ flow_add(pi).ts = pi.ts
          /\ IsAdd(tunnel_add(pi)) /\ tunnel_add(pi).ts = pi.ts
      BY <1>1, AddsTyped
    <3>2. /\ Between(account_in(flows, flow_add(pi)), lo, hi)
          /\ Between(account_in(tunnels, tunnel_add(pi)), lo, hi)
      BY <1>4, <1>5, <2>1, <2>2, <3>1, AccountBetween
    <3> QED BY <1>2, <2>2, <3>2 DEF TablesStep
  <2>4. /\ \E n \in DOMAIN log' : lo = log'[n].ts
        /\ \E n \in DOMAIN log' : hi = log'[n].ts
    <3>1. /\ \E n \in DOMAIN log : stats.first_ts = log[n].ts
          /\ \E n \in DOMAIN log : stats.last_ts = log[n].ts
      BY <1>8 DEF SpanHolds
    <3>2. Len(log) + 1 \in DOMAIN log' /\ \A n \in DOMAIN log : n \in DOMAIN log'
      BY <1>6
    <3> QED BY <1>6, <2>1, <3>1, <3>2
  <2>5. ASSUME NEW n \in DOMAIN log' PROVE lo <= log'[n].ts /\ log'[n].ts <= hi
    <3>1. CASE n = Len(log) + 1
      BY <1>5, <1>6, <3>1
    <3>2. CASE n # Len(log) + 1
      <4>1. n \in DOMAIN log /\ log'[n] = log[n] /\ log[n].ts \in Nat
        BY <1>6, <3>2 DEF Packet
      <4>2. stats.first_ts <= log[n].ts /\ log[n].ts <= stats.last_ts
        BY <1>8, <4>1 DEF SpanHolds
      <4> QED BY <1>4, <1>5, <2>1, <4>1, <4>2
    <3> QED BY <3>1, <3>2
  <2> QED BY <2>3, <2>4, <2>5 DEF SpanHolds, lo, hi
<1> QED BY <1>7, <1>8

\* The largest element, once one is known.
LEMMA MaxIs ==
    ASSUME NEW S, S \subseteq Nat, NEW x \in S, \A y \in S : y <= x PROVE Max(S) = x
<1> DEFINE z == Max(S)
<1>1. \E w \in S : \A y \in S : w >= y
  <2>1. \A y \in S : x >= y
    OBVIOUS
  <2> QED BY <2>1
<1>2. z \in S /\ \A y \in S : z >= y
  BY <1>1 DEF Max
<1> HIDE DEF z
<1>3. z \in Nat /\ x \in Nat /\ z <= x /\ z >= x
  BY <1>2
<1>4. z = x
  BY <1>3
<1> QED BY <1>4 DEF z

\* The least element, once one is known.
LEMMA MinIs ==
    ASSUME NEW S, S \subseteq Nat, NEW x \in S, \A y \in S : x <= y PROVE Min(S) = x
<1> DEFINE z == Min(S)
<1>1. \E w \in S : \A y \in S : w <= y
  OBVIOUS
<1>2. z \in S /\ \A y \in S : z <= y
  BY <1>1 DEF Min
<1> HIDE DEF z
<1>3. z \in Nat /\ x \in Nat /\ z <= x /\ x <= z
  BY <1>2
<1>4. z = x
  BY <1>3
<1> QED BY <1>4 DEF z

\* One more record is a recorder of a slot, or leaves its recorders as they are.
LEMMA RecordersAppend ==
    ASSUME NEW l \in Seq(Packet), NEW pi \in Packet, NEW s
    PROVE  Recorders(Append(l, pi), s) =
             Recorders(l, s) \cup (IF records_ports(pi) /\ slot_for(pi) = s
                                   THEN {Len(l) + 1} ELSE {})
<1> DEFINE w == Append(l, pi)
<1>1. /\ Len(l) \in Nat /\ DOMAIN l = 1 .. Len(l) /\ DOMAIN w = 1 .. Len(l) + 1
      /\ w[Len(l) + 1] = pi /\ \A n \in 1 .. Len(l) : w[n] = l[n]
  BY AppendFields
<1> HIDE DEF w
<1>2. \A n \in DOMAIN w : n = Len(l) + 1 \/ n \in DOMAIN l
  BY <1>1
<1>3. \A n \in DOMAIN l : n \in DOMAIN w /\ w[n] = l[n]
  BY <1>1
<1>4. Len(l) + 1 \in DOMAIN w
  BY <1>1
<1>5. Recorders(w, s) = Recorders(l, s) \cup (IF records_ports(pi) /\ slot_for(pi) = s
                                   THEN {Len(l) + 1} ELSE {})
  BY <1>1, <1>2, <1>3, <1>4 DEF Recorders
<1> QED BY <1>5 DEF w

\* The new entry overwrites the one of its slot.
LEMMA AccountCache ==
    ASSUME NEW p \in Packets, TypesHold, CacheHoldsLatest, analysis_account(p)
    PROVE  CacheHoldsLatest'
<1> DEFINE pi == attributed(frags, p)
           L == Len(log)
<1>1. /\ pi \in Packet /\ datagram(pi) = datagram(p)
      /\ pi.status = p.status /\ pi.l3.has_l3 = p.l3.has_l3 /\ pi.l3.frag = p.l3.frag
      /\ ~borrows_ports(frags, p) => pi = p
  BY AttributedFields DEF Good
<1>2. records_ports(p) => pi = p
  BY <1>1 DEF records_ports, borrows_ports
<1>3. records_ports(pi) => records_ports(p)
  BY <1>1 DEF records_ports, borrows_ports
<1>4. log' = Append(log, pi) /\ frags' = fed(frags, p) /\ log \in Seq(Packet)
  BY AccountTypes DEF TypesHold
<1>5. /\ L \in Nat /\ DOMAIN log = 1 .. L /\ DOMAIN log' = 1 .. L + 1
      /\ log'[L + 1] = pi /\ \A n \in 1 .. L : log'[n] = log[n]
  BY <1>1, <1>4, AppendFields
<1>6. phase # "none" /\ phase' # "none"
  BY AccountTypes DEF analysis_account
<1> HIDE DEF pi, L
<1>7. SUFFICES ASSUME NEW s \in FragSlots
               PROVE  \/ Recorders(log', s) = {} /\ frags'[s] = EmptyEntry
                      \/ \E m \in Recorders(log', s) :
                           /\ \A k \in Recorders(log', s) : k <= m
                           /\ frags'[s] = EntryOf(log'[m])
  BY <1>7 DEF CacheHoldsLatest
<1>8. Recorders(log', s) = Recorders(log, s) \cup
        (IF records_ports(pi) /\ slot_for(pi) = s THEN {L + 1} ELSE {})
  BY <1>1, <1>4, RecordersAppend DEF L
<1>9. \A k \in Recorders(log, s) : k \in 1 .. L /\ log'[k] = log[k]
  BY <1>5 DEF Recorders
<1>10. CASE records_ports(pi) /\ slot_for(pi) = s
  <2>1. frags'[s] = EntryOf(pi)
    <3>1. records_ports(p) /\ pi = p
      BY <1>2, <1>3, <1>10
    <3>2. frags' = [frags EXCEPT ![s] = EntryOf(pi)]
      BY <1>4, <1>10, <3>1 DEF fed, EntryOf
    <3> QED BY <3>2 DEF TypesHold
  <2>2. L + 1 \in Recorders(log', s) /\ \A k \in Recorders(log', s) : k <= L + 1
    BY <1>5, <1>8, <1>9, <1>10
  <2> QED BY <1>5, <2>1, <2>2
<1>11. CASE ~(records_ports(pi) /\ slot_for(pi) = s)
  <2>1. Recorders(log', s) = Recorders(log, s)
    BY <1>8, <1>11
  <2>2. frags'[s] = frags[s]
    <3>1. CASE records_ports(p)
      <4>1. pi = p
        BY <1>2, <3>1
      <4>2. frags' = [frags EXCEPT ![slot_for(p)] = EntryOf(p)] /\ slot_for(p) # s
        BY <1>4, <1>11, <3>1, <4>1 DEF fed, EntryOf
      <4> QED BY <4>2 DEF TypesHold
    <3>2. CASE ~records_ports(p)
      BY <1>4, <3>2 DEF fed
    <3> QED BY <3>1, <3>2
  <2>3. \/ Recorders(log, s) = {} /\ frags[s] = EmptyEntry
        \/ \E m \in Recorders(log, s) :
             /\ \A k \in Recorders(log, s) : k <= m
             /\ frags[s] = EntryOf(log[m])
    BY <1>6 DEF CacheHoldsLatest
  <2> QED BY <1>9, <2>1, <2>2, <2>3
<1> QED BY <1>10, <1>11

\* LastFirst, Owned and the first part of FragmentsAttributed, of the packets l.
FirstsBefore(l, n) ==
    {m \in 1 .. n - 1 : records_ports(l[m]) /\ slot_for(l[m]) = slot_for(l[n])}
LastFirstIn(l, n) == Max({0} \cup FirstsBefore(l, n))
OwnedIn(l, n) ==
    /\ l[n].status = "OK" /\ l[n].l3.frag = "LATER"
    /\ LastFirstIn(l, n) # 0 /\ datagram(l[LastFirstIn(l, n)]) = datagram(l[n])
PortsRight(l, n) ==
    l[n].l3.has_l3 = 1 /\ l[n].l3.frag = "LATER" =>
        IF OwnedIn(l, n)
        THEN flow_key_from_packet(l[n]) = flow_key_from_packet(l[LastFirstIn(l, n)])
        ELSE l[n].src_port = 0 /\ l[n].dst_port = 0

\* FragmentsAttributed in these terms.
LEMMA FragmentsAttributedIn ==
    FragmentsAttributed <=>
        /\ \A n \in DOMAIN log : PortsRight(log, n)
        /\ stats.frag_matched = Cardinality({n \in DOMAIN log : OwnedIn(log, n)})
        /\ stats.frag_matched <= stats.frag_later
BY DEF FragmentsAttributed, PortsRight, OwnedIn, Owned, LastFirst, LastFirstIn, FirstsBefore

\* The last of the first fragments before n is 0 or one of them.
LEMMA LastFirstType ==
    ASSUME NEW l, NEW n \in Nat
    PROVE  /\ LastFirstIn(l, n) \in {0} \cup FirstsBefore(l, n)
           /\ \A m \in FirstsBefore(l, n) : m <= LastFirstIn(l, n)
<1> DEFINE S == {0} \cup FirstsBefore(l, n)
<1>1. S \subseteq 0 .. n /\ 0 \in S
  BY DEF FirstsBefore
<1> HIDE DEF S
<1>2. PICK x \in S : \A y \in S : y <= x
  <2> DEFINE T == {n - y : y \in S}
  <2>1. T \subseteq Nat /\ T # {}
    BY <1>1
  <2>2. PICK t \in T : \A u \in T : t <= u
    <3> HIDE DEF T
    <3> QED BY <2>1, LeastNatural
  <2>3. PICK x \in S : t = n - x
    BY <2>2
  <2>4. \A y \in S : n - x <= n - y
    BY <2>2, <2>3
  <2>5. \A y \in S : y <= x
    BY <1>1, <2>4
  <2> QED BY <2>5
<1>3. Max(S) = x
  <2>1. S \subseteq Nat
    BY <1>1
  <2> QED BY <1>2, <2>1, MaxIs
<1>4. LastFirstIn(l, n) = x
  BY <1>3 DEF LastFirstIn, S
<1> QED BY <1>2, <1>4 DEF S

\* What came after a record does not matter to it.
LEMMA OwnedAppend ==
    ASSUME NEW l \in Seq(Packet), NEW pi \in Packet, NEW n \in DOMAIN l
    PROVE  LET w == Append(l, pi) IN
           /\ OwnedIn(w, n) <=> OwnedIn(l, n)
           /\ PortsRight(w, n) <=> PortsRight(l, n)
<1> DEFINE w == Append(l, pi)
<1>1. /\ Len(l) \in Nat /\ DOMAIN l = 1 .. Len(l) /\ \A k \in 1 .. Len(l) : w[k] = l[k]
  BY AppendFields
<1> HIDE DEF w
<1>2. \A k \in 1 .. n - 1 : w[k] = l[k]
  BY <1>1
<1>3. w[n] = l[n] /\ n \in Nat
  BY <1>1
<1>4. FirstsBefore(w, n) = FirstsBefore(l, n)
  BY <1>2, <1>3 DEF FirstsBefore
<1>5. LastFirstIn(w, n) = LastFirstIn(l, n)
  BY <1>4 DEF LastFirstIn
<1> DEFINE m == LastFirstIn(l, n)
<1>6. m = 0 \/ w[m] = l[m]
  BY <1>2, <1>3, LastFirstType DEF FirstsBefore
<1> HIDE DEF m
<1>7. OwnedIn(w, n) <=> OwnedIn(l, n)
  BY <1>3, <1>5, <1>6 DEF OwnedIn, m
<1>8. OwnedIn(l, n) => m # 0
  BY DEF OwnedIn, m
<1>9. PortsRight(w, n) <=> PortsRight(l, n)
  BY <1>3, <1>5, <1>6, <1>7, <1>8 DEF PortsRight, m
<1> QED BY <1>7, <1>9 DEF w

\* The cache gives a record the ports of the last first fragment in its slot, if
\* that one is of its datagram.
LEMMA AccountAttributes ==
    ASSUME NEW p \in Packets, TypesHold, CacheHoldsLatest, analysis_account(p)
    PROVE  LET n == Len(log) + 1 IN
           /\ PortsRight(log', n)
           /\ OwnedIn(log', n) <=> borrows_ports(frags, p)
<1> DEFINE pi == attributed(frags, p)
           L == Len(log)
           s == slot_for(pi)
           m == LastFirstIn(log', L + 1)
<1>1. /\ pi \in Packet /\ datagram(pi) = datagram(p) /\ OuterAgrees(p)
      /\ pi.status = p.status /\ pi.l3.has_l3 = p.l3.has_l3 /\ pi.l3.frag = p.l3.frag
      /\ pi.l3.ip_version = p.l3.ip_version /\ pi.l3.ip_proto = p.l3.ip_proto
      /\ ~borrows_ports(frags, p) => pi = p
      /\ borrows_ports(frags, p) => /\ pi.src_port = frags[slot_for(p)].src_port
                                    /\ pi.dst_port = frags[slot_for(p)].dst_port
      /\ s = slot_for(p)
  BY AttributedFields, PacketsAssumption DEF Good, Consistent, slot_for
<1>2. log' = Append(log, pi) /\ log \in Seq(Packet) /\ phase # "none"
  BY AccountTypes DEF TypesHold, analysis_account
<1>3. /\ L \in Nat /\ DOMAIN log = 1 .. L /\ log'[L + 1] = pi
      /\ \A n \in 1 .. L : log'[n] = log[n]
  BY <1>1, <1>2, AppendFields
<1>4. /\ p.l3.has_l3 \in {0, 1} /\ p \in Packet
      /\ p.l3.frag # "NONE" => datagram(p) \in DOMAIN SlotOf
      /\ p.l3.frag = "LATER" => p.src_port = 0 /\ p.dst_port = 0
  BY PacketsAssumption DEF Packet, L3Info, Flag
<1>5. CASE p.l3.frag # "LATER"
  BY <1>1, <1>3, <1>5 DEF PortsRight, OwnedIn, borrows_ports
<1>6. CASE p.l3.frag = "LATER"
  <2>1. p.l3.has_l3 = 1 /\ s \in FragSlots
    <3>1. s \in FragSlots
      BY <1>1, <1>4, <1>6, SlotAssumption DEF slot_for
    <3> QED BY <1>1, <1>4, <1>6, <3>1 DEF OuterAgrees
  <2>2. FirstsBefore(log', L + 1) = Recorders(log, s)
    <3>1. 1 .. (L + 1) - 1 = 1 .. L
      BY <1>3
    <3> HIDE DEF pi, L, s
    <3> QED BY <1>3, <3>1 DEF FirstsBefore, Recorders, s
  <2>3. /\ m \in {0} \cup Recorders(log, s)
        /\ \A k \in Recorders(log, s) : k <= m
    <3>1. L + 1 \in Nat
      BY <1>3
    <3> HIDE DEF L, s
    <3> QED BY <2>2, <3>1, LastFirstType
  <2>4. Recorders(log, s) \subseteq 1 .. L
    BY <1>3 DEF Recorders
  <2>5. \/ Recorders(log, s) = {} /\ frags[s] = EmptyEntry
        \/ \E k \in Recorders(log, s) :
             /\ \A j \in Recorders(log, s) : j <= k
             /\ frags[s] = EntryOf(log[k])
    BY <1>2, <2>1 DEF CacheHoldsLatest
  <2> HIDE DEF pi, L, s, m
  <2>6. CASE Recorders(log, s) = {} /\ frags[s] = EmptyEntry
    <3>1. m = 0
      BY <2>3, <2>6
    <3>2. ~OwnedIn(log', L + 1)
      BY <3>1 DEF OwnedIn, m
    <3>3. ~borrows_ports(frags, p)
      BY <1>1, <2>6 DEF borrows_ports, same_datagram, EmptyEntry
    <3>4. pi.src_port = 0 /\ pi.dst_port = 0
      BY <1>1, <1>4, <1>6, <3>3
    <3>5. PortsRight(log', L + 1)
      BY <1>3, <3>2, <3>4 DEF PortsRight
    <3> QED BY <3>2, <3>3, <3>5 DEF L
  <2>7. CASE \E k \in Recorders(log, s) :
               /\ \A j \in Recorders(log, s) : j <= k
               /\ frags[s] = EntryOf(log[k])
    <3>1. PICK k \in Recorders(log, s) :
               /\ \A j \in Recorders(log, s) : j <= k
               /\ frags[s] = EntryOf(log[k])
      BY <2>7
    <3>2. m = k /\ m # 0 /\ m \in 1 .. L
      <4>1. k \in 1 .. L /\ k <= m
        BY <2>3, <2>4, <3>1
      <4>2. m # 0 /\ m \in Recorders(log, s)
        BY <1>3, <2>3, <4>1
      <4>3. m <= k /\ m \in 1 .. L
        BY <2>4, <3>1, <4>2
      <4> QED BY <1>3, <4>1, <4>2, <4>3
    <3>3. log'[m] = log[k]
      BY <1>3, <3>2
    <3>4. OwnedIn(log', L + 1) <=> p.status = "OK" /\ datagram(log[k]) = datagram(p)
      BY <1>1, <1>3, <1>6, <3>2, <3>3 DEF OwnedIn, m
    <3>5. borrows_ports(frags, p) <=> p.status = "OK" /\ datagram(log[k]) = datagram(p)
      BY <1>1, <1>6, <2>1, <3>1 DEF borrows_ports, same_datagram, EntryOf
    <3>6. PortsRight(log', L + 1)
      <4>1. CASE OwnedIn(log', L + 1)
        <5>1. /\ pi.src_port = log[k].src_port /\ pi.dst_port = log[k].dst_port
              /\ datagram(pi) = datagram(log[k])
          BY <1>1, <3>1, <3>4, <3>5, <4>1 DEF EntryOf
        <5>2. /\ pi.l3.ip_version = log[k].l3.ip_version
              /\ pi.l3.ip_proto = log[k].l3.ip_proto
              /\ pi.src = log[k].src /\ pi.dst = log[k].dst
          BY <5>1 DEF datagram
        <5>3. flow_key_from_packet(pi) = flow_key_from_packet(log[k])
          BY <5>1, <5>2 DEF flow_key_from_packet, endpoints_reversed
        <5> QED BY <1>3, <3>3, <4>1, <5>3 DEF PortsRight, m
      <4>2. CASE ~OwnedIn(log', L + 1)
        <5>1. pi.src_port = 0 /\ pi.dst_port = 0
          BY <1>1, <1>4, <1>6, <3>4, <3>5, <4>2
        <5> QED BY <1>3, <4>2, <5>1 DEF PortsRight
      <4> QED BY <4>1, <4>2
    <3> QED BY <3>4, <3>5, <3>6 DEF L
  <2> QED BY <2>5, <2>6, <2>7
<1> QED BY <1>5, <1>6

\* What frag_matched and the flow of each fragment become.
LEMMA AccountFragments ==
    ASSUME NEW p \in Packets, TypesHold, CacheHoldsLatest, FragmentsAttributed,
           analysis_account(p)
    PROVE  FragmentsAttributed'
<1> DEFINE pi == attributed(frags, p)
           L == Len(log)
           O == {n \in DOMAIN log : OwnedIn(log, n)}
           O1 == {n \in DOMAIN log' : OwnedIn(log', n)}
           b == borrows_ports(frags, p)
<1>1. /\ pi \in Packet /\ pi.l3.has_l3 = p.l3.has_l3 /\ pi.l3.frag = p.l3.frag
  BY AttributedFields DEF Good
<1>2. log' = Append(log, pi) /\ log \in Seq(Packet)
  BY AccountTypes DEF TypesHold
<1>3. L \in Nat /\ DOMAIN log = 1 .. L /\ DOMAIN log' = 1 .. L + 1
  BY <1>1, <1>2, AppendFields
<1>4. PortsRight(log', L + 1) /\ (OwnedIn(log', L + 1) <=> b)
  BY AccountAttributes
<1>5. /\ \A n \in DOMAIN log : PortsRight(log, n)
      /\ stats.frag_matched = Cardinality(O) /\ stats.frag_matched <= stats.frag_later
  BY FragmentsAttributedIn
<1>6. /\ stats'.frag_matched = stats.frag_matched + One(b)
      /\ stats'.frag_later = stats.frag_later + One(p.l3.has_l3 = 1 /\ p.l3.frag = "LATER")
      /\ stats.frag_matched \in Nat /\ stats.frag_later \in Nat
  BY <1>1, AccountCounts DEF TypesHold, StatsType
<1>7. b => p.l3.has_l3 = 1 /\ p.l3.frag = "LATER"
  BY DEF borrows_ports
<1> HIDE DEF pi, L, b
<1>8. \A n \in DOMAIN log : /\ OwnedIn(log', n) <=> OwnedIn(log, n)
                            /\ PortsRight(log', n) <=> PortsRight(log, n)
  BY <1>1, <1>2, OwnedAppend
<1>9. \A n \in DOMAIN log' : n \in DOMAIN log \/ n = L + 1
  BY <1>3
<1>10. \A n \in DOMAIN log' : PortsRight(log', n)
  BY <1>4, <1>5, <1>8, <1>9
<1>11. O1 = IF b THEN O \cup {L + 1} ELSE O
  <2>1. L + 1 \in DOMAIN log' /\ \A n \in DOMAIN log : n \in DOMAIN log'
    BY <1>3
  <2> QED BY <1>4, <1>8, <1>9, <2>1
<1>12. Cardinality(O1) = Cardinality(O) + One(b)
  <2>1. IsFiniteSet(O)
    <3>1. IsFiniteSet(1 .. L) /\ O \subseteq 1 .. L
      BY <1>3, FS_Interval
    <3> QED BY <3>1, FS_Subset
  <2>2. L + 1 \notin O
    BY <1>3
  <2>3. Cardinality(O) \in Nat
    BY <2>1, FS_CardinalityType
  <2> HIDE DEF O, O1
  <2>4. CASE b
    BY <1>11, <2>1, <2>2, <2>4, FS_AddElement DEF One
  <2>5. CASE ~b
    BY <1>11, <2>3, <2>5 DEF One
  <2> QED BY <2>4, <2>5
<1>13. stats'.frag_matched = Cardinality(O1)
  BY <1>5, <1>6, <1>12
<1>14. stats'.frag_matched <= stats'.frag_later
  BY <1>5, <1>6, <1>7 DEF One
<1> QED BY <1>10, <1>13, <1>14 DEF FragmentsAttributed,
            PortsRight, OwnedIn, Owned, LastFirst, LastFirstIn, FirstsBefore

-----------------------------------------------------------------------------
(***************************************************************************)
(* What a table of flows summarises                                        *)
(***************************************************************************)
\* A view is what account() is given of each record: one for either table.
IsView(v) ==
    /\ IsFiniteSet(DOMAIN v) /\ DOMAIN v \subseteq Nat
    /\ \A n \in DOMAIN v : IsAdd(v[n])

Lens(v) == [n \in DOMAIN v |-> v[n].len]
IsEarliest(v, S, n) ==
    \A m \in S : v[n].ts <= v[m].ts /\ (m < n => v[n].ts < v[m].ts)

\* The flow f summarises the records S of the view v.
Summarises(f, v, S) ==
    /\ S \subseteq DOMAIN v
    /\ f.packets = Cardinality(S) /\ f.bytes = TotalOver(Lens(v), S)
    /\ f.tcp_flags = UNION {v[n].flags : n \in S}
    /\ \E n \in S : /\ IsEarliest(v, S, n) /\ f.first_ts = v[n].ts
                    /\ f.first_from_b = v[n].reversed
    /\ \E n \in S : f.last_ts = v[n].ts /\ \A m \in S : v[m].ts <= v[n].ts

\* The view w is v and one later record, N.
Longer(w, v, N) ==
    /\ IsView(v) /\ IsView(w)
    /\ N \in Nat /\ DOMAIN w = DOMAIN v \cup {N}
    /\ \A n \in DOMAIN v : w[n] = v[n] /\ n < N

\* The same with Min, Max and Total, as the properties say it.
IsSummary(f, v, S) ==
    /\ f.packets = Cardinality(S) /\ f.bytes = Total([n \in S |-> v[n].len])
    /\ f.first_ts = Min({v[n].ts : n \in S}) /\ f.last_ts = Max({v[n].ts : n \in S})
    /\ f.tcp_flags = UNION {v[n].flags : n \in S}
    /\ \E x \in S : /\ IsEarliest(v, S, x) /\ f.first_from_b = v[x].reversed
                    /\ \A z \in S : IsEarliest(v, S, z) => z = x

\* What the flow is that summarises some records.
LEMMA SummaryValues ==
    ASSUME NEW v, IsView(v), NEW S, NEW f, Summarises(f, v, S) PROVE IsSummary(f, v, S)
<1> DEFINE T == {v[n].ts : n \in S}
<1>1. /\ S \subseteq DOMAIN v /\ IsFiniteSet(S)
      /\ \A n \in S : n \in Nat /\ v[n].ts \in Nat /\ v[n].len \in Nat
  <2>1. S \subseteq DOMAIN v /\ IsFiniteSet(DOMAIN v)
    BY DEF Summarises, IsView
  <2>2. IsFiniteSet(S)
    BY <2>1, FS_Subset
  <2> QED BY <2>1, <2>2 DEF IsView, IsAdd
<1>2. /\ f.packets = Cardinality(S) /\ f.tcp_flags = UNION {v[n].flags : n \in S}
      /\ f.bytes = TotalOver(Lens(v), S)
  BY DEF Summarises
<1>3. f.bytes = Total([n \in S |-> v[n].len])
  <2> DEFINE g == [n \in S |-> v[n].len]
             h == Lens(v)
  <2>1. DOMAIN g = S /\ \A n \in S : g[n] = h[n]
    BY <1>1 DEF Lens
  <2> HIDE DEF g, h
  <2>2. TotalOver(g, S) = TotalOver(h, S)
    BY <1>1, <2>1, TotalSame
  <2>3. f.bytes = TotalOver(h, S) /\ Total(g) = TotalOver(g, S)
    BY <1>2, <2>1 DEF h, Total
  <2> QED BY <2>2, <2>3 DEF g
<1>4. PICK x \in S : /\ IsEarliest(v, S, x) /\ f.first_ts = v[x].ts
                     /\ f.first_from_b = v[x].reversed
  BY DEF Summarises
<1>5. PICK y \in S : f.last_ts = v[y].ts /\ \A m \in S : v[m].ts <= v[y].ts
  BY DEF Summarises
<1>6. T \subseteq Nat /\ f.first_ts \in T /\ f.last_ts \in T
      /\ \A t \in T : f.first_ts <= t /\ t <= f.last_ts
  BY <1>1, <1>4, <1>5 DEF IsEarliest
<1>7. f.first_ts = Min(T) /\ f.last_ts = Max(T)
  <2> HIDE DEF T
  <2> QED BY <1>6, MinIs, MaxIs
<1>8. \A z \in S : IsEarliest(v, S, z) => z = x
  BY <1>1, <1>4 DEF IsEarliest
<1> QED BY <1>2, <1>3, <1>4, <1>7, <1>8 DEF IsSummary

\* One more record does not change what is summarised.
LEMMA SummaryKept ==
    ASSUME NEW v, NEW w, NEW N, Longer(w, v, N), NEW S, NEW f, Summarises(f, v, S)
    PROVE  Summarises(f, w, S)
<1>1. /\ S \subseteq DOMAIN v /\ S \subseteq DOMAIN w
      /\ \A n \in S : w[n] = v[n]
  BY DEF Summarises, Longer
<1>2. TotalOver(Lens(w), S) = TotalOver(Lens(v), S)
  <2>1. IsFiniteSet(S)
    BY <1>1, FS_Subset DEF Longer, IsView
  <2>2. \A n \in S : Lens(w)[n] = Lens(v)[n]
    BY <1>1 DEF Lens
  <2> QED BY <2>1, <2>2, TotalSame
<1>3. {w[n].flags : n \in S} = {v[n].flags : n \in S}
  BY <1>1
<1>4. \A n \in S : IsEarliest(w, S, n) <=> IsEarliest(v, S, n)
  BY <1>1 DEF IsEarliest
<1> QED BY <1>1, <1>2, <1>3, <1>4 DEF Summarises

\* The first packet of a flow, and one more.
LEMMA SummaryGrows ==
    ASSUME NEW v, NEW w, NEW N, Longer(w, v, N), NEW S, S \subseteq DOMAIN v,
           NEW f \in Flow, NEW a, a = w[N],
           IF S = {} THEN f = new_flow(a) ELSE Summarises(f, v, S)
    PROVE  Summarises(accounted(f, a), w, S \cup {N})
<1> DEFINE T == S \cup {N}
           g == accounted(f, a)
<1>1. /\ IsView(v) /\ IsView(w) /\ DOMAIN w = DOMAIN v \cup {N} /\ w[N] = a
      /\ N \in Nat /\ N \notin S /\ T \subseteq DOMAIN w /\ IsAdd(a)
      /\ \A n \in S : w[n] = v[n] /\ n \in Nat /\ n < N /\ IsAdd(v[n])
  <2>1. /\ IsView(v) /\ IsView(w) /\ DOMAIN w = DOMAIN v \cup {N}
        /\ N \in Nat /\ \A n \in DOMAIN v : w[n] = v[n] /\ n < N /\ n \in Nat
    BY DEF Longer, IsView
  <2>2. IsAdd(a) /\ \A n \in S : IsAdd(v[n])
    BY <2>1 DEF IsView
  <2> QED BY <2>1, <2>2
<1>2. /\ g.packets = f.packets + 1 /\ g.bytes = f.bytes + a.len
      /\ g.first_ts = IF a.ts < f.first_ts THEN a.ts ELSE f.first_ts
      /\ g.last_ts = IF a.ts > f.last_ts THEN a.ts ELSE f.last_ts
      /\ g.first_from_b = IF a.ts < f.first_ts THEN a.reversed ELSE f.first_from_b
      /\ g.tcp_flags = f.tcp_flags \cup a.flags
  BY DEF accounted
<1>3. /\ a.ts \in Nat /\ f.first_ts \in Nat /\ f.last_ts \in Nat /\ f.bytes \in Nat
      /\ f.packets \in Nat /\ a.len \in Nat
      /\ \A n \in S : v[n].ts \in Nat /\ v[n].len \in Nat
  BY <1>1 DEF IsAdd, Flow
<1> HIDE DEF g
<1>4. IsFiniteSet(S) /\ IsFiniteSet(T)
  <2>1. IsFiniteSet(DOMAIN v)
    BY <1>1 DEF IsView
  <2>2. IsFiniteSet(S)
    BY <2>1, FS_Subset
  <2> QED BY <2>2, FS_AddElement
<1>5. /\ Cardinality(T) = Cardinality(S) + 1
      /\ TotalOver(Lens(w), T) = TotalOver(Lens(v), S) + a.len
  <2>1. Cardinality(T) = Cardinality(S) + 1
    BY <1>1, <1>4, FS_AddElement
  <2>2. N \in T /\ T \ {N} = S
    BY <1>1
  <2> DEFINE F == Lens(w)
             G == Lens(v)
  <2>3. /\ F[N] = a.len /\ \A n \in S : F[n] = G[n] /\ F[n] = v[n].len
    BY <1>1 DEF Lens
  <2>4. \A m \in T : F[m] \in Int
    BY <1>3, <2>3
  <2> HIDE DEF T, F, G
  <2>5. \A x \in T : /\ TotalOver(F, T \ {x}) \in Int
                      /\ TotalOver(F, T) = F[x] + TotalOver(F, T \ {x})
    BY <1>4, <2>4, TotalTake
  <2>6. TotalOver(F, S) \in Int /\ TotalOver(F, T) = a.len + TotalOver(F, S)
    BY <2>2, <2>3, <2>5
  <2>7. TotalOver(F, S) = TotalOver(G, S)
    BY <1>4, <2>3, TotalSame
  <2>8. TotalOver(F, T) = TotalOver(G, S) + a.len
    BY <1>3, <2>6, <2>7
  <2> QED BY <2>1, <2>8 DEF F, G
<1>6. CASE S = {}
  <2>1. /\ f.packets = 0 /\ f.bytes = 0 /\ f.tcp_flags = {}
        /\ f.first_ts = a.ts /\ f.last_ts = a.ts /\ f.first_from_b = a.reversed
    BY <1>6 DEF new_flow, ZeroFlow
  <2>2. Cardinality(S) = 0 /\ TotalOver(Lens(v), S) = 0
    BY <1>6, FS_EmptySet, TotalOfNone
  <2>3. g.packets = Cardinality(T) /\ g.bytes = TotalOver(Lens(w), T)
    BY <1>2, <1>3, <1>5, <2>1, <2>2
  <2>4. T = {N}
    BY <1>6
  <2>5. /\ g.first_ts = a.ts /\ g.last_ts = a.ts /\ g.tcp_flags = a.flags
        /\ g.first_from_b = a.reversed
    BY <1>2, <1>3, <2>1
  <2>6. g.tcp_flags = UNION {w[n].flags : n \in T}
    BY <1>1, <2>4, <2>5
  <2>7. IsEarliest(w, T, N) /\ \A m \in T : w[m].ts <= w[N].ts
    BY <1>1, <1>3, <2>4 DEF IsEarliest
  <2>8. Summarises(g, w, T)
    BY <1>1, <2>3, <2>4, <2>5, <2>6, <2>7 DEF Summarises
  <2> QED BY <2>8 DEF g
<1>7. CASE S # {}
  <2>1. /\ f.packets = Cardinality(S) /\ f.bytes = TotalOver(Lens(v), S)
        /\ f.tcp_flags = UNION {v[n].flags : n \in S}
    BY <1>7 DEF Summarises
  <2>2. PICK x \in S : /\ IsEarliest(v, S, x) /\ f.first_ts = v[x].ts
                       /\ f.first_from_b = v[x].reversed
    BY <1>7 DEF Summarises
  <2>3. PICK y \in S : f.last_ts = v[y].ts /\ \A m \in S : v[m].ts <= v[y].ts
    BY <1>7 DEF Summarises
  <2>4. g.packets = Cardinality(T) /\ g.bytes = TotalOver(Lens(w), T)
    BY <1>2, <1>5, <2>1
  <2>5. g.tcp_flags = UNION {w[n].flags : n \in T}
    <3>1. {w[n].flags : n \in T} = {v[n].flags : n \in S} \cup {a.flags}
      BY <1>1
    <3> QED BY <1>2, <2>1, <3>1
  <2>6. \E n \in T : /\ IsEarliest(w, T, n) /\ g.first_ts = w[n].ts
                     /\ g.first_from_b = w[n].reversed
    <3>1. CASE a.ts < f.first_ts
      <4>1. \A m \in S : a.ts < v[m].ts
        BY <1>3, <2>2, <3>1 DEF IsEarliest
      <4>2. IsEarliest(w, T, N)
        BY <1>1, <1>3, <4>1 DEF IsEarliest
      <4> QED BY <1>1, <1>2, <3>1, <4>2
    <3>2. CASE ~(a.ts < f.first_ts)
      <4>1. v[x].ts <= a.ts /\ x < N /\ x \in Nat
        BY <1>1, <1>3, <2>2, <3>2
      <4>2. IsEarliest(w, T, x)
        BY <1>1, <2>2, <4>1 DEF IsEarliest
      <4>3. w[x] = v[x] /\ x \in T
        BY <1>1
      <4> QED BY <1>2, <2>2, <3>2, <4>2, <4>3
    <3> QED BY <3>1, <3>2
  <2>7. \E n \in T : g.last_ts = w[n].ts /\ \A m \in T : w[m].ts <= w[n].ts
    <3>1. CASE a.ts > f.last_ts
      <4>1. \A m \in T : w[m].ts <= w[N].ts
        BY <1>1, <1>3, <2>3, <3>1
      <4> QED BY <1>1, <1>2, <3>1, <4>1
    <3>2. CASE ~(a.ts > f.last_ts)
      <4>1. \A m \in T : w[m].ts <= w[y].ts
        BY <1>1, <1>3, <2>3, <3>2
      <4> QED BY <1>1, <1>2, <2>3, <3>2, <4>1
    <3> QED BY <3>1, <3>2
  <2>8. Summarises(g, w, T)
    BY <1>1, <2>4, <2>5, <2>6, <2>7 DEF Summarises
  <2> QED BY <2>8 DEF g
<1> QED BY <1>6, <1>7

\* The records of one flow among the records A.
Keyed(v, A, k) == {n \in A : v[n].key = k}

\* The table m holds the flows of the records A of the view v.
SummarisesAll(m, v, A) ==
    /\ DOMAIN m = {v[n].key : n \in A}
    /\ \A k \in DOMAIN m : Summarises(m[k], v, Keyed(v, A, k))

\* A record that is not accounted leaves the flows as they are.
LEMMA SummariesKept ==
    ASSUME NEW v, NEW w, NEW N, Longer(w, v, N), NEW A, A \subseteq DOMAIN v,
           NEW m, SummarisesAll(m, v, A)
    PROVE  SummarisesAll(m, w, A)
<1>1. \A n \in A : w[n] = v[n]
  BY DEF Longer
<1>2. \A k \in DOMAIN m : Summarises(m[k], w, Keyed(v, A, k))
  BY SummaryKept DEF SummarisesAll
<1>3. \A k : Keyed(w, A, k) = Keyed(v, A, k)
  BY <1>1 DEF Keyed
<1>4. {w[n].key : n \in A} = {v[n].key : n \in A}
  BY <1>1
<1> QED BY <1>2, <1>3, <1>4 DEF SummarisesAll

\* A record that is accounted changes the flow of its key.
LEMMA SummariesGrow ==
    ASSUME NEW v, NEW w, NEW N, Longer(w, v, N), NEW A, A \subseteq DOMAIN v,
           NEW m, IsTable(m), SummarisesAll(m, v, A), NEW a, a = w[N]
    PROVE  SummarisesAll(account_in(m, a), w, A \cup {N})
<1> DEFINE h == a.key
           t == account_in(m, a)
           B == A \cup {N}
           f == IF h \in DOMAIN m THEN m[h] ELSE new_flow(a)
           S == Keyed(v, A, h)
<1>1. /\ N \notin A /\ N \in DOMAIN w /\ IsAdd(a)
      /\ \A n \in A : w[n] = v[n] /\ n \in DOMAIN v
  BY DEF Longer, IsView
<1>2. /\ DOMAIN t = DOMAIN m \cup {h} /\ t[h] = accounted(f, a)
      /\ \A k \in DOMAIN m : k # h => t[k] = m[k]
  BY DEF account_in
<1>3. /\ DOMAIN m = {v[n].key : n \in A}
      /\ \A k \in DOMAIN m : Summarises(m[k], v, Keyed(v, A, k))
  BY DEF SummarisesAll
<1>4. h = w[N].key
  OBVIOUS
<1> HIDE DEF h, t
<1>5. Keyed(w, B, h) = S \cup {N}
  BY <1>1, <1>4 DEF Keyed
<1>6. \A k : k # h => Keyed(w, B, k) = Keyed(v, A, k)
  BY <1>1, <1>4 DEF Keyed
<1>7. DOMAIN t = {w[n].key : n \in B}
  BY <1>1, <1>2, <1>3, <1>4
<1>8. S \subseteq DOMAIN v /\ f \in Flow /\ (h \in DOMAIN m <=> S # {})
  <2>1. S \subseteq DOMAIN v
    BY <1>1 DEF Keyed
  <2>2. f \in Flow
    BY <1>1, NewFlow DEF IsTable
  <2>3. h \in DOMAIN m <=> S # {}
    BY <1>3 DEF Keyed
  <2> QED BY <2>1, <2>2, <2>3
<1>9. IF S = {} THEN f = new_flow(a) ELSE Summarises(f, v, S)
  BY <1>3, <1>8
<1>10. Summarises(accounted(f, a), w, S \cup {N})
  <2> HIDE DEF S, f
  <2> QED BY <1>8, <1>9, SummaryGrows
<1>11. ASSUME NEW k \in DOMAIN t PROVE Summarises(t[k], w, Keyed(w, B, k))
  <2>1. CASE k = h
    BY <1>2, <1>5, <1>10, <2>1
  <2>2. CASE k # h
    <3>1. k \in DOMAIN m /\ t[k] = m[k] /\ Keyed(w, B, k) = Keyed(v, A, k)
      BY <1>2, <1>6, <2>2
    <3>2. Summarises(m[k], v, Keyed(v, A, k))
      BY <1>3, <3>1
    <3>3. Summarises(m[k], w, Keyed(v, A, k))
      BY <3>2, SummaryKept
    <3> QED BY <3>1, <3>3
  <2> QED BY <2>1, <2>2
<1>12. SummarisesAll(t, w, B)
  BY <1>7, <1>11 DEF SummarisesAll
<1> QED BY <1>12 DEF t

\* What the two tables are given of the packets l.
FlowView(l) == [n \in DOMAIN l |-> flow_add(l[n])]
TunnelView(l) == [n \in DOMAIN l |-> tunnel_add(l[n])]

\* The views of a sequence of packets.
LEMMA ViewsAre ==
    ASSUME NEW l \in Seq(Packet) PROVE IsView(FlowView(l)) /\ IsView(TunnelView(l))
<1>1. DOMAIN l = 1 .. Len(l) /\ Len(l) \in Nat /\ \A n \in DOMAIN l : l[n] \in Packet
  OBVIOUS
<1>2. IsFiniteSet(DOMAIN l) /\ DOMAIN l \subseteq Nat
  BY <1>1, FS_Interval
<1>3. \A n \in DOMAIN l : IsAdd(flow_add(l[n])) /\ IsAdd(tunnel_add(l[n]))
  BY <1>1, AddsTyped
<1> QED BY <1>2, <1>3 DEF IsView, FlowView, TunnelView

\* w is the sequence of packets l and then the packet pi, as its element N.
OnePacketMore(w, l, pi, N) ==
    l \in Seq(Packet) /\ pi \in Packet /\ w = Append(l, pi) /\ N = Len(l) + 1

\* The views grow with the sequence.
LEMMA ViewsGrow ==
    ASSUME NEW l, NEW pi, NEW w, NEW N, OnePacketMore(w, l, pi, N)
    PROVE  /\ Longer(FlowView(w), FlowView(l), N) /\ FlowView(w)[N] = flow_add(pi)
           /\ Longer(TunnelView(w), TunnelView(l), N) /\ TunnelView(w)[N] = tunnel_add(pi)
<1>1. /\ w \in Seq(Packet) /\ DOMAIN l = 1 .. Len(l) /\ DOMAIN w = 1 .. N
      /\ l \in Seq(Packet) /\ N = Len(l) + 1
      /\ Len(l) \in Nat /\ w[N] = pi /\ \A n \in 1 .. Len(l) : w[n] = l[n]
  BY AppendFields DEF OnePacketMore
<1>2. /\ N \in Nat /\ DOMAIN w = DOMAIN l \cup {N} /\ \A n \in DOMAIN l : n < N /\ w[n] = l[n]
  BY <1>1
<1>3. /\ IsView(FlowView(l)) /\ IsView(TunnelView(l))
      /\ IsView(FlowView(w)) /\ IsView(TunnelView(w))
  BY <1>1, ViewsAre
<1> QED BY <1>1, <1>2, <1>3 DEF Longer, FlowView, TunnelView

\* A packet that goes into a tunnel, by its verdicts alone.
Tunnelled(pi) ==
    \/ pi.gtp_status \in UserReasons
    \/ pi.gtp_status = "OK" /\ pi.gtp.msg_type = "gpdu"

\* msg_ok says that the problem, if there is one, is not in the GTP-U headers.
LEMMA TunnelledJoins ==
    ASSUME NEW pi, Good(pi)
    PROVE  /\ joins_tunnel(pi) <=> Tunnelled(pi)
           /\ joins_tunnel(pi) => joins_flow(pi) /\ pi.l3.ip_proto = "udp"
           /\ pi.gtp.is_gtpu = 1 /\ pi.gtp_status # "OK" =>
                (pi.gtp.msg_ok = 1 <=> pi.gtp_status \notin HeaderReasons)
           /\ pi.gtp.is_gtpu # 1 => pi.gtp_status = "OK"
<1> DEFINE q == pi.gtp
           gs == pi.gtp_status
<1>1. /\ OuterAgrees(pi) /\ TunnelAgrees(pi) /\ q \in GtpInfo /\ gs \in decode_status
  BY DEF Good, Consistent, Packet
<1>2. q.is_gtpu \in {0, 1} /\ q.v1u \in {0, 1}
  BY <1>1 DEF GtpInfo, Flag
<1>3. q.is_gtpu = 0 => q.v1u = 0 /\ q.msg_ok = 0 /\ q.msg_type = "none" /\ gs = "OK"
  BY <1>1 DEF TunnelAgrees, NoGtp
<1>4. q.is_gtpu = 1 =>
        /\ pi.status = "OK" /\ pi.l3.has_l4 = 1 /\ pi.l3.ip_proto = "udp"
        /\ q.v1u = 0 => gs \in {"OK", "TRUNC_GTPU"} /\ q.msg_ok = 0 /\ q.msg_type = "none"
        /\ q.v1u = 1 => (q.msg_ok = 1 <=> gs \notin HeaderReasons)
        /\ q.msg_ok = 1 /\ gs # "OK" => q.msg_type = "gpdu"
  BY <1>1 DEF TunnelAgrees
<1>5. pi.l3.has_l4 = 1 => pi.l3.has_l3 = 1
  BY <1>1 DEF OuterAgrees
<1>6. /\ "OK" \notin HeaderReasons /\ "OK" \notin Truncations \cup Malformations
      /\ "TRUNC_GTPU" \in HeaderReasons
      /\ gs = "OK" \/ gs \in Truncations \cup Malformations
  BY <1>1, Enumerations DEF decode_status, HeaderReasons
<1>7. gs \in UserReasons <=> gs # "OK" /\ gs \notin HeaderReasons
  BY <1>6 DEF UserReasons
<1> HIDE DEF q, gs
<1>8. joins_tunnel(pi) <=> /\ pi.status = "OK" /\ q.is_gtpu = 1 /\ q.v1u = 1
                           /\ q.msg_ok = 1 /\ q.msg_type = "gpdu"
  BY DEF joins_tunnel, q
<1>9. Tunnelled(pi) <=> gs \in UserReasons \/ (gs = "OK" /\ q.msg_type = "gpdu")
  BY DEF Tunnelled, gs, q
<1>10. joins_tunnel(pi) <=> Tunnelled(pi)
  <2>1. CASE q.is_gtpu = 0
    BY <1>3, <1>7, <1>8, <1>9, <2>1
  <2>2. CASE q.is_gtpu = 1 /\ q.v1u = 0
    BY <1>4, <1>6, <1>7, <1>8, <1>9, <2>2
  <2>3. CASE q.is_gtpu = 1 /\ q.v1u = 1
    BY <1>4, <1>6, <1>7, <1>8, <1>9, <2>3
  <2> QED BY <1>2, <2>1, <2>2, <2>3
<1>11. joins_tunnel(pi) => joins_flow(pi) /\ pi.l3.ip_proto = "udp"
  BY <1>4, <1>5, <1>8 DEF joins_flow
<1>12. q.is_gtpu = 1 /\ gs # "OK" => (q.msg_ok = 1 <=> gs \notin HeaderReasons)
  BY <1>2, <1>4, <1>6
<1> QED BY <1>2, <1>3, <1>10, <1>11, <1>12 DEF q, gs

-----------------------------------------------------------------------------
(***************************************************************************)
(* The two tables summarise the history                                    *)
(***************************************************************************)
\* A key is a conversation and nothing else: the two directions have one key.
LEMMA KeyIsConversation ==
    ASSUME NEW p \in Packet, NEW q \in Packet
    PROVE  /\ ConversationOf(flow_key_from_packet(p)) = Conversation(p)
           /\ Conversation(p) = Conversation(q) =>
                flow_key_from_packet(p) = flow_key_from_packet(q)
<1> DEFINE k == flow_key_from_packet(p)
           j == flow_key_from_packet(q)
           s == Sender(p)
           d == Receiver(p)
           t == Sender(q)
           e == Receiver(q)
           r == endpoints_reversed(p)
           u == endpoints_reversed(q)
<1>1. /\ k = [teid |-> 0, version |-> p.l3.ip_version, proto |-> p.l3.ip_proto,
              a |-> IF r THEN d ELSE s, b |-> IF r THEN s ELSE d]
      /\ j = [teid |-> 0, version |-> q.l3.ip_version, proto |-> q.l3.ip_proto,
              a |-> IF u THEN e ELSE t, b |-> IF u THEN t ELSE e]
  BY DEF flow_key_from_packet, Sender, Receiver
<1>2. /\ p.src \in Nat /\ p.dst \in Nat /\ p.src_port \in Nat /\ p.dst_port \in Nat
      /\ q.src \in Nat /\ q.dst \in Nat /\ q.src_port \in Nat /\ q.dst_port \in Nat
  BY DEF Packet
<1>3. /\ s.addr = p.src /\ s.port = p.src_port /\ d.addr = p.dst /\ d.port = p.dst_port
      /\ t.addr = q.src /\ t.port = q.src_port /\ e.addr = q.dst /\ e.port = q.dst_port
  BY DEF Sender, Receiver
<1>4. /\ s = t /\ d = e => (r <=> u)
      /\ s = e /\ d = t /\ s # d => (r <=> ~u)
  <2>1. s = t /\ d = e => (r <=> u)
    BY <1>3 DEF endpoints_reversed
  <2>2. s # d => p.src # p.dst \/ p.src_port # p.dst_port
    BY DEF Sender, Receiver
  <2>3. s = e /\ d = t => /\ q.dst = p.src /\ q.dst_port = p.src_port
                          /\ q.src = p.dst /\ q.src_port = p.dst_port
    BY <1>3
  <2> HIDE DEF s, d, t, e
  <2> QED BY <1>2, <2>1, <2>2, <2>3 DEF endpoints_reversed
<1> HIDE DEF s, d, t, e, r, u, k, j
<1>5. ConversationOf(k) = <<p.l3.ip_version, p.l3.ip_proto, {s, d}>>
  <2>1. {k.a, k.b} = {s, d}
    BY <1>1
  <2> QED BY <1>1, <2>1 DEF ConversationOf
<1>6. Conversation(p) = <<p.l3.ip_version, p.l3.ip_proto, {s, d}>>
  BY DEF Conversation, s, d
<1>7. Conversation(q) = <<q.l3.ip_version, q.l3.ip_proto, {t, e}>>
  BY DEF Conversation, t, e
<1>8. ASSUME Conversation(p) = Conversation(q) PROVE k = j
  <2>1. /\ p.l3.ip_version = q.l3.ip_version /\ p.l3.ip_proto = q.l3.ip_proto
        /\ {s, d} = {t, e}
    BY <1>6, <1>7, <1>8
  <2>2. (s = t /\ d = e) \/ (s = e /\ d = t)
    BY <2>1
  <2>3. (IF r THEN d ELSE s) = (IF u THEN e ELSE t) /\ (IF r THEN s ELSE d) = (IF u THEN t ELSE e)
    BY <1>4, <2>2
  <2> QED BY <1>1, <2>1, <2>3
<1> QED BY <1>5, <1>6, <1>8 DEF k, j

\* A packet is reversed when it goes from B to A in its flow.
LEMMA ReversedIsFromB ==
    ASSUME NEW p \in Packet
    PROVE  FromB(flow_key_from_packet(p), p) = One(endpoints_reversed(p))
<1> DEFINE s == Sender(p)
           d == Receiver(p)
           r == endpoints_reversed(p)
           k == flow_key_from_packet(p)
<1>1. k.a = (IF r THEN d ELSE s) /\ k.b = (IF r THEN s ELSE d)
  BY DEF flow_key_from_packet, Sender, Receiver
<1>2. r => s # d
  <2>1. s = d => p.src = p.dst /\ p.src_port = p.dst_port
    BY DEF Sender, Receiver
  <2>2. p.src \in Nat /\ p.dst \in Nat /\ p.src_port \in Nat /\ p.dst_port \in Nat
    BY DEF Packet
  <2> HIDE DEF s, d
  <2> QED BY <2>1, <2>2 DEF endpoints_reversed
<1> HIDE DEF s, d, r, k
<1>3. (k.a # k.b /\ s = k.b) <=> r
  BY <1>1, <1>2
<1>4. FromB(k, p) = IF k.a # k.b /\ s = k.b THEN 1 ELSE 0
  BY DEF FromB, One, s
<1>5. FromB(k, p) = IF r THEN 1 ELSE 0
  BY <1>3, <1>4
<1> QED BY <1>5 DEF k, r, One

\* A packet's tunnel is its bearer and nothing else.
LEMMA KeyIsBearer ==
    ASSUME NEW p \in Packet, NEW q \in Packet
    PROVE  /\ BearerOf(tunnel_add(p).key) = Bearer(p)
           /\ p.l3.ip_proto = q.l3.ip_proto /\ Bearer(p) = Bearer(q) =>
                tunnel_add(p).key = tunnel_add(q).key
BY DEF BearerOf, Bearer, tunnel_add

\* Clean IP packets.
Clean(pi) == pi.status = "OK" /\ pi.l2.ethertype \in {"ipv4", "ipv6"}

\* Every record is a packet that decode_frame() can return.
LogHolds == \A n \in DOMAIN log : Good(log[n])

\* FlowsSummariseHistory and TunnelsHoldSoundGpdus in terms of keys.
FlowsHold == phase # "none" => SummarisesAll(flows, FlowView(log), Accounted)
TunnelsHold == phase # "none" => SummarisesAll(tunnels, TunnelView(log), Carried)

\* One more record in the history.
LEMMA AccountLog ==
    ASSUME NEW p \in Packets, TypesHold, LogHolds, analysis_account(p)
    PROVE  LogHolds'
<1> DEFINE pi == attributed(frags, p)
           N == Len(log) + 1
<1>1. Good(pi) /\ pi \in Packet
  BY AttributedFields DEF Good
<1>2. log' = Append(log, pi) /\ log \in Seq(Packet)
  BY AccountTypes DEF TypesHold
<1> HIDE DEF pi
<1>3. /\ DOMAIN log = 1 .. Len(log) /\ DOMAIN log' = 1 .. N /\ Len(log) \in Nat
      /\ log'[N] = pi /\ \A n \in 1 .. Len(log) : log'[n] = log[n]
  BY <1>1, <1>2, AppendFields
<1>4. \A n \in DOMAIN log' : n = N \/ (n \in DOMAIN log /\ log'[n] = log[n])
  BY <1>3
<1> QED BY <1>1, <1>3, <1>4 DEF LogHolds

\* One record, whatever becomes of it: the flows.
LEMMA AccountFlows ==
    ASSUME NEW p \in Packets, TypesHold, PhasesHold, FlowsHold, analysis_account(p)
    PROVE  FlowsHold'
<1> DEFINE pi == attributed(frags, p)
           N == Len(log) + 1
           A == Accounted
           v == FlowView(log)
           w == FlowView(log')
           a == flow_add(pi)
<1>1. pi \in Packet /\ OuterAgrees(pi)
  BY AttributedFields DEF Good, Consistent
<1>2. log' = Append(log, pi) /\ log \in Seq(Packet)
  BY AccountTypes DEF TypesHold
<1>3. phase = "run" /\ lost = "none"
  BY DEF analysis_account, PhasesHold
<1>4. SummarisesAll(flows, v, A) /\ A = {n \in DOMAIN log : Clean(log[n])}
  BY <1>3 DEF FlowsHold, Accounted, Clean
<1>5. joins_flow(pi) <=> Clean(pi)
  <2>1. pi.l3.has_l3 \in {0, 1}
    BY <1>1 DEF Packet, L3Info, Flag
  <2> QED BY <1>1, <2>1 DEF joins_flow, Clean, OuterAgrees
<1>6. \/ ~joins_flow(pi) /\ flows' = flows /\ lost' # "flow"
      \/ flows' = flows /\ lost' = "flow"
      \/ joins_flow(pi) /\ flows' = account_in(flows, a) /\ lost' # "flow"
  <2> HIDE DEF pi
  <2> QED BY <1>3 DEF analysis_account, pi
<1>7. /\ Len(log) \in Nat /\ DOMAIN log = 1 .. Len(log) /\ DOMAIN log' = 1 .. N
      /\ Len(log') = N /\ log'[N] = pi /\ \A n \in 1 .. Len(log) : log'[n] = log[n]
  BY <1>1, <1>2, AppendFields
<1>8. Accounted' = {n \in DOMAIN log' : Clean(log'[n]) /\ (lost' = "flow" => n # N)}
  BY <1>7 DEF Accounted, Clean
<1>9. Accounted' = IF Clean(pi) /\ lost' # "flow" THEN A \cup {N} ELSE A
  <2>1. \A n \in DOMAIN log' : n = N \/ n \in DOMAIN log
    BY <1>7
  <2>2. N \in DOMAIN log' /\ N \notin DOMAIN log
    BY <1>7
  <2>3. \A n \in DOMAIN log : n \in DOMAIN log' /\ log'[n] = log[n] /\ n # N
    BY <1>7
  <2> HIDE DEF pi, N, A
  <2> QED BY <1>4, <1>7, <1>8, <2>1, <2>2, <2>3
<1>10. A \subseteq DOMAIN v /\ IsTable(flows)
  BY <1>4 DEF TypesHold, FlowView
<1>11. Longer(w, v, N) /\ w[N] = a
  <2>1. OnePacketMore(log', log, pi, N)
    BY <1>1, <1>2 DEF OnePacketMore
  <2> HIDE DEF pi, N, v, w, a
  <2>2. Longer(FlowView(log'), FlowView(log), N) /\ FlowView(log')[N] = flow_add(pi)
    BY <2>1, ViewsGrow
  <2> QED BY <2>2 DEF v, w, a
<1> HIDE DEF pi, A, v, w, a, N
<1>12. CASE flows' = flows /\ (~joins_flow(pi) \/ lost' = "flow")
  <2>1. Accounted' = A
    BY <1>5, <1>9, <1>12
  <2>2. SummarisesAll(flows, w, A)
    BY <1>4, <1>10, <1>11, SummariesKept
  <2> QED BY <1>12, <2>1, <2>2 DEF FlowsHold, w
<1>13. CASE joins_flow(pi) /\ flows' = account_in(flows, a) /\ lost' # "flow"
  <2>1. Accounted' = A \cup {N}
    BY <1>5, <1>9, <1>13
  <2>2. SummarisesAll(account_in(flows, a), w, A \cup {N})
    BY <1>4, <1>10, <1>11, SummariesGrow
  <2> QED BY <1>13, <2>1, <2>2 DEF FlowsHold, w
<1> QED BY <1>6, <1>12, <1>13

\* The same for the tunnels: a problem in the GTP-U headers keeps the record out.
LEMMA AccountTunnels ==
    ASSUME NEW p \in Packets, TypesHold, PhasesHold, TunnelsHold, analysis_account(p)
    PROVE  TunnelsHold'
<1> DEFINE pi == attributed(frags, p)
           N == Len(log) + 1
           A == Carried
           v == TunnelView(log)
           w == TunnelView(log')
           a == tunnel_add(pi)
<1>1. Good(pi) /\ pi \in Packet
  BY AttributedFields DEF Good
<1>2. log' = Append(log, pi) /\ log \in Seq(Packet)
  BY AccountTypes DEF TypesHold
<1>3. phase = "run" /\ lost = "none"
  BY DEF analysis_account, PhasesHold
<1>4. SummarisesAll(tunnels, v, A) /\ A = {n \in DOMAIN log : Tunnelled(log[n])}
  BY <1>3 DEF TunnelsHold, Carried, Tunnelled
<1>5. /\ joins_tunnel(pi) <=> Tunnelled(pi)
      /\ joins_tunnel(pi) => joins_flow(pi)
  BY <1>1, TunnelledJoins
<1>6. \/ ~joins_tunnel(pi) /\ tunnels' = tunnels
      \/ tunnels' = tunnels /\ lost' # "none"
      \/ joins_tunnel(pi) /\ tunnels' = account_in(tunnels, a) /\ lost' = "none"
  <2> HIDE DEF pi
  <2> QED BY <1>3, <1>5 DEF analysis_account, pi
<1>7. /\ Len(log) \in Nat /\ DOMAIN log = 1 .. Len(log) /\ DOMAIN log' = 1 .. N
      /\ Len(log') = N /\ log'[N] = pi /\ \A n \in 1 .. Len(log) : log'[n] = log[n]
  BY <1>1, <1>2, AppendFields
<1>8. Carried' = {n \in DOMAIN log' : Tunnelled(log'[n]) /\ (lost' # "none" => n # N)}
  BY <1>7 DEF Carried, Tunnelled
<1>9. Carried' = IF Tunnelled(pi) /\ lost' = "none" THEN A \cup {N} ELSE A
  <2>1. \A n \in DOMAIN log' : n = N \/ n \in DOMAIN log
    BY <1>7
  <2>2. N \in DOMAIN log' /\ N \notin DOMAIN log
    BY <1>7
  <2>3. \A n \in DOMAIN log : n \in DOMAIN log' /\ log'[n] = log[n] /\ n # N
    BY <1>7
  <2> HIDE DEF pi, N, A
  <2> QED BY <1>4, <1>7, <1>8, <2>1, <2>2, <2>3
<1>10. A \subseteq DOMAIN v /\ IsTable(tunnels)
  BY <1>4 DEF TypesHold, TunnelView
<1>11. Longer(w, v, N) /\ w[N] = a
  <2>1. OnePacketMore(log', log, pi, N)
    BY <1>1, <1>2 DEF OnePacketMore
  <2> HIDE DEF pi, N, v, w, a
  <2>2. Longer(TunnelView(log'), TunnelView(log), N) /\ TunnelView(log')[N] = tunnel_add(pi)
    BY <2>1, ViewsGrow
  <2> QED BY <2>2 DEF v, w, a
<1> HIDE DEF pi, A, v, w, a, N
<1>12. CASE tunnels' = tunnels /\ (~joins_tunnel(pi) \/ lost' # "none")
  <2>1. Carried' = A
    BY <1>5, <1>9, <1>12
  <2>2. SummarisesAll(tunnels, w, A)
    BY <1>4, <1>10, <1>11, SummariesKept
  <2> QED BY <1>12, <2>1, <2>2 DEF TunnelsHold, w
<1>13. CASE joins_tunnel(pi) /\ tunnels' = account_in(tunnels, a) /\ lost' = "none"
  <2>1. Carried' = A \cup {N}
    BY <1>5, <1>9, <1>13
  <2>2. SummarisesAll(account_in(tunnels, a), w, A \cup {N})
    BY <1>4, <1>10, <1>11, SummariesGrow
  <2> QED BY <1>13, <2>1, <2>2 DEF TunnelsHold, w
<1> QED BY <1>6, <1>12, <1>13

-----------------------------------------------------------------------------
(***************************************************************************)
(* The problems in tunnels                                                 *)
(***************************************************************************)
\* The packets among l whose problem in a tunnel is one of S.
ProblemsIn(l, S) == {n \in DOMAIN l : l[n].gtp_status \in S}

\* The counters of the two lines are those of the two kinds of problems.
ProblemsHold ==
    LET g == stats.gtpu IN
    /\ g.user_truncated = Cardinality(ProblemsIn(log, Truncations \ HeaderReasons))
    /\ g.user_malformed = Cardinality(ProblemsIn(log, Malformations \ HeaderReasons))
    /\ g.truncated = g.user_truncated
                       + Cardinality(ProblemsIn(log, Truncations \cap HeaderReasons))
    /\ g.malformed = g.user_malformed
                       + Cardinality(ProblemsIn(log, Malformations \cap HeaderReasons))

\* The packets w have one problem more than l, the reason st, if that is a problem.
OneMore(w, l, st) ==
    \A S : /\ Cardinality(ProblemsIn(l, S)) \in Nat
           /\ Cardinality(ProblemsIn(w, S)) = Cardinality(ProblemsIn(l, S)) + One(st \in S)

\* A packet is one problem more, or none.
LEMMA ProblemsGrow ==
    ASSUME NEW l \in Seq(Packet), NEW pi \in Packet
    PROVE  OneMore(Append(l, pi), l, pi.gtp_status)
<1> DEFINE w == Append(l, pi)
<1> SUFFICES ASSUME NEW S
             PROVE  /\ Cardinality(ProblemsIn(l, S)) \in Nat
                    /\ Cardinality(ProblemsIn(w, S)) =
                         Cardinality(ProblemsIn(l, S)) + One(pi.gtp_status \in S)
  BY DEF OneMore
<1> DEFINE N == Len(l) + 1
           P == ProblemsIn(l, S)
<1>1. /\ DOMAIN l = 1 .. Len(l) /\ DOMAIN w = 1 .. N /\ Len(l) \in Nat
      /\ w[N] = pi /\ \A n \in 1 .. Len(l) : w[n] = l[n]
  BY AppendFields
<1>2. IsFiniteSet(P) /\ Cardinality(P) \in Nat /\ N \notin P
  <2>1. IsFiniteSet(1 .. Len(l)) /\ P \subseteq 1 .. Len(l)
    BY <1>1, FS_Interval DEF ProblemsIn
  <2>2. IsFiniteSet(P)
    BY <2>1, FS_Subset
  <2> QED BY <1>1, <2>1, <2>2, FS_CardinalityType
<1>3. ProblemsIn(w, S) = IF pi.gtp_status \in S THEN P \cup {N} ELSE P
  <2>1. /\ \A n \in DOMAIN w : n = N \/ n \in DOMAIN l
        /\ N \in DOMAIN w /\ N \notin DOMAIN l
        /\ \A n \in DOMAIN l : n \in DOMAIN w /\ w[n] = l[n] /\ n # N
    BY <1>1
  <2> HIDE DEF N
  <2> QED BY <1>1, <2>1 DEF ProblemsIn
<1> HIDE DEF P, N
<1>4. Cardinality(P \cup {N}) = Cardinality(P) + 1
  BY <1>2, FS_AddElement
<1> QED BY <1>2, <1>3, <1>4 DEF One, P

\* One record, whatever becomes of it.
LEMMA AccountProblems ==
    ASSUME NEW p \in Packets, TypesHold, ProblemsHold, analysis_account(p)
    PROVE  ProblemsHold'
<1> DEFINE pi == attributed(frags, p)
           q == pi.gtp
           gs == pi.gtp_status
           g == stats.gtpu
           h == stats'.gtpu
           cut == gs \in Truncations
           bad == gs \notin Truncations \cup {"OK"}
           TU == Truncations \ HeaderReasons
           TH == Truncations \cap HeaderReasons
           MU == Malformations \ HeaderReasons
           MH == Malformations \cap HeaderReasons
<1>1. Good(pi) /\ pi \in Packet /\ gs \in decode_status
  BY AttributedFields DEF Good, Packet
<1>2. log' = Append(log, pi) /\ log \in Seq(Packet)
  BY AccountTypes DEF TypesHold
<1>3. /\ g \in GtpuStats /\ h \in GtpuStats /\ GtpuStep(g, h, pi)
  BY AccountCounts, CountedFields DEF Counted, StatsType
<1>4. /\ g.truncated \in Nat /\ g.malformed \in Nat
      /\ g.user_truncated \in Nat /\ g.user_malformed \in Nat
  BY <1>3 DEF GtpuStats
<1>5. /\ h.truncated = g.truncated + One(cut) /\ h.malformed = g.malformed + One(bad)
      /\ h.user_truncated = g.user_truncated + One(cut /\ q.msg_ok = 1)
      /\ h.user_malformed = g.user_malformed + One(bad /\ q.msg_ok = 1)
  BY <1>3 DEF GtpuStep
<1>6. /\ gs # "OK" => (q.msg_ok = 1 <=> gs \notin HeaderReasons)
  BY <1>1, TunnelledJoins
<1>7. /\ "OK" \notin Truncations \cup Malformations
      /\ gs \in Truncations \cup Malformations \cup {"OK"}
      /\ Truncations \cap Malformations = {}
  BY <1>1, Enumerations DEF decode_status
<1> HIDE DEF q, gs
<1>8. /\ One(cut) = One(gs \in TU) + One(gs \in TH)
      /\ One(bad) = One(gs \in MU) + One(gs \in MH)
      /\ One(cut /\ q.msg_ok = 1) = One(gs \in TU)
      /\ One(bad /\ q.msg_ok = 1) = One(gs \in MU)
  BY <1>6, <1>7 DEF One
<1>9. ASSUME NEW S
      PROVE  /\ Cardinality(ProblemsIn(log, S)) \in Nat
             /\ Cardinality(ProblemsIn(log', S)) =
                  Cardinality(ProblemsIn(log, S)) + One(gs \in S)
  <2> HIDE DEF pi
  <2>1. OneMore(log', log, pi.gtp_status)
    BY <1>1, <1>2, ProblemsGrow
  <2> QED BY <2>1 DEF OneMore, gs
<1>10. /\ g.user_truncated = Cardinality(ProblemsIn(log, TU))
       /\ g.user_malformed = Cardinality(ProblemsIn(log, MU))
       /\ g.truncated = g.user_truncated + Cardinality(ProblemsIn(log, TH))
       /\ g.malformed = g.user_malformed + Cardinality(ProblemsIn(log, MH))
  BY DEF ProblemsHold
<1>11. \A S : One(gs \in S) \in Nat
  BY DEF One
<1> DEFINE a == One(gs \in TU)
           b == One(gs \in TH)
           c == One(gs \in MU)
           d == One(gs \in MH)
           m == Cardinality(ProblemsIn(log, TU))
           n == Cardinality(ProblemsIn(log, TH))
           o == Cardinality(ProblemsIn(log, MU))
           r == Cardinality(ProblemsIn(log, MH))
<1>12. /\ a \in Nat /\ b \in Nat /\ c \in Nat /\ d \in Nat
       /\ m \in Nat /\ n \in Nat /\ o \in Nat /\ r \in Nat
  BY <1>9, <1>11
<1>13. /\ Cardinality(ProblemsIn(log', TU)) = m + a /\ Cardinality(ProblemsIn(log', TH)) = n + b
       /\ Cardinality(ProblemsIn(log', MU)) = o + c /\ Cardinality(ProblemsIn(log', MH)) = r + d
  BY <1>9
<1>14. /\ h.truncated = g.truncated + (a + b) /\ h.malformed = g.malformed + (c + d)
       /\ h.user_truncated = g.user_truncated + a /\ h.user_malformed = g.user_malformed + c
       /\ g.user_truncated = m /\ g.user_malformed = o
       /\ g.truncated = g.user_truncated + n /\ g.malformed = g.user_malformed + r
  BY <1>5, <1>8, <1>10
<1> HIDE DEF a, b, c, d, m, n, o, r, g, h
<1>15. /\ h.user_truncated = m + a /\ h.user_malformed = o + c
       /\ h.truncated = h.user_truncated + (n + b)
       /\ h.malformed = h.user_malformed + (r + d)
  BY <1>4, <1>12, <1>14
<1> QED BY <1>13, <1>15 DEF ProblemsHold, h

-----------------------------------------------------------------------------
(***************************************************************************)
(* The totals of the flow table                                            *)
(***************************************************************************)
\* Every clean packet is in a flow or is not IP, but for the one for which the flow
\* table had no memory; and the flows hold no more bytes than the capture.
TotalsHold ==
    phase # "none" =>
        /\ stats.by_status["OK"] = PacketsIn(flows) + One(lost = "flow") + stats.non_ip
        /\ BytesIn(flows) <= stats.wire_bytes

\* One record, whatever becomes of it.
LEMMA AccountTotals ==
    ASSUME NEW p \in Packets, TypesHold, PhasesHold, TotalsHold, analysis_account(p)
    PROVE  TotalsHold'
<1> DEFINE pi == attributed(frags, p)
           d == One(pi.l3.has_l3 # 1 /\ is_non_ip(pi))
           e == One(pi.status = "OK")
<1>1. pi \in Packet /\ OuterAgrees(pi)
  BY AttributedFields DEF Good, Consistent
<1>2. /\ stats'.wire_bytes = stats.wire_bytes + pi.wirelen
      /\ stats'.non_ip = stats.non_ip + d /\ Counted(pi)
  BY AccountCounts
<1>3. phase = "run" /\ lost = "none"
  BY DEF analysis_account, PhasesHold
<1>4. /\ stats.by_status["OK"] = PacketsIn(flows) + stats.non_ip
      /\ BytesIn(flows) <= stats.wire_bytes
      /\ stats.by_status["OK"] \in Nat /\ stats.non_ip \in Nat /\ stats.wire_bytes \in Nat
  <2>1. stats.by_status["OK"] \in Nat /\ stats.non_ip \in Nat /\ stats.wire_bytes \in Nat
    BY DEF TypesHold, StatsType, decode_status
  <2>2. PacketsIn(flows) \in Int /\ One(lost = "flow") = 0
    BY <1>1, <1>3, AddsTyped, AccountIn DEF TypesHold, One
  <2> QED BY <1>3, <2>1, <2>2 DEF TotalsHold
<1>5. stats'.by_status["OK"] = stats.by_status["OK"] + e
  <2>1. stats'.by_status = Plus(stats.by_status, pi.status, 1)
    BY <1>2, CountedFields
  <2>2. stats.by_status \in [decode_status -> Nat] /\ "OK" \in decode_status
    BY DEF TypesHold, StatsType, decode_status
  <2> HIDE DEF pi
  <2> QED BY <2>1, <2>2 DEF Plus, One
<1>6. /\ joins_flow(pi) => d = 0 /\ e = 1
      /\ ~joins_flow(pi) => d = e
      /\ d \in {0, 1} /\ e \in {0, 1}
  <2>1. pi.l3.has_l3 \in {0, 1} /\ pi.l2.has_l2 \in {0, 1}
    BY <1>1 DEF Packet, L2Info, L3Info, Flag
  <2> HIDE DEF pi
  <2> QED BY <1>1, <2>1 DEF joins_flow, is_non_ip, OuterAgrees, One
<1>7. \/ ~joins_flow(pi) /\ flows' = flows /\ lost' # "flow"
      \/ joins_flow(pi) /\ flows' = flows /\ lost' = "flow"
      \/ joins_flow(pi) /\ flows' = account_in(flows, flow_add(pi)) /\ lost' # "flow"
  <2> HIDE DEF pi
  <2> QED BY <1>3 DEF analysis_account, pi
<1>8. /\ PacketsIn(flows) \in Int /\ BytesIn(flows) \in Int
      /\ PacketsIn(account_in(flows, flow_add(pi))) = PacketsIn(flows) + 1
      /\ BytesIn(account_in(flows, flow_add(pi))) = BytesIn(flows) + pi.wirelen
      /\ pi.wirelen \in Nat
  <2>1. IsAdd(flow_add(pi)) /\ flow_add(pi).len = pi.wirelen /\ pi.wirelen \in Nat
    BY <1>1, AddsTyped DEF flow_add, Packet
  <2> QED BY <2>1, AccountIn DEF TypesHold
<1> HIDE DEF pi, d, e
<1>9. CASE ~joins_flow(pi) /\ flows' = flows /\ lost' # "flow"
  BY <1>2, <1>4, <1>5, <1>6, <1>8, <1>9 DEF TotalsHold, One
<1>10. CASE joins_flow(pi) /\ flows' = flows /\ lost' = "flow"
  BY <1>2, <1>4, <1>5, <1>6, <1>8, <1>10 DEF TotalsHold, One
<1>11. CASE joins_flow(pi) /\ flows' = account_in(flows, flow_add(pi)) /\ lost' # "flow"
  BY <1>2, <1>4, <1>5, <1>6, <1>8, <1>11 DEF TotalsHold, One
<1> QED BY <1>7, <1>9, <1>10, <1>11

-----------------------------------------------------------------------------
(***************************************************************************)
(* The theorems                                                            *)
(***************************************************************************)
\* The inductive invariant: the types and phases, the two properties that are
\* inductive with them, and what the others rest on.
IInv ==
    /\ TypesHold /\ PhasesHold /\ LogHolds /\ CountersAddUp /\ SpanHolds
    /\ CacheHoldsLatest /\ FragmentsAttributed
    /\ FlowsHold /\ TunnelsHold /\ ProblemsHold /\ TotalsHold

\* A sum of zeros.
LEMMA ZeroTotal ==
    ASSUME NEW S, IsFiniteSet(S), NEW f, \A x \in S : f[x] = 0
    PROVE  TotalOver(f, S) = 0
<1> DEFINE Q == {s \in SUBSET S : TotalOver(f, s) = 0}
<1>1. ASSUME NEW s \in SUBSET S, \A x \in s : s \ {x} \in Q PROVE s \in Q
  <2>1. CASE s = {}
    BY <2>1, TotalOfNone
  <2>2. CASE s # {}
    <3>1. PICK x \in s : TRUE
      BY <2>2
    <3>2. IsFiniteSet(s) /\ \A y \in s : f[y] \in Int
      BY FS_Subset
    <3>3. TotalOver(f, s) = f[x] + TotalOver(f, s \ {x})
      BY <3>2, TotalTake
    <3>4. TotalOver(f, s \ {x}) = 0 /\ f[x] = 0
      BY <1>1, <3>1
    <3> QED BY <3>3, <3>4
  <2> QED BY <2>1, <2>2
<1>2. \A s \in SUBSET S : s \in Q
  <2> HIDE DEF Q
  <2> QED BY <1>1, SubsetInduction
<1> QED BY <1>2

\* What stats_init() leaves: no packets, and every sum is zero.  Either everything
\* or nothing is allocated.
Fresh ==
    /\ stats = ZeroStats /\ log = << >> /\ lost = "none"
    /\ flows = NoFlows /\ tunnels = NoFlows /\ frags = EmptyCache
    /\ phase \in {"none", "run"} /\ held = IF phase = "none" THEN {} ELSE Arrays

\* The counters of stats_init() have their types.
LEMMA ZeroType == ZeroStats \in StatsType
<1> DEFINE f == [st \in decode_status |-> 0]
           t == [x \in GtpMsgTypes |-> 0]
           v == [x \in Versions |-> 0]
           l == [x \in L4Proto |-> 0]
           g == ZeroGtpu
<1>1. /\ f \in [decode_status -> Nat] /\ t \in [GtpMsgTypes -> Nat]
      /\ v \in [Versions -> Nat] /\ l \in [L4Proto -> Nat]
  OBVIOUS
<1>2. g = [packets |-> 0, fragmented |-> 0, not_v1u |-> 0,
           by_type |-> t, with_seq |-> 0, with_ext |-> 0,
           inner_ip |-> v, inner_l4 |-> l,
           nested |-> 0, truncated |-> 0, malformed |-> 0,
           user_truncated |-> 0, user_malformed |-> 0, by_status |-> f]
  BY DEF ZeroGtpu
<1>3. ZeroStats =
        [packets |-> 0, wire_bytes |-> 0, captured_bytes |-> 0,
         first_ts |-> 0, last_ts |-> 0, ip |-> v, non_ip |-> 0, vlan_tagged |-> 0,
         l4 |-> l, frag_first |-> 0, frag_later |-> 0, frag_matched |-> 0,
         truncated |-> 0, malformed |-> 0, by_status |-> f, gtpu |-> g]
  BY DEF ZeroStats
<1> HIDE DEF f, t, v, l, g
<1>4. g \in GtpuStats
  BY <1>1, <1>2 DEF GtpuStats
<1> QED BY <1>1, <1>3, <1>4 DEF StatsType

\* The counters of stats_init() add up.
LEMMA ZeroAddsUp == ASSUME stats = ZeroStats PROVE CountersAddUp
<1> DEFINE f == [st \in decode_status |-> 0]
           t == [x \in GtpMsgTypes |-> 0]
           v == [x \in Versions |-> 0]
           l == [x \in L4Proto |-> 0]
<1>1. /\ stats.by_status = f /\ stats.gtpu.by_status = f /\ stats.gtpu.by_type = t
      /\ stats.ip = v /\ stats.gtpu.inner_ip = v /\ stats.l4 = l /\ stats.gtpu.inner_l4 = l
      /\ stats.packets = 0 /\ stats.truncated = 0 /\ stats.malformed = 0
      /\ stats.gtpu.packets = 0 /\ stats.gtpu.truncated = 0 /\ stats.gtpu.malformed = 0
      /\ stats.gtpu.nested = 0 /\ stats.gtpu.not_v1u = 0 /\ stats.gtpu.fragmented = 0
  BY DEF ZeroStats, ZeroGtpu
<1>2. /\ Truncations \subseteq decode_status /\ Malformations \subseteq decode_status
      /\ ChainReasons \subseteq decode_status /\ "OK" \in decode_status
      /\ "TRUNC_GTPU" \in decode_status /\ "udp" \in L4Proto
  BY Enumerations DEF decode_status, L4Proto, KnownL4
<1>3. /\ TotalOver(f, Truncations) = 0 /\ TotalOver(f, Malformations) = 0
      /\ TotalOver(f, ChainReasons) = 0
  <2>1. \A x \in decode_status : f[x] = 0
    OBVIOUS
  <2> HIDE DEF f
  <2> QED BY <1>2, <2>1, Enumerations, ZeroTotal
<1>4. Total(t) = 0 /\ Total(v) = 0 /\ Total(l) = 0
  <2>1. /\ DOMAIN t = GtpMsgTypes /\ DOMAIN v = Versions /\ DOMAIN l = L4Proto
        /\ \A x \in GtpMsgTypes : t[x] = 0
        /\ \A x \in Versions : v[x] = 0 /\ \A y \in L4Proto : l[y] = 0
    OBVIOUS
  <2>2. \A x \in L4Proto : l[x] = 0
    OBVIOUS
  <2>3. IsFiniteSet(GtpMsgTypes) /\ IsFiniteSet(Versions) /\ IsFiniteSet(L4Proto)
    BY Enumerations, TypesAssumption
  <2> HIDE DEF t, v, l
  <2>4. TotalOver(t, GtpMsgTypes) = 0
    BY <2>1, <2>3, ZeroTotal
  <2>5. TotalOver(v, Versions) = 0
    BY <2>1, <2>3, ZeroTotal
  <2>6. TotalOver(l, L4Proto) = 0
    BY <2>2, <2>3, ZeroTotal
  <2> QED BY <2>1, <2>4, <2>5, <2>6 DEF Total
<1>5. /\ f["OK"] = 0 /\ f["TRUNC_GTPU"] = 0 /\ t["gpdu"] = 0 /\ l["udp"] = 0
  BY <1>2, TypesAssumption
<1> HIDE DEF f, t, v, l
<1>6. VerdictsAddUp
  BY <1>1, <1>3, <1>5 DEF VerdictsAddUp
<1>7. TransportAddsUp
  BY <1>1, <1>3, <1>4, <1>5 DEF TransportAddsUp
<1>8. MessagesAddUp
  BY <1>1, <1>4, <1>5 DEF MessagesAddUp
<1> QED BY <1>6, <1>7, <1>8 DEF CountersAddUp

\* An analysis that has just begun, or has not, satisfies the invariant.
LEMMA FreshHolds == ASSUME Fresh PROVE IInv
<1>1. stats.packets = 0 /\ stats.frag_matched = 0 /\ stats.frag_later = 0
      /\ stats.gtpu.user_truncated = 0 /\ stats.gtpu.user_malformed = 0
      /\ stats.gtpu.truncated = 0 /\ stats.gtpu.malformed = 0
  BY DEF Fresh, ZeroStats, ZeroGtpu
<1>2. DOMAIN log = {} /\ Len(log) = 0 /\ log \in Seq(Packet)
  BY DEF Fresh
<1>3. \A s \in FragSlots : frags[s] = EmptyEntry
  BY DEF Fresh, EmptyCache
<1>4. TypesHold
  <2>1. frags = [s \in FragSlots |-> frags[s]]
    BY DEF Fresh, EmptyCache
  <2>2. \A s \in FragSlots : frags[s].src_port \in Nat /\ frags[s].dst_port \in Nat
    BY <1>3 DEF EmptyEntry
  <2>3. stats \in StatsType
    BY ZeroType DEF Fresh
  <2>4. IsTable(flows) /\ IsTable(tunnels)
    BY EmptyTable DEF Fresh
  <2> QED BY <1>2, <2>1, <2>2, <2>3, <2>4 DEF TypesHold, Fresh
<1>5. PhasesHold
  BY <1>1, <1>2 DEF Fresh, PhasesHold
<1>6. CountersAddUp
  BY ZeroAddsUp DEF Fresh
<1>7. ProblemsHold
  <2>1. \A S : ProblemsIn(log, S) = {}
    BY <1>2 DEF ProblemsIn
  <2>2. \A S : Cardinality(ProblemsIn(log, S)) = 0
    BY <2>1, FS_EmptySet
  <2> QED BY <1>1, <2>2 DEF ProblemsHold
<1>8. SpanHolds
  BY DEF Fresh, SpanHolds, Between, NoFlows
<1>9. CacheHoldsLatest
  BY <1>2, <1>3 DEF CacheHoldsLatest, Recorders
<1>10. FragmentsAttributed
  <2>1. {n \in DOMAIN log : Owned(n)} = {}
    BY <1>2
  <2>2. Cardinality({}) = 0
    BY FS_EmptySet
  <2> QED BY <1>1, <1>2, <2>1, <2>2 DEF FragmentsAttributed
<1>11. FlowsHold /\ TunnelsHold /\ LogHolds
  <2>1. DOMAIN flows = {} /\ Accounted = {} /\ DOMAIN tunnels = {} /\ Carried = {}
    BY <1>2 DEF Fresh, NoFlows, Accounted, Carried
  <2> QED BY <1>2, <2>1 DEF FlowsHold, TunnelsHold, LogHolds, SummarisesAll
<1>12. TotalsHold
  <2>1. PacketsIn(flows) = 0 /\ BytesIn(flows) = 0 /\ One(lost = "flow") = 0
    BY EmptyTable DEF Fresh, One
  <2>2. stats.by_status["OK"] = 0 /\ stats.non_ip = 0 /\ stats.wire_bytes = 0
    BY DEF Fresh, ZeroStats, decode_status
  <2> QED BY <2>1, <2>2 DEF TotalsHold
<1> QED BY <1>4, <1>5, <1>6, <1>7, <1>8, <1>9, <1>10, <1>11, <1>12 DEF IInv

\* The same as an implication, in the current and in the next state.
LEMMA FreshStart == Fresh => IInv
BY FreshHolds

\* IInv is inductive.
LEMMA InvariantStep == ASSUME IInv, [Next]_vars PROVE IInv'
<1> USE DEF IInv
<1>1. CASE analysis_init
  <2>1. /\ phase = "none" /\ held = {} /\ stats' = ZeroStats /\ log' = << >> /\ lost' = "none"
        /\ flows' = NoFlows /\ tunnels' = NoFlows /\ frags' = EmptyCache
    BY <1>1 DEF analysis_init, PhasesHold
  <2>2. \A a \in Arrays : before[a] \ undone[a] = {}
    BY DEF Arrays, before, undone
  <2>3. \/ phase' = "run" /\ held' = Arrays
        \/ phase' = "none" /\ held' = {}
    BY <1>1, <2>1, <2>2 DEF analysis_init
  <2>4. Fresh'
    BY <2>1, <2>3 DEF Fresh
  <2>5. (Fresh => IInv)'
    BY FreshStart, PTL
  <2> QED BY <2>4, <2>5
<1>2. ASSUME NEW p \in Packets, analysis_account(p) PROVE IInv'
  <2> DEFINE pi == attributed(frags, p)
  <2>1. TypesHold'
    BY <1>2, AccountTypes
  <2>2. PhasesHold'
    BY <1>2, AccountPhases
  <2>3. CountersAddUp'
    <3>1. Counted(pi)
      BY <1>2, AccountCounts
    <3> HIDE DEF pi
    <3>2. VerdictsAddUp' /\ TransportAddsUp' /\ MessagesAddUp'
      BY <3>1, VerdictsNext, TransportNext, MessagesNext DEF CountersAddUp
    <3> QED BY <3>2 DEF CountersAddUp
  <2>4. TunnelsHold'
    BY <1>2, AccountTunnels
  <2>5. SpanHolds'
    BY <1>2, AccountSpan
  <2>6. CacheHoldsLatest'
    BY <1>2, AccountCache
  <2>7. FragmentsAttributed'
    BY <1>2, AccountFragments
  <2>8. FlowsHold'
    BY <1>2, AccountFlows
  <2>9. TotalsHold'
    BY <1>2, AccountTotals
  <2>10. ProblemsHold'
    BY <1>2, AccountProblems
  <2>11. LogHolds'
    BY <1>2, AccountLog
  <2> QED BY <2>1, <2>2, <2>3, <2>4, <2>5, <2>6, <2>7, <2>8, <2>9, <2>10, <2>11
<1>3. ASSUME NEW st \in {"EOF", "ERR"}, run_ends(st) PROVE IInv'
  <2>1. /\ phase = "run" /\ phase' = "stopped"
        /\ UNCHANGED <<stats, frags, flows, tunnels, held, log, lost>>
    BY <1>3 DEF run_ends
  <2>2. TypesHold'
    BY <2>1 DEF TypesHold
  <2>3. PhasesHold'
    BY <2>1 DEF PhasesHold
  <2>4. CountersAddUp'
    BY <2>1 DEF CountersAddUp, VerdictsAddUp, TransportAddsUp, MessagesAddUp
  <2>5. ProblemsHold' /\ LogHolds'
    BY <2>1 DEF ProblemsHold, LogHolds
  <2>6. SpanHolds'
    BY <2>1 DEF SpanHolds
  <2>7. CacheHoldsLatest'
    BY <2>1 DEF CacheHoldsLatest
  <2>8. FragmentsAttributed'
    BY <2>1 DEF FragmentsAttributed, Owned, LastFirst
  <2>9. FlowsHold' /\ TunnelsHold'
    BY <2>1 DEF FlowsHold, TunnelsHold, Accounted, Carried
  <2>10. TotalsHold'
    BY <2>1 DEF TotalsHold
  <2> QED BY <2>2, <2>3, <2>4, <2>5, <2>6, <2>7, <2>8, <2>9, <2>10
<1>4. CASE analysis_free
  <2>1. /\ phase' = "none" /\ flows' = NoFlows /\ tunnels' = NoFlows /\ frags' = EmptyCache
        /\ held' = held \ {"flows", "tunnels", "frags"} /\ UNCHANGED <<stats, log, lost>>
    BY <1>4 DEF analysis_free
  <2>2. TypesHold'
    <3>1. \A s \in FragSlots : frags'[s] = EmptyEntry
      BY <2>1 DEF EmptyCache
    <3>2. frags' = [s \in FragSlots |-> frags'[s]]
      BY <2>1 DEF EmptyCache
    <3>3. \A s \in FragSlots : frags'[s].src_port \in Nat /\ frags'[s].dst_port \in Nat
      BY <3>1 DEF EmptyEntry
    <3>4. IsTable(flows') /\ IsTable(tunnels')
      BY <2>1, EmptyTable
    <3> QED BY <2>1, <3>2, <3>3, <3>4 DEF TypesHold
  <2>3. PhasesHold'
    <3>1. held' = {}
      BY <2>1 DEF PhasesHold, Arrays, before
    <3> QED BY <2>1, <3>1 DEF PhasesHold
  <2>4. CountersAddUp'
    BY <2>1 DEF CountersAddUp, VerdictsAddUp, TransportAddsUp, MessagesAddUp
  <2>5. ProblemsHold' /\ LogHolds'
    BY <2>1 DEF ProblemsHold, LogHolds
  <2>6. SpanHolds'
    <3>1. Between(NoFlows, stats.first_ts, stats.last_ts)
      BY DEF Between, NoFlows
    <3> QED BY <2>1, <3>1 DEF SpanHolds
  <2>7. CacheHoldsLatest'
    BY <2>1 DEF CacheHoldsLatest
  <2>8. FragmentsAttributed'
    BY <2>1 DEF FragmentsAttributed, Owned, LastFirst
  <2>9. FlowsHold' /\ TunnelsHold'
    BY <2>1 DEF FlowsHold, TunnelsHold, Accounted, Carried
  <2>10. TotalsHold'
    BY <2>1 DEF TotalsHold
  <2> QED BY <2>2, <2>3, <2>4, <2>5, <2>6, <2>7, <2>8, <2>9, <2>10
<1>5. CASE UNCHANGED vars
  <2>1. UNCHANGED <<phase, stats, frags, flows, tunnels, held, log, lost>>
    BY <1>5 DEF vars
  <2>2. TypesHold' /\ PhasesHold'
    BY <2>1 DEF TypesHold, PhasesHold
  <2>3. CountersAddUp'
    BY <2>1 DEF CountersAddUp, VerdictsAddUp, TransportAddsUp, MessagesAddUp
  <2>4. ProblemsHold' /\ LogHolds' /\ TunnelsHold'
    BY <2>1 DEF ProblemsHold, LogHolds, TunnelsHold, Carried
  <2>5. SpanHolds' /\ CacheHoldsLatest'
    BY <2>1 DEF SpanHolds, CacheHoldsLatest
  <2>6. FragmentsAttributed'
    BY <2>1 DEF FragmentsAttributed, Owned, LastFirst
  <2>7. FlowsHold' /\ TotalsHold'
    BY <2>1 DEF FlowsHold, Accounted, TotalsHold
  <2> QED BY <2>2, <2>3, <2>4, <2>5, <2>6, <2>7
<1> QED BY <1>1, <1>2, <1>3, <1>4, <1>5 DEF Next

\* The invariant holds in every state of the pipeline.
THEOREM InvariantHolds == Spec => []IInv
<1>1. Init => IInv
  BY FreshHolds DEF Init, Fresh
<1>2. IInv /\ [Next]_vars => IInv'
  BY InvariantStep
<1> QED BY <1>1, <1>2, PTL DEF Spec

\* The counters of the summary partition the packets, for every capture.
THEOREM CountersAlwaysAddUp == Spec => []CountersAddUp
<1>1. IInv => CountersAddUp
  BY DEF IInv
<1> QED BY <1>1, InvariantHolds, PTL

\* The span of the capture is exact, and contains those of all flows and tunnels,
\* whatever the order of the timestamps.
THEOREM TimesAlwaysWithin == Spec => []TimesWithinCapture
<1>1. IInv => TimesWithinCapture
  <2> SUFFICES ASSUME IInv PROVE TimesWithinCapture
    OBVIOUS
  <2> DEFINE times == {log[n].ts : n \in DOMAIN log}
  <2>1. times \subseteq Nat
    <3>1. \A n \in DOMAIN log : log[n] \in Packet
      BY DEF IInv, TypesHold
    <3>2. \A pi \in Packet : pi.ts \in Nat
      BY DEF Packet
    <3> QED BY <3>1, <3>2
  <2>2. ASSUME log # << >>
        PROVE  /\ stats.first_ts \in times /\ stats.last_ts \in times
               /\ \A t \in times : stats.first_ts <= t /\ t <= stats.last_ts
    BY <2>2 DEF IInv, SpanHolds
  <2> HIDE DEF times
  <2>3. log # << >> => stats.first_ts = Min(times) /\ stats.last_ts = Max(times)
    BY <2>1, <2>2, MinIs, MaxIs
  <2> QED BY <2>3 DEF IInv, SpanHolds, Between, TimesWithinCapture, times
<1> QED BY <1>1, InvariantHolds, PTL

\* Every later fragment is in the flow of the latest first fragment of its key, or
\* has no ports, whatever the capture, the slots and the hash.
THEOREM FragmentsAlwaysAttributed == Spec => []FragmentsAttributed
<1>1. IInv => FragmentsAttributed
  BY DEF IInv
<1> QED BY <1>1, InvariantHolds, PTL

\* The flow table is what a second pass over the capture would compute, whatever the
\* order of its packets and timestamps and wherever memory runs out.
THEOREM FlowsAlwaysSummarise == Spec => []FlowsSummariseHistory
<1>1. IInv => FlowsSummariseHistory
  <2> SUFFICES ASSUME IInv, phase # "none" PROVE FlowsSummariseHistory
    BY DEF FlowsSummariseHistory
  <2> DEFINE v == FlowView(log)
  <2>1. log \in Seq(Packet) /\ SummarisesAll(flows, v, Accounted) /\ IsView(v)
    BY ViewsAre DEF IInv, TypesHold, FlowsHold
  <2>2. /\ Accounted \subseteq DOMAIN log /\ \A n \in Accounted : log[n] \in Packet
        /\ \A n \in Accounted : log[n].status = "OK"
    BY <2>1 DEF Accounted
  <2>3. \A n \in Accounted :
          /\ v[n].key = flow_key_from_packet(log[n]) /\ v[n].ts = log[n].ts
          /\ v[n].len = log[n].wirelen /\ v[n].flags = log[n].tcp_flags
          /\ v[n].reversed = One(endpoints_reversed(log[n]))
    <3>1. \A n \in Accounted : v[n] = flow_add(log[n]) /\ Good(log[n])
      BY <2>2 DEF FlowView, IInv, LogHolds
    <3>2. \A n \in Accounted : flow_add(log[n]).flags = log[n].tcp_flags
      BY <2>2, <3>1 DEF Good
    <3>3. \A pi : /\ flow_add(pi).key = flow_key_from_packet(pi) /\ flow_add(pi).ts = pi.ts
                  /\ flow_add(pi).len = pi.wirelen
                  /\ flow_add(pi).reversed = One(endpoints_reversed(pi))
      BY DEF flow_add
    <3> QED BY <3>1, <3>2, <3>3
  <2> HIDE DEF v
  <2>4. /\ DOMAIN flows = {flow_key_from_packet(log[n]) : n \in Accounted}
        /\ \A k \in DOMAIN flows : Summarises(flows[k], v, Keyed(v, Accounted, k))
    BY <2>1, <2>3 DEF SummarisesAll
  <2>5. \A n \in Accounted :
          ConversationOf(flow_key_from_packet(log[n])) = Conversation(log[n])
    BY <2>2, KeyIsConversation
  <2>6. {ConversationOf(k) : k \in DOMAIN flows} = {Conversation(log[n]) : n \in Accounted}
    BY <2>4, <2>5
  <2>7. \A k, m \in DOMAIN flows : ConversationOf(k) = ConversationOf(m) => k = m
    BY <2>2, <2>4, <2>5, KeyIsConversation
  <2>8. ASSUME NEW k \in DOMAIN flows
        PROVE  LET s == Of(k)
                   f == flows[k] IN
               /\ f.packets = Cardinality(s)
               /\ f.bytes = Total([n \in s |-> log[n].wirelen])
               /\ f.first_ts = Min({log[n].ts : n \in s})
               /\ f.last_ts = Max({log[n].ts : n \in s})
               /\ f.tcp_flags = UNION {log[n].tcp_flags : n \in s}
               /\ f.first_from_b = FromB(k, log[Earliest(s)])
    <3> DEFINE s == Of(k)
               f == flows[k]
    <3>1. s = Keyed(v, Accounted, k)
      <4>1. PICK i \in Accounted : k = flow_key_from_packet(log[i])
        BY <2>4
      <4>2. \A n \in Accounted :
              Conversation(log[n]) = ConversationOf(k) <=> flow_key_from_packet(log[n]) = k
        BY <2>2, <2>5, <4>1, KeyIsConversation
      <4> QED BY <2>3, <4>2 DEF Of, Keyed
    <3>2. Summarises(f, v, s) /\ s \subseteq Accounted
      BY <2>4, <3>1 DEF Keyed
    <3>3. \A n \in s : flow_key_from_packet(log[n]) = k
      BY <2>3, <3>1 DEF Keyed
    <3> HIDE DEF s, f
    <3>4. /\ [n \in s |-> v[n].len] = [n \in s |-> log[n].wirelen]
          /\ {v[n].ts : n \in s} = {log[n].ts : n \in s}
          /\ {v[n].flags : n \in s} = {log[n].tcp_flags : n \in s}
      BY <2>3, <3>2
    <3>5. /\ f.packets = Cardinality(s) /\ f.bytes = Total([n \in s |-> v[n].len])
          /\ f.first_ts = Min({v[n].ts : n \in s}) /\ f.last_ts = Max({v[n].ts : n \in s})
          /\ f.tcp_flags = UNION {v[n].flags : n \in s}
          /\ \E x \in s : /\ IsEarliest(v, s, x) /\ f.first_from_b = v[x].reversed
                          /\ \A z \in s : IsEarliest(v, s, z) => z = x
      <4>1. IsSummary(f, v, s)
        BY <2>1, <3>2, SummaryValues
      <4> QED BY <4>1 DEF IsSummary
    <3>6. PICK x \in s : /\ IsEarliest(v, s, x) /\ f.first_from_b = v[x].reversed
                         /\ \A z \in s : IsEarliest(v, s, z) => z = x
      BY <3>5
    <3>7. Earliest(s) = x
      <4>1. \A n \in s : IsEarliest(v, s, n) <=>
              \A m \in s : /\ log[n].ts <= log[m].ts
                           /\ m < n => log[n].ts < log[m].ts
        BY <2>3, <3>2 DEF IsEarliest
      <4> QED BY <3>6, <4>1 DEF Earliest
    <3>8. f.first_from_b = FromB(k, log[Earliest(s)])
      BY <2>2, <2>3, <3>2, <3>3, <3>6, <3>7, ReversedIsFromB
    <3> QED BY <3>4, <3>5, <3>8 DEF s, f
  <2> QED BY <2>6, <2>7, <2>8 DEF FlowsSummariseHistory
<1> QED BY <1>1, InvariantHolds, PTL

\* The tunnel table is what a second pass over the G-PDUs with sound GTP-U headers
\* would compute, and the counters of the report are exact, for every capture and
\* wherever memory runs out.
THEOREM TunnelsAlwaysSound == Spec => []TunnelsHoldSoundGpdus
<1>1. IInv => TunnelsHoldSoundGpdus
  <2> SUFFICES ASSUME IInv, phase # "none" PROVE TunnelsHoldSoundGpdus
    BY DEF TunnelsHoldSoundGpdus
  <2> DEFINE v == TunnelView(log)
             g == stats.gtpu
  <2>1. log \in Seq(Packet) /\ SummarisesAll(tunnels, v, Carried) /\ IsView(v)
    BY ViewsAre DEF IInv, TypesHold, TunnelsHold
  <2>2. /\ Carried \subseteq DOMAIN log /\ \A n \in Carried : log[n] \in Packet
        /\ \A n \in Carried : log[n].l3.ip_proto = "udp"
    <3>1. \A n \in Carried : n \in DOMAIN log /\ Tunnelled(log[n])
      BY DEF Carried, Tunnelled
    <3>2. \A n \in Carried : Good(log[n])
      BY <3>1 DEF IInv, LogHolds
    <3> QED BY <3>1, <3>2, TunnelledJoins DEF Good
  <2>3. \A n \in Carried :
          /\ v[n].key = tunnel_add(log[n]).key /\ v[n].ts = log[n].ts
          /\ v[n].len = log[n].wirelen /\ v[n].flags = {} /\ v[n].reversed = 0
    BY <2>2 DEF TunnelView, tunnel_add
  <2> HIDE DEF v
  <2>4. /\ DOMAIN tunnels = {tunnel_add(log[n]).key : n \in Carried}
        /\ \A k \in DOMAIN tunnels : Summarises(tunnels[k], v, Keyed(v, Carried, k))
    BY <2>1, <2>3 DEF SummarisesAll
  <2>5. \A n \in Carried : BearerOf(tunnel_add(log[n]).key) = Bearer(log[n])
    BY <2>2, KeyIsBearer
  <2>6. {BearerOf(k) : k \in DOMAIN tunnels} = {Bearer(log[n]) : n \in Carried}
    BY <2>4, <2>5
  <2>7. \A k, m \in DOMAIN tunnels : BearerOf(k) = BearerOf(m) => k = m
    BY <2>2, <2>4, <2>5, KeyIsBearer
  <2>8. ASSUME NEW k \in DOMAIN tunnels
        PROVE  LET s == Through(k)
                   f == tunnels[k] IN
               /\ f.packets = Cardinality(s)
               /\ f.bytes = Total([n \in s |-> log[n].wirelen])
               /\ f.first_ts = Min({log[n].ts : n \in s})
               /\ f.last_ts = Max({log[n].ts : n \in s})
               /\ f.tcp_flags = {} /\ f.first_from_b = 0
    <3> DEFINE s == Through(k)
               f == tunnels[k]
    <3>1. s = Keyed(v, Carried, k)
      <4>1. PICK i \in Carried : k = tunnel_add(log[i]).key
        BY <2>4
      <4>2. \A n \in Carried : Bearer(log[n]) = BearerOf(k) <=> tunnel_add(log[n]).key = k
        BY <2>2, <2>5, <4>1, KeyIsBearer
      <4> QED BY <2>3, <4>2 DEF Through, Keyed
    <3>2. Summarises(f, v, s) /\ s \subseteq Carried
      BY <2>4, <3>1 DEF Keyed
    <3> HIDE DEF s, f
    <3>3. /\ [n \in s |-> v[n].len] = [n \in s |-> log[n].wirelen]
          /\ {v[n].ts : n \in s} = {log[n].ts : n \in s}
          /\ UNION {v[n].flags : n \in s} = {}
      BY <2>3, <3>2
    <3>4. /\ f.packets = Cardinality(s) /\ f.bytes = Total([n \in s |-> v[n].len])
          /\ f.first_ts = Min({v[n].ts : n \in s}) /\ f.last_ts = Max({v[n].ts : n \in s})
          /\ f.tcp_flags = UNION {v[n].flags : n \in s}
          /\ \E x \in s : f.first_from_b = v[x].reversed
      <4>1. IsSummary(f, v, s)
        BY <2>1, <3>2, SummaryValues
      <4> QED BY <4>1 DEF IsSummary
    <3>5. f.first_from_b = 0
      BY <2>3, <3>2, <3>4
    <3> QED BY <3>3, <3>4, <3>5 DEF s, f
  <2>9. /\ g.user_truncated = Cardinality(Problems(Truncations \ HeaderReasons))
        /\ g.user_malformed = Cardinality(Problems(Malformations \ HeaderReasons))
        /\ g.truncated - g.user_truncated =
             Cardinality(Problems(Truncations \cap HeaderReasons))
        /\ g.malformed - g.user_malformed =
             Cardinality(Problems(Malformations \cap HeaderReasons))
    <3>1. g.user_truncated \in Nat /\ g.user_malformed \in Nat
      BY DEF IInv, TypesHold, StatsType, GtpuStats
    <3>2. \A S : /\ Problems(S) = ProblemsIn(log, S)
                 /\ Cardinality(ProblemsIn(log, S)) \in Nat
      <4>1. \A S : Problems(S) = ProblemsIn(log, S) /\ ProblemsIn(log, S) \subseteq DOMAIN log
        BY DEF Problems, ProblemsIn
      <4>2. IsFiniteSet(DOMAIN log)
        BY <2>1, FS_Interval
      <4> QED BY <4>1, <4>2, FS_Subset, FS_CardinalityType
    <3>3. /\ g.user_truncated = Cardinality(ProblemsIn(log, Truncations \ HeaderReasons))
          /\ g.user_malformed = Cardinality(ProblemsIn(log, Malformations \ HeaderReasons))
          /\ g.truncated = g.user_truncated
                             + Cardinality(ProblemsIn(log, Truncations \cap HeaderReasons))
          /\ g.malformed = g.user_malformed
                             + Cardinality(ProblemsIn(log, Malformations \cap HeaderReasons))
      BY DEF IInv, ProblemsHold
    <3> HIDE DEF g
    <3> QED BY <3>1, <3>2, <3>3
  <2> QED BY <2>6, <2>7, <2>8, <2>9 DEF TunnelsHoldSoundGpdus
<1> QED BY <1>1, InvariantHolds, PTL
=============================================================================
