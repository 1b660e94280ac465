----------------------------- MODULE TopNProofs -----------------------------
(***************************************************************************)
(* Proofs about TopN, for every table and every n: the heap keeps the n    *)
(* best of the flows walked over, and the results are those of the         *)
(* documented order.                                                       *)
(*                                                                         *)
(* The argument: rank_cmp() decides the documented order (RankIsBetter),   *)
(* which is total on a table because no two flows share a key              *)
(* (StoredOrdered).  A heap is in order but for the flow being sifted, and *)
(* the neighbours above and below that flow are in order with each other   *)
(* (Bridge); this is what makes an exchange move the disorder and not      *)
(* spread it (SwapUp, SwapDown).  The root of a heap in order is the       *)
(* weakest flow (RootIsWeakest), so one comparison with it decides.        *)
(***************************************************************************)
EXTENDS TopN, FiniteProofs

\* Better orders the flows of S, and rank_above() decides it.
OrderedSet(S) ==
    /\ \A f, g \in S : rank_above(f, g) <=> Better(f, g)
    /\ \A f, g \in S : Better(f, g) => ~Better(g, f)
    /\ \A f, g, h \in S : Better(f, g) /\ Better(g, h) => Better(f, h)
    /\ \A f, g \in S : f # g => Better(f, g) \/ Better(g, f)

\* rank_cmp() implements the documented order.
LEMMA RankIsBetter ==
    ASSUME NEW f, NEW g, Rankable(f), Rankable(g)
    PROVE  rank_above(f, g) <=> Better(f, g)
<1> DEFINE r == RankFields(f)
           q == RankFields(g)
           k == key_fields(f.key)
           l == key_fields(g.key)
<1>1. /\ r \in [1 .. 10 -> Int] /\ q \in [1 .. 10 -> Int]
      /\ r[1] = -f.bytes /\ r[2] = -f.packets /\ r[3] = f.first_ts
      /\ q[1] = -g.bytes /\ q[2] = -g.packets /\ q[3] = g.first_ts
  BY RankFieldsAre
<1>2. /\ DOMAIN k = 1 .. 7 /\ \A m \in 1 .. 7 : r[m + 3] = k[m]
      /\ \A m \in 1 .. 7 : q[m + 3] = l[m]
  <2>1. /\ r[4] = f.key.teid /\ r[5] = f.key.version /\ r[6] = IPPROTO_NUM[f.key.proto]
        /\ r[7] = f.key.a.addr /\ r[8] = f.key.a.port
        /\ r[9] = f.key.b.addr /\ r[10] = f.key.b.port
    BY RankFieldsAre
  <2>2. /\ q[4] = g.key.teid /\ q[5] = g.key.version /\ q[6] = IPPROTO_NUM[g.key.proto]
        /\ q[7] = g.key.a.addr /\ q[8] = g.key.a.port
        /\ q[9] = g.key.b.addr /\ q[10] = g.key.b.port
    BY RankFieldsAre
  <2>3. /\ DOMAIN k = 1 .. 7
        /\ k[1] = f.key.teid /\ k[2] = f.key.version /\ k[3] = IPPROTO_NUM[f.key.proto]
        /\ k[4] = f.key.a.addr /\ k[5] = f.key.a.port
        /\ k[6] = f.key.b.addr /\ k[7] = f.key.b.port
    BY DEF key_fields
  <2>4. /\ l[1] = g.key.teid /\ l[2] = g.key.version /\ l[3] = IPPROTO_NUM[g.key.proto]
        /\ l[4] = g.key.a.addr /\ l[5] = g.key.a.port
        /\ l[6] = g.key.b.addr /\ l[7] = g.key.b.port
    BY DEF key_fields
  <2> HIDE DEF r, q, k, l
  <2>5. /\ r[4] = k[1] /\ r[5] = k[2] /\ r[6] = k[3] /\ r[7] = k[4] /\ r[8] = k[5]
        /\ r[9] = k[6] /\ r[10] = k[7] /\ q[4] = l[1] /\ q[5] = l[2] /\ q[6] = l[3]
        /\ q[7] = l[4] /\ q[8] = l[5] /\ q[9] = l[6] /\ q[10] = l[7]
    BY ONLY <2>1, <2>2, <2>3, <2>4, Zenon
  <2> QED BY ONLY <2>3, <2>5
<1>3. rank_above(f, g) <=> LexBefore(r, q)
  BY DEF rank_above, RankFields
<1>4. /\ f.bytes \in Nat /\ f.packets \in Nat /\ f.first_ts \in Nat
      /\ g.bytes \in Nat /\ g.packets \in Nat /\ g.first_ts \in Nat
  BY DEF Rankable
<1> HIDE DEF r, q, k, l
<1>5. ASSUME LexBefore(r, q) PROVE Better(f, g)
  <2>1. PICK m \in 1 .. 10 : r[m] < q[m] /\ \A j \in 1 .. m - 1 : r[j] = q[j]
    BY <1>1, <1>5 DEF LexBefore
  <2>2. CASE m <= 3
    <3>1. m = 1 \/ (m = 2 /\ r[1] = q[1]) \/ (m = 3 /\ r[1] = q[1] /\ r[2] = q[2])
      BY <2>1, <2>2
    <3> QED BY <1>1, <1>4, <2>1, <3>1 DEF Better
  <2>3. CASE m > 3
    <3>1. r[1] = q[1] /\ r[2] = q[2] /\ r[3] = q[3]
      BY <2>1, <2>3
    <3>2. m - 3 \in 1 .. 7 /\ k[m - 3] = r[m] /\ l[m - 3] = q[m]
      BY <2>3, <1>2
    <3>3. \A j \in 1 .. (m - 3) - 1 : k[j] = l[j]
      <4> TAKE j \in 1 .. (m - 3) - 1
      <4>1. j \in 1 .. 7 /\ j + 3 \in 1 .. m - 1
        BY <2>3
      <4> QED BY <4>1, <1>2, <2>1
    <3>4. LexBefore(k, l)
      BY <1>2, <2>1, <3>2, <3>3 DEF LexBefore
    <3> QED BY <1>1, <1>4, <3>1, <3>4 DEF Better, k, l
  <2> QED BY <2>2, <2>3
<1>6. ASSUME Better(f, g) PROVE LexBefore(r, q)
  <2>1. CASE r[1] < q[1]
    BY <1>1, <2>1 DEF LexBefore
  <2>2. CASE r[1] = q[1] /\ r[2] < q[2]
    BY <1>1, <2>2 DEF LexBefore
  <2>3. CASE r[1] = q[1] /\ r[2] = q[2] /\ r[3] < q[3]
    BY <1>1, <2>3 DEF LexBefore
  <2>4. CASE r[1] = q[1] /\ r[2] = q[2] /\ r[3] = q[3] /\ LexBefore(k, l)
    <3>1. PICK m \in 1 .. 7 : k[m] < l[m] /\ \A j \in 1 .. m - 1 : k[j] = l[j]
      BY <1>2, <2>4 DEF LexBefore
    <3>2. m + 3 \in DOMAIN r /\ r[m + 3] < q[m + 3]
      BY <1>1, <1>2, <3>1
    <3>3. \A j \in 1 .. (m + 3) - 1 : r[j] = q[j]
      <4> TAKE j \in 1 .. (m + 3) - 1
      <4>1. CASE j <= 3
        BY <4>1, <2>4
      <4>2. CASE j > 3
        <5>1. j - 3 \in 1 .. 7 /\ j - 3 \in 1 .. m - 1 /\ j = (j - 3) + 3
          BY <4>2
        <5> QED BY <5>1, <3>1, <1>2
      <4> QED BY <4>1, <4>2
    <3> QED BY <3>2, <3>3 DEF LexBefore
  <2>5. \/ f.bytes > g.bytes
        \/ f.bytes = g.bytes /\ f.packets > g.packets
        \/ f.bytes = g.bytes /\ f.packets = g.packets /\ f.first_ts < g.first_ts
        \/ /\ f.bytes = g.bytes /\ f.packets = g.packets /\ f.first_ts = g.first_ts
           /\ LexBefore(k, l)
    BY <1>6 DEF Better, k, l
  <2> QED BY <1>1, <1>4, <2>1, <2>2, <2>3, <2>4, <2>5
<1> QED BY <1>3, <1>5, <1>6

\* The flows of a table are in an order: none has the key of another.
LEMMA StoredOrdered ==
    ASSUME NEW t \in Tables
    PROVE  OrderedSet({t[p] : p \in {r \in DOMAIN t : t[r] # NoFlow}})
<1> DEFINE S == {t[p] : p \in {r \in DOMAIN t : t[r] # NoFlow}}
<1>1. \A f \in S : Rankable(f)
  BY TablesAssumption
<1>2. \A f, g \in S : f # g => f.key # g.key
  BY DistinctKeys
<1> HIDE DEF S
<1>3. \A f, g \in S : rank_above(f, g) <=> Better(f, g)
  BY <1>1, RankIsBetter
<1>4. \A f, g \in S : rank_above(f, g) => ~rank_above(g, f)
  BY <1>1, RankOnce
<1>5. \A f, g, h \in S : rank_above(f, g) /\ rank_above(g, h) => rank_above(f, h)
  BY <1>1, RankTransitive
<1>6. \A f, g \in S : f # g => rank_above(f, g) \/ rank_above(g, f)
  BY <1>1, <1>2, RankTotal
<1>7. OrderedSet(S)
  BY ONLY <1>3, <1>4, <1>5, <1>6, Zenon DEF OrderedSet
<1> QED BY <1>7 DEF S

-----------------------------------------------------------------------------
(***************************************************************************)
(* Heaps of c flows, the indices in X being out of order                   *)
(***************************************************************************)
Heap(o, c, X) == \A k \in 1 .. c - 1 : k \in X \/ Better(o[k], o[parent(k)])

\* The children of j are in order with the parent of j, whatever is at j itself.
Bridge(o, c, j) == \A k \in 1 .. c - 1 : parent(k) = j /\ j > 0 => Better(o[k], o[parent(j)])

Children(j) == {2 * j + 1, 2 * j + 2}

\* The parent of an index is before it, and has it as a child.
LEMMA ParentIs ==
    ASSUME NEW k \in Nat, k > 0
    PROVE  /\ parent(k) \in Nat /\ parent(k) < k
           /\ \A j \in Nat : parent(k) = j <=> k \in Children(j)
BY DEF parent, Children

\* The flow at the root is the weakest.
LEMMA RootIsWeakest ==
    ASSUME NEW S, OrderedSet(S), NEW c \in Nat, NEW o \in [0 .. c - 1 -> S], Heap(o, c, {})
    PROVE  \A k \in 1 .. c - 1 : Better(o[k], o[0])
<1> DEFINE Bad == {k \in 1 .. c - 1 : ~Better(o[k], o[0])}
<1> SUFFICES ASSUME Bad # {} PROVE FALSE
  OBVIOUS
<1>1. PICK k \in Bad : \A m \in Bad : k <= m
  <2>1. Bad \subseteq Nat
    OBVIOUS
  <2> HIDE DEF Bad
  <2> QED BY <2>1, LeastNatural
<1>2. k \in 1 .. c - 1 /\ ~Better(o[k], o[0])
  BY <1>1
<1>3. parent(k) \in Nat /\ parent(k) < k
  BY <1>2, ParentIs
<1>4. Better(o[k], o[parent(k)])
  BY <1>2 DEF Heap
<1>5. parent(k) \in 1 .. c - 1 /\ Better(o[parent(k)], o[0])
  <2>1. parent(k) # 0
    BY <1>2, <1>4
  <2>2. parent(k) \in 1 .. c - 1 /\ ~(k <= parent(k))
    BY <1>2, <1>3, <2>1
  <2> QED BY <1>1, <2>2
<1>6. o[k] \in S /\ o[parent(k)] \in S /\ o[0] \in S
  BY <1>2, <1>5
<1> QED BY <1>2, <1>4, <1>5, <1>6 DEF OrderedSet

\* One exchange of sift_up(): the flow that is out of order moves to its parent.
LEMMA SwapUp ==
    ASSUME NEW S, OrderedSet(S), NEW c \in Nat, NEW o \in [0 .. c - 1 -> S],
           NEW j \in 1 .. c - 1, Heap(o, c, {j}), Bridge(o, c, j),
           Better(o[parent(j)], o[j])
    PROVE  LET q == parent(j)
               s == [o EXCEPT ![j] = o[q], ![q] = o[j]] IN
           Heap(s, c, {q}) /\ Bridge(s, c, q)
<1> DEFINE q == parent(j)
           s == [o EXCEPT ![j] = o[q], ![q] = o[j]]
<1>1. q \in 0 .. c - 1 /\ q < j
  BY ParentIs
<1>2. Better(o[q], o[j])
  OBVIOUS
<1>3. /\ s[j] = o[q] /\ s[q] = o[j]
      /\ \A k \in 0 .. c - 1 : k # j /\ k # q => s[k] = o[k]
  <2> HIDE DEF q
  <2> QED BY <1>1
<1>4. \A k \in 0 .. c - 1 : o[k] \in S
  OBVIOUS
<1>q. q = parent(j)
  OBVIOUS
<1> HIDE DEF q, s
<1>5. ASSUME NEW k \in 1 .. c - 1
      PROVE  /\ parent(k) \in 0 .. c - 1 /\ parent(k) < k
             /\ k # j => Better(o[k], o[parent(k)])
  BY ParentIs DEF Heap
<1>6. ASSUME NEW k \in 1 .. c - 1, k # q PROVE Better(s[k], s[parent(k)])
  <2>1. CASE k = j
    BY <1>2, <1>3, <1>q, <2>1
  <2>2. CASE k # j /\ parent(k) = j
    <3>1. j > 0
      OBVIOUS
    <3>2. Better(o[k], o[q])
      BY <2>2, <3>1, <1>q DEF Bridge
    <3> QED BY <1>3, <1>6, <2>2, <3>2
  <2>3. CASE k # j /\ parent(k) = q
    <3>1. Better(o[k], o[q])
      BY <1>5, <2>3
    <3>2. Better(o[k], o[j])
      BY <1>1, <1>2, <1>4, <3>1 DEF OrderedSet
    <3> QED BY <1>3, <1>6, <2>3, <3>2
  <2>4. CASE k # j /\ parent(k) # j /\ parent(k) # q
    BY <1>3, <1>5, <1>6, <2>4
  <2> QED BY <2>1, <2>2, <2>3, <2>4
<1>7. ASSUME NEW k \in 1 .. c - 1, parent(k) = q, q > 0 PROVE Better(s[k], s[parent(q)])
  <2>1. q \in 1 .. c - 1
    BY <1>1, <1>7
  <2>2. parent(q) \in 0 .. c - 1 /\ parent(q) < q /\ Better(o[q], o[parent(q)])
    BY <1>1, <1>5, <2>1
  <2>3. s[parent(q)] = o[parent(q)]
    BY <1>1, <1>3, <2>2
  <2>4. CASE k = j
    BY <1>3, <2>2, <2>3, <2>4
  <2>5. CASE k # j
    <3>1. k # q /\ Better(o[k], o[q])
      BY <1>5, <1>7, <2>5
    <3>2. Better(o[k], o[parent(q)])
      BY <1>1, <1>4, <2>2, <3>1 DEF OrderedSet
    <3> QED BY <1>3, <2>3, <2>5, <3>1, <3>2
  <2> QED BY <2>4, <2>5
<1>8. Heap(s, c, {q}) /\ Bridge(s, c, q)
  BY <1>6, <1>7 DEF Heap, Bridge
<1> QED BY <1>8 DEF s, q

\* One exchange of sift_down(): the flow moves to its weaker child.
LEMMA SwapDown ==
    ASSUME NEW S, OrderedSet(S), NEW c \in Nat, NEW o \in [0 .. c - 1 -> S],
           NEW j \in 0 .. c - 1, Heap(o, c, Children(j)), Bridge(o, c, j),
           NEW d \in Children(j), d < c, Better(o[j], o[d]),
           \A e \in Children(j) : e < c /\ e # d => Better(o[e], o[d])
    PROVE  LET s == [o EXCEPT ![j] = o[d], ![d] = o[j]] IN
           Heap(s, c, Children(d)) /\ Bridge(s, c, d)
<1> DEFINE s == [o EXCEPT ![j] = o[d], ![d] = o[j]]
<1>1. d \in 1 .. c - 1 /\ j < d /\ j \in Nat
  BY DEF Children
<1>2. parent(d) = j
  BY <1>1, ParentIs
<1>3. /\ s[j] = o[d] /\ s[d] = o[j]
      /\ \A k \in 0 .. c - 1 : k # j /\ k # d => s[k] = o[k]
  BY <1>1
<1> HIDE DEF s
<1>4. \A k \in 0 .. c - 1 : o[k] \in S
  OBVIOUS
<1>5. ASSUME NEW k \in 1 .. c - 1
      PROVE  /\ parent(k) \in 0 .. c - 1 /\ parent(k) < k
             /\ \A m \in Nat : parent(k) = m <=> k \in Children(m)
             /\ parent(k) # j => Better(o[k], o[parent(k)])
  <2>1. /\ parent(k) \in Nat /\ parent(k) < k
        /\ \A m \in Nat : parent(k) = m <=> k \in Children(m)
    BY ParentIs
  <2> QED BY <2>1, <1>1 DEF Heap
<1>6. ASSUME NEW k \in 1 .. c - 1, k \notin Children(d) PROVE Better(s[k], s[parent(k)])
  <2>1. CASE k = d
    BY <1>2, <1>3, <2>1
  <2>2. CASE k = j
    <3>1. Better(o[d], o[parent(j)])
      BY <1>1, <1>2, <2>2 DEF Bridge
    <3>2. parent(j) \in 0 .. c - 1 /\ parent(j) < j
      BY <1>5, <2>2
    <3>3. s[parent(j)] = o[parent(j)]
      BY <1>1, <1>3, <3>2
    <3> QED BY <1>3, <2>2, <3>1, <3>3
  <2>3. CASE k # d /\ k # j /\ parent(k) = j
    <3>1. k \in Children(j)
      BY <1>1, <1>5, <2>3
    <3>2. Better(o[k], o[d])
      BY <2>3, <3>1
    <3> QED BY <1>3, <2>3, <3>2
  <2>4. CASE k # d /\ k # j /\ parent(k) # j
    <3>1. parent(k) # d
      BY <1>1, <1>5, <1>6
    <3>2. Better(o[k], o[parent(k)])
      BY <1>5, <2>4
    <3> QED BY <1>3, <1>5, <2>4, <3>1, <3>2
  <2> QED BY <2>1, <2>2, <2>3, <2>4
<1>7. ASSUME NEW k \in 1 .. c - 1, parent(k) = d PROVE Better(s[k], s[parent(d)])
  <2>1. k # d /\ k # j /\ Better(o[k], o[d])
    BY <1>1, <1>5, <1>7
  <2> QED BY <1>2, <1>3, <2>1
<1>8. Heap(s, c, Children(d)) /\ Bridge(s, c, d)
  BY <1>6, <1>7 DEF Heap, Bridge
<1> QED BY <1>8 DEF s

-----------------------------------------------------------------------------
(***************************************************************************)
(* The inductive invariant                                                 *)
(***************************************************************************)
TeidLoops == {"collect", "runs"}

Smaller(a, b) == IF a < b THEN a ELSE b

TypeInv ==
    /\ slots \in Tables
    /\ pc \in {"idle"} \cup TopLoops \cup TeidLoops
    /\ pos \in 0 .. capacity
    /\ n \in Nat /\ i \in Nat

\* out[] holds flows of the table at 0 .. kept - 1, none of them twice.
OutInv ==
    /\ kept \in Nat
    /\ out \in [0 .. kept - 1 -> Stored]
    /\ \A k, m \in 0 .. kept - 1 : out[k] = out[m] => k = m

\* The best flows of the set S are the ones kept.
BestOf(S) ==
    /\ kept = Smaller(n, Cardinality(S))
    /\ Kept \subseteq S
    /\ \A f \in Kept, g \in S \ Kept : Better(f, g)

\* While the table is walked, those of the flows visited.
WalkInv ==
    pc \in TopLoops =>
        /\ n # 0 /\ BestOf(Visited)
        /\ pc = "sort" => pos = capacity

\* The heap is in order, but for the flow that is sifted.
HeapInv ==
    /\ pc \in {"walk", "sort"} => Heap(out, kept, {})
    /\ pc = "up" => i < kept /\ Heap(out, kept, {i}) /\ Bridge(out, kept, i)
    /\ pc = "down" => i < kept /\ Heap(out, kept, Children(i)) /\ Bridge(out, kept, i)

\* A call that has returned left the best flows of the table, best first.
DoneInv ==
    pc \notin TopLoops =>
        BestOf(Stored) /\ \A k, m \in DOMAIN out : k < m => Better(out[k], out[m])

\* The TEIDs collected are those of the flows visited.
TeidInv ==
    pc \in TeidLoops =>
        /\ teids \in Seq(Nat)
        /\ \A k \in 1 .. Len(teids) : \E f \in Visited : f.key.teid = teids[k]
        /\ \A f \in Visited : \E k \in 1 .. Len(teids) : f.key.teid = teids[k]
        /\ pc = "runs" => pos = capacity

\* The number of a call that has returned stays right until the next one.
CountInv ==
    pc \notin TeidLoops /\ teids # << >> =>
        count = Cardinality({f.key.teid : f \in Stored})

IInv == TypeInv /\ OutInv /\ WalkInv /\ HeapInv /\ DoneInv /\ TeidInv /\ CountInv

\* A set that a function reaches from a finite set is finite, and as large as that
\* set if the function tells its elements apart.
LEMMA Reached ==
    ASSUME NEW P, IsFiniteSet(P), NEW T, NEW f,
           \A x \in P : f[x] \in T, \A y \in T : \E x \in P : f[x] = y
    PROVE  /\ IsFiniteSet(T) /\ Cardinality(T) \in Nat
           /\ (\A x, y \in P : f[x] = f[y] => x = y) => Cardinality(T) = Cardinality(P)
<1> DEFINE g == [x \in P |-> f[x]]
<1>1. g \in Surjection(P, T)
  BY DEF Surjection
<1>2. (\A x, y \in P : f[x] = f[y] => x = y) => g \in Injection(P, T)
  BY DEF Injection, IsInjective
<1> HIDE DEF g
<1> QED BY <1>1, <1>2, FS_Surjection, FS_CardinalityType

\* There are c indices below c.
LEMMA Below ==
    ASSUME NEW c \in Nat
    PROVE  IsFiniteSet(0 .. c - 1) /\ Cardinality(0 .. c - 1) = c
<1>1. 0 \in Int /\ c - 1 \in Int
  OBVIOUS
<1> QED BY <1>1, FS_Interval

\* What is known of the table that is walked.
LEMMA TableFacts ==
    ASSUME TypeInv
    PROVE  /\ capacity \in Nat /\ DOMAIN slots = 0 .. capacity - 1
           /\ OrderedSet(Stored)
           /\ IsFiniteSet(Stored) /\ Cardinality(Stored) \in Nat
           /\ IsFiniteSet(Visited) /\ Cardinality(Visited) \in Nat
           /\ Visited \subseteq Stored
           /\ pos = capacity => Visited = Stored
           /\ \A f \in Stored : f.key.teid \in Nat
<1>1. slots \in Tables /\ pos \in 0 .. capacity
  BY DEF TypeInv
<1>2. IsFiniteSet(DOMAIN slots) /\ DOMAIN slots = 0 .. capacity - 1
  BY <1>1, TablesAssumption DEF capacity
<1>3. capacity \in Nat
  BY <1>2, FS_CardinalityType DEF capacity
<1>4. OrderedSet(Stored)
  <2>1. OrderedSet({slots[p] : p \in {r \in DOMAIN slots : slots[r] # NoFlow}})
    BY <1>1, StoredOrdered
  <2> QED BY <2>1 DEF Stored, in_use
<1>5. IsFiniteSet(Stored) /\ Cardinality(Stored) \in Nat
  <2> DEFINE P == {r \in DOMAIN slots : in_use(r)}
  <2>1. IsFiniteSet(P)
    BY <1>2, FS_Subset
  <2>2. (\A p \in P : slots[p] \in Stored) /\ (\A f \in Stored : \E p \in P : slots[p] = f)
    BY DEF Stored
  <2> HIDE DEF P
  <2> QED BY <2>1, <2>2, Reached
<1>6. Visited \subseteq Stored
  BY DEF Visited, Stored
<1>7. IsFiniteSet(Visited) /\ Cardinality(Visited) \in Nat
  BY <1>5, <1>6, FS_Subset, FS_CardinalityType
<1>8. pos = capacity => Visited = Stored
  BY <1>2, <1>3 DEF Visited, Stored
<1>9. \A f \in Stored : f.key.teid \in Nat
  BY <1>1, TablesAssumption DEF Stored, in_use, Rankable, Key
<1> QED BY <1>2, <1>3, <1>4, <1>5, <1>6, <1>7, <1>8, <1>9

\* flow_table_next() returns the next slot in use, if there is one.
LEMMA NextSlot ==
    ASSUME TypeInv
    PROVE  /\ found \in pos .. capacity
           /\ found # capacity => found \in DOMAIN slots /\ in_use(found)
           /\ \A s \in pos .. found - 1 : ~in_use(s)
<1>1. capacity \in Nat /\ DOMAIN slots = 0 .. capacity - 1 /\ pos \in 0 .. capacity
  BY TableFacts DEF TypeInv
<1> DEFINE T == {r \in pos .. capacity : r = capacity \/ in_use(r)}
           Fits(r) == /\ r = capacity \/ in_use(r)
                      /\ \A s \in pos .. r - 1 : ~in_use(s)
<1>2. T \subseteq Nat /\ capacity \in T
  BY <1>1
<1>3. PICK r \in T : \A s \in T : r <= s
  <2> HIDE DEF T
  <2> QED BY <1>2, LeastNatural
<1>4. \A s \in pos .. r - 1 : ~in_use(s)
  BY <1>1, <1>3
<1>5. \E q \in pos .. capacity : Fits(q)
  BY <1>3, <1>4
<1>6. found = CHOOSE q \in pos .. capacity : Fits(q)
  BY DEF found, flow_table_next
<1>7. found \in pos .. capacity /\ Fits(found)
  <2> HIDE DEF Fits
  <2> QED BY <1>5, <1>6
<1> QED BY <1>1, <1>7

\* A step of the walk adds one flow to those visited.
LEMMA Walks ==
    ASSUME TypeInv, found # capacity, slots' = slots, pos' = found + 1
    PROVE  /\ capacity' = capacity /\ pos' \in 0 .. capacity
           /\ Stored' = Stored /\ slots[found] \in Stored
           /\ slots[found] \notin Visited
           /\ Visited' = Visited \cup {slots[found]}
           /\ Cardinality(Visited') = Cardinality(Visited) + 1
<1>1. /\ capacity \in Nat /\ DOMAIN slots = 0 .. capacity - 1 /\ pos \in 0 .. capacity
      /\ IsFiniteSet(Visited) /\ slots \in Tables
  BY TableFacts DEF TypeInv
<1>2. /\ found \in pos .. capacity - 1 /\ found \in DOMAIN slots /\ in_use(found)
      /\ \A s \in pos .. found - 1 : ~in_use(s)
  <2>1. /\ found \in pos .. capacity /\ found \in DOMAIN slots /\ in_use(found)
        /\ \A s \in pos .. found - 1 : ~in_use(s)
    BY NextSlot
  <2> QED BY <1>1, <2>1
<1>3. capacity' = capacity /\ pos' \in 0 .. capacity
  BY <1>1, <1>2 DEF capacity
<1>4. Stored' = Stored /\ slots[found] \in Stored
  BY <1>2 DEF Stored, in_use
<1>5. slots[found] \notin Visited
  <2> SUFFICES ASSUME NEW p \in DOMAIN slots, p < pos, in_use(p), slots[p] = slots[found]
               PROVE  FALSE
    BY DEF Visited
  <2>1. p = found
    BY <1>1, <1>2, DistinctKeys DEF in_use
  <2> QED BY <1>1, <1>2, <2>1
<1>6. PICK q : q = found
  OBVIOUS
<1>7. /\ q \in pos .. capacity - 1 /\ q \in DOMAIN slots /\ in_use(q)
      /\ (\A s \in pos .. q - 1 : ~in_use(s)) /\ pos' = q + 1
  BY ONLY <1>2, <1>6, pos' = found + 1, Zenon
<1>8. Visited' = Visited \cup {slots[q]}
  <2>1. \A p \in DOMAIN slots : in_use(p) => (p < q + 1 <=> p < pos \/ p = q)
    BY <1>1, <1>7
  <2>2. Visited' = {slots[p] : p \in {r \in DOMAIN slots : r < q + 1 /\ in_use(r)}}
    BY <1>7 DEF Visited, in_use
  <2> QED BY <1>7, <2>1, <2>2 DEF Visited
<1>9. Cardinality(Visited') = Cardinality(Visited) + 1
  BY <1>1, <1>5, <1>6, <1>8, FS_AddElement
<1> QED BY <1>3, <1>4, <1>5, <1>6, <1>8, <1>9

\* The last turn of a walk, and every step that leaves the table and the heap alone,
\* keeps what is said of them.
LEMMA SameTable ==
    ASSUME slots' = slots
    PROVE  capacity' = capacity /\ Stored' = Stored
BY DEF capacity, Stored, in_use

\* The array with one more flow at its end, or another one at its root, holds these
\* flows, none of them twice.
LEMMA PutFlow ==
    ASSUME TypeInv, OutInv, slots' = slots,
           NEW f \in Stored, f \notin Kept, NEW k \in 0 .. kept, out' = With(k, f)
    PROVE  /\ OutInv'
           /\ k < kept => kept' = kept /\ Kept' = (Kept \ {out[k]}) \cup {f}
           /\ k = kept => kept' = kept + 1 /\ Kept' = Kept \cup {f}
           /\ \A m \in 0 .. kept - 1 : m # k => out'[m] = out[m]
           /\ out'[k] = f
<1>1. PICK c : c = kept
  OBVIOUS
<1>2. /\ c \in Nat /\ k \in 0 .. c /\ out \in [0 .. c - 1 -> Stored]
      /\ \A l, m \in 0 .. c - 1 : out[l] = out[m] => l = m
  BY <1>1 DEF OutInv
<1> DEFINE d == IF k = c THEN c + 1 ELSE c
<1>3. d \in Nat /\ (0 .. c - 1) \cup {k} = 0 .. d - 1
  BY <1>2
<1>4. out' = [m \in 0 .. d - 1 |-> IF m = k THEN f ELSE out[m]]
  BY <1>2, <1>3 DEF With
<1>5. kept' = d
  <2>1. DOMAIN out' = 0 .. d - 1
    BY <1>4
  <2> HIDE DEF d
  <2> QED BY <1>3, <2>1, Below DEF kept
<1>6. \A m \in 0 .. c - 1 : out[m] # f
  BY <1>2 DEF Kept
<1>7. out' \in [0 .. d - 1 -> Stored]
  BY <1>2, <1>3, <1>4
<1>8. \A l, m \in 0 .. d - 1 : out'[l] = out'[m] => l = m
  BY <1>2, <1>4, <1>6
<1>9. OutInv'
  <2> HIDE DEF d
  <2> QED BY <1>3, <1>5, <1>7, <1>8, SameTable DEF OutInv
<1>10. out'[k] = f /\ \A m \in 0 .. c - 1 : m # k => out'[m] = out[m]
  BY <1>2, <1>4
<1>11. /\ Kept = {out[m] : m \in 0 .. c - 1}
       /\ Kept' = {out'[m] : m \in 0 .. d - 1}
  <2> HIDE DEF d
  <2> QED BY <1>2, <1>7 DEF Kept
<1>12. CASE k < c
  <2>1. d = c /\ k \in 0 .. c - 1
    BY <1>2, <1>12
  <2>2. Kept' = (Kept \ {out[k]}) \cup {f}
    BY <1>2, <1>10, <1>11, <2>1
  <2> QED BY <1>1, <1>2, <1>5, <1>9, <1>10, <1>12, <2>1, <2>2
<1>13. CASE k = c
  <2>1. d = c + 1 /\ 0 .. d - 1 = (0 .. c - 1) \cup {k}
    BY <1>2, <1>13
  <2>2. Kept' = Kept \cup {f}
    BY <1>2, <1>10, <1>11, <1>13, <2>1
  <2> QED BY <1>1, <1>2, <1>5, <1>9, <1>10, <1>13, <2>1, <2>2
<1> QED BY <1>1, <1>2, <1>12, <1>13

\* As many flows are kept as there are indices.
LEMMA KeptCount == ASSUME OutInv PROVE Cardinality(Kept) = kept
<1>1. PICK c : c = kept
  OBVIOUS
<1>2. /\ c \in Nat /\ out \in [0 .. c - 1 -> Stored]
      /\ \A k, m \in 0 .. c - 1 : out[k] = out[m] => k = m
  BY <1>1 DEF OutInv
<1>3. PICK P : P = 0 .. c - 1
  OBVIOUS
<1>4. IsFiniteSet(P) /\ Cardinality(P) = c
  BY <1>2, <1>3, Below
<1>5. /\ \A k \in P : out[k] \in Kept
      /\ \A f \in Kept : \E k \in P : out[k] = f
      /\ \A k, m \in P : out[k] = out[m] => k = m
  BY <1>2, <1>3 DEF Kept
<1>6. PICK T : T = Kept
  OBVIOUS
<1>7. PICK f : f = out
  OBVIOUS
<1>8. /\ \A k \in P : f[k] \in T
      /\ \A x \in T : \E k \in P : f[k] = x
      /\ \A k, m \in P : f[k] = f[m] => k = m
  BY ONLY <1>5, <1>6, <1>7, Zenon
<1>9. Cardinality(T) = Cardinality(P)
  BY ONLY <1>4, <1>8, Reached
<1> QED BY <1>1, <1>4, <1>6, <1>9

\* The index at which the next flow is put.
LEMMA NextIndex ==
    ASSUME TypeInv, OutInv, WalkInv, HeapInv, pc = "walk"
    PROVE  /\ kept \in Nat /\ n \in Nat \ {0} /\ kept <= n
           /\ Kept \subseteq Visited
           /\ kept < n => Kept = Visited
           /\ kept >= n => 0 \in 0 .. kept - 1
<1>1. /\ n \in Nat \ {0} /\ kept \in Nat /\ kept = Smaller(n, Cardinality(Visited))
      /\ Kept \subseteq Visited
  BY DEF TypeInv, OutInv, WalkInv, BestOf, TopLoops
<1>2. IsFiniteSet(Visited) /\ Cardinality(Visited) \in Nat
  BY TableFacts
<1>3. kept <= n /\ (kept < n => kept = Cardinality(Visited))
  BY <1>1, <1>2 DEF Smaller
<1>4. Cardinality(Kept) = kept
  BY KeptCount
<1>5. kept < n => Kept = Visited
  BY <1>1, <1>2, <1>3, <1>4, FS_Subset
<1> QED BY <1>1, <1>3, <1>5

\* What is said of the TEIDs does not depend on the heap.
LEMMA TeidsKept ==
    ASSUME IInv, pc \notin TeidLoops, pc' \notin TeidLoops, slots' = slots,
           teids' = teids, count' = count
    PROVE  TeidInv' /\ CountInv'
<1>1. Stored' = Stored
  BY SameTable
<1>2. TeidInv'
  BY DEF TeidInv
<1>3. CountInv'
  <2> SUFFICES ASSUME teids # << >>
               PROVE  count = Cardinality({f.key.teid : f \in Stored})
    BY <1>1 DEF CountInv
  <2> QED BY DEF IInv, CountInv
<1> QED BY <1>2, <1>3

\* A flow put at the end of the heap is the only one that may be out of order.
LEMMA StepKeep == ASSUME IInv, keep PROVE IInv'
<1>1. TypeInv /\ OutInv /\ WalkInv /\ HeapInv /\ pc = "walk"
  BY DEF IInv, keep, walking
<1>2. /\ found # capacity /\ slots' = slots /\ pos' = found + 1 /\ n' = n
      /\ kept < n /\ out' = With(kept, slots[found]) /\ pc' = "up" /\ i' = kept
      /\ teids' = teids /\ count' = count
  BY DEF keep, walking, has_room, tunnel_ids
<1>3. /\ capacity' = capacity /\ pos' \in 0 .. capacity
      /\ Stored' = Stored /\ slots[found] \in Stored /\ slots[found] \notin Visited
      /\ Visited' = Visited \cup {slots[found]}
      /\ Cardinality(Visited') = Cardinality(Visited) + 1
  BY <1>1, <1>2, Walks
<1>4. kept \in Nat /\ n \in Nat \ {0} /\ Kept = Visited
  BY <1>1, <1>2, NextIndex
<1>5. PICK f : f = slots[found]
  OBVIOUS
<1>6. PICK c : c = kept
  OBVIOUS
<1>7. /\ f \in Stored /\ f \notin Kept /\ c \in 0 .. kept /\ c \in Nat
      /\ out' = With(c, f) /\ Visited' = Visited \cup {f}
  BY <1>2, <1>3, <1>4, <1>5, <1>6
<1>8. /\ OutInv' /\ kept' = c + 1 /\ Kept' = Kept \cup {f}
      /\ \A m \in 0 .. c - 1 : out'[m] = out[m]
  BY <1>1, <1>2, <1>6, <1>7, PutFlow
<1>9. TypeInv'
  BY <1>1, <1>2, <1>3, <1>4, SameTable DEF TypeInv, TopLoops
<1>10. WalkInv'
  <2>1. Kept' = Visited'
    BY <1>4, <1>7, <1>8
  <2>2. c = Smaller(n, Cardinality(Visited)) /\ Cardinality(Visited) \in Nat
    BY <1>1, <1>6, TableFacts DEF WalkInv, BestOf, TopLoops
  <2>3. kept' = Smaller(n', Cardinality(Visited'))
    BY <1>2, <1>3, <1>4, <1>6, <1>8, <2>2 DEF Smaller
  <2> QED BY <1>2, <1>4, <2>1, <2>3 DEF WalkInv, BestOf
<1>11. HeapInv'
  <2>1. Heap(out, c, {})
    BY <1>1, <1>6 DEF HeapInv
  <2>2. Heap(out', c + 1, {c})
    <3> SUFFICES ASSUME NEW k \in 1 .. c - 1 PROVE Better(out'[k], out'[parent(k)])
      BY <1>7 DEF Heap
    <3>1. parent(k) \in 0 .. c - 1
      BY <1>7, ParentIs
    <3>2. Better(out[k], out[parent(k)])
      BY <2>1 DEF Heap
    <3> QED BY <1>8, <3>1, <3>2
  <2>3. Bridge(out', c + 1, c)
    <3> SUFFICES ASSUME NEW k \in 1 .. c PROVE parent(k) # c
      BY <1>7 DEF Bridge
    <3> QED BY <1>7, ParentIs
  <2> QED BY <1>2, <1>6, <1>7, <1>8, <2>2, <2>3 DEF HeapInv
<1>12. DoneInv' /\ TeidInv' /\ CountInv'
  BY <1>1, <1>2, TeidsKept DEF DoneInv, TopLoops, TeidLoops
<1> QED BY <1>8, <1>9, <1>10, <1>11, <1>12 DEF IInv

\* A flow that beats the weakest takes its place at the root, and is the only one that
\* may be out of order; the flow that goes ranks below all those kept.
LEMMA StepReplace == ASSUME IInv, replace_weakest PROVE IInv'
<1>1. TypeInv /\ OutInv /\ WalkInv /\ HeapInv /\ pc = "walk"
  BY DEF IInv, replace_weakest, walking
<1>2. /\ found # capacity /\ slots' = slots /\ pos' = found + 1 /\ n' = n
      /\ ~(kept < n) /\ out' = With(0, slots[found]) /\ pc' = "down" /\ i' = 0
      /\ rank_above(slots[found], out[0])
      /\ teids' = teids /\ count' = count
  BY DEF replace_weakest, walking, has_room, tunnel_ids, beats_weakest
<1>3. /\ capacity' = capacity /\ pos' \in 0 .. capacity
      /\ Stored' = Stored /\ slots[found] \in Stored /\ slots[found] \notin Visited
      /\ Visited' = Visited \cup {slots[found]}
      /\ Cardinality(Visited') = Cardinality(Visited) + 1
  BY <1>1, <1>2, Walks
<1>4. /\ kept \in Nat /\ n \in Nat \ {0} /\ kept = n /\ 0 \in 0 .. kept - 1
      /\ Kept \subseteq Visited
  BY <1>1, <1>2, NextIndex
<1>5. PICK f : f = slots[found]
  OBVIOUS
<1>6. PICK c : c = kept
  OBVIOUS
<1>7. /\ f \in Stored /\ f \notin Kept /\ f \notin Visited /\ c \in Nat \ {0} /\ c = n
      /\ out' = With(0, f) /\ Visited' = Visited \cup {f}
      /\ out \in [0 .. c - 1 -> Stored] /\ Heap(out, c, {}) /\ OrderedSet(Stored)
      /\ Kept = {out[k] : k \in 0 .. c - 1}
  BY <1>1, <1>2, <1>3, <1>4, <1>5, <1>6, TableFacts DEF HeapInv, OutInv, Kept
<1>8. /\ OutInv' /\ kept' = c /\ Kept' = (Kept \ {out[0]}) \cup {f}
      /\ out'[0] = f /\ \A m \in 1 .. c - 1 : out'[m] = out[m]
  <2>1. PICK z : z = 0
    OBVIOUS
  <2>2. z \in 0 .. kept /\ z < kept /\ out' = With(z, f)
    BY <1>4, <1>7, <2>1
  <2>3. /\ OutInv' /\ kept' = kept /\ Kept' = (Kept \ {out[z]}) \cup {f}
        /\ out'[z] = f /\ \A m \in 0 .. kept - 1 : m # z => out'[m] = out[m]
    BY <1>1, <1>2, <1>7, <2>2, PutFlow
  <2> QED BY <1>6, <2>1, <2>3
<1>9. TypeInv'
  BY <1>1, <1>2, <1>3, <1>4, SameTable DEF TypeInv, TopLoops
<1>10. \A a \in Kept : a # out[0] => Better(a, out[0])
  <2>1. \A k \in 1 .. c - 1 : Better(out[k], out[0])
    BY <1>7, RootIsWeakest
  <2> QED BY <1>7, <2>1
<1>11. WalkInv'
  <2>1. /\ c = Smaller(n, Cardinality(Visited)) /\ Cardinality(Visited) \in Nat
        /\ \A a \in Kept, b \in Visited \ Kept : Better(a, b)
    BY <1>1, <1>6, TableFacts DEF WalkInv, BestOf, TopLoops
  <2>2. kept' = Smaller(n', Cardinality(Visited'))
    BY <1>2, <1>3, <1>4, <1>6, <1>8, <2>1 DEF Smaller
  <2>3. Better(f, out[0]) /\ out[0] \in Kept /\ out[0] \in Stored
    BY <1>2, <1>5, <1>7 DEF OrderedSet
  <2>4. ASSUME NEW a \in Kept', NEW b \in Visited' \ Kept' PROVE Better(a, b)
    <3>1. a = f \/ Better(a, out[0])
      BY <1>8, <1>10, <2>4
    <3>2. Better(a, out[0])
      BY <2>3, <3>1
    <3>3. b = out[0] \/ (b \in Visited \ Kept /\ Better(out[0], b))
      BY <1>7, <1>8, <2>1, <2>3, <2>4
    <3>4. a \in Stored /\ (b \in Visited => b \in Stored)
      BY <1>1, <1>4, <1>7, <1>8, TableFacts
    <3> QED BY <1>7, <2>3, <3>2, <3>3, <3>4 DEF OrderedSet
  <2>5. Kept' \subseteq Visited'
    BY <1>4, <1>7, <1>8
  <2> QED BY <1>2, <1>4, <2>2, <2>4, <2>5 DEF WalkInv, BestOf
<1>12. HeapInv'
  <2>1. Heap(out', c, Children(0))
    <3> SUFFICES ASSUME NEW k \in 1 .. c - 1, k \notin Children(0)
                 PROVE  Better(out'[k], out'[parent(k)])
      BY DEF Heap
    <3>1. parent(k) \in 1 .. c - 1
      BY <1>7, ParentIs
    <3>2. Better(out[k], out[parent(k)])
      BY <1>7 DEF Heap
    <3> QED BY <1>8, <3>1, <3>2
  <2>2. Bridge(out', c, 0)
    BY DEF Bridge
  <2> QED BY <1>2, <1>7, <1>8, <2>1, <2>2 DEF HeapInv
<1>13. DoneInv' /\ TeidInv' /\ CountInv'
  BY <1>1, <1>2, TeidsKept DEF DoneInv, TopLoops, TeidLoops
<1> QED BY <1>8, <1>9, <1>11, <1>12, <1>13 DEF IInv

\* A flow that does not beat the weakest ranks below all those kept.
LEMMA StepPass == ASSUME IInv, pass_over PROVE IInv'
<1>1. TypeInv /\ OutInv /\ WalkInv /\ HeapInv /\ pc = "walk"
  BY DEF IInv, pass_over, walking
<1>2. /\ found # capacity /\ slots' = slots /\ pos' = found + 1 /\ n' = n
      /\ ~(kept < n) /\ out' = out /\ pc' = "walk" /\ i' = i
      /\ ~rank_above(slots[found], out[0])
      /\ teids' = teids /\ count' = count
  BY <1>1 DEF pass_over, walking, has_room, tunnel_ids, beats_weakest
<1>3. /\ capacity' = capacity /\ pos' \in 0 .. capacity
      /\ Stored' = Stored /\ slots[found] \in Stored /\ slots[found] \notin Visited
      /\ Visited' = Visited \cup {slots[found]}
      /\ Cardinality(Visited') = Cardinality(Visited) + 1
  BY <1>1, <1>2, Walks
<1>4. /\ kept \in Nat /\ n \in Nat \ {0} /\ kept = n /\ 0 \in 0 .. kept - 1
      /\ Kept \subseteq Visited
  BY <1>1, <1>2, NextIndex
<1>5. PICK f : f = slots[found]
  OBVIOUS
<1>6. PICK c : c = kept
  OBVIOUS
<1>7. /\ f \in Stored /\ f \notin Visited /\ c \in Nat \ {0}
      /\ Visited' = Visited \cup {f}
      /\ out \in [0 .. c - 1 -> Stored] /\ Heap(out, c, {}) /\ OrderedSet(Stored)
      /\ Kept = {out[k] : k \in 0 .. c - 1} /\ Visited \subseteq Stored
  BY <1>1, <1>3, <1>4, <1>5, <1>6, TableFacts DEF HeapInv, OutInv, Kept
<1>8. kept' = kept /\ Kept' = Kept
  BY <1>2 DEF kept, Kept
<1>9. TypeInv' /\ OutInv' /\ HeapInv'
  BY <1>1, <1>2, <1>3, <1>8 DEF TypeInv, OutInv, HeapInv, TopLoops
<1>10. ASSUME NEW a \in Kept PROVE Better(a, f)
  <2>1. out[0] \in Kept /\ out[0] \in Stored /\ a \in Stored /\ f # out[0]
    BY <1>4, <1>7
  <2>2. Better(out[0], f)
    BY <1>2, <1>5, <1>7, <2>1 DEF OrderedSet
  <2>3. a = out[0] \/ Better(a, out[0])
    BY <1>7, RootIsWeakest
  <2> QED BY <1>7, <2>1, <2>2, <2>3 DEF OrderedSet
<1>11. WalkInv'
  <2>1. /\ kept = Smaller(n, Cardinality(Visited)) /\ Cardinality(Visited) \in Nat
        /\ \A a \in Kept, b \in Visited \ Kept : Better(a, b)
    BY <1>1, TableFacts DEF WalkInv, BestOf, TopLoops
  <2>2. kept' = Smaller(n', Cardinality(Visited'))
    BY <1>2, <1>3, <1>4, <1>8, <2>1 DEF Smaller
  <2>3. \A a \in Kept', b \in Visited' \ Kept' : Better(a, b)
    BY <1>7, <1>8, <1>10, <2>1
  <2> QED BY <1>2, <1>4, <1>7, <1>8, <2>2, <2>3 DEF WalkInv, BestOf
<1>12. DoneInv' /\ TeidInv' /\ CountInv'
  BY <1>1, <1>2, TeidsKept DEF DoneInv, TopLoops, TeidLoops
<1> QED BY <1>9, <1>11, <1>12 DEF IInv

\* When flow_table_next() returns NULL, all flows of the table were visited.
LEMMA StepWalkEnds == ASSUME IInv, walk_ends PROVE IInv'
<1>1. TypeInv /\ OutInv /\ WalkInv /\ HeapInv /\ pc = "walk" /\ found = capacity
  BY DEF IInv, walk_ends
<1>2. /\ slots' = slots /\ pos' = capacity /\ n' = n /\ out' = out /\ pc' = "sort" /\ i' = i
      /\ teids' = teids /\ count' = count
  BY DEF walk_ends, tunnel_ids
<1>3. /\ capacity \in Nat /\ DOMAIN slots = 0 .. capacity - 1 /\ pos \in 0 .. capacity
      /\ \A s \in pos .. capacity - 1 : ~in_use(s)
  BY <1>1, TableFacts, NextSlot DEF TypeInv
<1>4. Stored' = Stored /\ capacity' = capacity /\ kept' = kept /\ Kept' = Kept
  BY <1>2, SameTable DEF kept, Kept
<1>5. Visited' = Visited
  <2>1. \A p \in DOMAIN slots : in_use(p) => (p < pos <=> p < capacity)
    BY <1>3
  <2>2. Visited' = {slots[p] : p \in {r \in DOMAIN slots : r < capacity /\ in_use(r)}}
    BY <1>2 DEF Visited, in_use
  <2> QED BY <2>1, <2>2 DEF Visited
<1>6. TypeInv' /\ OutInv' /\ HeapInv'
  BY <1>1, <1>2, <1>3, <1>4 DEF TypeInv, OutInv, HeapInv, TopLoops
<1>7. WalkInv'
  BY <1>1, <1>2, <1>4, <1>5 DEF WalkInv, BestOf, TopLoops
<1>8. DoneInv' /\ TeidInv' /\ CountInv'
  BY <1>1, <1>2, TeidsKept DEF DoneInv, TopLoops, TeidLoops
<1> QED BY <1>6, <1>7, <1>8 DEF IInv

\* An exchange of two flows keeps the set of them.
LEMMA SwapKeeps ==
    ASSUME OutInv, slots' = slots, NEW k \in 0 .. kept - 1, NEW m \in 0 .. kept - 1,
           out' = Swapped(k, m)
    PROVE  OutInv' /\ kept' = kept /\ Kept' = Kept
<1>1. PICK c : c = kept
  OBVIOUS
<1>2. /\ c \in Nat /\ k \in 0 .. c - 1 /\ m \in 0 .. c - 1 /\ out \in [0 .. c - 1 -> Stored]
      /\ \A a, b \in 0 .. c - 1 : out[a] = out[b] => a = b
  BY <1>1 DEF OutInv
<1>3. /\ out' \in [0 .. c - 1 -> Stored]
      /\ out'[k] = out[m] /\ out'[m] = out[k]
      /\ \A a \in 0 .. c - 1 : a # k /\ a # m => out'[a] = out[a]
  BY <1>2 DEF Swapped
<1>4. kept' = kept
  BY <1>2, <1>3 DEF kept
<1>5. \A a, b \in 0 .. c - 1 : out'[a] = out'[b] => a = b
  BY <1>2, <1>3
<1>6. Kept' = Kept
  <2>1. Kept = {out[a] : a \in 0 .. c - 1} /\ Kept' = {out'[a] : a \in 0 .. c - 1}
    BY <1>2, <1>3 DEF Kept
  <2> QED BY <1>2, <1>3, <2>1
<1> QED BY <1>1, <1>2, <1>3, <1>4, <1>5, <1>6, SameTable DEF OutInv

\* Sifting moves flows only within the heap.
LEMMA SiftKeeps ==
    ASSUME IInv, pc \in {"up", "down"}, pc' \in {"up", "down", "walk"},
           slots' = slots, pos' = pos, n' = n, teids' = teids, count' = count,
           i' \in Nat, kept' = kept, Kept' = Kept
    PROVE  TypeInv' /\ WalkInv' /\ DoneInv' /\ TeidInv' /\ CountInv'
<1>1. capacity' = capacity /\ Stored' = Stored /\ Visited' = Visited
  BY SameTable DEF Visited, in_use
<1>2. TypeInv'
  BY <1>1 DEF IInv, TypeInv, TopLoops
<1>3. WalkInv'
  BY <1>1 DEF IInv, WalkInv, BestOf, TopLoops
<1>4. DoneInv' /\ TeidInv' /\ CountInv'
  BY TeidsKept DEF DoneInv, TopLoops, TeidLoops
<1> QED BY <1>2, <1>3, <1>4

\* A turn of sift_up() ends with a heap in order, or moves the disorder to the parent.
LEMMA StepUp == ASSUME IInv, sift_up PROVE IInv'
<1>1. /\ TypeInv /\ OutInv /\ HeapInv /\ pc = "up" /\ i \in Nat /\ n \in Nat
      /\ slots' = slots /\ pos' = pos /\ n' = n /\ teids' = teids /\ count' = count
  BY DEF IInv, sift_up, tunnel_ids, TypeInv
<1>2. PICK c : c = kept
  OBVIOUS
<1>3. /\ c \in Nat /\ out \in [0 .. c - 1 -> Stored] /\ i \in 0 .. c - 1
      /\ Heap(out, c, {i}) /\ Bridge(out, c, i) /\ OrderedSet(Stored)
      /\ \A k, m \in 0 .. c - 1 : out[k] = out[m] => k = m
  BY <1>1, <1>2, TableFacts DEF HeapInv, OutInv
<1>4. i > 0 => parent(i) \in 0 .. c - 1 /\ parent(i) < i
  BY <1>3, ParentIs
<1>5. CASE /\ ~(i > 0 /\ rank_above(out[parent(i)], out[i]))
           /\ pc' = "walk" /\ i' = 0 /\ out' = out
  <2>1. Heap(out, c, {})
    <3>1. i > 0 => Better(out[i], out[parent(i)])
      BY <1>3, <1>4, <1>5 DEF OrderedSet
    <3> QED BY <1>3, <3>1 DEF Heap
  <2>2. kept' = kept /\ Kept' = Kept /\ Stored' = Stored
    BY <1>1, <1>5, SameTable DEF kept, Kept
  <2>3. OutInv' /\ HeapInv'
    BY <1>1, <1>2, <1>5, <2>1, <2>2 DEF OutInv, HeapInv
  <2> QED BY <1>1, <1>5, <2>2, <2>3, SiftKeeps DEF IInv
<1>6. CASE /\ i > 0 /\ rank_above(out[parent(i)], out[i])
           /\ out' = Swapped(i, parent(i)) /\ i' = parent(i) /\ pc' = pc
  <2>1. PICK q : q = parent(i)
    OBVIOUS
  <2>2. /\ q \in 0 .. c - 1 /\ i \in 1 .. c - 1 /\ Better(out[q], out[i])
        /\ Better(out[parent(i)], out[i])
    BY <1>3, <1>4, <1>6, <2>1 DEF OrderedSet
  <2>3. OutInv' /\ kept' = kept /\ Kept' = Kept
    BY <1>1, <1>2, <1>3, <1>6, <2>1, <2>2, SwapKeeps
  <2>4. Heap(out', c, {q}) /\ Bridge(out', c, q)
    <3>1. out' = [out EXCEPT ![i] = out[parent(i)], ![parent(i)] = out[i]]
      BY <1>6 DEF Swapped
    <3>2. LET p == parent(i)
              s == [out EXCEPT ![i] = out[p], ![p] = out[i]] IN
          Heap(s, c, {p}) /\ Bridge(s, c, p)
      BY <1>3, <2>2, SwapUp
    <3> QED BY <2>1, <3>1, <3>2
  <2>5. HeapInv'
    BY <1>1, <1>2, <1>3, <1>6, <2>1, <2>2, <2>3, <2>4 DEF HeapInv
  <2>6. i' \in Nat
    BY <1>6, <2>1, <2>2
  <2> QED BY <1>1, <1>6, <2>3, <2>5, <2>6, SiftKeeps DEF IInv
<1> QED BY <1>5, <1>6 DEF sift_up

\* A turn of sift_down() ends with a heap in order, or moves the disorder to the weaker
\* child.
LEMMA StepDown == ASSUME IInv, sift_down PROVE IInv'
<1>1. /\ TypeInv /\ OutInv /\ HeapInv /\ pc = "down" /\ i \in Nat /\ n \in Nat
      /\ slots' = slots /\ pos' = pos /\ n' = n /\ teids' = teids /\ count' = count
  BY DEF IInv, sift_down, tunnel_ids, TypeInv
<1>2. PICK c : c = kept
  OBVIOUS
<1>3. /\ c \in Nat /\ out \in [0 .. c - 1 -> Stored] /\ i \in 0 .. c - 1
      /\ Heap(out, c, Children(i)) /\ Bridge(out, c, i) /\ OrderedSet(Stored)
      /\ \A k, m \in 0 .. c - 1 : out[k] = out[m] => k = m
  BY <1>1, <1>2, TableFacts DEF HeapInv, OutInv
<1> DEFINE l == 2 * i + 1
           r == 2 * i + 2
<1>4. Children(i) = {l, r} /\ l \in Nat /\ r \in Nat /\ i < l /\ l < r
  BY <1>3 DEF Children
<1>5. low(i) = lower(lower(i, l), r)
  BY DEF low
<1>6. \A k, m \in Nat : k < c /\ m < c /\ k # m =>
        /\ rank_above(out[k], out[m]) <=> Better(out[k], out[m])
        /\ ~rank_above(out[k], out[m]) <=> Better(out[m], out[k])
  BY <1>3 DEF OrderedSet
<1>7. \A k, m : lower(k, m) = IF m < c /\ rank_above(out[k], out[m]) THEN m ELSE k
  BY <1>2 DEF lower
<1> HIDE DEF l, r
<1>8. CASE low(i) = i /\ pc' = "walk" /\ i' = 0 /\ out' = out
  <2>1. \A k \in Children(i) : k < c => Better(out[k], out[i])
    <3>1. lower(i, l) = i
      <4> SUFFICES ASSUME lower(i, l) # i PROVE FALSE
        OBVIOUS
      <4>1. lower(i, l) = l
        BY <1>7
      <4>2. low(i) = l \/ low(i) = r
        BY <1>5, <1>7, <4>1
      <4> QED BY <1>3, <1>4, <1>8, <4>2
    <3>2. lower(i, r) = i
      BY <1>5, <1>8, <3>1
    <3>3. /\ l < c => ~rank_above(out[i], out[l])
          /\ r < c => ~rank_above(out[i], out[r])
      BY <1>3, <1>4, <1>7, <3>1, <3>2
    <3>4. i \in Nat /\ i < c /\ i # l /\ i # r
      BY <1>3, <1>4
    <3> QED BY <1>4, <1>6, <3>3, <3>4
  <2>2. Heap(out, c, {})
    <3> SUFFICES ASSUME NEW k \in 1 .. c - 1 PROVE Better(out[k], out[parent(k)])
      BY DEF Heap
    <3>1. CASE k \in Children(i)
      <4>1. parent(k) = i
        BY <1>3, <3>1, ParentIs
      <4>2. k < c
        BY <1>3
      <4>3. Better(out[k], out[i])
        BY <2>1, <3>1, <4>2
      <4> QED BY <4>1, <4>3
    <3>2. CASE k \notin Children(i)
      BY <1>3, <3>2 DEF Heap
    <3> QED BY <3>1, <3>2
  <2>3. kept' = kept /\ Kept' = Kept /\ Stored' = Stored
    BY <1>1, <1>8, SameTable DEF kept, Kept
  <2>4. OutInv' /\ HeapInv'
    BY <1>1, <1>2, <1>8, <2>2, <2>3 DEF OutInv, HeapInv
  <2> QED BY <1>1, <1>8, <2>3, <2>4, SiftKeeps DEF IInv
<1>9. CASE low(i) # i /\ out' = Swapped(i, low(i)) /\ i' = low(i) /\ pc' = pc
  <2>1. PICK d : d = low(i)
    OBVIOUS
  <2>2. /\ d \in Children(i) /\ d < c /\ Better(out[i], out[d])
        /\ \A e \in Children(i) : e < c /\ e # d => Better(out[e], out[d])
    <3>1. CASE lower(i, l) = i
      <4>1. d = r /\ r < c /\ rank_above(out[i], out[r])
        BY <1>5, <1>7, <1>9, <2>1, <3>1
      <4>2. l < c /\ ~rank_above(out[i], out[l])
        BY <1>3, <1>4, <1>7, <3>1, <4>1
      <4>3. Better(out[i], out[r]) /\ Better(out[l], out[i])
        BY <1>3, <1>4, <1>6, <4>1, <4>2
      <4>4. out[i] \in Stored /\ out[l] \in Stored /\ out[r] \in Stored
        BY <1>3, <1>4, <4>1, <4>2
      <4>5. Better(out[l], out[r])
        BY <1>3, <4>3, <4>4 DEF OrderedSet
      <4> QED BY <1>4, <4>1, <4>3, <4>5
    <3>2. CASE lower(i, l) # i
      <4>1. lower(i, l) = l /\ l < c /\ rank_above(out[i], out[l])
        BY <1>7, <3>2
      <4>2. Better(out[i], out[l])
        BY <1>3, <1>4, <1>6, <4>1
      <4>3. CASE d = l
        <5>1. ASSUME r < c PROVE Better(out[r], out[l])
          <6>1. lower(l, r) = l
            BY <1>5, <2>1, <4>1, <4>3
          <6>2. ~rank_above(out[l], out[r])
            BY <1>4, <1>7, <5>1, <6>1
          <6> QED BY <1>4, <1>6, <4>1, <5>1, <6>2
        <5> QED BY <1>4, <4>1, <4>2, <4>3, <5>1
      <4>4. CASE d # l
        <5>1. d = r /\ r < c /\ rank_above(out[l], out[r])
          BY <1>5, <1>7, <2>1, <4>1, <4>4
        <5>2. Better(out[l], out[r])
          BY <1>3, <1>4, <1>6, <4>1, <5>1
        <5>3. out[i] \in Stored /\ out[l] \in Stored /\ out[r] \in Stored
          BY <1>3, <1>4, <4>1, <5>1
        <5>4. Better(out[i], out[r])
          BY <1>3, <4>2, <5>2, <5>3 DEF OrderedSet
        <5> QED BY <1>4, <5>1, <5>2, <5>4
      <4> QED BY <4>3, <4>4
    <3> QED BY <3>1, <3>2
  <2>3. d \in 0 .. c - 1 /\ d \in Nat
    <3>1. d \in Nat /\ d < c
      BY <1>4, <2>2
    <3> QED BY <1>3, <3>1
  <2>4. OutInv' /\ kept' = kept /\ Kept' = Kept
    BY <1>1, <1>2, <1>3, <1>9, <2>1, <2>3, SwapKeeps
  <2>5. Heap(out', c, Children(d)) /\ Bridge(out', c, d)
    <3>1. out' = [out EXCEPT ![i] = out[d], ![d] = out[i]]
      BY <1>9, <2>1 DEF Swapped
    <3>2. LET s == [out EXCEPT ![i] = out[d], ![d] = out[i]] IN
          Heap(s, c, Children(d)) /\ Bridge(s, c, d)
      BY <1>3, <2>2, SwapDown
    <3> QED BY <3>1, <3>2
  <2>6. HeapInv'
    BY <1>1, <1>2, <1>9, <2>1, <2>2, <2>4, <2>5 DEF HeapInv
  <2> QED BY <1>1, <1>9, <2>1, <2>3, <2>4, <2>6, SiftKeeps DEF IInv
<1> QED BY <1>8, <1>9 DEF sift_down

\* What qsort() leaves has the elements that were there, and if each was there once,
\* each once.
LEMMA OrderKeeps ==
    ASSUME NEW f, IsFiniteSet(DOMAIN f), NEW g \in Orders(f)
    PROVE  /\ g \in [DOMAIN f -> {f[k] : k \in DOMAIN f}]
           /\ \A k \in DOMAIN f : \E m \in DOMAIN f : g[k] = f[m]
           /\ \A m \in DOMAIN f : \E k \in DOMAIN f : g[k] = f[m]
           /\ (\A k, m \in DOMAIN f : f[k] = f[m] => k = m) =>
                \A k, m \in DOMAIN f : g[k] = g[m] => k = m
<1> DEFINE D == DOMAIN f
           In(x) == {k \in D : f[k] = x}
           Out(x) == {k \in D : g[k] = x}
<1>1. g \in [D -> {f[k] : k \in D}]
  BY DEF Orders
<1>2. \A m \in D : Cardinality(In(f[m])) = Cardinality(Out(f[m]))
  <2>1. DOMAIN g = D
    BY <1>1
  <2>2. \A x \in {f[k] : k \in D} :
          Cardinality({k \in DOMAIN f : f[k] = x}) = Cardinality({k \in DOMAIN g : g[k] = x})
    BY DEF Orders
  <2> QED BY <2>1, <2>2
<1>3. \A x : IsFiniteSet(In(x)) /\ IsFiniteSet(Out(x))
  BY FS_Subset
<1>4. \A k \in D : \E m \in D : g[k] = f[m]
  BY <1>1
<1>5. ASSUME NEW m \in D PROVE \E k \in D : g[k] = f[m]
  <2>1. In(f[m]) # {}
    OBVIOUS
  <2> HIDE DEF In
  <2>2. Cardinality(Out(f[m])) # 0
    BY <1>2, <1>3, <2>1, FS_EmptySet
  <2>3. Out(f[m]) # {}
    <3> HIDE DEF Out
    <3> QED BY <2>2, FS_EmptySet
  <2> QED BY <2>3
<1>6. ASSUME \A k, m \in D : f[k] = f[m] => k = m,
             NEW k \in D, NEW l \in D, g[k] = g[l]
      PROVE  k = l
  <2>1. PICK m \in D : g[k] = f[m]
    BY <1>4
  <2>2. In(f[m]) = {m}
    BY <1>6, <2>1
  <2>3. k \in Out(f[m]) /\ l \in Out(f[m])
    BY <1>6, <2>1
  <2> HIDE DEF In, Out
  <2>4. Cardinality(Out(f[m])) = 1
    BY <1>2, <2>2, FS_Singleton
  <2>5. PICK x : Out(f[m]) = {x}
    BY <1>3, <2>4, FS_Singleton
  <2> QED BY <2>3, <2>5
<1> QED BY <1>1, <1>4, <1>5, <1>6

\* qsort() puts the flows kept best first.
LEMMA StepSort == ASSUME IInv, sort_out PROVE IInv'
<1>1. /\ TypeInv /\ OutInv /\ WalkInv /\ pc = "sort" /\ pc' = "idle"
      /\ slots' = slots /\ pos' = pos /\ n' = n /\ i' = i
      /\ teids' = teids /\ count' = count
  BY DEF IInv, sort_out, tunnel_ids
<1>2. PICK g \in Orders(out) :
        /\ \A k, m \in DOMAIN g : k < m => ~rank_above(g[m], g[k])
        /\ out' = g
  BY DEF sort_out
<1>3. PICK c : c = kept
  OBVIOUS
<1>4. /\ c \in Nat /\ out \in [0 .. c - 1 -> Stored] /\ OrderedSet(Stored)
      /\ \A k, m \in 0 .. c - 1 : out[k] = out[m] => k = m
  BY <1>1, <1>3, TableFacts DEF OutInv
<1>5. /\ DOMAIN out = 0 .. c - 1 /\ IsFiniteSet(DOMAIN out)
      /\ \A k, m \in DOMAIN out : out[k] = out[m] => k = m
  BY <1>4, Below
<1>6. /\ g \in [DOMAIN out -> {out[k] : k \in DOMAIN out}]
      /\ \A k \in DOMAIN out : \E m \in DOMAIN out : g[k] = out[m]
      /\ \A m \in DOMAIN out : \E k \in DOMAIN out : g[k] = out[m]
      /\ \A k, m \in DOMAIN out : g[k] = g[m] => k = m
  BY ONLY <1>2, <1>5, OrderKeeps
<1>7. g \in [0 .. c - 1 -> Stored] /\ \A k, m \in 0 .. c - 1 : g[k] = g[m] => k = m
  BY <1>4, <1>5, <1>6
<1>8. kept' = c /\ Kept' = Kept /\ Stored' = Stored /\ capacity' = capacity
  <2>1. kept' = c
    BY <1>2, <1>3, <1>5, <1>7 DEF kept
  <2>2. Kept' = Kept
    BY <1>2, <1>5, <1>6 DEF Kept
  <2> QED BY <1>1, <2>1, <2>2, SameTable
<1>9. TypeInv' /\ OutInv' /\ WalkInv' /\ HeapInv'
  BY <1>1, <1>2, <1>4, <1>7, <1>8 DEF TypeInv, OutInv, WalkInv, HeapInv, TopLoops
<1>10. DoneInv'
  <2>1. BestOf(Stored)
    BY <1>1, TableFacts DEF WalkInv, TopLoops
  <2>2. BestOf(Stored)'
    BY <1>1, <1>3, <1>8, <2>1 DEF BestOf
  <2>3. ASSUME NEW k \in 0 .. c - 1, NEW m \in 0 .. c - 1, k < m PROVE Better(g[k], g[m])
    <3>1. ~rank_above(g[m], g[k])
      BY <1>2, <1>7, <2>3
    <3>2. g[k] # g[m] /\ g[k] \in Stored /\ g[m] \in Stored
      BY <1>7, <2>3
    <3> QED BY <1>4, <3>1, <3>2 DEF OrderedSet
  <2> QED BY <1>2, <1>7, <2>2, <2>3 DEF DoneInv
<1>11. TeidInv' /\ CountInv'
  BY <1>1, TeidsKept DEF TeidLoops
<1> QED BY <1>9, <1>10, <1>11 DEF IInv

\* Nothing is kept and nothing visited when a call begins.
LEMMA EmptyStart ==
    ASSUME slots' = slots, out' = NoFlows, pos' = 0, TypeInv
    PROVE  kept' = 0 /\ Kept' = {} /\ Visited' = {} /\ OutInv'
<1>1. capacity \in Nat /\ DOMAIN slots = 0 .. capacity - 1
  BY TableFacts
<1>2. DOMAIN out' = {} /\ 0 .. 0 - 1 = {}
  BY DEF NoFlows
<1>3. kept' = 0
  BY <1>2, FS_EmptySet DEF kept
<1>4. Kept' = {} /\ Visited' = {}
  BY <1>1, <1>2 DEF Kept, Visited
<1>5. OutInv'
  BY <1>2, <1>3 DEF OutInv, NoFlows
<1> QED BY <1>3, <1>4, <1>5

\* A call of flow_table_top_n() starts with nothing kept and nothing visited.
LEMMA StepTop == ASSUME IInv, NEW m \in 0 .. MaxN, flow_table_top_n(m) PROVE IInv'
<1>1. /\ TypeInv /\ pc = "idle" /\ n' = m /\ out' = NoFlows /\ i' = 0 /\ pos' = 0
      /\ (m = 0 /\ pc' = "idle") \/ (m # 0 /\ pc' = "walk")
      /\ slots' = slots /\ teids' = teids /\ count' = count /\ m \in Nat
  BY NAssumption DEF IInv, flow_table_top_n, tunnel_ids
<1>2. kept' = 0 /\ Kept' = {} /\ Visited' = {} /\ OutInv'
  BY <1>1, EmptyStart
<1>3. capacity' = capacity /\ Stored' = Stored /\ capacity \in Nat
  BY <1>1, SameTable, TableFacts
<1>4. TypeInv'
  BY <1>1, <1>3 DEF TypeInv, TopLoops
<1>5. WalkInv'
  BY <1>1, <1>2, FS_EmptySet DEF WalkInv, BestOf, Smaller, TopLoops
<1>6. HeapInv'
  BY <1>1, <1>2 DEF HeapInv, Heap
<1>7. DoneInv'
  <2>1. Cardinality(Stored) \in Nat
    BY <1>1, TableFacts
  <2>2. DOMAIN out' = {}
    BY <1>1 DEF NoFlows
  <2> QED BY <1>1, <1>2, <1>3, <2>1, <2>2 DEF DoneInv, BestOf, Smaller, TopLoops
<1>8. TeidInv' /\ CountInv'
  BY <1>1, TeidsKept DEF TeidLoops
<1> QED BY <1>2, <1>4, <1>5, <1>6, <1>7, <1>8 DEF IInv

\* flow_table_distinct_teids() leaves the results of flow_table_top_n() alone.
LEMMA HeapKept ==
    ASSUME IInv, pc \notin TopLoops, pc' \in {"idle"} \cup TeidLoops,
           slots' = slots, n' = n, out' = out, i' = i, pos' \in 0 .. capacity
    PROVE  TypeInv' /\ OutInv' /\ WalkInv' /\ HeapInv' /\ DoneInv'
<1>1. capacity' = capacity /\ Stored' = Stored /\ kept' = kept /\ Kept' = Kept
  BY SameTable DEF kept, Kept
<1>2. TypeInv' /\ OutInv'
  BY <1>1 DEF IInv, TypeInv, OutInv
<1>3. WalkInv' /\ HeapInv'
  BY DEF WalkInv, HeapInv, TopLoops, TeidLoops
<1>4. DoneInv'
  BY <1>1 DEF IInv, DoneInv, BestOf
<1> QED BY <1>2, <1>3, <1>4

\* In a sorted array the first elements of the runs are as many as the values.
LEMMA RunsCount ==
    ASSUME NEW N \in Nat, NEW s \in [1 .. N -> Nat],
           \A k, m \in 1 .. N : k < m => s[k] <= s[m],
           NEW T, \A k \in 1 .. N : s[k] \in T, \A x \in T : \E k \in 1 .. N : s[k] = x
    PROVE  Cardinality({k \in 1 .. N : starts_run(s, k)}) = Cardinality(T)
<1> DEFINE P == {k \in 1 .. N : starts_run(s, k)}
<1>1. IsFiniteSet(P)
  <2>1. 1 \in Int /\ N \in Int
    OBVIOUS
  <2>2. IsFiniteSet(1 .. N)
    BY <2>1, FS_Interval
  <2> QED BY <2>2, FS_Subset
<1>2. \A k \in P : s[k] \in T
  OBVIOUS
<1>3. ASSUME NEW x \in T PROVE \E k \in P : s[k] = x
  <2> DEFINE X == {k \in 1 .. N : s[k] = x}
  <2>1. X \subseteq Nat /\ X # {}
    OBVIOUS
  <2>2. PICK k \in X : \A m \in X : k <= m
    <3> HIDE DEF X
    <3> QED BY <2>1, LeastNatural
  <2>3. k # 1 => k - 1 \in 1 .. N /\ s[k - 1] # s[k]
    BY <2>2
  <2> QED BY <2>2, <2>3 DEF starts_run
<1>4. ASSUME NEW k \in P, NEW m \in P, k < m PROVE s[k] # s[m]
  <2>1. m - 1 \in 1 .. N /\ s[m] # s[m - 1] /\ k <= m - 1 /\ m - 1 < m
    BY <1>4 DEF starts_run
  <2>2. s[m - 1] <= s[m] /\ s[k] <= s[m - 1]
    BY <2>1
  <2>3. s[k] \in Nat /\ s[m - 1] \in Nat /\ s[m] \in Nat
    BY <2>1
  <2> QED BY <2>1, <2>2, <2>3
<1>5. \A k, m \in P : s[k] = s[m] => k = m
  BY <1>4
<1> HIDE DEF P
<1>6. Cardinality(T) = Cardinality(P)
  BY <1>1, <1>2, <1>3, <1>5, Reached
<1> QED BY <1>6 DEF P

\* A call of flow_table_distinct_teids() starts with nothing collected.
LEMMA StepDistinct == ASSUME IInv, flow_table_distinct_teids PROVE IInv'
<1>1. /\ TypeInv /\ pc = "idle" /\ pos' = 0 /\ teids' = << >> /\ pc' \in {"idle", "collect"}
      /\ slots' = slots /\ n' = n /\ out' = out /\ i' = i
  BY DEF IInv, flow_table_distinct_teids, heap
<1>2. capacity \in Nat /\ DOMAIN slots = 0 .. capacity - 1
  BY <1>1, TableFacts
<1>3. TypeInv' /\ OutInv' /\ WalkInv' /\ HeapInv' /\ DoneInv'
  BY <1>1, <1>2, HeapKept DEF TopLoops, TeidLoops
<1>4. Visited' = {}
  BY <1>1, <1>2 DEF Visited
<1>5. TeidInv' /\ CountInv'
  BY <1>1, <1>4 DEF TeidInv, CountInv
<1> QED BY <1>3, <1>5 DEF IInv

\* The TEID of the next flow joins those collected.
LEMMA StepCollect == ASSUME IInv, collect PROVE IInv'
<1>1. /\ TypeInv /\ TeidInv /\ pc = "collect" /\ pc' = "collect" /\ found # capacity
      /\ slots' = slots /\ pos' = found + 1 /\ n' = n /\ out' = out /\ i' = i
      /\ teids' = Append(teids, slots[found].key.teid)
  BY DEF IInv, collect, heap
<1>2. /\ pos' \in 0 .. capacity /\ Stored' = Stored /\ slots[found] \in Stored
      /\ Visited' = Visited \cup {slots[found]}
  BY <1>1, Walks
<1>3. TypeInv' /\ OutInv' /\ WalkInv' /\ HeapInv' /\ DoneInv'
  BY <1>1, <1>2, HeapKept DEF TopLoops, TeidLoops
<1>4. /\ teids \in Seq(Nat)
      /\ \A k \in 1 .. Len(teids) : \E f \in Visited : f.key.teid = teids[k]
      /\ \A f \in Visited : \E k \in 1 .. Len(teids) : f.key.teid = teids[k]
  BY <1>1 DEF TeidInv, TeidLoops
<1>5. PICK g : g = slots[found]
  OBVIOUS
<1>6. PICK x : x = g.key.teid
  OBVIOUS
<1>7. x \in Nat /\ teids' = Append(teids, x) /\ Visited' = Visited \cup {g}
  BY <1>1, <1>2, <1>5, <1>6, TableFacts
<1>8. PICK N : N = Len(teids)
  OBVIOUS
<1>9. /\ N \in Nat /\ teids' \in Seq(Nat) /\ Len(teids') = N + 1 /\ teids'[N + 1] = x
      /\ \A k \in 1 .. N : teids'[k] = teids[k]
  BY <1>4, <1>7, <1>8
<1>10. \A k \in 1 .. N + 1 : \E f \in Visited' : f.key.teid = teids'[k]
  <2> TAKE k \in 1 .. N + 1
  <2>1. CASE k = N + 1
    BY <1>6, <1>7, <1>9, <2>1
  <2>2. CASE k # N + 1
    <3>1. k \in 1 .. N /\ teids'[k] = teids[k]
      BY <1>9, <2>2
    <3>2. PICK f \in Visited : f.key.teid = teids[k]
      BY <1>4, <1>8, <3>1
    <3> QED BY <1>7, <3>1, <3>2
  <2> QED BY <2>1, <2>2
<1>11. \A f \in Visited' : \E k \in 1 .. N + 1 : f.key.teid = teids'[k]
  <2> TAKE f \in Visited'
  <2>1. CASE f = g
    BY <1>6, <1>9, <2>1
  <2>2. CASE f \in Visited
    <3>1. PICK k \in 1 .. N : f.key.teid = teids[k]
      BY <1>4, <1>8, <2>2
    <3>2. k \in 1 .. N + 1 /\ teids'[k] = teids[k]
      BY <1>9
    <3> QED BY <3>1, <3>2
  <2> QED BY <1>7, <2>1, <2>2
<1>12. TeidInv' /\ CountInv'
  BY <1>1, <1>9, <1>10, <1>11 DEF TeidInv, CountInv, TeidLoops
<1> QED BY <1>3, <1>12 DEF IInv

\* At the end of the walk the TEIDs of all flows are collected.
LEMMA StepAllCollected == ASSUME IInv, all_collected PROVE IInv'
<1>1. /\ TypeInv /\ TeidInv /\ pc = "collect" /\ pc' = "runs" /\ found = capacity
      /\ slots' = slots /\ pos' = capacity /\ n' = n /\ out' = out /\ i' = i
      /\ teids' = teids /\ count' = count
  BY DEF IInv, all_collected, heap, tunnel_ids
<1>2. /\ capacity \in Nat /\ DOMAIN slots = 0 .. capacity - 1 /\ pos \in 0 .. capacity
      /\ \A s \in pos .. capacity - 1 : ~in_use(s)
  BY <1>1, TableFacts, NextSlot DEF TypeInv
<1>3. TypeInv' /\ OutInv' /\ WalkInv' /\ HeapInv' /\ DoneInv'
  BY <1>1, <1>2, HeapKept DEF TopLoops, TeidLoops
<1>4. Visited' = Visited
  <2>1. \A p \in DOMAIN slots : in_use(p) => (p < pos <=> p < capacity)
    BY <1>2
  <2>2. Visited' = {slots[p] : p \in {r \in DOMAIN slots : r < capacity /\ in_use(r)}}
    BY <1>1 DEF Visited, in_use
  <2> QED BY <2>1, <2>2 DEF Visited
<1>5. capacity' = capacity
  BY <1>1, SameTable
<1>6. TeidInv' /\ CountInv'
  BY <1>1, <1>4, <1>5 DEF TeidInv, CountInv, TeidLoops
<1> QED BY <1>3, <1>6 DEF IInv

\* The runs counted are the different TEIDs of the table.
LEMMA StepRuns == ASSUME IInv, count_runs PROVE IInv'
<1>1. /\ TypeInv /\ TeidInv /\ pc = "runs" /\ pc' = "idle"
      /\ slots' = slots /\ pos' = pos /\ n' = n /\ out' = out /\ i' = i
  BY DEF IInv, count_runs, heap
<1>2. PICK s \in Orders(teids) :
        /\ \A k, m \in DOMAIN s : k < m => s[k] <= s[m]
        /\ count' = Cardinality({k \in DOMAIN s : starts_run(s, k)})
  BY DEF count_runs
<1>3. TypeInv' /\ OutInv' /\ WalkInv' /\ HeapInv' /\ DoneInv'
  BY <1>1, HeapKept DEF TopLoops, TeidLoops, TypeInv
<1>4. /\ teids \in Seq(Nat)
      /\ \A k \in 1 .. Len(teids) : \E f \in Stored : f.key.teid = teids[k]
      /\ \A f \in Stored : \E k \in 1 .. Len(teids) : f.key.teid = teids[k]
  BY <1>1, TableFacts DEF TeidInv, TeidLoops
<1>5. PICK N : N = Len(teids)
  OBVIOUS
<1>6. N \in Nat /\ DOMAIN teids = 1 .. N /\ teids \in [1 .. N -> Nat]
  BY <1>4, <1>5
<1>7. IsFiniteSet(DOMAIN teids)
  <2>1. 1 \in Int /\ N \in Int
    BY <1>6
  <2> QED BY <1>6, <2>1, FS_Interval
<1>8. /\ s \in [DOMAIN teids -> {teids[k] : k \in DOMAIN teids}]
      /\ \A k \in DOMAIN teids : \E m \in DOMAIN teids : s[k] = teids[m]
      /\ \A m \in DOMAIN teids : \E k \in DOMAIN teids : s[k] = teids[m]
  BY ONLY <1>2, <1>7, OrderKeeps
<1>9. s \in [1 .. N -> Nat] /\ \A k, m \in 1 .. N : k < m => s[k] <= s[m]
  BY <1>2, <1>6, <1>8
<1>10. PICK T : T = {f.key.teid : f \in Stored}
  OBVIOUS
<1>11. \A k \in 1 .. N : s[k] \in T
  <2> TAKE k \in 1 .. N
  <2>1. PICK m \in 1 .. N : s[k] = teids[m]
    BY <1>6, <1>8
  <2>2. PICK f \in Stored : f.key.teid = teids[m]
    BY <1>4, <1>5
  <2> QED BY <1>10, <2>1, <2>2
<1>12. \A x \in T : \E k \in 1 .. N : s[k] = x
  <2> TAKE x \in T
  <2>1. PICK f \in Stored : f.key.teid = x
    BY <1>10
  <2>2. PICK m \in 1 .. N : f.key.teid = teids[m]
    BY <1>4, <1>5
  <2> QED BY <1>6, <1>8, <2>1, <2>2
<1>13. Cardinality({k \in 1 .. N : starts_run(s, k)}) = Cardinality(T)
  BY ONLY <1>6, <1>9, <1>11, <1>12, RunsCount
<1>14. count' = Cardinality(T)
  BY <1>2, <1>9, <1>13
<1>15. TeidInv' /\ CountInv'
  <2>1. Stored' = Stored
    BY <1>1, SameTable
  <2> QED BY <1>1, <1>10, <1>14, <2>1 DEF TeidInv, CountInv, TeidLoops
<1> QED BY <1>3, <1>15 DEF IInv

\* The invariant holds before the first call.
LEMMA InitIInv == Init => IInv
<1> SUFFICES ASSUME Init PROVE IInv
  OBVIOUS
<1>1. /\ slots \in Tables /\ pc = "idle" /\ pos = 0 /\ n = 0 /\ out = NoFlows /\ i = 0
      /\ teids = << >>
  BY DEF Init
<1>2. TypeInv
  <2>1. IsFiniteSet(DOMAIN slots)
    BY <1>1, TablesAssumption
  <2>2. capacity \in Nat
    BY <2>1, FS_CardinalityType DEF capacity
  <2> QED BY <1>1, <2>2 DEF TypeInv
<1>3. DOMAIN out = {} /\ 0 .. 0 - 1 = {}
  BY <1>1 DEF NoFlows
<1>4. kept = 0 /\ Kept = {}
  BY <1>3, FS_EmptySet DEF kept, Kept
<1>5. OutInv
  BY <1>1, <1>3, <1>4 DEF OutInv, NoFlows
<1>6. DoneInv
  <2>1. Cardinality(Stored) \in Nat
    BY <1>2, TableFacts
  <2> QED BY <1>1, <1>3, <1>4, <2>1 DEF DoneInv, BestOf, Smaller
<1>7. WalkInv /\ HeapInv /\ TeidInv /\ CountInv
  BY <1>1 DEF WalkInv, HeapInv, TeidInv, CountInv, TopLoops, TeidLoops
<1> QED BY <1>2, <1>5, <1>6, <1>7 DEF IInv

\* A step that changes nothing keeps the invariant.
LEMMA StepNothing == ASSUME IInv, UNCHANGED vars PROVE IInv'
<1>1. /\ slots' = slots /\ pc' = pc /\ pos' = pos /\ n' = n /\ out' = out /\ i' = i
      /\ teids' = teids /\ count' = count
  BY DEF vars
<1>2. /\ capacity' = capacity /\ Stored' = Stored /\ kept' = kept /\ Kept' = Kept
      /\ Visited' = Visited
  BY <1>1, SameTable DEF kept, Kept, Visited, in_use
<1>3. TypeInv' /\ OutInv' /\ WalkInv' /\ HeapInv'
  BY <1>1, <1>2 DEF IInv, TypeInv, OutInv, WalkInv, HeapInv, BestOf
<1>4. DoneInv' /\ TeidInv' /\ CountInv'
  BY <1>1, <1>2 DEF IInv, DoneInv, BestOf, TeidInv, CountInv
<1> QED BY <1>3, <1>4 DEF IInv

\* Every state of the walks satisfies the invariant.
THEOREM WalksKeepInvariant == Spec => []IInv
<1>1. IInv /\ [Next]_vars => IInv'
  BY StepTop, StepDistinct, StepKeep, StepReplace, StepPass, StepWalkEnds, StepUp, StepDown,
     StepSort, StepCollect, StepAllCollected, StepRuns, StepNothing DEF Next, Step
<1> QED BY InitIInv, <1>1, PTL DEF Spec

\* For every table and every n, the heap of flow_table_top_n() holds the n best of the
\* flows that flow_table_next() has returned so far, none of them twice, in heap order.
THEOREM HeapAlwaysKeepsBest == Spec => []KeepsBest
<1>1. IInv => KeepsBest
  <2> SUFFICES ASSUME IInv, pc \in TopLoops
               PROVE  /\ DOMAIN out = 0 .. kept - 1
                      /\ kept = (IF n < Cardinality(Visited) THEN n ELSE Cardinality(Visited))
                      /\ Kept \subseteq Visited /\ Cardinality(Kept) = kept
                      /\ \A f \in Kept, g \in Visited \ Kept : Better(f, g)
                      /\ HeapOrder
    BY DEF KeepsBest
  <2>1. /\ kept \in Nat /\ DOMAIN out = 0 .. kept - 1 /\ Cardinality(Kept) = kept
    BY KeptCount DEF IInv, OutInv
  <2>2. BestOf(Visited)
    BY DEF IInv, WalkInv
  <2>3. HeapOrder
    <3>1. \A k \in DOMAIN out \ {0} : k \in 1 .. kept - 1
      BY <2>1
    <3>2. \A k \in 1 .. kept - 1 :
            \/ Better(out[k], out[parent(k)])
            \/ pc = "up" /\ k = i
            \/ pc = "down" /\ k \in Children(i)
      BY DEF IInv, HeapInv, Heap, TopLoops
    <3> QED BY <3>1, <3>2 DEF HeapOrder, parent, Children
  <2> QED BY <2>1, <2>2, <2>3 DEF BestOf, Smaller
<1> QED BY WalksKeepInvariant, <1>1, PTL

\* For every table and every n, flow_table_top_n() returns the min(n, count) best flows,
\* best first, and flow_table_distinct_teids() the number of different TEIDs.
THEOREM ResultsAlwaysExact == Spec => []ResultsAreExact
<1>1. IInv => ResultsAreExact
  <2> SUFFICES ASSUME IInv, pc = "idle" PROVE ResultsAreExact
    BY DEF ResultsAreExact
  <2>1. BestOf(Stored) /\ \A k, m \in DOMAIN out : k < m => Better(out[k], out[m])
    BY DEF IInv, DoneInv, TopLoops
  <2>2. teids # << >> => count = Cardinality({f.key.teid : f \in Stored})
    BY DEF IInv, CountInv, TeidLoops
  <2> QED BY <2>1, <2>2 DEF ResultsAreExact, BestOf, Smaller
<1> QED BY WalksKeepInvariant, <1>1, PTL
=============================================================================
