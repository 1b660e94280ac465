-------------------------------- MODULE TopN --------------------------------
(***************************************************************************)
(* The calls of src/src/flow.c that walk a table without changing it:      *)
(* flow_table_next(), flow_table_top_n() with its heap, and                *)
(* flow_table_distinct_teids().  One step per turn of their loops.         *)
(*                                                                         *)
(* qsort() belongs to the C library: it leaves some order of the same      *)
(* elements that the comparison accepts.                                   *)
(***************************************************************************)
EXTENDS FlowRank, FiniteSets

CONSTANTS
    Tables,                \* arrays of slots: functions from 0 .. capacity - 1
    NoFlow,                \* a slot that is not in_use
    MaxN                   \* bound on n, for model checking

ASSUME TablesAssumption ==
    \A t \in Tables : /\ IsFiniteSet(DOMAIN t)
                      /\ DOMAIN t = 0 .. Cardinality(DOMAIN t) - 1
                      /\ \A p \in DOMAIN t : t[p] # NoFlow => Rankable(t[p])
ASSUME DistinctKeys ==
    \A t \in Tables : \A p, r \in DOMAIN t :
        t[p] # NoFlow /\ t[r] # NoFlow /\ t[p].key = t[r].key => p = r
ASSUME NAssumption == MaxN \in Nat

VARIABLES
    slots,                 \* the table's array, always the same
    pc,                    \* the loop that is running, or "idle"
    pos,                   \* where flow_table_next() goes on
    n,                     \* flow_table_top_n(): how many flows are wanted
    out,                   \*   out[0 .. kept - 1]
    i,                     \*   the index that is sifted
    teids,                 \* flow_table_distinct_teids(): those collected
    count,                 \*   and the number of different ones
    result                 \* what the last call returned, Running during a call

vars == <<slots, pc, pos, n, out, i, teids, count, result>>
heap == <<n, out, i>>
tunnel_ids == <<teids, count>>

Running == -2

capacity == Cardinality(DOMAIN slots)
in_use(p) == slots[p] # NoFlow
Stored == {slots[p] : p \in {r \in DOMAIN slots : in_use(r)}}
NoFlows == [k \in {} |-> NoFlow]
kept == Cardinality(DOMAIN out)

Init ==
    /\ slots \in Tables
    /\ pc = "idle" /\ pos = 0
    /\ n = 0 /\ out = NoFlows /\ i = 0
    /\ teids = << >> /\ count = 0
    /\ result = Running

\* flow_table_next(): the first slot in use from p on, or capacity (NULL).
flow_table_next(p) ==
    CHOOSE r \in p .. capacity :
        /\ r = capacity \/ in_use(r)
        /\ \A s \in p .. r - 1 : ~in_use(s)

-----------------------------------------------------------------------------
(***************************************************************************)
(* flow_table_top_n()                                                      *)
(***************************************************************************)
flow_table_top_n(m) ==
    /\ pc = "idle"
    /\ n' = m /\ out' = NoFlows /\ i' = 0 /\ pos' = 0
    /\ \/ m = 0 /\ result' = 0 /\ pc' = "idle"
       \/ m # 0 /\ result' = Running /\ pc' = "walk"
    /\ UNCHANGED <<slots, tunnel_ids>>

\* f becomes the element at index k.
With(k, f) == [m \in DOMAIN out \cup {k} |-> IF m = k THEN f ELSE out[m]]

\* Mutant: a flow is compared with the last one kept, not with the weakest.
beats_last(f) == rank_above(f, out[kept - 1])

\* A flow gets in if it beats the weakest one kept so far.
beats_weakest(f) == rank_above(f, out[0])

has_room == kept < n

\* The slot that flow_table_next() returns to the walk.
found == flow_table_next(pos)

walking == pc = "walk" /\ found # capacity /\ UNCHANGED <<slots, n, tunnel_ids, result>>

keep ==
    /\ walking /\ has_room
    /\ out' = With(kept, slots[found])
    /\ pc' = "up" /\ i' = kept /\ pos' = found + 1

replace_weakest ==
    /\ walking /\ ~has_room /\ beats_weakest(slots[found])
    /\ out' = With(0, slots[found])
    /\ pc' = "down" /\ i' = 0 /\ pos' = found + 1

\* Mutant: the walk does not go on after a flow that is not wanted.
pass_over_again ==
    /\ walking /\ ~has_room /\ ~beats_weakest(slots[found])
    /\ UNCHANGED <<pos, pc, out, i>>

pass_over ==
    /\ walking /\ ~has_room /\ ~beats_weakest(slots[found])
    /\ pos' = found + 1
    /\ UNCHANGED <<pc, out, i>>

walk_ends ==
    /\ pc = "walk" /\ found = capacity
    /\ pc' = "sort" /\ pos' = capacity
    /\ UNCHANGED <<slots, n, out, i, tunnel_ids, result>>

Swapped(k, m) == [out EXCEPT ![k] = out[m], ![m] = out[k]]

parent(k) == (k - 1) \div 2

\* One turn of sift_up(): a flow that ranks below its parent takes its place.
sift_up ==
    /\ pc = "up"
    /\ \/ /\ ~(i > 0 /\ rank_above(out[parent(i)], out[i]))
          /\ pc' = "walk" /\ i' = 0
          /\ UNCHANGED out
       \/ /\ i > 0 /\ rank_above(out[parent(i)], out[i])
          /\ out' = Swapped(i, parent(i))
          /\ i' = parent(i)
          /\ UNCHANGED pc
    /\ UNCHANGED <<slots, pos, n, tunnel_ids, result>>

\* Of the indices k and m, the one whose flow ranks lower; m may not exist.
lower(k, m) == IF m < kept /\ rank_above(out[k], out[m]) THEN m ELSE k

\* The lowest of k and its two children.
low(k) == lower(lower(k, 2 * k + 1), 2 * k + 2)

\* One turn of sift_down().
sift_down ==
    /\ pc = "down"
    /\ \/ /\ low(i) = i
          /\ pc' = "walk" /\ i' = 0
          /\ UNCHANGED out
       \/ /\ low(i) # i
          /\ out' = Swapped(i, low(i))
          /\ i' = low(i)
          /\ UNCHANGED pc
    /\ UNCHANGED <<slots, pos, n, tunnel_ids, result>>

\* The functions that hold the elements of f in some order.
Orders(f) ==
    {g \in [DOMAIN f -> {f[k] : k \in DOMAIN f}] :
        \A x \in {f[k] : k \in DOMAIN f} :
            Cardinality({k \in DOMAIN f : f[k] = x}) =
            Cardinality({k \in DOMAIN g : g[k] = x})}

\* Mutant: the heap is returned as it is.
return_heap ==
    /\ pc = "sort"
    /\ result' = kept /\ pc' = "idle"
    /\ UNCHANGED <<slots, pos, n, out, i, tunnel_ids>>

\* qsort() with rank_cmp_qsort(), and the return.
sort_out ==
    /\ pc = "sort"
    /\ \E g \in Orders(out) :
         /\ \A k, m \in DOMAIN g : k < m => ~rank_above(g[m], g[k])
         /\ out' = g
    /\ result' = kept /\ pc' = "idle"
    /\ UNCHANGED <<slots, pos, n, i, tunnel_ids>>

-----------------------------------------------------------------------------
(***************************************************************************)
(* flow_table_distinct_teids()                                             *)
(***************************************************************************)
flow_table_distinct_teids ==
    /\ pc = "idle"
    /\ pos' = 0 /\ teids' = << >> /\ count' = 0
    /\ \/ Stored = {} /\ result' = 0 /\ UNCHANGED pc
       \/ Stored # {} /\ result' = -1 /\ UNCHANGED pc          \* malloc() fails
       \/ Stored # {} /\ result' = Running /\ pc' = "collect"
    /\ UNCHANGED <<slots, heap>>

collect ==
    /\ pc = "collect" /\ found # capacity
    /\ teids' = Append(teids, slots[found].key.teid)
    /\ pos' = found + 1
    /\ UNCHANGED <<slots, pc, heap, count, result>>

all_collected ==
    /\ pc = "collect" /\ found = capacity
    /\ pc' = "runs" /\ pos' = capacity
    /\ UNCHANGED <<slots, heap, tunnel_ids, result>>

starts_run(s, k) == k = 1 \/ s[k] # s[k - 1]

\* qsort() with teid_cmp(), and the count of the first of each run.
count_runs ==
    /\ pc = "runs"
    /\ \E s \in Orders(teids) :
         /\ \A k, m \in DOMAIN s : k < m => s[k] <= s[m]
         /\ count' = Cardinality({k \in DOMAIN s : starts_run(s, k)})
         /\ teids' = s
    /\ result' = 0 /\ pc' = "idle"
    /\ UNCHANGED <<slots, heap, pos>>

-----------------------------------------------------------------------------
Step ==
    \/ keep \/ replace_weakest \/ pass_over \/ walk_ends
    \/ sift_up \/ sift_down \/ sort_out
    \/ collect \/ all_collected \/ count_runs

Next ==
    \/ \E m \in 0 .. MaxN : flow_table_top_n(m)
    \/ flow_table_distinct_teids
    \/ Step

Spec == Init /\ [][Next]_vars

\* A call that has begun runs on until it returns.
FairSpec == Spec /\ WF_vars(Step)

-----------------------------------------------------------------------------
(***************************************************************************)
(* Properties                                                              *)
(***************************************************************************)
TopLoops == {"walk", "up", "down", "sort"}

\* The documented order: bytes, packets, start time, key (flow.h, README).
Better(f, g) ==
    \/ f.bytes > g.bytes
    \/ /\ f.bytes = g.bytes
       /\ \/ f.packets > g.packets
          \/ /\ f.packets = g.packets
             /\ \/ f.first_ts < g.first_ts
                \/ f.first_ts = g.first_ts /\ LexBefore(key_fields(f.key), key_fields(g.key))

Kept == {out[k] : k \in DOMAIN out}

\* The flows that flow_table_next() has returned so far.
Visited == {slots[p] : p \in {r \in DOMAIN slots : r < pos /\ in_use(r)}}

\* Between two flows every element ranks above its parent, so that out[0] is the
\* weakest; while one is sifted, only it and its neighbours may be out of order.
HeapOrder ==
    \A k \in DOMAIN out \ {0} :
        \/ Better(out[k], out[(k - 1) \div 2])
        \/ pc = "up" /\ k = i
        \/ pc = "down" /\ k \in {2 * i + 1, 2 * i + 2}

\* The n best of the flows visited are in the heap, whatever the order in which
\* the hash table holds them; none is there twice, and the heap is in order.
KeepsBest ==
    pc \in TopLoops =>
        /\ DOMAIN out = 0 .. kept - 1
        /\ kept = (IF n < Cardinality(Visited) THEN n ELSE Cardinality(Visited))
        /\ Kept \subseteq Visited /\ Cardinality(Kept) = kept
        /\ \A f \in Kept, g \in Visited \ Kept : Better(f, g)
        /\ HeapOrder

\* The results are the documented ones: min(n, count) flows, best first, and no flow
\* left out is better than one of them, so that they depend on nothing but the flows;
\* and the number of TEIDs is the number of different TEIDs in the table.
ResultsAreExact ==
    pc = "idle" =>
        /\ out # NoFlows =>
             /\ kept = (IF n < Cardinality(Stored) THEN n ELSE Cardinality(Stored))
             /\ \A k, m \in DOMAIN out : k < m => Better(out[k], out[m])
             /\ \A f \in Kept, g \in Stored \ Kept : Better(f, g)
        /\ result # -1 /\ teids # << >> =>
             count = Cardinality({f.key.teid : f \in Stored})

\* A call that has begun returns: the walk comes to the last slot, whatever it does
\* with each flow, and every sift on the way there ends.
TopNReturns == pc # "idle" ~> pc = "idle"
=============================================================================
