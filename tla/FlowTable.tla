----------------------------- MODULE FlowTable -----------------------------
(***************************************************************************)
(* The open-addressing hash table of src/src/flow.c, one step per turn of  *)
(* its loops: the probe of find_or_insert() and of find(), the copy of     *)
(* grow() and the probe of place() inside it.                              *)
(*                                                                         *)
(* capacity is a power of two, so `hash & (capacity - 1)' is the remainder *)
(* of the hash, and `(i + 1) & mask' the next slot, or slot 0 after the    *)
(* last one.                                                               *)
(***************************************************************************)
EXTENDS FlowEntry, FiniteSets

CONSTANTS
    Keys,              \* flow keys (or tunnel keys)
    Packets,           \* packets to account
    NoKey,             \* the key of a slot that is not in_use
    Hash,              \* key_hash()
    Capacities,        \* the powers of two from MIN_CAPACITY to the largest array
    MaxCapacity,       \* the last of them: doubling it would overflow
    LOAD_NUM, LOAD_DEN,
    MaxAdds            \* bound on the packets accounted, for model checking

ASSUME PacketsTyped == Packets \subseteq AddOf(Keys)
ASSUME KeysAssumption == NoKey \notin Keys /\ Hash \in [Keys -> Nat]
ASSUME CapacityAssumption ==
    /\ Capacities \subseteq Nat \ {0} /\ MaxCapacity \in Capacities
    /\ \A c \in Capacities : c < MaxCapacity => 2 * c \in Capacities
ASSUME LoadAssumption ==
    /\ LOAD_NUM \in Nat \ {0} /\ LOAD_DEN \in Nat /\ LOAD_NUM < LOAD_DEN
    /\ \A c \in Capacities : LOAD_DEN <= c * LOAD_NUM
ASSUME BoundAssumption == MaxAdds \in Nat

VARIABLES
    slots, capacity, count,      \* struct flow_table; capacity 0: no array
    pc,                          \* the loop that is running, or "idle"
    req,                         \* the packet of the current call
    i,                           \* its probe index
    bigger, from, to,            \* grow(): new array, source index, place() index
                                 \* (an index is 0 when its loop is not running)
    result,                      \* what the last call returned
    added                        \* history: packets accounted so far

table == <<slots, capacity, count>>
growing == <<bigger, from, to>>
vars == <<slots, capacity, count, pc, req, i, bigger, from, to, result, added>>

EmptySlot == [key |-> NoKey, flow |-> ZeroFlow]
NoSlots == [n \in {} |-> EmptySlot]
in_use(s) == s.key # NoKey

Home(k, c) == Hash[k] % c

\* Mutant: `i + 1' without the mask.
next_slot_unmasked(n, c) == n + 1

NextSlot(n, c) == IF n + 1 = c THEN 0 ELSE n + 1

Used == {n \in 0 .. capacity - 1 : in_use(slots[n])}

-----------------------------------------------------------------------------
Init ==
    /\ slots = NoSlots /\ capacity = 0 /\ count = 0
    /\ pc = "idle" /\ req \in Packets /\ i = 0
    /\ bigger = NoSlots /\ from = 0 /\ to = 0
    /\ result = "none" /\ added = 0

\* flow_table_init() rounds its hint up to some c; calloc() may fail.
flow_table_init(c) ==
    /\ pc = "idle" /\ capacity = 0
    /\ \/ /\ capacity' = c
          /\ slots' = [n \in 0 .. c - 1 |-> EmptySlot]
          /\ result' = "OK"
       \/ /\ result' = "NULL"
          /\ UNCHANGED <<slots, capacity>>
    /\ count' = 0
    /\ UNCHANGED <<pc, req, i, growing, added>>

flow_table_free ==
    /\ pc = "idle"
    /\ slots' = NoSlots /\ capacity' = 0 /\ count' = 0
    /\ result' = "none"
    /\ UNCHANGED <<pc, req, i, growing, added>>

\* Mutant: the flow about to be inserted is not counted.
must_grow_late == count * LOAD_DEN > capacity * LOAD_NUM

must_grow == (count + 1) * LOAD_DEN > capacity * LOAD_NUM

\* account() calls find_or_insert(): grow first if one more flow would pass the
\* load factor, then probe.  The new array may be too large or not to be had.
account(p) ==
    /\ pc = "idle" /\ added < MaxAdds
    /\ req' = p
    /\ \/ /\ capacity = 0 \/ must_grow
          /\ result' = "NULL"
          /\ UNCHANGED <<pc, i, growing>>
       \/ /\ capacity # 0 /\ ~must_grow
          /\ pc' = "probe"
          /\ i' = Home(p.key, capacity)
          /\ result' = "none"
          /\ UNCHANGED growing
       \/ /\ capacity # 0 /\ must_grow /\ capacity < MaxCapacity
          /\ bigger' = [n \in 0 .. 2 * capacity - 1 |-> EmptySlot]
          /\ from' = 0
          /\ pc' = "grow"
          /\ result' = "none"
          /\ UNCHANGED <<i, to>>
    /\ UNCHANGED <<table, added>>

\* grow(): one turn of the copy loop.
grow_next ==
    /\ pc = "grow" /\ from < capacity
    /\ \/ /\ in_use(slots[from])
          /\ to' = Home(slots[from].key, 2 * capacity)
          /\ pc' = "place"
          /\ UNCHANGED from
       \/ /\ ~in_use(slots[from])
          /\ from' = from + 1
          /\ UNCHANGED <<pc, to>>
    /\ UNCHANGED <<table, req, i, bigger, result, added>>

\* place(): the first free slot on the probe path takes the flow.
place ==
    /\ pc = "place"
    /\ \/ /\ in_use(bigger[to])
          /\ to' = NextSlot(to, 2 * capacity)
          /\ UNCHANGED <<pc, bigger, from>>
       \/ /\ ~in_use(bigger[to])
          /\ bigger' = [bigger EXCEPT ![to] = slots[from]]
          /\ from' = from + 1
          /\ pc' = "grow" /\ to' = 0
    /\ UNCHANGED <<table, req, i, result, added>>

\* Mutant: the probe index is taken from the mask of the old array.
grow_done_old_mask ==
    /\ pc = "grow" /\ from = capacity
    /\ slots' = bigger /\ capacity' = 2 * capacity
    /\ bigger' = NoSlots /\ from' = 0
    /\ pc' = "probe" /\ i' = Home(req.key, capacity)
    /\ UNCHANGED <<count, req, to, result, added>>

\* The new array replaces the old one, and find_or_insert() begins to probe it.
grow_done ==
    /\ pc = "grow" /\ from = capacity
    /\ slots' = bigger /\ capacity' = 2 * capacity
    /\ bigger' = NoSlots /\ from' = 0
    /\ pc' = "probe" /\ i' = Home(req.key, 2 * capacity)
    /\ UNCHANGED <<count, req, to, result, added>>

\* Mutant: account() starts the flow afresh although it was not inserted.
probe_always_inserted ==
    /\ pc = "probe"
    /\ \/ /\ in_use(slots[i]) /\ slots[i].key # req.key
          /\ i' = NextSlot(i, capacity)
          /\ UNCHANGED <<table, pc, result, added>>
       \/ /\ ~in_use(slots[i]) \/ slots[i].key = req.key
          /\ slots' = [slots EXCEPT ![i] =
                         [key |-> req.key, flow |-> accounted(new_flow(req), req)]]
          /\ count' = count + (IF in_use(slots[i]) THEN 0 ELSE 1)
          /\ pc' = "idle" /\ i' = 0 /\ result' = "OK" /\ added' = added + 1
          /\ UNCHANGED capacity
    /\ UNCHANGED <<req, growing>>

\* One turn of find_or_insert()'s loop, and what account() does with the flow.
probe ==
    /\ pc = "probe"
    /\ \/ /\ in_use(slots[i]) /\ slots[i].key # req.key
          /\ i' = NextSlot(i, capacity)
          /\ UNCHANGED <<table, pc, result, added>>
       \/ /\ in_use(slots[i]) /\ slots[i].key = req.key
          /\ slots' = [slots EXCEPT ![i].flow = accounted(@, req)]
          /\ pc' = "idle" /\ i' = 0 /\ result' = "OK" /\ added' = added + 1
          /\ UNCHANGED <<capacity, count>>
       \/ /\ ~in_use(slots[i])
          /\ slots' = [slots EXCEPT ![i] =
                         [key |-> req.key, flow |-> accounted(new_flow(req), req)]]
          /\ count' = count + 1
          /\ pc' = "idle" /\ i' = 0 /\ result' = "OK" /\ added' = added + 1
          /\ UNCHANGED capacity
    /\ UNCHANGED <<req, growing>>

\* flow_table_find(): a lookup that inserts nothing.
flow_table_find(p) ==
    /\ pc = "idle"
    /\ req' = p
    /\ \/ /\ capacity = 0
          /\ result' = "absent"
          /\ UNCHANGED <<pc, i>>
       \/ /\ capacity # 0
          /\ i' = Home(p.key, capacity)
          /\ pc' = "find" /\ result' = "none"
    /\ UNCHANGED <<table, growing, added>>

\* Mutant: only the home slot is compared.
find_next_home_only ==
    /\ pc = "find"
    /\ result' = (IF in_use(slots[i]) /\ slots[i].key = req.key
                  THEN "found" ELSE "absent")
    /\ pc' = "idle" /\ i' = 0
    /\ UNCHANGED <<table, req, growing, added>>

\* Mutant: the loop goes on past an empty slot.
find_next_past_empty ==
    /\ pc = "find"
    /\ \/ /\ slots[i].key # req.key
          /\ i' = NextSlot(i, capacity)
          /\ UNCHANGED <<pc, result>>
       \/ /\ slots[i].key = req.key
          /\ pc' = "idle" /\ i' = 0 /\ result' = "found"
    /\ UNCHANGED <<table, req, growing, added>>

find_next ==
    /\ pc = "find"
    /\ \/ /\ in_use(slots[i]) /\ slots[i].key # req.key
          /\ i' = NextSlot(i, capacity)
          /\ UNCHANGED <<pc, result>>
       \/ /\ in_use(slots[i]) /\ slots[i].key = req.key
          /\ pc' = "idle" /\ i' = 0 /\ result' = "found"
       \/ /\ ~in_use(slots[i])
          /\ pc' = "idle" /\ i' = 0 /\ result' = "absent"
    /\ UNCHANGED <<table, req, growing, added>>

-----------------------------------------------------------------------------
\* A turn of a loop of the call in progress.
Step == grow_next \/ place \/ grow_done \/ probe \/ find_next

Next ==
    \/ \E c \in Capacities : flow_table_init(c)
    \/ flow_table_free
    \/ \E p \in Packets : account(p) \/ flow_table_find(p)
    \/ Step

Spec == Init /\ [][Next]_vars

\* A call that has begun runs on until it returns.
FairSpec == Spec /\ WF_vars(Step)

-----------------------------------------------------------------------------
(***************************************************************************)
(* Properties                                                              *)
(***************************************************************************)
Slot == [key : Keys \cup {NoKey}, flow : Flow]
Slots(c) == [0 .. c - 1 -> Slot]

\* Type correctness.  In particular every probe index lies in its array.
TypeOK ==
    /\ capacity \in Capacities \cup {0} /\ slots \in Slots(capacity)
    /\ count \in Nat /\ added \in Nat /\ from \in Nat
    /\ pc \in {"idle", "grow", "place", "probe", "find"}
    /\ req \in Packets
    /\ pc \in {"probe", "find"} => i \in 0 .. capacity - 1
    /\ pc \in {"grow", "place"} => bigger \in Slots(2 * capacity)
                                   /\ 2 * capacity \in Capacities
    /\ pc = "place" => to \in 0 .. 2 * capacity - 1 /\ from < capacity
    /\ pc = "grow" => from <= capacity
    /\ result \in {"none", "OK", "NULL", "found", "absent"}

\* n lies on the cyclic path that starts at h and stops before slot e.
Before(h, n, e) == IF h <= e THEN h <= n /\ n < e ELSE h <= n \/ n < e

\* Every flow can be reached: no slot between the home of its key and its own is
\* empty, in the array s of c slots.
Reachable(s, c) ==
    \A n \in 0 .. c - 1 : in_use(s[n]) =>
        \A m \in 0 .. c - 1 : Before(Home(s[n].key, c), m, n) => in_use(s[m])

\* No key is stored twice in s.
Distinct(s, c) ==
    \A m, n \in 0 .. c - 1 : in_use(s[m]) /\ s[m].key = s[n].key => m = n

\* A flow is never split or lost: each key has one slot, on its probe path.  This
\* must survive every insertion and every re-placement by grow().
OneReachableSlotPerFlow == Reachable(slots, capacity) /\ Distinct(slots, capacity)

\* t->count is the number of occupied slots and stays within the load factor, so
\* the array always has an empty slot: without one a probe would never end.
CountWithinLoad ==
    /\ count = Cardinality(Used)
    /\ count * LOAD_DEN <= capacity * LOAD_NUM

StoredKeys == {slots[n].key : n \in Used}

\* A lookup is exact: it finds a key exactly when some slot holds it.
FindIsExact ==
    pc = "idle" => /\ result = "found" => req.key \in StoredKeys
                   /\ result = "absent" => req.key \notin StoredKeys

\* A call that has begun returns.
CallsReturn == pc # "idle" ~> pc = "idle"

\* The refinement mapping: the map that the array represents.
FlowOf(k) == slots[CHOOSE n \in Used : slots[n].key = k].flow
StoredMap == [k \in StoredKeys |-> FlowOf(k)]
Map == INSTANCE FlowMap WITH flows <- StoredMap

\* The table implements the map: growing, probing and looking up change no flow,
\* a failed call changes none, and a packet changes just the flow of its key.
ImplementsMap == Map!Spec
=============================================================================
