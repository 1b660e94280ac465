-------------------------- MODULE FlowTableProofs --------------------------
(***************************************************************************)
(* Proofs about FlowTable, for every set of keys, hash function, capacity  *)
(* and load factor.                                                        *)
(***************************************************************************)
EXTENDS FlowTable, FiniteSetTheorems, TLAPS

\* The slots in use among the first c of the array s.
UsedIn(s, c) == {n \in 0 .. c - 1 : in_use(s[n])}

\* What the probe loops know of the slots they have passed.
ProbedPath ==
    pc \in {"probe", "find"} =>
        \A m \in 0 .. capacity - 1 : Before(Home(req.key, capacity), m, i) =>
            in_use(slots[m]) /\ slots[m].key # req.key

\* find_or_insert() probes only an array with room for one more flow.
RoomToInsert == pc = "probe" => (count + 1) * LOAD_DEN <= capacity * LOAD_NUM

\* The new array holds exactly the flows of the first `from' slots, and is itself
\* a table.
CopiedSoFar ==
    pc \in {"grow", "place"} =>
        /\ Reachable(bigger, 2 * capacity)
        /\ Distinct(bigger, 2 * capacity)
        /\ \A n \in UsedIn(bigger, 2 * capacity) :
             \E m \in UsedIn(slots, from) : slots[m] = bigger[n]
        /\ \A m \in UsedIn(slots, from) :
             \E n \in UsedIn(bigger, 2 * capacity) : slots[m] = bigger[n]
        /\ Cardinality(UsedIn(bigger, 2 * capacity)) = Cardinality(UsedIn(slots, from))

\* What place() knows of the slots it has passed.
PlacePath ==
    pc = "place" =>
        /\ in_use(slots[from])
        /\ \A m \in 0 .. 2 * capacity - 1 :
             Before(Home(slots[from].key, 2 * capacity), m, to) => in_use(bigger[m])

IInv ==
    /\ TypeOK
    /\ OneReachableSlotPerFlow
    /\ CountWithinLoad
    /\ FindIsExact
    /\ ProbedPath
    /\ RoomToInsert
    /\ CopiedSoFar
    /\ PlacePath

-----------------------------------------------------------------------------
\* What is known of a packet to account.
LEMMA PacketFields ==
    \A p \in Packets : /\ p.key \in Keys /\ p.reversed \in {0, 1}
                       /\ p.len \in Nat /\ p.ts \in Nat /\ p.flags \subseteq TcpFlags
  BY PacketsTyped DEF AddOf

\* What the type invariant says of the array and of the call in progress.
LEMMA CallTyped ==
    ASSUME TypeOK
    PROVE  /\ capacity \in Nat /\ 2 * capacity \in Nat /\ req.key \in Keys
           /\ pc \in {"probe", "find"} => capacity \in Nat \ {0} /\ i \in 0 .. capacity - 1
  <1>1. /\ capacity \in Capacities \cup {0} /\ req \in Packets
        /\ pc \in {"probe", "find"} => i \in 0 .. capacity - 1
    BY DEF TypeOK
  <1>2. capacity \in Nat
    BY <1>1, CapacityAssumption
  <1>3. req.key \in Keys
    BY <1>1, PacketFields
  <1> QED
    BY <1>1, <1>2, <1>3

\* The home of a key is a slot of the array.
LEMMA HomeInArray ==
    ASSUME NEW k \in Keys, NEW c \in Nat \ {0}
    PROVE  Home(k, c) \in 0 .. c - 1
  BY KeysAssumption DEF Home

\* Advancing by one slot adds just that slot to a probe path.
LEMMA PathGrows ==
    ASSUME NEW c \in Nat, NEW h \in 0 .. c - 1, NEW n \in 0 .. c - 1,
           NEW m \in 0 .. c - 1, Before(h, m, NextSlot(n, c))
    PROVE  Before(h, m, n) \/ m = n
  BY DEF Before, NextSlot

\* The next slot is a slot of the array.
LEMMA NextInArray ==
    ASSUME NEW c \in Nat, NEW n \in 0 .. c - 1
    PROVE  NextSlot(n, c) \in 0 .. c - 1
  BY DEF NextSlot

\* Of two slots, one is met first on the way round from h.
LEMMA PathsCompare ==
    ASSUME NEW c \in Nat, NEW h \in 0 .. c - 1, NEW m \in 0 .. c - 1,
           NEW n \in 0 .. c - 1, m # n
    PROVE  Before(h, m, n) \/ Before(h, n, m)
  BY DEF Before

\* An empty path: the probe starts at the home slot.
LEMMA PathStartsEmpty ==
    ASSUME NEW h \in Nat, NEW m \in Nat
    PROVE  ~Before(h, m, h)
  BY DEF Before

\* A packet's flow has the type of a flow.
LEMMA FlowTyped ==
    ASSUME NEW p \in Packets
    PROVE  /\ new_flow(p) \in Flow
           /\ \A f \in Flow : accounted(f, p) \in Flow
           /\ ZeroFlow \in Flow
  <1>1. ZeroFlow \in Flow
    BY DEF ZeroFlow, Flow
  <1>2. new_flow(p) \in Flow
    BY PacketFields DEF new_flow, ZeroFlow, Flow
  <1>3. ASSUME NEW f \in Flow PROVE accounted(f, p) \in Flow
    BY PacketFields DEF accounted, Flow
  <1> QED
    BY <1>1, <1>2, <1>3

\* The slots in use form a finite set.
LEMMA UsedFinite ==
    ASSUME NEW s, NEW c \in Nat
    PROVE  IsFiniteSet(UsedIn(s, c)) /\ Cardinality(UsedIn(s, c)) \in Nat
  <1>1. IsFiniteSet(0 .. c - 1)
    BY FS_Interval
  <1>2. IsFiniteSet(UsedIn(s, c))
    BY <1>1, FS_Subset DEF UsedIn
  <1> QED
    BY <1>2, FS_CardinalityType

\* A probe that meets an empty slot has shown that its key is nowhere.
LEMMA KeyAbsent ==
    ASSUME NEW c \in Nat \ {0}, NEW s \in Slots(c), Reachable(s, c),
           NEW k \in Keys, NEW n \in 0 .. c - 1, ~in_use(s[n]),
           \A m \in 0 .. c - 1 : Before(Home(k, c), m, n) => s[m].key # k
    PROVE  \A m \in 0 .. c - 1 : s[m].key # k
  <1> SUFFICES ASSUME NEW m \in 0 .. c - 1, s[m].key = k
               PROVE  FALSE
    OBVIOUS
  <1>1. in_use(s[m])
    BY KeysAssumption DEF in_use
  <1>2. Home(k, c) \in 0 .. c - 1
    BY HomeInArray
  <1>3. Before(Home(k, c), m, n) \/ Before(Home(k, c), n, m)
    BY <1>1, <1>2, PathsCompare
  <1> QED
    BY <1>1, <1>3 DEF Reachable

\* Storing a new key in the first empty slot of its path keeps the array a table.
LEMMA FillSlot ==
    ASSUME NEW c \in Nat \ {0}, NEW s \in Slots(c),
           Reachable(s, c), Distinct(s, c),
           NEW n \in 0 .. c - 1, ~in_use(s[n]),
           NEW e \in Slot, e.key \in Keys,
           \A m \in 0 .. c - 1 : Before(Home(e.key, c), m, n) => in_use(s[m]),
           \A m \in 0 .. c - 1 : s[m].key # e.key
    PROVE  LET t == [s EXCEPT ![n] = e] IN
           /\ t \in Slots(c)
           /\ Reachable(t, c) /\ Distinct(t, c)
           /\ UsedIn(t, c) = UsedIn(s, c) \cup {n}
           /\ Cardinality(UsedIn(t, c)) = Cardinality(UsedIn(s, c)) + 1
  <1> DEFINE t == [s EXCEPT ![n] = e]
  <1>1. t \in Slots(c) /\ t[n] = e /\ \A m \in 0 .. c - 1 : m # n => t[m] = s[m]
    BY DEF Slots
  <1>2. in_use(e) /\ in_use(t[n])
    BY <1>1, KeysAssumption DEF in_use
  <1> HIDE DEF t
  <1>3. Reachable(t, c)
    BY <1>1, <1>2 DEF Reachable
  <1>4. Distinct(t, c)
    BY <1>1, <1>2 DEF Distinct, in_use
  <1>5. UsedIn(t, c) = UsedIn(s, c) \cup {n} /\ n \notin UsedIn(s, c)
    BY <1>1, <1>2 DEF UsedIn
  <1>6. Cardinality(UsedIn(t, c)) = Cardinality(UsedIn(s, c)) + 1
    BY <1>5, UsedFinite, FS_AddElement
  <1> QED
    BY <1>1, <1>3, <1>4, <1>5, <1>6 DEF t

\* A fresh array is an empty table.
LEMMA FreshArray ==
    ASSUME NEW c \in Nat
    PROVE  LET s == [n \in 0 .. c - 1 |-> EmptySlot] IN
           /\ s \in Slots(c) /\ Reachable(s, c) /\ Distinct(s, c)
           /\ UsedIn(s, c) = {} /\ Cardinality(UsedIn(s, c)) = 0
  <1> DEFINE s == [n \in 0 .. c - 1 |-> EmptySlot]
  <1>1. EmptySlot \in Slot /\ ~in_use(EmptySlot)
    BY DEF EmptySlot, Slot, ZeroFlow, Flow, in_use
  <1>2. s \in Slots(c) /\ \A n \in 0 .. c - 1 : ~in_use(s[n])
    BY <1>1 DEF Slots
  <1> HIDE DEF s
  <1>3. UsedIn(s, c) = {}
    BY <1>2 DEF UsedIn
  <1>4. Cardinality(UsedIn(s, c)) = 0
    BY <1>3, FS_EmptySet
  <1> QED
    BY <1>2, <1>3, <1>4 DEF Reachable, Distinct, s

\* The array of a table that has none is empty.
LEMMA NoArray ==
    /\ NoSlots \in Slots(0) /\ Reachable(NoSlots, 0) /\ Distinct(NoSlots, 0)
    /\ UsedIn(NoSlots, 0) = {} /\ Cardinality(UsedIn(NoSlots, 0)) = 0
  <1>1. 0 .. 0 - 1 = {}
    OBVIOUS
  <1>2. NoSlots \in Slots(0)
    BY <1>1 DEF NoSlots, Slots
  <1>3. UsedIn(NoSlots, 0) = {} /\ Cardinality({}) = 0
    BY <1>1, FS_EmptySet DEF UsedIn
  <1> QED
    BY <1>1, <1>2, <1>3 DEF Reachable, Distinct

-----------------------------------------------------------------------------
\* The invariant holds before the table is initialised.
LEMMA InitIInv == Init => IInv
  <1> SUFFICES ASSUME Init PROVE IInv
    OBVIOUS
  <1> USE NoArray DEF Init
  <1>1. TypeOK
    BY DEF TypeOK
  <1>2. OneReachableSlotPerFlow
    BY DEF OneReachableSlotPerFlow
  <1>3. CountWithinLoad
    BY LoadAssumption DEF CountWithinLoad, Used, UsedIn
  <1> QED
    BY <1>1, <1>2, <1>3 DEF IInv, FindIsExact, ProbedPath, RoomToInsert,
       CopiedSoFar, PlacePath

\* A new table, or a failed allocation, satisfies the invariant.
LEMMA InitCall ==
    ASSUME IInv, NEW c \in Capacities, flow_table_init(c)
    PROVE  IInv'
  <1> USE DEF IInv, flow_table_init, growing
  <1>1. c \in Nat \ {0}
    BY CapacityAssumption
  <1>2. CASE result' = "OK"
    <2>1. /\ slots' \in Slots(capacity') /\ Reachable(slots', capacity')
          /\ Distinct(slots', capacity') /\ UsedIn(slots', capacity') = {}
          /\ Cardinality(UsedIn(slots', capacity')) = 0 /\ capacity' = c
      BY <1>1, <1>2, FreshArray
    <2>2. TypeOK'
      BY <2>1, <1>2 DEF TypeOK
    <2>3. CountWithinLoad'
      BY <2>1, <1>1, LoadAssumption DEF CountWithinLoad, Used, UsedIn
    <2> QED
      BY <1>2, <2>1, <2>2, <2>3 DEF OneReachableSlotPerFlow, FindIsExact,
         ProbedPath, RoomToInsert, CopiedSoFar, PlacePath
  <1>3. CASE result' = "NULL"
    <2>1. UNCHANGED <<slots, capacity, pc, req>>
      BY <1>3
    <2>2. TypeOK'
      BY <2>1, <1>3 DEF TypeOK
    <2>3. CountWithinLoad'
      BY <2>1, LoadAssumption, FS_EmptySet DEF CountWithinLoad, Used
    <2> QED
      BY <1>3, <2>1, <2>2, <2>3 DEF OneReachableSlotPerFlow, FindIsExact,
         ProbedPath, RoomToInsert, CopiedSoFar, PlacePath
  <1> QED
    BY <1>2, <1>3

\* Freeing the table keeps the invariant.
LEMMA FreeCall == IInv /\ flow_table_free => IInv'
  <1> SUFFICES ASSUME IInv, flow_table_free PROVE IInv'
    OBVIOUS
  <1> USE NoArray DEF IInv, flow_table_free, growing
  <1>1. TypeOK'
    BY DEF TypeOK
  <1>2. CountWithinLoad'
    BY LoadAssumption DEF CountWithinLoad, Used, UsedIn
  <1> QED
    BY <1>1, <1>2 DEF OneReachableSlotPerFlow, FindIsExact, ProbedPath,
       RoomToInsert, CopiedSoFar, PlacePath

\* The start of account(): the load factor is tested and the probe or the copy
\* set up.
LEMMA AccountCall ==
    ASSUME IInv, NEW p \in Packets, account(p)
    PROVE  IInv'
  <1> USE DEF IInv, account, growing, table
  <1>0. p.key \in Keys
    BY PacketFields
  <1>1. p.key \in Keys /\ capacity \in Nat /\ 2 * capacity \in Nat
    BY <1>0, CallTyped
  <1>2. UNCHANGED <<slots, capacity, count, added>> /\ pc = "idle" /\ req' = p
    OBVIOUS
  <1>3. OneReachableSlotPerFlow' /\ CountWithinLoad'
    BY <1>2 DEF OneReachableSlotPerFlow, CountWithinLoad, Used
  <1>4. FindIsExact'
    BY DEF FindIsExact
  <1>5. CASE result' = "NULL" /\ pc' = "idle"
    <2>1. TypeOK'
      BY <1>2, <1>5 DEF TypeOK
    <2> QED
      BY <2>1, <1>3, <1>4, <1>5 DEF ProbedPath, RoomToInsert, CopiedSoFar, PlacePath
  <1>6. CASE pc' = "probe"
    <2>1. /\ capacity # 0 /\ ~must_grow /\ i' = Home(p.key, capacity)
          /\ i' \in 0 .. capacity - 1 /\ result' = "none"
      BY <1>1, <1>2, <1>6, HomeInArray
    <2>2. TypeOK'
      BY <1>2, <1>6, <2>1 DEF TypeOK
    <2>3. ProbedPath'
      BY <1>1, <1>2, <1>6, <2>1, PathStartsEmpty DEF ProbedPath
    <2>4. RoomToInsert'
      BY <1>1, <1>2, <2>1, LoadAssumption DEF RoomToInsert, must_grow, TypeOK
    <2> QED
      BY <1>3, <1>4, <1>6, <2>2, <2>3, <2>4 DEF CopiedSoFar, PlacePath
  <1>7. CASE pc' = "grow"
    <2>1. /\ capacity # 0 /\ capacity < MaxCapacity /\ from' = 0
          /\ bigger' = [n \in 0 .. 2 * capacity - 1 |-> EmptySlot]
          /\ result' = "none"
      BY <1>2, <1>7
    <2>2. /\ bigger' \in Slots(2 * capacity) /\ Reachable(bigger', 2 * capacity)
          /\ Distinct(bigger', 2 * capacity) /\ UsedIn(bigger', 2 * capacity) = {}
      BY <1>1, <2>1, FreshArray
    <2>3. TypeOK'
      BY <1>1, <1>2, <1>7, <2>1, <2>2, CapacityAssumption DEF TypeOK
    <2>4. UsedIn(slots', from') = {}
      BY <2>1 DEF UsedIn
    <2>5. CopiedSoFar'
      BY <1>2, <2>2, <2>4 DEF CopiedSoFar
    <2> QED
      BY <1>3, <1>4, <1>7, <2>3, <2>5 DEF ProbedPath, RoomToInsert, PlacePath
  <1> QED
    BY <1>2, <1>5, <1>6, <1>7

\* One turn of grow()'s copy loop: the old slot is free, or is handed to place().
LEMMA GrowTurn == IInv /\ grow_next => IInv'
  <1> SUFFICES ASSUME IInv, grow_next PROVE IInv'
    OBVIOUS
  <1> USE DEF IInv, grow_next, table
  <1>1. /\ UNCHANGED <<slots, capacity, count, req, i, bigger, result, added>>
        /\ pc = "grow" /\ from < capacity /\ from \in Nat /\ capacity \in Nat
        /\ slots \in Slots(capacity) /\ 2 * capacity \in Nat \ {0}
    BY CapacityAssumption DEF TypeOK
  <1>2. OneReachableSlotPerFlow' /\ CountWithinLoad'
    BY <1>1 DEF OneReachableSlotPerFlow, CountWithinLoad, Used
  <1>3. CASE in_use(slots[from]) /\ pc' = "place"
    <2>1. slots[from].key \in Keys
      BY <1>1, <1>3 DEF Slots, Slot, in_use
    <2>2. /\ to' = Home(slots[from].key, 2 * capacity) /\ from' = from
          /\ to' \in 0 .. 2 * capacity - 1
      BY <1>1, <1>3, <2>1, HomeInArray
    <2>3. TypeOK'
      BY <1>1, <1>3, <2>2 DEF TypeOK
    <2>4. CopiedSoFar'
      BY <1>1, <1>3, <2>2 DEF CopiedSoFar
    <2>5. PlacePath'
      BY <1>1, <1>3, <2>2, PathStartsEmpty DEF PlacePath
    <2> QED
      BY <1>2, <1>3, <2>3, <2>4, <2>5 DEF FindIsExact, ProbedPath, RoomToInsert
  <1>4. CASE ~in_use(slots[from]) /\ pc' = "grow"
    <2>1. from' = from + 1 /\ UNCHANGED to
      BY <1>1, <1>4
    <2>2. UsedIn(slots, from + 1) = UsedIn(slots, from)
      BY <1>1, <1>4 DEF UsedIn
    <2>3. TypeOK'
      BY <1>1, <1>4, <2>1 DEF TypeOK
    <2>4. CopiedSoFar'
      BY <1>1, <1>4, <2>1, <2>2 DEF CopiedSoFar
    <2> QED
      BY <1>2, <1>4, <2>3, <2>4 DEF FindIsExact, ProbedPath, RoomToInsert, PlacePath
  <1> QED
    BY <1>1, <1>3, <1>4

\* One turn of place(): the next slot, or the flow is stored in the new array.
LEMMA PlaceTurn == IInv /\ place => IInv'
  <1> SUFFICES ASSUME IInv, place PROVE IInv'
    OBVIOUS
  <1> DEFINE cap2 == 2 * capacity
             e == slots[from]
  <1> USE DEF IInv, place, table
  <1>1. /\ UNCHANGED <<slots, capacity, count, req, i, result, added>>
        /\ pc = "place" /\ from < capacity /\ from \in Nat /\ capacity \in Nat
        /\ slots \in Slots(capacity) /\ bigger \in Slots(cap2)
        /\ cap2 \in Nat \ {0} /\ to \in 0 .. cap2 - 1
    BY CapacityAssumption DEF TypeOK
  <1>2. OneReachableSlotPerFlow' /\ CountWithinLoad'
    BY <1>1 DEF OneReachableSlotPerFlow, CountWithinLoad, Used
  <1>3. e \in Slot /\ in_use(e) /\ e.key \in Keys
    BY <1>1 DEF PlacePath, Slots, Slot, in_use
  <1>4. CASE in_use(bigger[to]) /\ pc' = "place"
    <2>1. to' = NextSlot(to, cap2) /\ UNCHANGED <<bigger, from>>
      BY <1>4
    <2>2. to' \in 0 .. cap2 - 1
      BY <1>1, <2>1, NextInArray
    <2>3. TypeOK'
      BY <1>1, <1>4, <2>1, <2>2 DEF TypeOK
    <2>4. CopiedSoFar'
      BY <1>1, <1>4, <2>1 DEF CopiedSoFar
    <2>5. Home(e.key, cap2) \in 0 .. cap2 - 1
      BY <1>1, <1>3, HomeInArray
    <2>6. PlacePath'
      BY <1>1, <1>3, <1>4, <2>1, <2>5, PathGrows DEF PlacePath
    <2> QED
      BY <1>2, <1>4, <2>3, <2>4, <2>6 DEF FindIsExact, ProbedPath, RoomToInsert
  <1>5. CASE ~in_use(bigger[to]) /\ pc' = "grow"
    <2>1. bigger' = [bigger EXCEPT ![to] = e] /\ from' = from + 1 /\ to' = 0
      BY <1>1, <1>5
    <2>2. \A n \in 0 .. cap2 - 1 : bigger[n].key # e.key
      <3> SUFFICES ASSUME NEW n \in 0 .. cap2 - 1, bigger[n].key = e.key
                   PROVE  FALSE
        OBVIOUS
      <3>1. n \in UsedIn(bigger, cap2)
        BY <1>3, KeysAssumption DEF UsedIn, in_use
      <3>2. PICK m \in UsedIn(slots, from) : slots[m] = bigger[n]
        BY <1>1, <3>1 DEF CopiedSoFar
      <3>3. m \in 0 .. capacity - 1 /\ from \in 0 .. capacity - 1 /\ m # from
            /\ in_use(slots[m])
        BY <1>1, <3>2 DEF UsedIn
      <3> QED
        BY <3>2, <3>3 DEF OneReachableSlotPerFlow, Distinct
    <2>3. /\ bigger' \in Slots(cap2)
          /\ Reachable(bigger', cap2) /\ Distinct(bigger', cap2)
          /\ UsedIn(bigger', cap2) = UsedIn(bigger, cap2) \cup {to}
          /\ Cardinality(UsedIn(bigger', cap2)) = Cardinality(UsedIn(bigger, cap2)) + 1
      <3>1. Reachable(bigger, cap2) /\ Distinct(bigger, cap2)
        BY <1>1 DEF CopiedSoFar
      <3>2. \A m \in 0 .. cap2 - 1 : Before(Home(e.key, cap2), m, to) => in_use(bigger[m])
        BY <1>1 DEF PlacePath
      <3> HIDE DEF cap2, e
      <3> QED
        BY <1>1, <1>3, <1>5, <2>1, <2>2, <3>1, <3>2, FillSlot
    <2>4. /\ UsedIn(slots, from + 1) = UsedIn(slots, from) \cup {from}
          /\ from \notin UsedIn(slots, from)
      BY <1>1, <1>3 DEF UsedIn
    <2>5. Cardinality(UsedIn(slots, from + 1)) = Cardinality(UsedIn(slots, from)) + 1
      BY <1>1, <2>4, UsedFinite, FS_AddElement
    <2>6. /\ bigger'[to] = e
          /\ \A n \in UsedIn(bigger, cap2) : bigger'[n] = bigger[n] /\ n # to
      BY <1>1, <1>5, <2>1 DEF Slots, UsedIn
    <2>7. TypeOK'
      BY <1>1, <1>5, <2>1, <2>3 DEF TypeOK
    <2>8. CopiedSoFar'
      <3>1. \A n \in UsedIn(bigger', cap2) :
              \E m \in UsedIn(slots, from + 1) : slots[m] = bigger'[n]
        BY <1>1, <2>3, <2>4, <2>6 DEF CopiedSoFar
      <3>2. \A m \in UsedIn(slots, from + 1) :
              \E n \in UsedIn(bigger', cap2) : slots[m] = bigger'[n]
        BY <1>1, <2>3, <2>4, <2>6 DEF CopiedSoFar
      <3>3. Cardinality(UsedIn(bigger', cap2)) = Cardinality(UsedIn(slots, from + 1))
        BY <1>1, <2>3, <2>5 DEF CopiedSoFar
      <3>4. slots' = slots /\ 2 * capacity' = cap2 /\ from' = from + 1
        BY <1>1, <2>1
      <3>5. Reachable(bigger', cap2) /\ Distinct(bigger', cap2)
        BY <2>3
      <3> HIDE DEF e
      <3> QED
        BY <3>1, <3>2, <3>3, <3>4, <3>5 DEF CopiedSoFar
    <2> QED
      BY <1>2, <1>5, <2>7, <2>8 DEF FindIsExact, ProbedPath, RoomToInsert, PlacePath
  <1> QED
    BY <1>1, <1>4, <1>5

\* The new array takes over: it has the same flows, as many, and room for more.
LEMMA GrowDone == IInv /\ grow_done => IInv'
  <1> SUFFICES ASSUME IInv, grow_done PROVE IInv'
    OBVIOUS
  <1> DEFINE cap2 == 2 * capacity
  <1> USE DEF IInv, grow_done
  <1>1. /\ slots' = bigger /\ capacity' = cap2 /\ from' = 0 /\ pc' = "probe"
        /\ i' = Home(req.key, cap2) /\ UNCHANGED <<count, req, to, result, added>>
        /\ pc = "grow" /\ from = capacity /\ capacity \in Nat \ {0} /\ count \in Nat
        /\ cap2 \in Nat \ {0} /\ bigger \in Slots(cap2) /\ cap2 \in Capacities
        /\ capacity \in Capacities
    BY CapacityAssumption DEF TypeOK
  <1>2. req.key \in Keys /\ i' \in 0 .. cap2 - 1
    BY <1>1, HomeInArray, PacketFields DEF TypeOK
  <1>3. OneReachableSlotPerFlow'
    BY <1>1 DEF CopiedSoFar, OneReachableSlotPerFlow
  <1>4. count = Cardinality(UsedIn(bigger, cap2))
    BY <1>1 DEF CopiedSoFar, CountWithinLoad, Used, UsedIn
  <1>5. /\ count * LOAD_DEN <= cap2 * LOAD_NUM
        /\ (count + 1) * LOAD_DEN <= cap2 * LOAD_NUM
    <2>1. count * LOAD_DEN <= capacity * LOAD_NUM /\ LOAD_DEN <= capacity * LOAD_NUM
      BY <1>1, LoadAssumption DEF CountWithinLoad
    <2>2. /\ cap2 * LOAD_NUM = capacity * LOAD_NUM + capacity * LOAD_NUM
          /\ (count + 1) * LOAD_DEN = count * LOAD_DEN + LOAD_DEN
      BY <1>1, LoadAssumption
    <2>3. /\ capacity * LOAD_NUM \in Nat /\ count * LOAD_DEN \in Nat
          /\ LOAD_DEN \in Nat
      BY <1>1, LoadAssumption
    <2> QED
      BY <2>1, <2>2, <2>3
  <1>6. CountWithinLoad' /\ RoomToInsert'
    BY <1>1, <1>4, <1>5 DEF CountWithinLoad, RoomToInsert, Used, UsedIn
  <1>7. TypeOK'
    BY <1>1, <1>2 DEF TypeOK
  <1>8. ProbedPath'
    BY <1>1, <1>2, PathStartsEmpty DEF ProbedPath
  <1> QED
    BY <1>1, <1>3, <1>6, <1>7, <1>8 DEF FindIsExact, CopiedSoFar, PlacePath

\* A probe that meets an empty slot: the key of the call is not in the table.
LEMMA ReqAbsent ==
    ASSUME IInv, pc \in {"probe", "find"}, ~in_use(slots[i])
    PROVE  /\ capacity \in Nat \ {0} /\ req.key \in Keys /\ i \in 0 .. capacity - 1
           /\ \A m \in 0 .. capacity - 1 : slots[m].key # req.key
  <1>1. /\ capacity \in Nat \ {0} /\ req.key \in Keys /\ i \in 0 .. capacity - 1
        /\ slots \in Slots(capacity)
    <2>1. TypeOK
      BY DEF IInv
    <2> QED
      BY <2>1, CallTyped DEF TypeOK
  <1>2. Reachable(slots, capacity)
    BY DEF IInv, OneReachableSlotPerFlow
  <1>3. \A m \in 0 .. capacity - 1 :
          Before(Home(req.key, capacity), m, i) => slots[m].key # req.key
    BY DEF IInv, ProbedPath
  <1> QED
    BY <1>1, <1>2, <1>3, KeyAbsent

\* One turn of find_or_insert()'s probe, with the accounting that ends it.
LEMMA ProbeTurn == IInv /\ probe => IInv'
  <1> SUFFICES ASSUME IInv, probe PROVE IInv'
    OBVIOUS
  <1> USE DEF IInv, probe, table, growing
  <1>1. /\ UNCHANGED <<req, bigger, from, to, capacity>>
        /\ pc = "probe" /\ capacity \in Nat \ {0} /\ i \in 0 .. capacity - 1
        /\ slots \in Slots(capacity) /\ req \in Packets /\ req.key \in Keys
        /\ count \in Nat /\ slots[i] \in Slot
    BY CallTyped DEF TypeOK, Slots
  <1>2. CASE in_use(slots[i]) /\ slots[i].key # req.key
    <2>1. i' = NextSlot(i, capacity) /\ UNCHANGED <<slots, count, pc, result, added>>
      BY <1>2
    <2>2. i' \in 0 .. capacity - 1 /\ Home(req.key, capacity) \in 0 .. capacity - 1
      BY <1>1, <2>1, NextInArray, HomeInArray
    <2>3. TypeOK'
      BY <1>1, <2>1, <2>2 DEF TypeOK
    <2>4. ProbedPath'
      BY <1>1, <1>2, <2>1, <2>2, PathGrows DEF ProbedPath
    <2> QED
      BY <1>1, <2>1, <2>3, <2>4 DEF OneReachableSlotPerFlow, CountWithinLoad,
         Used, FindIsExact, RoomToInsert, CopiedSoFar, PlacePath
  <1>3. CASE in_use(slots[i]) /\ slots[i].key = req.key
    <2>1. /\ slots' = [slots EXCEPT ![i].flow = accounted(slots[i].flow, req)]
          /\ pc' = "idle" /\ i' = 0 /\ result' = "OK" /\ added' = added + 1
          /\ UNCHANGED count
      BY <1>3
    <2>2. accounted(slots[i].flow, req) \in Flow
      BY <1>1, FlowTyped DEF Slot
    <2>3. /\ slots' \in Slots(capacity)
          /\ \A m \in 0 .. capacity - 1 : slots'[m].key = slots[m].key
      BY <1>1, <2>1, <2>2 DEF Slots, Slot
    <2>4. TypeOK'
      BY <1>1, <2>1, <2>3 DEF TypeOK
    <2>5. OneReachableSlotPerFlow'
      BY <1>1, <2>3 DEF OneReachableSlotPerFlow, Reachable, Distinct, in_use
    <2>6. Used' = Used
      BY <1>1, <2>3 DEF Used, in_use
    <2>7. CountWithinLoad'
      BY <1>1, <2>1, <2>6 DEF CountWithinLoad
    <2> QED
      BY <2>1, <2>4, <2>5, <2>7 DEF FindIsExact, ProbedPath, RoomToInsert,
         CopiedSoFar, PlacePath
  <1>4. CASE ~in_use(slots[i])
    <2> DEFINE e == [key |-> req.key, flow |-> accounted(new_flow(req), req)]
    <2>1. /\ slots' = [slots EXCEPT ![i] = e] /\ count' = count + 1
          /\ pc' = "idle" /\ i' = 0 /\ result' = "OK" /\ added' = added + 1
      BY <1>4
    <2>2. e \in Slot /\ e.key = req.key
      BY <1>1, FlowTyped DEF Slot
    <2>3. \A m \in 0 .. capacity - 1 : slots[m].key # e.key
      BY <1>1, <1>4, <2>2, ReqAbsent
    <2>4. /\ \A m \in 0 .. capacity - 1 :
               Before(Home(e.key, capacity), m, i) => in_use(slots[m])
          /\ Reachable(slots, capacity) /\ Distinct(slots, capacity)
      BY <1>1, <2>2 DEF ProbedPath, OneReachableSlotPerFlow
    <2> HIDE DEF e
    <2>5. /\ slots' \in Slots(capacity)
          /\ Reachable(slots', capacity) /\ Distinct(slots', capacity)
          /\ Cardinality(UsedIn(slots', capacity)) =
               Cardinality(UsedIn(slots, capacity)) + 1
      BY <1>1, <1>4, <2>1, <2>2, <2>3, <2>4, FillSlot
    <2>6. TypeOK'
      BY <1>1, <2>1, <2>5 DEF TypeOK
    <2>7. OneReachableSlotPerFlow'
      BY <1>1, <2>5 DEF OneReachableSlotPerFlow
    <2>8. CountWithinLoad'
      BY <1>1, <2>1, <2>5 DEF CountWithinLoad, RoomToInsert, Used, UsedIn
    <2> QED
      BY <2>1, <2>6, <2>7, <2>8 DEF FindIsExact, ProbedPath, RoomToInsert,
         CopiedSoFar, PlacePath
  <1> QED
    BY <1>2, <1>3, <1>4

\* The start of flow_table_find().
LEMMA FindCall ==
    ASSUME IInv, NEW p \in Packets, flow_table_find(p)
    PROVE  IInv'
  <1> USE DEF IInv, flow_table_find, table, growing
  <1>0. p.key \in Keys
    BY PacketFields
  <1>1. /\ UNCHANGED <<slots, capacity, count, bigger, from, to, added>>
        /\ pc = "idle" /\ req' = p /\ capacity \in Nat /\ p.key \in Keys
    BY <1>0, CallTyped
  <1>2. OneReachableSlotPerFlow' /\ CountWithinLoad'
    BY <1>1 DEF OneReachableSlotPerFlow, CountWithinLoad, Used
  <1>3. CASE capacity = 0
    <2>1. Used = {} /\ UNCHANGED <<pc, i>> /\ result' = "absent"
      BY <1>3 DEF Used
    <2>2. TypeOK' /\ FindIsExact'
      BY <1>1, <2>1 DEF TypeOK, FindIsExact, StoredKeys, Used
    <2> QED
      BY <1>1, <1>2, <2>1, <2>2 DEF ProbedPath, RoomToInsert, CopiedSoFar, PlacePath
  <1>4. CASE capacity # 0
    <2>1. /\ pc' = "find" /\ result' = "none" /\ i' = Home(p.key, capacity)
          /\ i' \in 0 .. capacity - 1
      BY <1>1, <1>4, HomeInArray
    <2>2. TypeOK'
      BY <1>1, <2>1 DEF TypeOK
    <2>3. ProbedPath'
      BY <1>1, <2>1, PathStartsEmpty DEF ProbedPath
    <2> QED
      BY <1>2, <2>1, <2>2, <2>3 DEF FindIsExact, RoomToInsert, CopiedSoFar, PlacePath
  <1> QED
    BY <1>3, <1>4

\* One turn of find()'s loop.
LEMMA FindTurn == IInv /\ find_next => IInv'
  <1> SUFFICES ASSUME IInv, find_next PROVE IInv'
    OBVIOUS
  <1> USE DEF IInv, find_next, table, growing
  <1>1. /\ UNCHANGED <<slots, capacity, count, req, bigger, from, to, added>>
        /\ pc = "find"
    OBVIOUS
  <1> HIDE DEF find_next
  <1>0. capacity \in Nat \ {0} /\ i \in 0 .. capacity - 1 /\ req.key \in Keys
    BY <1>1, CallTyped
  <1> USE <1>0 DEF find_next
  <1>2. OneReachableSlotPerFlow' /\ CountWithinLoad' /\ UNCHANGED <<Used, StoredKeys>>
    BY <1>1 DEF OneReachableSlotPerFlow, CountWithinLoad, Used, StoredKeys
  <1>3. CASE in_use(slots[i]) /\ slots[i].key # req.key
    <2>1. i' = NextSlot(i, capacity) /\ UNCHANGED <<pc, result>>
      BY <1>3
    <2>2. i' \in 0 .. capacity - 1 /\ Home(req.key, capacity) \in 0 .. capacity - 1
      BY <1>1, <2>1, NextInArray, HomeInArray
    <2>3. TypeOK'
      BY <1>1, <2>1, <2>2 DEF TypeOK
    <2>4. ProbedPath'
      BY <1>1, <1>3, <2>1, <2>2, PathGrows DEF ProbedPath
    <2> QED
      BY <1>1, <1>2, <2>1, <2>3, <2>4 DEF FindIsExact, RoomToInsert, CopiedSoFar,
         PlacePath
  <1>4. CASE in_use(slots[i]) /\ slots[i].key = req.key
    <2>1. pc' = "idle" /\ result' = "found" /\ req.key \in StoredKeys
      BY <1>1, <1>4 DEF StoredKeys, Used
    <2>2. TypeOK' /\ FindIsExact'
      BY <1>1, <1>2, <2>1 DEF TypeOK, FindIsExact
    <2> QED
      BY <1>2, <2>1, <2>2 DEF ProbedPath, RoomToInsert, CopiedSoFar, PlacePath
  <1>5. CASE ~in_use(slots[i])
    <2>1. req.key \notin StoredKeys
      BY <1>1, <1>5, ReqAbsent DEF StoredKeys, Used
    <2>2. pc' = "idle" /\ result' = "absent"
      BY <1>5
    <2>3. TypeOK' /\ FindIsExact'
      BY <1>1, <1>2, <2>1, <2>2 DEF TypeOK, FindIsExact
    <2> QED
      BY <1>2, <2>2, <2>3 DEF ProbedPath, RoomToInsert, CopiedSoFar, PlacePath
  <1> QED
    BY <1>3, <1>4, <1>5

\* The inductive invariant holds in every reachable state.
THEOREM Invariance == Spec => []IInv
  <1>1. IInv /\ UNCHANGED vars => IInv'
    BY DEF vars, IInv, TypeOK, OneReachableSlotPerFlow, CountWithinLoad, Used,
       FindIsExact, StoredKeys, ProbedPath, RoomToInsert, CopiedSoFar, PlacePath
  <1>2. IInv /\ [Next]_vars => IInv'
    BY <1>1, InitCall, FreeCall, AccountCall, GrowTurn, PlaceTurn, GrowDone,
       ProbeTurn, FindCall, FindTurn DEF Next, Step
  <1> QED
    BY InitIInv, <1>2, PTL DEF Spec

\* Type correctness: every index of a loop of flow.c lies in its array.
THEOREM TypeCorrect == Spec => []TypeOK
  <1>1. IInv => TypeOK
    BY DEF IInv
  <1> QED
    BY Invariance, <1>1, PTL

\* No flow is ever split over two slots or out of reach of a lookup.
THEOREM FlowsStayReachable == Spec => []OneReachableSlotPerFlow
  <1>1. IInv => OneReachableSlotPerFlow
    BY DEF IInv
  <1> QED
    BY Invariance, <1>1, PTL

\* count is exact and the load factor is respected at every step.
THEOREM LoadRespected == Spec => []CountWithinLoad
  <1>1. IInv => CountWithinLoad
    BY DEF IInv
  <1> QED
    BY Invariance, <1>1, PTL

\* flow_table_find() finds exactly the keys that are stored.
THEOREM LookupsExact == Spec => []FindIsExact
  <1>1. IInv => FindIsExact
    BY DEF IInv
  <1> QED
    BY Invariance, <1>1, PTL

-----------------------------------------------------------------------------
(***************************************************************************)
(* The array implements the map.                                           *)
(***************************************************************************)
\* The map holds, for the key of a slot in use, the flow of that slot.
LEMMA StoredFlow ==
    ASSUME Distinct(slots, capacity), NEW n \in Used
    PROVE  /\ slots[n].key \in StoredKeys
           /\ StoredMap[slots[n].key] = slots[n].flow
  <1>1. slots[n].key \in StoredKeys
    BY DEF StoredKeys
  <1> DEFINE c == CHOOSE m \in Used : slots[m].key = slots[n].key
  <1>2. c \in Used /\ slots[c].key = slots[n].key
    OBVIOUS
  <1>3. c = n
    BY <1>2 DEF Distinct, Used
  <1> QED
    BY <1>1, <1>3 DEF StoredMap, FlowOf

\* Moving the flows to other slots, as grow() does, leaves the map as it was.
LEMMA SameFlowsSameMap ==
    ASSUME Distinct(slots, capacity), Distinct(slots, capacity)',
           \A n \in Used : \E m \in Used' : slots[n] = slots'[m],
           \A m \in Used' : \E n \in Used : slots[n] = slots'[m]
    PROVE  StoredMap' = StoredMap
  <1>1. StoredKeys' = StoredKeys
    BY DEF StoredKeys
  <1>2. ASSUME NEW k \in StoredKeys
        PROVE  FlowOf(k)' = FlowOf(k)
    <2>1. PICK n \in Used : slots[n].key = k
      BY DEF StoredKeys
    <2>2. PICK m \in Used' : slots[n] = slots'[m]
      OBVIOUS
    <2>3. StoredMap[k] = slots[n].flow
      BY <2>1, StoredFlow
    <2> DEFINE c == CHOOSE j \in Used' : slots'[j].key = k
    <2>4. c \in Used' /\ slots'[c].key = k
      BY <2>1, <2>2
    <2>5. c = m
      BY <2>1, <2>2, <2>4 DEF Distinct, Used
    <2> QED
      BY <1>2, <2>2, <2>3, <2>5 DEF StoredMap, FlowOf
  <1> QED
    BY <1>1, <1>2 DEF StoredMap

\* An array without a slot in use represents the empty map.
LEMMA EmptyArrayEmptyMap == Used = {} => StoredMap = Map!NoFlows
  BY DEF StoredMap, StoredKeys, Map!NoFlows

\* Initially there is no flow.
LEMMA InitMap == Init => Map!Init
  <1> SUFFICES ASSUME Init PROVE Map!Init
    OBVIOUS
  <1>1. Used = {}
    BY DEF Init, Used
  <1> QED
    BY <1>1, EmptyArrayEmptyMap DEF Init, Map!Init

\* The turn of the probe loop that ends the call adds the packet to its flow.
LEMMA ProbeAccounts ==
    IInv /\ IInv' /\ probe => Map!Account(req) \/ UNCHANGED Map!mapVars
  <1> SUFFICES ASSUME IInv, IInv', probe
               PROVE  Map!Account(req) \/ UNCHANGED Map!mapVars
    OBVIOUS
  <1>1. /\ pc = "probe" /\ capacity' = capacity /\ capacity \in Nat
        /\ i \in 0 .. capacity - 1 /\ slots \in Slots(capacity)
        /\ req.key \in Keys /\ Distinct(slots, capacity) /\ Distinct(slots, capacity)'
    BY CapacityAssumption, PacketFields
       DEF IInv, TypeOK, OneReachableSlotPerFlow, probe, table
  <1>2. CASE in_use(slots[i]) /\ slots[i].key # req.key
    <2>1. UNCHANGED <<slots, capacity, added>>
      BY <1>2 DEF probe, table
    <2> QED
      BY <2>1 DEF StoredMap, StoredKeys, FlowOf, Used, Map!mapVars
  <1>3. CASE in_use(slots[i]) /\ slots[i].key = req.key
    <2>1. /\ slots' = [slots EXCEPT ![i].flow = accounted(@, req)]
          /\ added' = added + 1
      BY <1>1, <1>3 DEF probe
    <2>2. /\ \A n \in 0 .. capacity - 1 : slots'[n].key = slots[n].key
          /\ \A n \in 0 .. capacity - 1 : n # i => slots'[n] = slots[n]
          /\ slots'[i].flow = accounted(slots[i].flow, req)
      BY <1>1, <2>1 DEF Slots, Slot
    <2>3. Used' = Used /\ i \in Used
      BY <1>1, <1>3, <2>2 DEF Used, in_use
    <2>4. StoredKeys' = StoredKeys /\ req.key \in StoredKeys
      BY <1>1, <1>3, <2>2, <2>3 DEF StoredKeys, Used
    <2>5. ASSUME NEW k \in StoredKeys
          PROVE  StoredMap'[k] = IF k # req.key THEN StoredMap[k]
                                 ELSE accounted(StoredMap[k], req)
      <3>1. PICK n \in Used : slots[n].key = k
        BY DEF StoredKeys
      <3>2. n \in Used' /\ n \in 0 .. capacity - 1 /\ slots'[n].key = k
        BY <2>2, <2>3, <3>1 DEF Used
      <3>3. StoredMap[k] = slots[n].flow
        BY <1>1, <3>1, StoredFlow
      <3>4. StoredMap'[k] = slots'[n].flow
        <4> DEFINE c == CHOOSE j \in Used' : slots'[j].key = k
        <4>1. c \in Used' /\ slots'[c].key = k
          BY <3>2
        <4>2. c = n
          BY <1>1, <3>2, <4>1 DEF Distinct, Used
        <4> QED
          BY <2>4, <4>2 DEF StoredMap, FlowOf
      <3>5. k # req.key <=> n # i
        BY <1>1, <1>3, <3>1, <3>2, <2>3 DEF Distinct, Used
      <3> QED
        BY <2>2, <3>2, <3>3, <3>4, <3>5
    <2>6. StoredMap' = [k \in StoredKeys' |-> StoredMap'[k]] /\ DOMAIN StoredMap = StoredKeys
      BY DEF StoredMap
    <2>7. StoredMap' = [k \in StoredKeys |-> IF k # req.key THEN StoredMap[k]
                                            ELSE accounted(StoredMap[k], req)]
      BY <2>4, <2>5, <2>6
    <2> QED
      BY <2>1, <2>4, <2>6, <2>7 DEF Map!Account, Map!account_in, accounted, Map!accounted
  <1>4. CASE ~in_use(slots[i])
    <2> DEFINE e == [key |-> req.key, flow |-> accounted(new_flow(req), req)]
    <2>1. slots' = [slots EXCEPT ![i] = e] /\ added' = added + 1
      BY <1>1, <1>4 DEF probe
    <2>2. /\ \A n \in 0 .. capacity - 1 : n # i => slots'[n] = slots[n]
          /\ slots'[i] = e
      BY <1>1, <2>1 DEF Slots
    <2>3. \A n \in 0 .. capacity - 1 : slots[n].key # req.key
      BY <1>1, <1>4, ReqAbsent DEF IInv
    <2>4. Used' = Used \cup {i} /\ i \notin Used
      BY <1>1, <1>4, <2>2, KeysAssumption DEF Used, in_use
    <2>5. StoredKeys' = StoredKeys \cup {req.key} /\ req.key \notin StoredKeys
      BY <1>1, <2>2, <2>3, <2>4 DEF StoredKeys, Used
    <2>6. ASSUME NEW k \in StoredKeys', NEW n \in Used', slots'[n].key = k
          PROVE  StoredMap'[k] = slots'[n].flow
      <3> DEFINE c == CHOOSE j \in Used' : slots'[j].key = k
      <3>1. c \in Used' /\ slots'[c].key = k
        BY <2>6
      <3>2. c = n
        BY <1>1, <2>6, <3>1 DEF Distinct, Used
      <3> QED
        BY <3>2 DEF StoredMap, FlowOf
    <2>7. StoredMap'[req.key] = accounted(new_flow(req), req)
      BY <2>2, <2>4, <2>5, <2>6
    <2>8. ASSUME NEW k \in StoredKeys
          PROVE  StoredMap'[k] = StoredMap[k] /\ k # req.key
      <3>1. PICK n \in Used : slots[n].key = k
        BY DEF StoredKeys
      <3>2. n \in Used' /\ slots'[n] = slots[n]
        BY <2>2, <2>4, <3>1 DEF Used
      <3> QED
        BY <1>1, <2>5, <2>6, <3>1, <3>2, StoredFlow
    <2>9. StoredMap' = [k \in StoredKeys' |-> StoredMap'[k]] /\ DOMAIN StoredMap = StoredKeys
      BY DEF StoredMap
    <2>10. StoredMap' = [k \in StoredKeys \cup {req.key} |->
                           IF k # req.key THEN StoredMap[k]
                           ELSE accounted(new_flow(req), req)]
      BY <2>5, <2>7, <2>8, <2>9
    <2>11. Map!accounted(Map!new_flow(req), req) = accounted(new_flow(req), req)
      BY DEF accounted, Map!accounted, new_flow, Map!new_flow, ZeroFlow, Map!ZeroFlow
    <2>12. req.key \notin StoredKeys
      BY <2>8
    <2>13. StoredMap' = Map!account_in(StoredMap, req)
      BY <2>9, <2>10, <2>11, <2>12 DEF Map!account_in
    <2> QED
      BY <2>1, <2>13 DEF Map!Account
  <1> QED
    BY <1>2, <1>3, <1>4

\* Every other step leaves the map alone, or empties it.
LEMMA NextMap == IInv /\ IInv' /\ [Next]_vars => [Map!Next]_Map!mapVars
  <1> SUFFICES ASSUME IInv, IInv', [Next]_vars
               PROVE  [Map!Next]_Map!mapVars
    OBVIOUS
  <1>1. ASSUME UNCHANGED <<slots, capacity, added>>
        PROVE  UNCHANGED Map!mapVars
    BY <1>1 DEF StoredMap, StoredKeys, FlowOf, Used, Map!mapVars
  <1>2. ASSUME Used = {}, Used' = {}, added' = added
        PROVE  UNCHANGED Map!mapVars
    BY <1>2 DEF StoredMap, StoredKeys, Map!mapVars
  <1>3. ASSUME NEW c \in Capacities, flow_table_init(c)
        PROVE  UNCHANGED Map!mapVars
    <2>1. capacity = 0 /\ added' = added
      BY <1>3 DEF flow_table_init
    <2>2. Used = {}
      BY <2>1 DEF Used
    <2>3. CASE result' = "OK"
      <3>1. Used' = {}
        BY <1>3, <2>3, CapacityAssumption DEF flow_table_init, Used, EmptySlot, in_use
      <3> QED
        BY <1>2, <2>1, <2>2, <3>1
    <2>4. CASE result' = "NULL"
      BY <1>1, <1>3, <2>4 DEF flow_table_init
    <2> QED
      BY <1>3, <2>3, <2>4 DEF flow_table_init
  <1>4. CASE flow_table_free
    <2>1. Used' = {} /\ added' = added
      BY <1>4 DEF flow_table_free, Used
    <2>2. StoredMap' = Map!NoFlows
      BY <2>1 DEF StoredMap, StoredKeys, Map!NoFlows
    <2> QED
      BY <2>1, <2>2 DEF Map!Next, Map!Free
  <1>5. CASE grow_done
    <2>1. /\ slots' = bigger /\ capacity' = 2 * capacity /\ added' = added
          /\ Used = UsedIn(slots, from) /\ Used' = UsedIn(bigger, 2 * capacity)
      BY <1>5 DEF grow_done, Used, UsedIn
    <2>2. Distinct(slots, capacity) /\ Distinct(slots, capacity)'
      BY DEF IInv, OneReachableSlotPerFlow
    <2>3. /\ \A n \in Used : \E m \in Used' : slots[n] = slots'[m]
          /\ \A m \in Used' : \E n \in Used : slots[n] = slots'[m]
      BY <1>5, <2>1 DEF IInv, CopiedSoFar, grow_done
    <2> QED
      BY <2>1, <2>2, <2>3, SameFlowsSameMap DEF Map!mapVars
  <1>6. CASE probe
    BY <1>6, ProbeAccounts DEF Map!Next, IInv, TypeOK
  <1>7. CASE grow_next \/ place \/ find_next
    BY <1>1, <1>7 DEF grow_next, place, find_next, table
  <1>8. ASSUME NEW p \in Packets, account(p) \/ flow_table_find(p)
        PROVE  UNCHANGED Map!mapVars
    BY <1>1, <1>8 DEF account, flow_table_find, table
  <1>9. CASE UNCHANGED vars
    BY <1>1, <1>9 DEF vars
  <1> QED
    BY <1>3, <1>4, <1>5, <1>6, <1>7, <1>8, <1>9 DEF Next, Step

\* The open-addressing table is a map from keys to flows: no step loses, splits
\* or invents a flow, and a successful call adds its packet to the flow of its key.
THEOREM Refinement == Spec => ImplementsMap
  <1> QED
    BY Invariance, InitMap, NextMap, PTL DEF Spec, ImplementsMap, Map!Spec

=============================================================================
