------------------------- MODULE LocalOracleProofs -------------------------
(***************************************************************************)
(* Proofs about LocalOracle, for every number of compute nodes, every      *)
(* value of the periods and thresholds, every width of the tick counter    *)
(* and every delay of the tasks.                                           *)
(***************************************************************************)
EXTENDS LocalOracle, SequenceTheorems, TLAPS

Slots == Slot(Nodes, {BOX_ID})

-----------------------------------------------------------------------------
(* Facts about the operators of HealthMonitor *)

\* find_node() returns a slot of the node, and 0 only when it has none.
LEMMA FindNode ==
    ASSUME NEW t \in Seq(Slots), NEW id
    PROVE  /\ find_node(t, id) \in 0 .. Len(t)
           /\ find_node(t, id) # 0 => t[find_node(t, id)].node_id = id
           /\ find_node(t, id) = 0 => \A i \in 1 .. Len(t) : t[i].node_id # id
<1>1. CASE \E i \in 1 .. Len(t) : t[i].node_id = id
  <2> DEFINE c == CHOOSE i \in 1 .. Len(t) : t[i].node_id = id
  <2>1. c \in 1 .. Len(t) /\ t[c].node_id = id
    BY <1>1
  <2>2. find_node(t, id) = c
    BY <1>1 DEF find_node
  <2> HIDE DEF c
  <2>3. Len(t) \in Nat
    OBVIOUS
  <2> QED BY <2>1, <2>2, <2>3
<1>2. CASE ~ \E i \in 1 .. Len(t) : t[i].node_id = id
  <2>1. find_node(t, id) = 0
    BY <1>2 DEF find_node
  <2>2. Len(t) \in Nat
    OBVIOUS
  <2> QED BY <1>2, <2>1, <2>2
<1> QED BY <1>1, <1>2

\* Writing one element of a sequence leaves its length and the other elements.
LEMMA ExceptElement ==
    ASSUME NEW S, NEW t \in Seq(S), NEW i \in 1 .. Len(t), NEW e \in S
    PROVE  /\ [t EXCEPT ![i] = e] \in Seq(S)
           /\ Len([t EXCEPT ![i] = e]) = Len(t)
           /\ \A j \in 1 .. Len(t) :
                 [t EXCEPT ![i] = e][j] = IF j = i THEN e ELSE t[j]
BY ExceptSeq

\* Appending an element to a sequence.
LEMMA AppendElement ==
    ASSUME NEW S, NEW t \in Seq(S), NEW e \in S
    PROVE  /\ Append(t, e) \in Seq(S)
           /\ Len(Append(t, e)) = Len(t) + 1
           /\ \A j \in 1 .. Len(t) : Append(t, e)[j] = t[j]
           /\ Append(t, e)[Len(t) + 1] = e
OBVIOUS

\* The number of misses fits in miss_count.
LEMMA CountMissesType ==
    ASSUME NEW e \in Slots, NEW t \in Ticks
    PROVE  count_misses(e, t) \in 0 .. MISS_MOD - 1
<1> DEFINE since == Elapsed(t, e.last_seen_ms)
<1>1. since \in Nat
  BY MonitorConstants DEF Slots, Slot, Ticks, Elapsed
<1> HIDE DEF since
<1>2. since \div HB_INTERVAL_MS \in Int
  BY <1>1, MonitorConstants
<1>3. (since \div HB_INTERVAL_MS) % MISS_MOD \in 0 .. MISS_MOD - 1
  BY <1>2, MonitorConstants
<1>4. e.miss_count \in 0 .. MISS_MOD - 1
  BY DEF Slots, Slot
<1>5. count_misses(e, t) = IF since >= HB_INTERVAL_MS
                           THEN (since \div HB_INTERVAL_MS) % MISS_MOD
                           ELSE e.miss_count
  BY DEF count_misses, since
<1> QED BY <1>3, <1>4, <1>5

\* The tick moves a status along an edge of the state machine or leaves it.
LEMMA TickStatusType ==
    ASSUME NEW e \in Slots, NEW t \in Ticks, NEW b \in BOOLEAN
    PROVE  /\ tick_status(e, t, b) \in Statuses
           /\ tick_status(e, t, b) # e.status =>
                 \/ /\ e.status = NODE_UP
                    /\ e.miss_count >= SUSPECT_THRESHOLD
                    /\ tick_status(e, t, b) = NODE_SUSPECT
                 \/ /\ e.status = NODE_SUSPECT
                    /\ Elapsed(t, e.suspect_since_ms) >= DOWN_TIMEOUT_MS
                    /\ tick_status(e, t, b) = NODE_DOWN
BY DEF tick_status, Slots, Slot, Statuses, NODE_UP, NODE_SUSPECT, NODE_DOWN

\* What a heartbeat and the end of a recovery write leaves a slot of the
\* same node.
LEMMA HeartbeatSeen ==
    ASSUME NEW e \in Slots, NEW t \in Ticks
    PROVE  /\ heartbeat_seen(e, t) \in Slots
           /\ heartbeat_seen(e, t).node_id = e.node_id
           /\ heartbeat_seen(e, t).status = e.status
           /\ heartbeat_seen(e, t).last_seen_ms = t
           /\ heartbeat_seen(e, t).miss_count = 0
           /\ heartbeat_seen(e, t).suspect_since_ms = e.suspect_since_ms
<1> USE MonitorConstants DEF Slots, Slot, Ticks
<1> DEFINE f == [e EXCEPT !.last_seen_ms = t]
<1>1. /\ f \in Slots /\ f.last_seen_ms = t /\ f.node_id = e.node_id
      /\ f.status = e.status /\ f.suspect_since_ms = e.suspect_since_ms
  OBVIOUS
<1>2. heartbeat_seen(e, t) = [f EXCEPT !.miss_count = 0]
  BY DEF heartbeat_seen
<1> HIDE DEF f
<1> QED BY <1>1, <1>2

\* The slot the tick sees, with its misses counted.
LEMMA CountedSlot ==
    ASSUME NEW e \in Slots, NEW t \in Ticks
    PROVE  LET f == [e EXCEPT !.miss_count = count_misses(e, t)]
           IN  /\ f \in Slots
               /\ f.node_id = e.node_id
               /\ f.status = e.status
               /\ f.last_seen_ms = e.last_seen_ms
               /\ f.miss_count = count_misses(e, t)
               /\ f.suspect_since_ms = e.suspect_since_ms
BY CountMissesType DEF Slots, Slot

\* What is stored after a recovery is a slot of the same node.
LEMMA RecoveredSlot ==
    ASSUME NEW e \in Slots, NEW s \in Statuses
    PROVE  LET g == [e EXCEPT !.status = s, !.suspect_since_ms = 0]
           IN  /\ g \in Slots
               /\ g.node_id = e.node_id
               /\ g.status = s
               /\ g.last_seen_ms = e.last_seen_ms
               /\ g.miss_count = e.miss_count
<1> USE MonitorConstants DEF Slots, Slot, Ticks
<1> DEFINE f == [e EXCEPT !.status = s]
           g == [f EXCEPT !.suspect_since_ms = 0]
<1>1. /\ f \in Slots /\ f.node_id = e.node_id /\ f.status = s
      /\ f.last_seen_ms = e.last_seen_ms /\ f.miss_count = e.miss_count
  OBVIOUS
<1> HIDE DEF f
<1>2. /\ g \in Slots /\ g.node_id = e.node_id /\ g.status = s
      /\ g.last_seen_ms = e.last_seen_ms /\ g.miss_count = e.miss_count
  BY <1>1
<1> QED BY <1>2 DEF f

-----------------------------------------------------------------------------
(* Health tables *)

\* What TypeOK and NodeIdsUnique say of a table.
GoodTable(t) ==
    /\ t \in Seq(Slots)
    /\ Len(t) <= MAX_HEALTH_NODES
    /\ \A i, j \in 1 .. Len(t) : t[i].node_id = t[j].node_id => i = j

\* u keeps every slot of t for the node it was given to.
SameSlots(t, u) ==
    /\ Len(t) <= Len(u)
    /\ \A i \in 1 .. Len(t) : u[i].node_id = t[i].node_id

\* t after its slot i is overwritten with e.
Written(t, i, e) == [t EXCEPT ![i] = e]

\* Rewriting a slot for the same node.
LEMMA WriteSlot ==
    ASSUME NEW t, GoodTable(t), NEW i \in 1 .. Len(t), NEW e \in Slots,
           e.node_id = t[i].node_id
    PROVE  /\ GoodTable(Written(t, i, e)) /\ SameSlots(t, Written(t, i, e))
           /\ Len(Written(t, i, e)) = Len(t)
           /\ \A j \in 1 .. Len(t) :
                 Written(t, i, e)[j] = IF j = i THEN e ELSE t[j]
<1> DEFINE u == Written(t, i, e)
<1>1. t \in Seq(Slots) /\ Len(t) <= MAX_HEALTH_NODES
  BY DEF GoodTable
<1>2. /\ u \in Seq(Slots) /\ Len(u) = Len(t)
      /\ \A j \in 1 .. Len(t) : u[j] = IF j = i THEN e ELSE t[j]
  BY <1>1, ExceptElement DEF Written
<1> HIDE DEF u
<1>3. \A j \in 1 .. Len(t) : u[j].node_id = t[j].node_id
  BY <1>2
<1>4. Len(t) \in Nat
  BY <1>1
<1>5. GoodTable(u)
  BY <1>1, <1>2, <1>3 DEF GoodTable
<1>6. SameSlots(t, u)
  BY <1>2, <1>3, <1>4 DEF SameSlots
<1> QED BY <1>2, <1>5, <1>6 DEF u

\* Taking a free slot for a node that has none.
LEMMA AppendSlot ==
    ASSUME NEW t, GoodTable(t), NEW e \in Slots, Len(t) < MAX_HEALTH_NODES,
           \A i \in 1 .. Len(t) : t[i].node_id # e.node_id
    PROVE  /\ GoodTable(Append(t, e)) /\ SameSlots(t, Append(t, e))
           /\ Len(Append(t, e)) = Len(t) + 1
           /\ \A j \in 1 .. Len(t) : Append(t, e)[j] = t[j]
           /\ Append(t, e)[Len(t) + 1] = e
<1> DEFINE u == Append(t, e)
<1>1. t \in Seq(Slots) /\ Len(t) \in Nat
  BY DEF GoodTable
<1>2. /\ u \in Seq(Slots) /\ Len(u) = Len(t) + 1
      /\ \A j \in 1 .. Len(t) : u[j] = t[j]
      /\ u[Len(t) + 1] = e
  BY <1>1, AppendElement
<1> HIDE DEF u
<1>3. \A j \in 1 .. Len(u) : j \in 1 .. Len(t) \/ j = Len(t) + 1
  BY <1>1, <1>2
<1>4. ASSUME NEW j \in 1 .. Len(u), NEW k \in 1 .. Len(u),
             u[j].node_id = u[k].node_id
      PROVE  j = k
  BY <1>2, <1>3, <1>4 DEF GoodTable
<1>5. GoodTable(u)
  BY <1>1, <1>2, <1>4, MonitorConstants DEF GoodTable
<1>6. SameSlots(t, u)
  BY <1>1, <1>2 DEF SameSlots
<1> QED BY <1>2, <1>5, <1>6 DEF u

\* What an announcement does to the table.
LEMMA AnnounceTable ==
    ASSUME NEW t, GoodTable(t), NEW id \in Nodes, NEW at \in Ticks
    PROVE  /\ GoodTable(process_announce(t, id, BOX_ID, at))
           /\ SameSlots(t, process_announce(t, id, BOX_ID, at))
           /\ \A j \in 1 .. Len(process_announce(t, id, BOX_ID, at)) :
                 IF process_announce(t, id, BOX_ID, at)[j].node_id = id
                 THEN process_announce(t, id, BOX_ID, at)[j]
                         = announced(id, BOX_ID, at)
                 ELSE /\ j \in 1 .. Len(t)
                      /\ process_announce(t, id, BOX_ID, at)[j] = t[j]
<1> DEFINE idx == find_node(t, id)
           e == announced(id, BOX_ID, at)
           u == process_announce(t, id, BOX_ID, at)
<1>0. t \in Seq(Slots) /\ Len(t) \in Nat
  BY DEF GoodTable
<1>1. /\ idx \in 0 .. Len(t)
      /\ idx # 0 => t[idx].node_id = id
      /\ idx = 0 => \A i \in 1 .. Len(t) : t[i].node_id # id
  BY <1>0, FindNode
<1>2. e \in Slots /\ e.node_id = id
  BY MonitorConstants DEF announced, Slots, Slot, Statuses, Ticks
<1>3. CASE idx # 0
  <2>1. u = Written(t, idx, e)
    BY <1>3 DEF process_announce, Written
  <2>2. idx \in 1 .. Len(t) /\ e.node_id = t[idx].node_id
    BY <1>0, <1>1, <1>2, <1>3
  <2> HIDE DEF e, idx, u
  <2>3. /\ GoodTable(u) /\ SameSlots(t, u) /\ Len(u) = Len(t)
        /\ \A j \in 1 .. Len(t) : u[j] = IF j = idx THEN e ELSE t[j]
    BY <1>2, <2>1, <2>2, WriteSlot
  <2>4. \A j \in 1 .. Len(t) : t[j].node_id = id => j = idx
    BY <1>2, <2>2 DEF GoodTable
  <2>5. \A j \in 1 .. Len(u) : IF u[j].node_id = id THEN u[j] = e
                              ELSE j \in 1 .. Len(t) /\ u[j] = t[j]
    BY <1>2, <2>3, <2>4
  <2> QED BY <2>3, <2>5 DEF e, u
<1>4. CASE idx = 0 /\ Len(t) < MAX_HEALTH_NODES
  <2>1. u = Append(t, e)
    BY <1>4 DEF process_announce
  <2> HIDE DEF e, idx, u
  <2>2. /\ GoodTable(u) /\ SameSlots(t, u) /\ Len(u) = Len(t) + 1
        /\ \A j \in 1 .. Len(t) : u[j] = t[j]
        /\ u[Len(t) + 1] = e
    BY <1>1, <1>2, <1>4, <2>1, AppendSlot
  <2>3. \A j \in 1 .. Len(u) : j \in 1 .. Len(t) \/ j = Len(t) + 1
    BY <1>0, <2>2
  <2>4. \A j \in 1 .. Len(u) : IF u[j].node_id = id THEN u[j] = e
                              ELSE j \in 1 .. Len(t) /\ u[j] = t[j]
    BY <1>1, <1>2, <1>4, <2>2, <2>3
  <2> QED BY <2>2, <2>4 DEF e, u
<1>5. CASE idx = 0 /\ ~(Len(t) < MAX_HEALTH_NODES)
  <2>1. u = t
    BY <1>5 DEF process_announce
  <2> HIDE DEF e, idx, u
  <2>2. SameSlots(t, u)
    BY <1>0, <2>1 DEF SameSlots
  <2>3. \A j \in 1 .. Len(u) : u[j].node_id # id
    BY <1>1, <1>5, <2>1
  <2> QED BY <2>1, <2>2, <2>3 DEF u
<1> QED BY <1>3, <1>4, <1>5

\* What a committed transition of a registered node does to the table.
LEMMA ApplyTable ==
    ASSUME NEW t, GoodTable(t), NEW x \in Transitions,
           NEW i \in 1 .. Len(t), t[i].node_id = x.node
    PROVE  /\ [t[i] EXCEPT !.status = x.new] \in Slots
           /\ [t[i] EXCEPT !.status = x.new].node_id = t[i].node_id
           /\ health_table_apply(t, x) =
                 Written(t, i, [t[i] EXCEPT !.status = x.new])
<1> DEFINE idx == find_node(t, x.node)
<1>0. t \in Seq(Slots) /\ Len(t) \in Nat /\ t[i] \in Slots
  BY DEF GoodTable
<1>1. idx = i
  <2>1. /\ idx \in 0 .. Len(t)
        /\ idx # 0 => t[idx].node_id = x.node
        /\ idx = 0 => \A k \in 1 .. Len(t) : t[k].node_id # x.node
    BY <1>0, FindNode
  <2>2. idx # 0
    BY <2>1
  <2>3. idx \in 1 .. Len(t)
    BY <1>0, <2>1, <2>2
  <2> HIDE DEF idx
  <2> QED BY <2>1, <2>2, <2>3 DEF GoodTable
<1>2. [t[i] EXCEPT !.status = x.new] \in Slots
      /\ [t[i] EXCEPT !.status = x.new].node_id = t[i].node_id
  BY <1>0 DEF Slots, Slot, Transitions
<1>3. health_table_apply(t, x) = Written(t, i, [t[i] EXCEPT !.status = x.new])
  BY <1>1 DEF health_table_apply, Written
<1> QED BY <1>2, <1>3

\* What oracle_propose_health_transition() does to the log.
LEMMA ProposeLog ==
    ASSUME log \in Seq(Transitions), Len(log) <= LOG_CAPACITY,
           NEW e \in Slots, NEW new \in Statuses, Propose(e, new)
    PROVE  /\ log' \in Seq(Transitions) /\ Len(log') <= LOG_CAPACITY
           /\ Len(log') \in Len(log) .. Len(log) + 1
           /\ \A k \in 1 .. Len(log) : log'[k] = log[k]
           /\ Len(log') = Len(log) + 1 =>
                 /\ log'[Len(log) + 1].node = e.node_id
                 /\ log'[Len(log) + 1].old = e.status
                 /\ log'[Len(log) + 1].new = new
           /\ leader /\ ~Full => Len(log') = Len(log) + 1
           /\ ~leader \/ Full => log' = log
<1> DEFINE x == [node |-> e.node_id, box |-> e.box_id, old |-> e.status,
                 new |-> new]
<1>1. x \in Transitions
  BY DEF Transitions, Slots, Slot
<1>2. CASE leader /\ ~Full
  <2>1. log' = Append(log, x)
    BY <1>2 DEF Propose
  <2>a. x.node = e.node_id /\ x.old = e.status /\ x.new = new
    OBVIOUS
  <2> HIDE DEF x
  <2>2. /\ Append(log, x) \in Seq(Transitions)
        /\ Len(Append(log, x)) = Len(log) + 1
        /\ \A j \in 1 .. Len(log) : Append(log, x)[j] = log[j]
        /\ Append(log, x)[Len(log) + 1] = x
    BY <1>1, AppendElement
  <2>3. Len(log) \in Nat
    OBVIOUS
  <2> QED BY <1>2, <2>1, <2>a, <2>2, <2>3, OracleConstants DEF Full
<1>3. CASE ~(leader /\ ~Full)
  <2>1. log' = log
    BY <1>3 DEF Propose
  <2>2. Len(log) \in Nat
    OBVIOUS
  <2> QED BY <1>3, <2>1, <2>2
<1> QED BY <1>2, <1>3

-----------------------------------------------------------------------------
(* The structural invariant *)

\* Every entry of the log is about a node with a slot, because only slots are
\* proposed and slots are never given up.
LogRegistered ==
    \A k \in 1 .. Len(log) :
        \E i \in 1 .. Len(table) : table[i].node_id = log[k].node

Structure ==
    /\ TypeOK
    /\ NodeIdsUnique
    /\ LogRegistered
    /\ pc = "slot" => cursor >= 1

\* The table of an invariant state is well formed.
LEMMA StructureTable ==
    ASSUME Structure PROVE GoodTable(table) /\ Len(table) \in Nat
BY DEF Structure, TypeOK, TableTypeOK, NodeIdsUnique, GoodTable, Slots

\* The registration of logged nodes survives a step that keeps the slots and
\* logs only transitions of registered nodes.
LEMMA KeepRegistered ==
    ASSUME Structure, GoodTable(table'), SameSlots(table, table'),
           log' \in Seq(Transitions),
           Len(log') \in Len(log) .. Len(log) + 1,
           \A k \in 1 .. Len(log) : log'[k] = log[k],
           Len(log') = Len(log) + 1 =>
               \E i \in 1 .. Len(table) : table[i].node_id = log'[Len(log) + 1].node
    PROVE  LogRegistered'
<1>1. Len(log) \in Nat /\ Len(table) \in Nat /\ Len(table') \in Nat
  BY DEF Structure, TypeOK, TableTypeOK, RaftTypeOK, GoodTable
<1>2. SUFFICES ASSUME NEW k \in 1 .. Len(log')
               PROVE  \E i \in 1 .. Len(table') : table'[i].node_id = log'[k].node
  BY DEF LogRegistered
<1>3. \E i \in 1 .. Len(table) : table[i].node_id = log'[k].node
  <2>1. CASE k \in 1 .. Len(log)
    BY <2>1 DEF Structure, LogRegistered
  <2>2. CASE k = Len(log) + 1
    BY <1>1, <2>2
  <2> QED BY <1>1, <2>1, <2>2
<1>4. PICK i \in 1 .. Len(table) : table[i].node_id = log'[k].node
  BY <1>3
<1>5. i \in 1 .. Len(table') /\ table'[i].node_id = table[i].node_id
  BY <1>1 DEF SameSlots
<1> QED BY <1>4, <1>5

\* The firmware starts in the invariant.
LEMMA StructureInit == Init => Structure
<1> SUFFICES ASSUME Init PROVE Structure
  OBVIOUS
<1>1. ClockTypeOK /\ QueueTypeOK /\ TableTypeOK
  BY MonitorConstants, OracleConstants
     DEF Init, ClockTypeOK, QueueTypeOK, TableTypeOK, Ticks
<1>2. TaskTypeOK
  BY DEF Init, TaskTypeOK, NoStore, Statuses
<1>3. RaftTypeOK
  <2>1. notified \in BOOLEAN /\ leader \in BOOLEAN /\ rpc = "idle"
    BY DEF Init
  <2>2. /\ log \in Seq(Transitions) /\ Len(log) <= LOG_CAPACITY
        /\ applied \in 0 .. Len(log)
    BY OracleConstants DEF Init
  <2> QED BY <2>1, <2>2 DEF RaftTypeOK
<1>4. GhostTypeOK
  BY OracleConstants DEF Init, GhostTypeOK, Statuses
<1> QED
  BY <1>1, <1>2, <1>3, <1>4
     DEF Init, TypeOK, Structure, NodeIdsUnique, LogRegistered

\* The structural invariant survives every step: what remains to show of an
\* action is that it keeps the slots, and what it writes.
LEMMA StructureNext == Structure /\ [Next]_vars => Structure'
<1> SUFFICES ASSUME Structure, [Next]_vars PROVE Structure'
  OBVIOUS
<1> USE DEF SameSlots
<1>0. GoodTable(table) /\ Len(table) \in Nat
  BY StructureTable
<1>1. CASE Tick
  <2>1. ClockTypeOK' /\ QueueTypeOK' /\ TableTypeOK' /\ TaskTypeOK' /\ RaftTypeOK'
    BY <1>1, MonitorConstants
       DEF Tick, Structure, TypeOK, ClockTypeOK, QueueTypeOK, TableTypeOK,
           TaskTypeOK, RaftTypeOK, Ticks, monitorVars, healthVars, raftVars
  <2>2. GhostTypeOK'
    BY <1>1, OracleConstants DEF Tick, Structure, TypeOK, GhostTypeOK
  <2> QED
    BY <1>1, <2>1, <2>2 DEF Tick, Structure, TypeOK, NodeIdsUnique,
       LogRegistered, monitorVars, healthVars, raftVars
<1>2. CASE \E m \in Frames : EthRx(m)
  <2>1. PICK m \in Frames : EthRx(m)
    BY <1>2
  <2> DEFINE q == IF Len(hb_inbox) < HB_INBOX_DEPTH THEN hb_inbox ELSE Tail(hb_inbox)
  <2>2. hb_inbox \in Seq(Frames) /\ Len(hb_inbox) \in Nat
        /\ Len(hb_inbox) <= HB_INBOX_DEPTH /\ hb_inbox' = Append(q, m)
    BY <2>1 DEF EthRx, Structure, TypeOK, QueueTypeOK
  <2>3. q \in Seq(Frames) /\ Len(q) < HB_INBOX_DEPTH
    BY <2>2, OracleConstants
  <2> HIDE DEF q
  <2>4. QueueTypeOK'
    BY <2>1, <2>2, <2>3, AppendElement, OracleConstants DEF QueueTypeOK
  <2>5. UNCHANGED <<tick, monitorVars, healthVars, raftVars, ghostVars>>
    BY <2>1 DEF EthRx
  <2> QED
    BY <2>4, <2>5 DEF Structure, TypeOK, ClockTypeOK, TableTypeOK, TaskTypeOK,
       RaftTypeOK, GhostTypeOK, NodeIdsUnique, LogRegistered, monitorVars,
       healthVars, raftVars, ghostVars
<1>3. ASSUME NEW type \in {"heartbeat", "announce"}, NextFrame(type)
      PROVE  /\ Head(hb_inbox) \in Frames /\ Head(hb_inbox).src \in Nodes
             /\ QueueTypeOK' /\ now' \in Ticks
             /\ silence' \in [Nodes -> 0 .. SILENCE_CAP]
  <2>1. hb_inbox \in Seq(Frames) /\ hb_inbox # <<>> /\ hb_inbox' = Tail(hb_inbox)
        /\ Len(hb_inbox) <= HB_INBOX_DEPTH /\ now' = tick
        /\ silence' = [silence EXCEPT ![Head(hb_inbox).src] = 0]
    BY <1>3 DEF NextFrame, Structure, TypeOK, QueueTypeOK
  <2>2. Head(hb_inbox) \in Frames /\ QueueTypeOK'
    BY <2>1, OracleConstants DEF QueueTypeOK
  <2>3. Head(hb_inbox).src \in Nodes
    BY <2>2 DEF Frames
  <2>4. silence \in [Nodes -> 0 .. SILENCE_CAP] /\ now' \in Ticks
    BY <2>1 DEF Structure, TypeOK, ClockTypeOK, GhostTypeOK
  <2>5. silence' \in [Nodes -> 0 .. SILENCE_CAP]
    BY <2>1, <2>3, <2>4, OracleConstants
  <2> QED BY <2>2, <2>3, <2>4, <2>5
<1>4. CASE ProcessHeartbeat
  <2> DEFINE src == Head(hb_inbox).src
             idx == find_node(table, src)
  <2>0. /\ NextFrame("heartbeat")
        /\ UNCHANGED <<tick, last_tick, cursor, notified, rpc, leader, applied, raced>>
    BY <1>4 DEF ProcessHeartbeat
  <2>1. /\ src \in Nodes /\ QueueTypeOK' /\ now' \in Ticks
        /\ silence' \in [Nodes -> 0 .. SILENCE_CAP]
    BY <1>3, <2>0
  <2>2. idx \in 0 .. Len(table)
    BY <1>0, FindNode DEF GoodTable
  <2>3. CASE idx = 0 /\ pc' = "tick" /\ UNCHANGED <<table, store, log, verdict>>
    <3>1. ClockTypeOK' /\ TableTypeOK' /\ TaskTypeOK' /\ RaftTypeOK' /\ GhostTypeOK'
      BY <2>0, <2>1, <2>3 DEF Structure, TypeOK, ClockTypeOK, TableTypeOK,
         TaskTypeOK, RaftTypeOK, GhostTypeOK
    <3> QED BY <2>1, <2>3, <3>1
            DEF Structure, TypeOK, NodeIdsUnique, LogRegistered
  <2>4. CASE /\ idx # 0
             /\ table' = [table EXCEPT ![idx] = heartbeat_seen(@, tick)]
    <3>1. idx \in 1 .. Len(table) /\ table[idx] \in Slots /\ tick \in Ticks
      BY <1>0, <2>2, <2>4 DEF GoodTable, Structure, TypeOK, ClockTypeOK
    <3> HIDE DEF idx
    <3>2. GoodTable(table') /\ SameSlots(table, table') /\ Len(table') = Len(table)
      <4> DEFINE e == heartbeat_seen(table[idx], tick)
      <4>1. e \in Slots /\ e.node_id = table[idx].node_id
        BY <3>1, HeartbeatSeen
      <4>2. table' = Written(table, idx, e)
        BY <2>4 DEF Written
      <4> HIDE DEF e
      <4> QED BY <1>0, <3>1, <4>1, <4>2, WriteSlot
    <3>3. CASE pc' = "tick" /\ UNCHANGED <<store, log, verdict>>
      <4>1. /\ ClockTypeOK' /\ TableTypeOK' /\ TaskTypeOK' /\ RaftTypeOK'
            /\ GhostTypeOK'
        BY <2>0, <2>1, <3>2, <3>3 DEF GoodTable, Slots, Structure, TypeOK,
           ClockTypeOK, TableTypeOK, TaskTypeOK, RaftTypeOK, GhostTypeOK
      <4>2. LogRegistered'
        BY <3>2, <3>3, KeepRegistered DEF Structure, TypeOK, RaftTypeOK
      <4> QED BY <2>1, <3>2, <3>3, <4>1, <4>2
              DEF GoodTable, Structure, TypeOK, NodeIdsUnique
    <3>4. CASE /\ Propose(table[idx], NODE_UP)
               /\ store' = [slot |-> idx, status |-> NODE_UP]
               /\ verdict' = [verdict EXCEPT ![src] = NODE_UP]
               /\ pc' = "recovered"
      <4>1. /\ log' \in Seq(Transitions) /\ Len(log') <= LOG_CAPACITY
            /\ Len(log') \in Len(log) .. Len(log) + 1 /\ Len(log) \in Nat
            /\ \A k \in 1 .. Len(log) : log'[k] = log[k]
            /\ Len(log') = Len(log) + 1 =>
                  log'[Len(log) + 1].node = table[idx].node_id
        <5>1. log \in Seq(Transitions) /\ Len(log) <= LOG_CAPACITY
          BY DEF Structure, TypeOK, RaftTypeOK
        <5>2. NODE_UP \in Statuses
          BY DEF Statuses
        <5>3. Len(log) \in Nat
          BY <5>1
        <5> QED BY <3>1, <3>4, <5>1, <5>2, <5>3, ProposeLog
      <4>2. TableTypeOK' /\ NodeIdsUnique'
        BY <3>2 DEF GoodTable, Slots, TableTypeOK, NodeIdsUnique
      <4>3. TaskTypeOK'
        BY <2>0, <3>1, <3>2, <3>4 DEF Structure, TypeOK, TaskTypeOK, Statuses
      <4>4. RaftTypeOK'
        BY <2>0, <4>1 DEF Structure, TypeOK, RaftTypeOK
      <4>5. GhostTypeOK'
        BY <2>0, <2>1, <3>4 DEF Structure, TypeOK, GhostTypeOK, Statuses
      <4>6. LogRegistered'
        BY <3>1, <3>2, <4>1, KeepRegistered
      <4>7. ClockTypeOK'
        BY <2>0, <2>1 DEF Structure, TypeOK, ClockTypeOK
      <4> QED BY <2>1, <3>4, <4>2, <4>3, <4>4, <4>5, <4>6, <4>7
              DEF Structure, TypeOK
    <3> QED BY <1>4, <2>4, <3>3, <3>4 DEF ProcessHeartbeat, idx
  <2> QED BY <1>4, <2>3, <2>4 DEF ProcessHeartbeat
<1>5. CASE ProcessAnnounce
  <2> DEFINE src == Head(hb_inbox).src
  <2>0. /\ NextFrame("announce")
        /\ table' = process_announce(table, src, BOX_ID, tick)
        /\ raced' = IF Backlog(src) THEN raced \union {src} ELSE raced
        /\ verdict' = [verdict EXCEPT ![src] = NODE_UP]
        /\ pc' = "tick"
        /\ UNCHANGED <<tick, last_tick, cursor, store, raftVars>>
    BY <1>5 DEF ProcessAnnounce
  <2>1. /\ src \in Nodes /\ QueueTypeOK' /\ now' \in Ticks
        /\ silence' \in [Nodes -> 0 .. SILENCE_CAP]
    BY <1>3, <2>0
  <2> HIDE DEF src
  <2>2. GoodTable(table') /\ SameSlots(table, table')
    <3>1. tick \in Ticks
      BY DEF Structure, TypeOK, ClockTypeOK
    <3> QED BY <1>0, <2>0, <2>1, <3>1, AnnounceTable
  <2>3. ClockTypeOK' /\ TableTypeOK' /\ TaskTypeOK' /\ RaftTypeOK'
    BY <2>0, <2>1, <2>2 DEF GoodTable, Slots, Structure, TypeOK, ClockTypeOK,
       TableTypeOK, TaskTypeOK, RaftTypeOK, raftVars
  <2>4. GhostTypeOK'
    BY <2>0, <2>1 DEF Structure, TypeOK, GhostTypeOK, Statuses
  <2>5. LogRegistered'
    BY <2>0, <2>2, KeepRegistered DEF Structure, TypeOK, RaftTypeOK, raftVars
  <2> QED BY <2>0, <2>1, <2>2, <2>3, <2>4, <2>5
          DEF GoodTable, Structure, TypeOK, NodeIdsUnique
<1>6. CASE ReceiveTimeout \/ TickBegin \/ TickEnd
  <2>1. /\ UNCHANGED <<tick, hb_inbox, table, store, raftVars, ghostVars>>
        /\ pc' \in {"recv", "tick", "slot"} /\ (pc' = "slot" => cursor' >= 1)
    BY <1>6 DEF ReceiveTimeout, TickBegin, TickEnd, monitorVars
  <2>2. cursor' \in Nat /\ now' \in Ticks /\ last_tick' \in Ticks
    BY <1>6 DEF ReceiveTimeout, TickBegin, TickEnd, monitorVars, Structure,
       TypeOK, ClockTypeOK, TaskTypeOK
  <2> QED
    BY <2>1, <2>2 DEF Structure, TypeOK, ClockTypeOK, QueueTypeOK, TableTypeOK,
       TaskTypeOK, RaftTypeOK, GhostTypeOK, NodeIdsUnique, LogRegistered,
       raftVars, ghostVars
<1>7. CASE TickSlot
  <2> DEFINE e == [table[cursor] EXCEPT !.miss_count = count_misses(table[cursor], now)]
             new == tick_status(e, now, TRUE)
             f == [e EXCEPT !.suspect_since_ms = now]
             g == IF new = NODE_SUSPECT THEN f ELSE e
  <2>0. /\ pc = "slot" /\ cursor <= Len(table)
        /\ UNCHANGED <<tick, hb_inbox, last_tick, now, notified, rpc, leader,
                       applied, silence, raced>>
    BY <1>7 DEF TickSlot, HealthRuns
  <2>1. cursor \in 1 .. Len(table) /\ table[cursor] \in Slots /\ now \in Ticks
    BY <1>0, <2>0 DEF Structure, TypeOK, TaskTypeOK, ClockTypeOK, GoodTable
  <2>2. e \in Slots /\ e.node_id = table[cursor].node_id
    BY <2>1, CountedSlot
  <2>3. \/ /\ new = e.status
           /\ table' = Written(table, cursor, e)
           /\ cursor' = cursor + 1
           /\ UNCHANGED <<pc, store, log, verdict>>
        \/ /\ new # e.status
           /\ table' = Written(table, cursor, g)
           /\ Propose(e, new)
           /\ store' = [slot |-> cursor, status |-> new]
           /\ verdict' = [verdict EXCEPT ![e.node_id] = new]
           /\ pc' = "decided"
           /\ UNCHANGED cursor
    BY <1>7 DEF TickSlot, Written
  <2> HIDE DEF e
  <2>4. new \in Statuses
    BY <2>1, <2>2, TickStatusType
  <2>5. g \in Slots /\ g.node_id = table[cursor].node_id
    <3>1. f \in Slots /\ f.node_id = e.node_id
      BY <2>1, <2>2 DEF Slots, Slot
    <3> HIDE DEF f
    <3> QED BY <2>2, <3>1
  <2> HIDE DEF g, new
  <2>6. CASE /\ table' = Written(table, cursor, e)
             /\ cursor' = cursor + 1
             /\ UNCHANGED <<pc, store, log, verdict>>
    <3>1. GoodTable(table') /\ SameSlots(table, table') /\ Len(table') = Len(table)
      BY <1>0, <2>1, <2>2, <2>6, WriteSlot
    <3>2. /\ ClockTypeOK' /\ QueueTypeOK' /\ TableTypeOK' /\ TaskTypeOK'
          /\ RaftTypeOK' /\ GhostTypeOK' /\ cursor' >= 1
      BY <2>0, <2>1, <2>6, <3>1 DEF GoodTable, Slots, Structure, TypeOK,
         ClockTypeOK, QueueTypeOK, TableTypeOK, TaskTypeOK, RaftTypeOK, GhostTypeOK
    <3>3. LogRegistered'
      BY <2>6, <3>1, KeepRegistered DEF Structure, TypeOK, RaftTypeOK
    <3> QED BY <3>1, <3>2, <3>3 DEF GoodTable, Structure, TypeOK, NodeIdsUnique
  <2>7. CASE /\ table' = Written(table, cursor, g)
             /\ Propose(e, new)
             /\ store' = [slot |-> cursor, status |-> new]
             /\ verdict' = [verdict EXCEPT ![e.node_id] = new]
             /\ pc' = "decided"
             /\ UNCHANGED cursor
    <3>1. GoodTable(table') /\ SameSlots(table, table') /\ Len(table') = Len(table)
      BY <1>0, <2>1, <2>5, <2>7, WriteSlot
    <3>2. /\ log' \in Seq(Transitions) /\ Len(log') <= LOG_CAPACITY
          /\ Len(log') \in Len(log) .. Len(log) + 1 /\ Len(log) \in Nat
          /\ \A k \in 1 .. Len(log) : log'[k] = log[k]
          /\ Len(log') = Len(log) + 1 =>
                log'[Len(log) + 1].node = table[cursor].node_id
      <4>1. log \in Seq(Transitions) /\ Len(log) <= LOG_CAPACITY
        BY DEF Structure, TypeOK, RaftTypeOK
      <4>2. Len(log) \in Nat
        BY <4>1
      <4> QED BY <2>2, <2>4, <2>7, <4>1, <4>2, ProposeLog
    <3>3. ClockTypeOK' /\ QueueTypeOK' /\ TableTypeOK'
      BY <2>0, <3>1 DEF GoodTable, Slots, Structure, TypeOK, ClockTypeOK,
         QueueTypeOK, TableTypeOK
    <3>4. TaskTypeOK'
      BY <2>0, <2>1, <2>4, <2>7, <3>1 DEF Structure, TypeOK, TaskTypeOK
    <3>5. RaftTypeOK'
      BY <2>0, <3>2 DEF Structure, TypeOK, RaftTypeOK
    <3>6. GhostTypeOK'
      BY <2>0, <2>4, <2>7 DEF Structure, TypeOK, GhostTypeOK
    <3>7. LogRegistered'
      BY <2>1, <3>1, <3>2, KeepRegistered
    <3> QED BY <2>7, <3>1, <3>3, <3>4, <3>5, <3>6, <3>7
            DEF GoodTable, Structure, TypeOK, NodeIdsUnique
  <2> QED BY <2>3, <2>6, <2>7
<1>8. CASE StoreDecided \/ StoreRecovered
  <2> DEFINE i == store.slot
             f == [table[i] EXCEPT !.status = store.status]
             g == [table[i] EXCEPT !.status = store.status, !.suspect_since_ms = 0]
  <2>1. /\ i \in 1 .. Len(table) /\ table[i] \in Slots
        /\ store.status \in Statuses /\ cursor \in Nat
    BY <1>0, <1>8 DEF StoreDecided, StoreRecovered, HealthRuns, Structure, TypeOK,
       TaskTypeOK, GoodTable
  <2>2. /\ UNCHANGED <<tick, hb_inbox, last_tick, now, raftVars, ghostVars>>
        /\ store' = NoStore /\ pc' \in {"slot", "tick"}
        /\ cursor' \in {cursor, cursor + 1}
        /\ pc' = "slot" => cursor' = cursor + 1
        /\ table' = Written(table, i, f) \/ table' = Written(table, i, g)
    BY <1>8 DEF StoreDecided, StoreRecovered, Written
  <2>3. f \in Slots /\ f.node_id = table[i].node_id
    BY <2>1 DEF Slots, Slot
  <2>4. g \in Slots /\ g.node_id = table[i].node_id
    BY <2>1, RecoveredSlot
  <2> HIDE DEF f, g, i
  <2>5. GoodTable(table') /\ SameSlots(table, table') /\ Len(table') = Len(table)
    BY <1>0, <2>1, <2>2, <2>3, <2>4, WriteSlot
  <2>6. TaskTypeOK' /\ (pc' = "slot" => cursor' >= 1)
    BY <2>1, <2>2 DEF TaskTypeOK, NoStore, Statuses
  <2>7. LogRegistered'
    BY <2>2, <2>5, KeepRegistered DEF Structure, TypeOK, RaftTypeOK, raftVars
  <2> QED
    BY <2>2, <2>5, <2>6, <2>7 DEF GoodTable, Slots, Structure, TypeOK,
       ClockTypeOK, QueueTypeOK, TableTypeOK, RaftTypeOK, GhostTypeOK,
       NodeIdsUnique, raftVars, ghostVars
<1>9. CASE RaftTimerCallback \/ OracleTick
  <2>1. UNCHANGED <<tick, hb_inbox, monitorVars, healthVars, log, applied, ghostVars>>
    BY <1>9 DEF RaftTimerCallback, OracleTick
  <2>2. RaftTypeOK'
    BY <1>9 DEF RaftTimerCallback, OracleTick, Structure, TypeOK, RaftTypeOK
  <2> QED
    BY <2>1, <2>2 DEF Structure, TypeOK, ClockTypeOK, QueueTypeOK, TableTypeOK,
       TaskTypeOK, GhostTypeOK, NodeIdsUnique, LogRegistered, monitorVars,
       healthVars, ghostVars
<1>10. CASE ApplyLog
  <2> DEFINE x == log[applied + 1]
  <2>1. /\ table' = health_table_apply(table, x)
        /\ UNCHANGED <<tick, hb_inbox, last_tick, healthVars, notified, leader, log,
                       ghostVars>>
    BY <1>10 DEF ApplyLog
  <2>2. applied + 1 \in 1 .. Len(log) /\ x \in Transitions /\ Len(log) \in Nat
    BY <1>10 DEF ApplyLog, Structure, TypeOK, RaftTypeOK
  <2>3. PICK i \in 1 .. Len(table) : table[i].node_id = x.node
    BY <2>2 DEF Structure, LogRegistered
  <2> HIDE DEF x
  <2>4. GoodTable(table') /\ SameSlots(table, table') /\ Len(table') = Len(table)
    <3> DEFINE e == [table[i] EXCEPT !.status = x.new]
    <3>1. e \in Slots /\ e.node_id = table[i].node_id /\ table' = Written(table, i, e)
      BY <1>0, <2>1, <2>2, <2>3, ApplyTable
    <3> HIDE DEF e
    <3> QED BY <1>0, <3>1, WriteSlot
  <2>5. RaftTypeOK'
    BY <1>10, <2>1, <2>2 DEF ApplyLog, Structure, TypeOK, RaftTypeOK
  <2>6. LogRegistered'
    BY <2>1, <2>4, KeepRegistered DEF Structure, TypeOK, RaftTypeOK
  <2> QED
    BY <2>1, <2>4, <2>5, <2>6 DEF GoodTable, Slots, Structure, TypeOK,
       ClockTypeOK, QueueTypeOK, TableTypeOK, TaskTypeOK, GhostTypeOK,
       NodeIdsUnique, healthVars, ghostVars
<1>11. CASE UNCHANGED vars
  BY <1>11 DEF vars, monitorVars, healthVars, raftVars, ghostVars, Structure,
     TypeOK, ClockTypeOK, QueueTypeOK, TableTypeOK, TaskTypeOK, RaftTypeOK,
     GhostTypeOK, NodeIdsUnique, LogRegistered
<1> QED
  BY <1>1, <1>2, <1>4, <1>5, <1>6, <1>7, <1>8, <1>9, <1>10, <1>11
     DEF Next, HealthTask, RaftTask

\* ... and never leaves it.
LEMMA StructureInvariant == Spec => []Structure
BY StructureInit, StructureNext, PTL DEF Spec

\* The queue, the table and the log stay within their capacity and no index
\* leaves them, for every number of nodes and every interleaving of eth_rx_task,
\* health_task and raft_task.
THEOREM TypeCorrect == Spec => []TypeOK
<1>1. Structure => TypeOK
  BY DEF Structure
<1> QED BY <1>1, StructureInvariant, PTL

\* find_or_alloc() and health_table_apply() never give one node two slots.
THEOREM SlotsUnique == Spec => []NodeIdsUnique
<1>1. Structure => NodeIdsUnique
  BY DEF Structure
<1> QED BY <1>1, StructureInvariant, PTL
=============================================================================
