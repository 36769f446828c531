------------------------- MODULE LocalOracleSafety -------------------------
(***************************************************************************)
(* Proofs that LocalOracle accuses no node early, that applying the log    *)
(* does not overrule health_task, and that the log of a node is a path of  *)
(* the state machine of health_monitor.h.                                  *)
(*                                                                         *)
(* The invariant has two halves.  Agreement relates the verdict of         *)
(* health_task, the log, the backlog and the table; it holds although the  *)
(* two tasks write the table in turn.  Timing relates the clock values     *)
(* stored in a slot to the silence of its node; it holds although          *)
(* health_task works with an old clock value and ticks wrap around.        *)
(***************************************************************************)
EXTENDS LocalOracleProofs

-----------------------------------------------------------------------------
(* Arithmetic of ticks *)

\* A difference of ticks is a number, zero from a tick to itself.
LEMMA ElapsedType ==
    ASSUME NEW a \in Ticks, NEW b \in Ticks
    PROVE  Elapsed(a, b) \in Nat /\ Elapsed(a, a) = 0
BY MonitorConstants DEF Ticks, Elapsed

\* By way of a third tick it is never shorter, wrapping or not.
LEMMA ElapsedTriangle ==
    ASSUME NEW a \in Ticks, NEW b \in Ticks, NEW c \in Ticks
    PROVE  Elapsed(c, a) <= Elapsed(b, a) + Elapsed(c, b)
BY MonitorConstants DEF Ticks, Elapsed

\* One tick of the clock lengthens it by at most one.
LEMMA ElapsedTick ==
    ASSUME NEW t \in Ticks, NEW a \in Ticks
    PROVE  Elapsed(IF t = TICK_MOD - 1 THEN 0 ELSE t + 1, a) <= Elapsed(t, a) + 1
BY MonitorConstants DEF Ticks, Elapsed

\* A truncated quotient never exceeds the quotient.
LEMMA DivBound ==
    ASSUME NEW s \in Nat, NEW d \in Nat \ {0}, NEW m \in Nat \ {0}, NEW k \in Nat,
           (s \div d) % m >= k
    PROVE  s >= k * d
<1> DEFINE q == s \div d
<1>1. q \in Nat /\ q * d <= s
  OBVIOUS
<1> HIDE DEF q
<1>2. q % m <= q
  BY <1>1
<1>3. k <= q
  BY <1>1, <1>2 DEF q
<1>4. k * d <= q * d
  BY <1>1, <1>3
<1>5. k * d \in Nat /\ q * d \in Nat
  BY <1>1
<1> QED BY <1>1, <1>4, <1>5

\* DOWN asks for the silence of SUSPECT and the timeout after it.
LEMMA Thresholds ==
    /\ SuspectAfter \in Nat /\ DownAfter \in Nat
    /\ DownAfter = SuspectAfter + DOWN_TIMEOUT_MS
    /\ SILENCE_CAP \in Nat /\ SILENCE_CAP >= DownAfter
BY MonitorConstants, OracleConstants DEF SuspectAfter, DownAfter

-----------------------------------------------------------------------------
(* What the steps of the tasks do, slot by slot *)

\* The step writes no slot but i, which stays with its node.
WritesSlot(i) ==
    /\ i \in 1 .. Len(table)
    /\ Len(table') = Len(table)
    /\ table'[i].node_id = table[i].node_id
    /\ \A j \in 1 .. Len(table) : j # i => table'[j] = table[j]

\* The log grows by this transition if this node leads and the log has room.
Appends(n, old, new) ==
    log' = IF leader /\ ~Full
           THEN Append(log, [node |-> n, box |-> BOX_ID, old |-> old, new |-> new])
           ELSE log

\* The step proposes a transition of node n from old to new.
Logs(n, old, new) ==
    /\ Appends(n, old, new)
    /\ Len(log') \in Len(log) .. Len(log) + 1
    /\ \A k \in 1 .. Len(log) : log'[k] = log[k]
    /\ Len(log') = Len(log) + 1 =>
          /\ log'[Len(log) + 1].node = n
          /\ log'[Len(log) + 1].old = old
          /\ log'[Len(log) + 1].new = new
    /\ leader /\ ~Full => Len(log') = Len(log) + 1
    /\ ~leader \/ Full => log' = log

\* WriteSlot for the variable table.
LEMMA WrittenSlot ==
    ASSUME Structure, NEW i \in 1 .. Len(table), NEW e \in Slots,
           e.node_id = table[i].node_id, table' = Written(table, i, e)
    PROVE  WritesSlot(i) /\ table'[i] = e
<1>1. GoodTable(table) /\ Len(table) \in Nat
  BY StructureTable
<1>2. /\ Len(Written(table, i, e)) = Len(table)
      /\ \A j \in 1 .. Len(table) :
            Written(table, i, e)[j] = IF j = i THEN e ELSE table[j]
  BY <1>1, WriteSlot
<1> QED BY <1>2 DEF WritesSlot

\* A proposal logs the transition, or nothing if it is refused.
LEMMA ProposeLogs ==
    ASSUME Structure, NEW e \in Slots, NEW new \in Statuses, Propose(e, new)
    PROVE  Logs(e.node_id, e.status, new)
<1>1. log \in Seq(Transitions) /\ Len(log) <= LOG_CAPACITY
  BY DEF Structure, TypeOK, RaftTypeOK
<1>2. e.box_id = BOX_ID
  BY DEF Slots, Slot
<1>3. Appends(e.node_id, e.status, new)
  BY <1>2 DEF Propose, Appends
<1> QED BY <1>1, <1>3, ProposeLog DEF Logs

\* A frame of src is taken from hb_inbox.
Hears(src) ==
    /\ rpc = "idle" /\ pc = "recv"
    /\ tick' = tick /\ now' = tick
    /\ silence' = [silence EXCEPT ![src] = 0]
    /\ UNCHANGED <<rpc, leader, applied>>

\* A heartbeat refreshes the slot of its node, if it has one, and decides UP
\* for it when it was not.
LEMMA HeartbeatStep ==
    ASSUME Structure, ProcessHeartbeat
    PROVE  \E src \in Nodes :
              /\ Hears(src) /\ UNCHANGED raced
              /\ \/ /\ \A i \in 1 .. Len(table) : table[i].node_id # src
                    /\ pc' = "tick" /\ UNCHANGED <<table, store, log, verdict>>
                 \/ \E i \in 1 .. Len(table) :
                       /\ table[i].node_id = src
                       /\ WritesSlot(i)
                       /\ table'[i].status = table[i].status
                       /\ table'[i].last_seen_ms = tick
                       /\ table'[i].miss_count = 0
                       /\ table'[i].suspect_since_ms = table[i].suspect_since_ms
                       /\ \/ /\ table[i].status = NODE_UP
                             /\ pc' = "tick" /\ UNCHANGED <<store, log, verdict>>
                          \/ /\ table[i].status \in {NODE_SUSPECT, NODE_DOWN}
                             /\ Logs(src, table[i].status, NODE_UP)
                             /\ store' = [slot |-> i, status |-> NODE_UP]
                             /\ verdict' = [verdict EXCEPT ![src] = NODE_UP]
                             /\ pc' = "recovered"
<1> DEFINE src == Head(hb_inbox).src
           idx == find_node(table, src)
<1>1. GoodTable(table) /\ Len(table) \in Nat /\ tick \in Ticks
  BY StructureTable DEF Structure, TypeOK, ClockTypeOK
<1>2. src \in Nodes
  <2>1. hb_inbox \in Seq(Frames) /\ hb_inbox # <<>>
    BY DEF ProcessHeartbeat, NextFrame, Structure, TypeOK, QueueTypeOK
  <2>2. Head(hb_inbox) \in Frames
    BY <2>1
  <2> QED BY <2>2 DEF Frames
<1>3. Hears(src) /\ UNCHANGED raced
  BY DEF ProcessHeartbeat, NextFrame, HealthRuns, Hears
<1>4. /\ idx \in 0 .. Len(table)
      /\ idx # 0 => table[idx].node_id = src
      /\ idx = 0 => \A i \in 1 .. Len(table) : table[i].node_id # src
  BY <1>1, FindNode DEF GoodTable
<1>5. CASE idx = 0
  <2>1. pc' = "tick" /\ UNCHANGED <<table, store, log, verdict>>
    BY <1>5 DEF ProcessHeartbeat
  <2> HIDE DEF src, idx
  <2> QED BY <1>2, <1>3, <1>4, <1>5, <2>1
<1>6. CASE idx # 0
  <2> DEFINE e == heartbeat_seen(table[idx], tick)
  <2>1. idx \in 1 .. Len(table) /\ table[idx] \in Slots
    BY <1>1, <1>4, <1>6 DEF GoodTable
  <2>2. /\ table' = Written(table, idx, e)
        /\ \/ /\ ~Recovers(idx) /\ pc' = "tick" /\ UNCHANGED <<store, log, verdict>>
           \/ /\ Recovers(idx) /\ Propose(table[idx], NODE_UP)
              /\ store' = [slot |-> idx, status |-> NODE_UP]
              /\ verdict' = [verdict EXCEPT ![src] = NODE_UP]
              /\ pc' = "recovered"
    BY <1>6 DEF ProcessHeartbeat, Written
  <2> HIDE DEF src, idx
  <2>3. /\ e \in Slots /\ e.node_id = table[idx].node_id
        /\ e.status = table[idx].status /\ e.last_seen_ms = tick
        /\ e.miss_count = 0 /\ e.suspect_since_ms = table[idx].suspect_since_ms
    BY <1>1, <2>1, HeartbeatSeen
  <2> HIDE DEF e
  <2>4. WritesSlot(idx) /\ table'[idx] = e
    BY <2>1, <2>2, <2>3, WrittenSlot
  <2>5. table[idx].status \in Statuses /\ NODE_UP \in Statuses
    BY <2>1 DEF Slots, Slot, Statuses
  <2>6. CASE ~Recovers(idx) /\ pc' = "tick" /\ UNCHANGED <<store, log, verdict>>
    <3>1. table[idx].status = NODE_UP
      BY <2>5, <2>6 DEF Recovers, Statuses
    <3> QED BY <1>2, <1>3, <1>4, <1>6, <2>1, <2>3, <2>4, <2>6, <3>1
  <2>7. CASE /\ Recovers(idx) /\ Propose(table[idx], NODE_UP)
             /\ store' = [slot |-> idx, status |-> NODE_UP]
             /\ verdict' = [verdict EXCEPT ![src] = NODE_UP]
             /\ pc' = "recovered"
    <3>1. Logs(table[idx].node_id, table[idx].status, NODE_UP)
      BY <2>1, <2>5, <2>7, ProposeLogs
    <3>2. Logs(src, table[idx].status, NODE_UP)
      BY <1>4, <1>6, <3>1
    <3>3. table[idx].status \in {NODE_SUSPECT, NODE_DOWN}
      BY <2>7 DEF Recovers
    <3> QED BY <1>2, <1>3, <1>4, <1>6, <2>1, <2>3, <2>4, <2>7, <3>2, <3>3
  <2> QED BY <2>2, <2>6, <2>7
<1> QED BY <1>5, <1>6

\* An announcement makes its node UP in a fresh slot and decides so.
LEMMA AnnounceStep ==
    ASSUME Structure, ProcessAnnounce
    PROVE  \E src \in Nodes :
              /\ Hears(src) /\ UNCHANGED <<log, store>> /\ pc' = "tick"
              /\ raced' = IF Backlog(src) THEN raced \union {src} ELSE raced
              /\ verdict' = [verdict EXCEPT ![src] = NODE_UP]
              /\ SameSlots(table, table')
              /\ \A j \in 1 .. Len(table') :
                    IF table'[j].node_id = src
                    THEN /\ table'[j].status = NODE_UP
                         /\ table'[j].last_seen_ms = tick
                         /\ table'[j].miss_count = 0
                    ELSE j \in 1 .. Len(table) /\ table'[j] = table[j]
<1> DEFINE src == Head(hb_inbox).src
           e == announced(src, BOX_ID, tick)
<1>1. GoodTable(table) /\ tick \in Ticks
  BY StructureTable DEF Structure, TypeOK, ClockTypeOK
<1>2. src \in Nodes
  <2>1. hb_inbox \in Seq(Frames) /\ hb_inbox # <<>>
    BY DEF ProcessAnnounce, NextFrame, Structure, TypeOK, QueueTypeOK
  <2>2. Head(hb_inbox) \in Frames
    BY <2>1
  <2> QED BY <2>2 DEF Frames
<1>3. /\ Hears(src) /\ UNCHANGED <<log, store>> /\ pc' = "tick"
      /\ raced' = IF Backlog(src) THEN raced \union {src} ELSE raced
      /\ verdict' = [verdict EXCEPT ![src] = NODE_UP]
      /\ table' = process_announce(table, src, BOX_ID, tick)
  BY DEF ProcessAnnounce, NextFrame, HealthRuns, Hears, raftVars
<1>4. e.status = NODE_UP /\ e.last_seen_ms = tick /\ e.miss_count = 0
  BY DEF announced
<1> HIDE DEF src
<1>5. /\ SameSlots(table, table')
      /\ \A j \in 1 .. Len(table') :
            IF table'[j].node_id = src THEN table'[j] = e
            ELSE j \in 1 .. Len(table) /\ table'[j] = table[j]
  BY <1>1, <1>2, <1>3, AnnounceTable
<1> HIDE DEF e
<1>6. \A j \in 1 .. Len(table') :
         IF table'[j].node_id = src
         THEN /\ table'[j].status = NODE_UP
              /\ table'[j].last_seen_ms = tick
              /\ table'[j].miss_count = 0
         ELSE j \in 1 .. Len(table) /\ table'[j] = table[j]
  BY <1>4, <1>5
<1> QED BY <1>2, <1>3, <1>5, <1>6

\* A tick counts the misses of one slot and may decide its next status.
LEMMA TickSlotStep ==
    ASSUME Structure, TickSlot
    PROVE  \E i \in 1 .. Len(table) :
              /\ i = cursor /\ rpc = "idle" /\ pc = "slot"
              /\ UNCHANGED <<tick, now, last_tick, rpc, leader, applied, silence, raced>>
              /\ WritesSlot(i)
              /\ table'[i].status = table[i].status
              /\ table'[i].last_seen_ms = table[i].last_seen_ms
              /\ table'[i].miss_count = count_misses(table[i], now)
              /\ \/ /\ table'[i].suspect_since_ms = table[i].suspect_since_ms
                    /\ tick_status(table'[i], now, TRUE) = table[i].status
                    /\ cursor' = cursor + 1
                    /\ UNCHANGED <<pc, store, log, verdict>>
                 \/ \E new \in Statuses :
                       /\ Logs(table[i].node_id, table[i].status, new)
                       /\ store' = [slot |-> i, status |-> new]
                       /\ verdict' = [verdict EXCEPT ![table[i].node_id] = new]
                       /\ pc' = "decided" /\ cursor' = cursor
                       /\ \/ /\ table[i].status = NODE_UP /\ new = NODE_SUSPECT
                             /\ table'[i].miss_count >= SUSPECT_THRESHOLD
                             /\ table'[i].suspect_since_ms = now
                          \/ /\ table[i].status = NODE_SUSPECT /\ new = NODE_DOWN
                             /\ Elapsed(now, table[i].suspect_since_ms) >= DOWN_TIMEOUT_MS
                             /\ table'[i].suspect_since_ms = table[i].suspect_since_ms
<1> DEFINE e == [table[cursor] EXCEPT !.miss_count = count_misses(table[cursor], now)]
           new == tick_status(e, now, TRUE)
           f == [e EXCEPT !.suspect_since_ms = now]
           g == IF new = NODE_SUSPECT THEN f ELSE e
<1>1. /\ rpc = "idle" /\ pc = "slot" /\ cursor <= Len(table)
      /\ UNCHANGED <<tick, now, last_tick, rpc, leader, applied, silence, raced>>
  BY DEF TickSlot, HealthRuns
<1>2. cursor \in 1 .. Len(table) /\ table[cursor] \in Slots /\ now \in Ticks
  BY <1>1, StructureTable DEF Structure, TypeOK, TaskTypeOK, ClockTypeOK, GoodTable
<1>3. /\ e \in Slots /\ e.node_id = table[cursor].node_id
      /\ e.status = table[cursor].status
      /\ e.last_seen_ms = table[cursor].last_seen_ms
      /\ e.miss_count = count_misses(table[cursor], now)
      /\ e.suspect_since_ms = table[cursor].suspect_since_ms
  BY <1>2, CountedSlot
<1>4. \/ /\ table' = Written(table, cursor, e)
         /\ new = e.status /\ cursor' = cursor + 1
         /\ UNCHANGED <<pc, store, log, verdict>>
      \/ /\ new # e.status
         /\ table' = Written(table, cursor, g)
         /\ Propose(e, new)
         /\ store' = [slot |-> cursor, status |-> new]
         /\ verdict' = [verdict EXCEPT ![e.node_id] = new]
         /\ pc' = "decided" /\ cursor' = cursor
  BY DEF TickSlot, Written
<1> HIDE DEF e
<1>5. CASE /\ table' = Written(table, cursor, e)
           /\ new = e.status /\ cursor' = cursor + 1
           /\ UNCHANGED <<pc, store, log, verdict>>
  <2>1. WritesSlot(cursor) /\ table'[cursor] = e
    BY <1>2, <1>3, <1>5, WrittenSlot
  <2> QED BY <1>1, <1>2, <1>3, <1>5, <2>1
<1>6. CASE /\ new # e.status
           /\ table' = Written(table, cursor, g)
           /\ Propose(e, new)
           /\ store' = [slot |-> cursor, status |-> new]
           /\ verdict' = [verdict EXCEPT ![e.node_id] = new]
           /\ pc' = "decided" /\ cursor' = cursor
  <2>1. /\ new \in Statuses
        /\ \/ /\ e.status = NODE_UP /\ new = NODE_SUSPECT
              /\ e.miss_count >= SUSPECT_THRESHOLD
           \/ /\ e.status = NODE_SUSPECT /\ new = NODE_DOWN
              /\ Elapsed(now, e.suspect_since_ms) >= DOWN_TIMEOUT_MS
    BY <1>2, <1>3, <1>6, TickStatusType
  <2>2. /\ f \in Slots /\ f.node_id = e.node_id /\ f.status = e.status
        /\ f.last_seen_ms = e.last_seen_ms /\ f.miss_count = e.miss_count
        /\ f.suspect_since_ms = now
    BY <1>2, <1>3 DEF Slots, Slot
  <2> HIDE DEF f, new
  <2>3. /\ g \in Slots /\ g.node_id = e.node_id /\ g.status = e.status
        /\ g.last_seen_ms = e.last_seen_ms /\ g.miss_count = e.miss_count
        /\ new = NODE_SUSPECT => g.suspect_since_ms = now
        /\ new # NODE_SUSPECT => g.suspect_since_ms = e.suspect_since_ms
    BY <1>3, <2>2
  <2> HIDE DEF g
  <2>4. WritesSlot(cursor) /\ table'[cursor] = g
    BY <1>2, <1>3, <1>6, <2>3, WrittenSlot
  <2>5. Logs(table[cursor].node_id, table[cursor].status, new)
    <3>1. Logs(e.node_id, e.status, new)
      BY <1>3, <1>6, <2>1, ProposeLogs
    <3> QED BY <1>3, <3>1
  <2>6. verdict' = [verdict EXCEPT ![table[cursor].node_id] = new]
    BY <1>3, <1>6
  <2>7. \/ /\ table[cursor].status = NODE_UP /\ new = NODE_SUSPECT
           /\ table'[cursor].miss_count >= SUSPECT_THRESHOLD
           /\ table'[cursor].suspect_since_ms = now
        \/ /\ table[cursor].status = NODE_SUSPECT /\ new = NODE_DOWN
           /\ Elapsed(now, table[cursor].suspect_since_ms) >= DOWN_TIMEOUT_MS
           /\ table'[cursor].suspect_since_ms = table[cursor].suspect_since_ms
    BY <1>3, <2>1, <2>3, <2>4 DEF NODE_UP, NODE_SUSPECT, NODE_DOWN
  <2>8. /\ table'[cursor].status = table[cursor].status
        /\ table'[cursor].last_seen_ms = table[cursor].last_seen_ms
        /\ table'[cursor].miss_count = count_misses(table[cursor], now)
    BY <1>3, <2>3, <2>4
  <2> QED BY <1>1, <1>2, <1>6, <2>1, <2>4, <2>5, <2>6, <2>7, <2>8
<1> QED BY <1>4, <1>5, <1>6

\* Where propose_transition() has not stored the status yet.
Owing == {"recovered", "decided"}

\* The store after a decision writes the decided status to its slot.
LEMMA StoreStep ==
    ASSUME Structure, StoreDecided \/ StoreRecovered
    PROVE  /\ rpc = "idle" /\ pc \in Owing /\ pc' \notin Owing
           /\ UNCHANGED <<tick, now, rpc, leader, log, applied, silence, verdict, raced>>
           /\ WritesSlot(store.slot)
           /\ table'[store.slot].status = store.status
           /\ table'[store.slot].last_seen_ms = table[store.slot].last_seen_ms
           /\ table'[store.slot].miss_count = table[store.slot].miss_count
           /\ pc = "decided" => table'[store.slot].suspect_since_ms
                                   = table[store.slot].suspect_since_ms
<1> DEFINE i == store.slot
           f == [table[i] EXCEPT !.status = store.status]
           g == [table[i] EXCEPT !.status = store.status, !.suspect_since_ms = 0]
<1>1. /\ i \in 1 .. Len(table) /\ table[i] \in Slots /\ store.status \in Statuses
  BY StructureTable DEF StoreDecided, StoreRecovered, HealthRuns, Structure, TypeOK,
     TaskTypeOK, GoodTable
<1>2. /\ rpc = "idle" /\ pc \in Owing /\ pc' \notin Owing
      /\ UNCHANGED <<tick, now, rpc, leader, log, applied, silence, verdict, raced>>
      /\ \/ table' = Written(table, i, f)
         \/ table' = Written(table, i, g) /\ pc # "decided"
  BY DEF StoreDecided, StoreRecovered, HealthRuns, Written, Owing, raftVars, ghostVars
<1>3. /\ f \in Slots /\ f.node_id = table[i].node_id /\ f.status = store.status
      /\ f.last_seen_ms = table[i].last_seen_ms /\ f.miss_count = table[i].miss_count
      /\ f.suspect_since_ms = table[i].suspect_since_ms
  BY <1>1 DEF Slots, Slot
<1>4. /\ g \in Slots /\ g.node_id = table[i].node_id /\ g.status = store.status
      /\ g.last_seen_ms = table[i].last_seen_ms /\ g.miss_count = table[i].miss_count
  BY <1>1, RecoveredSlot
<1> HIDE DEF f, g
<1>5. CASE table' = Written(table, i, f)
  <2>1. WritesSlot(i) /\ table'[i] = f
    BY <1>1, <1>3, <1>5, WrittenSlot
  <2> QED BY <1>2, <1>3, <2>1
<1>6. CASE table' = Written(table, i, g) /\ pc # "decided"
  <2>1. WritesSlot(i) /\ table'[i] = g
    BY <1>1, <1>4, <1>6, WrittenSlot
  <2> QED BY <1>2, <1>4, <1>6, <2>1
<1> QED BY <1>2, <1>5, <1>6

\* Applying writes the status of the next entry to the slot of its node.
LEMMA ApplyStep ==
    ASSUME Structure, ApplyLog
    PROVE  \E i \in 1 .. Len(table) :
              /\ applied + 1 \in 1 .. Len(log)
              /\ table[i].node_id = log[applied + 1].node
              /\ WritesSlot(i)
              /\ table'[i].status = log[applied + 1].new
              /\ table'[i].last_seen_ms = table[i].last_seen_ms
              /\ table'[i].miss_count = table[i].miss_count
              /\ table'[i].suspect_since_ms = table[i].suspect_since_ms
              /\ rpc = "apply" /\ applied' = applied + 1
              /\ rpc' = IF applied + 1 < Len(log) THEN "apply" ELSE "idle"
              /\ UNCHANGED <<tick, now, pc, store, leader, log, silence, verdict, raced>>
<1> DEFINE x == log[applied + 1]
<1>1. /\ table' = health_table_apply(table, x)
      /\ rpc = "apply" /\ applied' = applied + 1
      /\ rpc' = IF applied + 1 < Len(log) THEN "apply" ELSE "idle"
      /\ UNCHANGED <<tick, now, pc, store, leader, log, silence, verdict, raced>>
  BY DEF ApplyLog, healthVars, ghostVars
<1>2. applied + 1 \in 1 .. Len(log) /\ x \in Transitions
  BY DEF ApplyLog, Structure, TypeOK, RaftTypeOK
<1>3. PICK i \in 1 .. Len(table) : table[i].node_id = x.node
  BY <1>2 DEF Structure, LogRegistered
<1>4. GoodTable(table)
  BY StructureTable
<1> DEFINE e == [table[i] EXCEPT !.status = x.new]
<1>5. /\ e \in Slots /\ e.node_id = table[i].node_id /\ table' = Written(table, i, e)
  <2> HIDE DEF x
  <2> QED BY <1>1, <1>2, <1>3, <1>4, ApplyTable
<1>6. /\ e.status = x.new /\ e.last_seen_ms = table[i].last_seen_ms
      /\ e.miss_count = table[i].miss_count
      /\ e.suspect_since_ms = table[i].suspect_since_ms
  <2>1. table[i] \in Slots
    BY <1>4 DEF GoodTable
  <2> QED BY <2>1 DEF Slots, Slot
<1> HIDE DEF e
<1>7. WritesSlot(i) /\ table'[i] = e
  BY <1>5, WrittenSlot
<1> QED BY <1>1, <1>2, <1>3, <1>6, <1>7

-----------------------------------------------------------------------------
(* Agreement of the verdicts, the log and the table *)

\* k is the last entry of the log for node n.
IsLast(k, n) ==
    /\ k \in 1 .. Len(log)
    /\ log[k].node = n
    /\ \A m \in k + 1 .. Len(log) : log[m].node # n

\* Entries of the node of slot i are still to be applied before health_task
\* runs again.
Applying(i) == rpc = "apply" /\ Backlog(table[i].node_id)

\* Nothing is logged before this node leads.
NoLogBeforeLeader == ~leader => log = <<>>

\* The status health_task owes the table is the one it decided, and the last
\* one it logged.
StoreIsVerdict ==
    pc \in Owing =>
        /\ store.status = verdict[table[store.slot].node_id]
        /\ pc = "recovered" => store.status = NODE_UP
        /\ ~Full => \A k \in 1 .. Len(log) :
                       IsLast(k, table[store.slot].node_id) => log[k].new = store.status

\* What waits to be applied ends with what health_task decided last.
BacklogEndsInVerdict ==
    ~Full => \A n \in Nodes \ raced : \A k \in applied + 1 .. Len(log) :
                IsLast(k, n) => log[k].new = verdict[n]

TableIsVerdict ==
    ~Full => \A i \in 1 .. Len(table) :
                table[i].node_id \notin raced =>
                    \/ Storing(i)
                    \/ Applying(i)
                    \/ table[i].status = verdict[table[i].node_id]

TableIsLogged ==
    ~Full => \A i \in 1 .. Len(table), k \in 1 .. Len(log) :
                IsLast(k, table[i].node_id) =>
                    \/ Storing(i)
                    \/ Applying(i)
                    \/ table[i].status \in {log[k].new, NODE_UP}

Agreement ==
    /\ NoLogBeforeLeader /\ StoreIsVerdict /\ BacklogEndsInVerdict
    /\ TableIsVerdict /\ TableIsLogged

\* The steps, by what they do to the state Agreement speaks of.
Quiet ==
    /\ UNCHANGED <<rpc, leader, log, applied, store, verdict, raced>>
    /\ pc' = pc \/ (pc \notin Owing /\ pc' \notin Owing)
    /\ Len(table') = Len(table)
    /\ \A j \in 1 .. Len(table) :
          table'[j].node_id = table[j].node_id /\ table'[j].status = table[j].status

Decides(i, new) ==
    /\ rpc = "idle" /\ pc \notin Owing /\ pc' \in Owing
    /\ pc' = "recovered" => new = NODE_UP
    /\ <<table[i].status, new>> \in {<<NODE_UP, NODE_SUSPECT>>,
          <<NODE_SUSPECT, NODE_DOWN>>, <<NODE_SUSPECT, NODE_UP>>, <<NODE_DOWN, NODE_UP>>}
    /\ WritesSlot(i) /\ table'[i].status = table[i].status
    /\ Logs(table[i].node_id, table[i].status, new)
    /\ store' = [slot |-> i, status |-> new]
    /\ verdict' = [verdict EXCEPT ![table[i].node_id] = new]
    /\ UNCHANGED <<rpc, leader, applied, raced>>

Stores ==
    /\ rpc = "idle" /\ pc \in Owing /\ pc' \notin Owing
    /\ WritesSlot(store.slot) /\ table'[store.slot].status = store.status
    /\ UNCHANGED <<rpc, leader, log, applied, verdict, raced>>

Announces(src) ==
    /\ rpc = "idle" /\ pc \notin Owing /\ pc' \notin Owing
    /\ raced' = IF Backlog(src) THEN raced \union {src} ELSE raced
    /\ verdict' = [verdict EXCEPT ![src] = NODE_UP]
    /\ SameSlots(table, table')
    /\ \A j \in 1 .. Len(table') :
          IF table'[j].node_id = src THEN table'[j].status = NODE_UP
          ELSE j \in 1 .. Len(table) /\ table'[j] = table[j]
    /\ UNCHANGED <<rpc, leader, log, applied, store>>

Leads ==
    /\ rpc = "idle" /\ leader'
    /\ UNCHANGED <<table, log, applied, pc, store, verdict, raced>>

Applies(i) ==
    /\ applied + 1 \in 1 .. Len(log)
    /\ table[i].node_id = log[applied + 1].node
    /\ WritesSlot(i) /\ table'[i].status = log[applied + 1].new
    /\ rpc = "apply" /\ applied' = applied + 1
    /\ rpc' = IF applied + 1 < Len(log) THEN "apply" ELSE "idle"
    /\ UNCHANGED <<pc, store, leader, log, verdict, raced>>

\* Every step is of one of the kinds above.
LEMMA StepKinds ==
    ASSUME Structure, [Next]_vars
    PROVE  \/ Quiet \/ Stores \/ Leads
           \/ \E i \in 1 .. Len(table), new \in Statuses : Decides(i, new)
           \/ \E src \in Nodes : Announces(src)
           \/ \E i \in 1 .. Len(table) : Applies(i)
<1>1. CASE \/ Tick \/ ReceiveTimeout \/ TickBegin \/ TickEnd \/ RaftTimerCallback
           \/ UNCHANGED vars \/ \E m \in Frames : EthRx(m)
  <2>1. /\ UNCHANGED <<table, rpc, leader, log, applied, store, verdict, raced>>
        /\ pc' = pc \/ (pc \notin Owing /\ pc' \notin Owing)
    BY <1>1 DEF Tick, EthRx, ReceiveTimeout, TickBegin, TickEnd, RaftTimerCallback,
       HealthRuns, Owing, vars, monitorVars, healthVars, raftVars, ghostVars
  <2> QED BY <2>1 DEF Quiet
<1>2. CASE ProcessHeartbeat
  <2>1. PICK src \in Nodes :
              /\ Hears(src) /\ UNCHANGED raced
              /\ \/ pc' = "tick" /\ UNCHANGED <<table, store, log, verdict>>
                 \/ \E i \in 1 .. Len(table) :
                       /\ table[i].node_id = src
                       /\ WritesSlot(i)
                       /\ table'[i].status = table[i].status
                       /\ \/ pc' = "tick" /\ UNCHANGED <<store, log, verdict>>
                          \/ /\ table[i].status \in {NODE_SUSPECT, NODE_DOWN}
                             /\ Logs(src, table[i].status, NODE_UP)
                             /\ store' = [slot |-> i, status |-> NODE_UP]
                             /\ verdict' = [verdict EXCEPT ![src] = NODE_UP]
                             /\ pc' = "recovered"
    BY <1>2, HeartbeatStep
  <2>2. /\ rpc = "idle" /\ pc \notin Owing /\ UNCHANGED <<rpc, leader, applied, raced>>
        /\ pc' = "tick" => pc' \notin Owing
    BY <2>1 DEF Hears, Owing
  <2>3. CASE pc' = "tick" /\ UNCHANGED <<table, store, log, verdict>>
    BY <2>2, <2>3 DEF Quiet
  <2>4. ASSUME NEW i \in 1 .. Len(table), WritesSlot(i), pc' = "tick",
               table'[i].status = table[i].status, UNCHANGED <<store, log, verdict>>
        PROVE  Quiet
    BY <2>2, <2>4 DEF Quiet, WritesSlot
  <2>5. ASSUME NEW i \in 1 .. Len(table), table[i].node_id = src,
               WritesSlot(i), table'[i].status = table[i].status,
               table[i].status \in {NODE_SUSPECT, NODE_DOWN},
               Logs(src, table[i].status, NODE_UP),
               store' = [slot |-> i, status |-> NODE_UP],
               verdict' = [verdict EXCEPT ![src] = NODE_UP],
               pc' = "recovered"
        PROVE  Decides(i, NODE_UP)
    <3>1. pc' \in Owing
      BY <2>5 DEF Owing
    <3> QED BY <2>2, <2>5, <3>1 DEF Decides
  <2>6. NODE_UP \in Statuses
    BY DEF Statuses
  <2> QED BY <2>1, <2>3, <2>4, <2>5, <2>6
<1>3. CASE ProcessAnnounce
  <2>1. PICK src \in Nodes :
              /\ Hears(src) /\ UNCHANGED <<log, store>> /\ pc' = "tick"
              /\ raced' = IF Backlog(src) THEN raced \union {src} ELSE raced
              /\ verdict' = [verdict EXCEPT ![src] = NODE_UP]
              /\ SameSlots(table, table')
              /\ \A j \in 1 .. Len(table') :
                    IF table'[j].node_id = src THEN table'[j].status = NODE_UP
                    ELSE j \in 1 .. Len(table) /\ table'[j] = table[j]
    BY <1>3, AnnounceStep
  <2>2. /\ rpc = "idle" /\ pc \notin Owing /\ pc' \notin Owing
        /\ UNCHANGED <<rpc, leader, applied>>
    BY <2>1 DEF Hears, Owing
  <2>3. Announces(src)
    BY <2>1, <2>2 DEF Announces
  <2> QED BY <2>3
<1>4. CASE TickSlot
  <2>1. PICK i \in 1 .. Len(table) :
              /\ rpc = "idle" /\ pc = "slot"
              /\ UNCHANGED <<rpc, leader, applied, raced>>
              /\ WritesSlot(i)
              /\ table'[i].status = table[i].status
              /\ \/ UNCHANGED <<pc, store, log, verdict>>
                 \/ \E new \in Statuses :
                       /\ Logs(table[i].node_id, table[i].status, new)
                       /\ store' = [slot |-> i, status |-> new]
                       /\ verdict' = [verdict EXCEPT ![table[i].node_id] = new]
                       /\ pc' = "decided"
                       /\ \/ table[i].status = NODE_UP /\ new = NODE_SUSPECT
                          \/ table[i].status = NODE_SUSPECT /\ new = NODE_DOWN
    BY <1>4, TickSlotStep
  <2>2. CASE UNCHANGED <<pc, store, log, verdict>>
    BY <2>1, <2>2 DEF Quiet, WritesSlot
  <2>3. ASSUME NEW new \in Statuses,
               Logs(table[i].node_id, table[i].status, new),
               store' = [slot |-> i, status |-> new],
               verdict' = [verdict EXCEPT ![table[i].node_id] = new],
               pc' = "decided",
               \/ table[i].status = NODE_UP /\ new = NODE_SUSPECT
               \/ table[i].status = NODE_SUSPECT /\ new = NODE_DOWN
        PROVE  Decides(i, new)
    <3>1. pc \notin Owing /\ pc' \in Owing
      BY <2>1, <2>3 DEF Owing
    <3> QED BY <2>1, <2>3, <3>1 DEF Decides
  <2> QED BY <2>1, <2>2, <2>3
<1>5. CASE StoreDecided \/ StoreRecovered
  BY <1>5, StoreStep DEF Stores
<1>6. CASE OracleTick
  BY <1>6 DEF OracleTick, Leads, monitorVars, healthVars, ghostVars
<1>7. CASE ApplyLog
  BY <1>7, ApplyStep DEF Applies
<1> QED BY <1>1, <1>2, <1>3, <1>4, <1>5, <1>6, <1>7 DEF Next, HealthTask, RaftTask

\* Table, log and verdicts agree at the start.
LEMMA AgreementInit == Init => Agreement
BY DEF Init, Agreement, NoLogBeforeLeader, StoreIsVerdict, BacklogEndsInVerdict,
   TableIsVerdict, TableIsLogged, Owing

\* The facts on types and slots that the proofs about the log use.
LEMMA LogTypes ==
    ASSUME Structure
    PROVE  /\ Len(log) \in Nat /\ Len(table) \in Nat /\ applied \in 0 .. Len(log)
           /\ \A k \in 1 .. Len(log) : log[k].node \in Nodes
           /\ \A i \in 1 .. Len(table) : table[i].node_id \in Nodes
           /\ \A i, j \in 1 .. Len(table) :
                 table[i].node_id = table[j].node_id => i = j
           /\ verdict \in [Nodes -> Statuses]
           /\ pc \in Owing => store.slot \in 1 .. Len(table)
<1>1. log \in Seq(Transitions) /\ applied \in 0 .. Len(log)
  BY DEF Structure, TypeOK, RaftTypeOK
<1>2. \A k \in 1 .. Len(log) : log[k] \in Transitions
  BY <1>1
<1>3. GoodTable(table) /\ Len(table) \in Nat
  BY StructureTable
<1>4. \A i \in 1 .. Len(table) : table[i] \in Slots
  BY <1>3 DEF GoodTable
<1>5. /\ \A k \in 1 .. Len(log) : log[k].node \in Nodes
      /\ \A i \in 1 .. Len(table) : table[i].node_id \in Nodes
  BY <1>2, <1>4 DEF Transitions, Slots, Slot
<1> QED BY <1>1, <1>3, <1>5 DEF Structure, TypeOK, NodeIdsUnique, TaskTypeOK, Owing, GhostTypeOK

\* A node has one last entry in the log.
LEMMA LastUnique ==
    ASSUME Structure, NEW n, NEW j, NEW k, IsLast(j, n), IsLast(k, n)
    PROVE  j = k
<1>1. Len(log) \in Nat /\ j \in 1 .. Len(log) /\ k \in 1 .. Len(log)
  BY LogTypes DEF IsLast
<1>2. j \notin k + 1 .. Len(log) /\ k \notin j + 1 .. Len(log)
  BY DEF IsLast
<1> QED BY <1>1, <1>2

\* Whose last entries change when a transition of node n is logged.
LEMMA LastLogged ==
    ASSUME Structure, NEW n, NEW old, NEW new, Logs(n, old, new),
           NEW m, NEW k \in 1 .. Len(log'), IsLast(k, m)'
    PROVE  \/ k \in 1 .. Len(log) /\ IsLast(k, m) /\ log'[k] = log[k]
              /\ (m = n => log' = log \/ Len(log') = Len(log))
           \/ k = Len(log) + 1 /\ m = n /\ log'[k].old = old /\ log'[k].new = new
<1>1. Len(log) \in Nat /\ Len(log') \in Len(log) .. Len(log) + 1
  BY LogTypes DEF Logs
<1>2. CASE k = Len(log) + 1
  BY <1>1, <1>2 DEF Logs, IsLast
<1>3. CASE k \in 1 .. Len(log)
  <2>1. log'[k] = log[k] /\ log[k].node = m
    BY <1>3 DEF Logs, IsLast
  <2>2. ASSUME NEW j \in k + 1 .. Len(log) PROVE log[j].node # m
    <3>1. j \in k + 1 .. Len(log') /\ log'[j] = log[j]
      BY <1>1, <1>3 DEF Logs
    <3> QED BY <3>1 DEF IsLast
  <2>3. Len(log') = Len(log) + 1 => m # n
    <3>1. Len(log') = Len(log) + 1 => Len(log) + 1 \in k + 1 .. Len(log')
      BY <1>1, <1>3
    <3> QED BY <3>1 DEF IsLast, Logs
  <2> QED BY <1>1, <1>3, <2>1, <2>2, <2>3 DEF IsLast
<1> QED BY <1>1, <1>2, <1>3

\* Quiet steps keep the agreement.
LEMMA QuietAgreement ==
    ASSUME Structure, Agreement, Quiet PROVE Agreement'
<1> USE LogTypes DEF Agreement
<1>1. /\ \A k, n : IsLast(k, n)' = IsLast(k, n)
      /\ Full' = Full
      /\ \A n : Backlog(n)' = Backlog(n)
  BY DEF Quiet, IsLast, Full, Backlog
<1>2. \A i : Storing(i)' = Storing(i)
  BY DEF Quiet, Storing, Owing
<1>3. \A i \in 1 .. Len(table) : Applying(i)' = Applying(i)
  BY <1>1 DEF Quiet, Applying
<1>4. NoLogBeforeLeader'
  BY DEF Quiet, NoLogBeforeLeader
<1>5. StoreIsVerdict'
  BY <1>1 DEF Quiet, StoreIsVerdict
<1>6. BacklogEndsInVerdict'
  BY <1>1 DEF Quiet, BacklogEndsInVerdict
<1>7. TableIsVerdict'
  BY <1>1, <1>2, <1>3 DEF Quiet, TableIsVerdict
<1>8. TableIsLogged'
  BY <1>1, <1>2, <1>3 DEF Quiet, TableIsLogged
<1> QED BY <1>4, <1>5, <1>6, <1>7, <1>8

\* The store a task owes brings the slot to its verdict.
LEMMA StoresAgreement ==
    ASSUME Structure, Agreement, Stores PROVE Agreement'
<1> USE LogTypes DEF Agreement
<1>1. /\ \A k, n : IsLast(k, n)' = IsLast(k, n)
      /\ Full' = Full
  BY DEF Stores, IsLast, Full
<1>2. \A i \in 1 .. Len(table) :
         /\ table'[i].node_id = table[i].node_id
         /\ i # store.slot => table'[i] = table[i] /\ ~Storing(i)
         /\ ~Applying(i)
  BY DEF Stores, WritesSlot, Storing, Applying
<1>3. NoLogBeforeLeader' /\ StoreIsVerdict'
  BY DEF Stores, NoLogBeforeLeader, StoreIsVerdict
<1>4. BacklogEndsInVerdict'
  BY <1>1 DEF Stores, BacklogEndsInVerdict
<1>5. TableIsVerdict'
  BY <1>1, <1>2 DEF Stores, WritesSlot, StoreIsVerdict, TableIsVerdict
<1>6. TableIsLogged'
  BY <1>1, <1>2 DEF Stores, WritesSlot, StoreIsVerdict, TableIsLogged
<1> QED BY <1>3, <1>4, <1>5, <1>6

\* Becoming leader logs nothing.
LEMMA LeadsAgreement ==
    ASSUME Structure, Agreement, Leads PROVE Agreement'
<1> USE LogTypes DEF Agreement
<1>1. /\ \A k, n : IsLast(k, n)' = IsLast(k, n)
      /\ Full' = Full
      /\ \A i : Storing(i)' = Storing(i) /\ ~Applying(i)
  BY DEF Leads, IsLast, Full, Storing, Applying
<1>2. NoLogBeforeLeader' /\ StoreIsVerdict' /\ BacklogEndsInVerdict'
  BY <1>1 DEF Leads, NoLogBeforeLeader, StoreIsVerdict, BacklogEndsInVerdict
<1>3. TableIsVerdict'
  BY <1>1 DEF Leads, TableIsVerdict
<1>4. TableIsLogged'
  BY <1>1 DEF Leads, TableIsLogged
<1> QED BY <1>2, <1>3, <1>4

\* An announcement agrees with itself, or its node is in raced from now on.
LEMMA AnnouncesAgreement ==
    ASSUME Structure, Agreement, NEW src \in Nodes, Announces(src)
    PROVE  Agreement'
<1> USE LogTypes DEF Agreement
<1>1. /\ \A k, n : IsLast(k, n)' = IsLast(k, n)
      /\ Full' = Full
      /\ \A i : ~Storing(i) /\ ~Applying(i)
  BY DEF Announces, IsLast, Full, Storing, Applying, Owing
<1>2. \A n \in Nodes : verdict'[n] = IF n = src THEN NODE_UP ELSE verdict[n]
  BY DEF Announces
<1>3. \A n : n \notin raced' => n \notin raced /\ (n = src => ~Backlog(src))
  BY DEF Announces
<1>4. NoLogBeforeLeader' /\ StoreIsVerdict'
  BY DEF Announces, NoLogBeforeLeader, StoreIsVerdict
<1>5. BacklogEndsInVerdict'
  <2>1. SUFFICES ASSUME ~Full, NEW n \in Nodes, n \notin raced',
                        NEW k \in applied + 1 .. Len(log), IsLast(k, n)
                 PROVE  log[k].new = verdict'[n]
    BY <1>1 DEF Announces, BacklogEndsInVerdict
  <2>2. Backlog(n)
    BY <2>1 DEF IsLast, Backlog
  <2>3. n # src
    BY <1>3, <2>1, <2>2
  <2> QED BY <1>2, <1>3, <2>1, <2>3 DEF BacklogEndsInVerdict
<1>6. TableIsVerdict'
  <2>1. SUFFICES ASSUME ~Full, NEW i \in 1 .. Len(table'),
                        table'[i].node_id \notin raced'
                 PROVE  table'[i].status = verdict'[table'[i].node_id]
    BY <1>1 DEF TableIsVerdict
  <2>2. CASE table'[i].node_id = src
    BY <1>2, <2>2 DEF Announces
  <2>3. CASE table'[i].node_id # src
    BY <1>1, <1>2, <1>3, <2>1, <2>3 DEF Announces, TableIsVerdict
  <2> QED BY <2>2, <2>3
<1>7. TableIsLogged'
  BY <1>1 DEF Announces, TableIsLogged
<1> QED BY <1>4, <1>5, <1>6, <1>7

\* Applying ends, for every node, with the verdict of health_task.
LEMMA AppliesAgreement ==
    ASSUME Structure, Agreement, NEW i \in 1 .. Len(table), Applies(i)
    PROVE  Agreement'
<1> USE LogTypes DEF Agreement
<1> DEFINE x == log[applied + 1]
<1>1. /\ \A k, n : IsLast(k, n)' = IsLast(k, n)
      /\ Full' = Full
      /\ \A j : Storing(j)' = Storing(j)
  BY DEF Applies, IsLast, Full, Storing
<1>2. /\ Len(table') = Len(table)
      /\ \A j \in 1 .. Len(table) :
            /\ table'[j].node_id = table[j].node_id
            /\ j # i => table'[j] = table[j] /\ table[j].node_id # x.node
      /\ table'[i].status = x.new /\ table[i].node_id = x.node
  BY DEF Applies, WritesSlot
<1>3. NoLogBeforeLeader'
  BY DEF Applies, NoLogBeforeLeader
<1>4. StoreIsVerdict'
  BY <1>1, <1>2 DEF Applies, StoreIsVerdict
<1>5. BacklogEndsInVerdict'
  <2>1. applied' + 1 .. Len(log) \subseteq applied + 1 .. Len(log)
    BY DEF Applies
  <2> QED BY <1>1, <2>1 DEF Applies, BacklogEndsInVerdict
<1>6. ASSUME NEW n, NEW k \in applied + 1 .. Len(log), log[k].node = n,
             k # applied + 1
      PROVE  rpc' = "apply" /\ Backlog(n)'
  <2>1. k \in applied' + 1 .. Len(log) /\ applied + 1 < Len(log)
    BY <1>6 DEF Applies
  <2> QED BY <1>6, <2>1 DEF Applies, Backlog
<1>7. \A j \in 1 .. Len(table) : j # i /\ Applying(j) => Applying(j)'
  <2>1. SUFFICES ASSUME NEW j \in 1 .. Len(table), j # i, Applying(j)
                 PROVE  Applying(j)'
    OBVIOUS
  <2>2. PICK k \in applied + 1 .. Len(log) : log[k].node = table[j].node_id
    BY <2>1 DEF Applying, Backlog
  <2>3. k # applied + 1
    BY <1>2, <2>1, <2>2
  <2> QED BY <1>2, <1>6, <2>2, <2>3 DEF Applying
<1>8. Applying(i)' \/ IsLast(applied + 1, x.node)
  <2>1. CASE \E k \in applied + 2 .. Len(log) : log[k].node = x.node
    BY <1>2, <1>6, <2>1 DEF Applying
  <2>2. CASE ~ \E k \in applied + 2 .. Len(log) : log[k].node = x.node
    BY <2>2 DEF IsLast, Applies
  <2> QED BY <2>1, <2>2
<1>9. TableIsVerdict'
  <2>1. SUFFICES ASSUME ~Full, NEW j \in 1 .. Len(table), table[j].node_id \notin raced
                 PROVE  \/ Storing(j)' \/ Applying(j)'
                        \/ table'[j].status = verdict[table[j].node_id]
    BY <1>1, <1>2 DEF Applies, TableIsVerdict
  <2>2. CASE j # i
    BY <1>1, <1>2, <1>7, <2>1, <2>2 DEF TableIsVerdict
  <2>3. CASE j = i
    <3>1. x.node \in Nodes \ raced /\ applied + 1 \in applied + 1 .. Len(log)
      BY <1>2, <2>1, <2>3 DEF Applies
    <3>2. IsLast(applied + 1, x.node) => x.new = verdict[x.node]
      BY <2>1, <3>1 DEF BacklogEndsInVerdict
    <3> QED BY <1>2, <1>8, <2>3, <3>2
  <2> QED BY <2>2, <2>3
<1>10. TableIsLogged'
  <2>1. SUFFICES ASSUME ~Full, NEW j \in 1 .. Len(table), NEW k \in 1 .. Len(log),
                        IsLast(k, table[j].node_id)
                 PROVE  \/ Storing(j)' \/ Applying(j)'
                        \/ table'[j].status \in {log[k].new, NODE_UP}
    BY <1>1, <1>2 DEF Applies, TableIsLogged
  <2>2. CASE j # i
    BY <1>1, <1>2, <1>7, <2>1, <2>2 DEF TableIsLogged
  <2>3. CASE j = i /\ IsLast(applied + 1, x.node)
    <3>1. k = applied + 1
      BY <1>2, <2>1, <2>3, LastUnique
    <3> QED BY <1>2, <2>3, <3>1
  <2> QED BY <1>8, <2>2, <2>3
<1> QED BY <1>3, <1>4, <1>5, <1>9, <1>10

\* A decision is logged where the node's previous entry ended.
LEMMA DecidesAgreement ==
    ASSUME Structure, Agreement, NEW i \in 1 .. Len(table), NEW new \in Statuses,
           Decides(i, new)
    PROVE  Agreement'
<1> USE LogTypes DEF Agreement
<1> DEFINE n == table[i].node_id
<1>1. /\ Len(table') = Len(table)
      /\ \A j \in 1 .. Len(table) :
            /\ table'[j].node_id = table[j].node_id
            /\ j # i => table'[j] = table[j] /\ table[j].node_id # n
            /\ ~Storing(j) /\ ~Applying(j)
      /\ Storing(i)' /\ store'.slot = i /\ store'.status = new
  BY DEF Decides, WritesSlot, Storing, Applying, Owing
<1>2. n \in Nodes /\ \A m \in Nodes : verdict'[m] = IF m = n THEN new ELSE verdict[m]
  BY DEF Decides
<1>3. Logs(n, table[i].status, new)
  BY DEF Decides
<1>4. ~Full' => ~Full /\ (leader \/ log' = <<>>)
  <2>1. Len(log') >= Len(log)
    BY <1>3 DEF Logs
  <2>2. ~Full' => ~Full
    BY <2>1, OracleConstants DEF Full
  <2>3. ~leader => log' = <<>>
    BY <1>3 DEF Logs, NoLogBeforeLeader
  <2> QED BY <2>2, <2>3
<1> HIDE DEF n
<1>5. ASSUME ~Full', NEW m, NEW k \in 1 .. Len(log'), IsLast(k, m)'
      PROVE  \/ m = n /\ log'[k].new = new
             \/ /\ m # n /\ k \in 1 .. Len(log) /\ IsLast(k, m) /\ log'[k] = log[k]
  <2>1. leader /\ ~Full
    BY <1>4, <1>5
  <2>2. Len(log') = Len(log) + 1
    BY <1>3, <2>1 DEF Logs
  <2>3. log' # log
    BY <2>2
  <2> QED BY <1>3, <1>5, <2>2, <2>3, LastLogged
<1>6. NoLogBeforeLeader'
  BY <1>3 DEF Decides, Logs, NoLogBeforeLeader
<1>7. StoreIsVerdict'
  BY <1>1, <1>2, <1>5 DEF Decides, StoreIsVerdict, n
<1>8. BacklogEndsInVerdict'
  <2>1. SUFFICES ASSUME ~Full', NEW m \in Nodes, m \notin raced,
                        NEW k \in applied + 1 .. Len(log'), IsLast(k, m)'
                 PROVE  log'[k].new = verdict'[m]
    BY DEF Decides, BacklogEndsInVerdict
  <2>2. k \in 1 .. Len(log')
    BY <2>1 DEF IsLast
  <2>3. CASE m # n /\ k \in 1 .. Len(log) /\ IsLast(k, m) /\ log'[k] = log[k]
    BY <1>2, <1>4, <2>1, <2>3 DEF BacklogEndsInVerdict
  <2> QED BY <1>2, <1>5, <2>1, <2>2, <2>3
<1>9. TableIsVerdict'
  BY <1>1, <1>2, <1>4 DEF Decides, TableIsVerdict
<1>10. TableIsLogged'
  <2>1. SUFFICES ASSUME ~Full', NEW j \in 1 .. Len(table), NEW k \in 1 .. Len(log'),
                        IsLast(k, table[j].node_id)', j # i
                 PROVE  table'[j].status \in {log'[k].new, NODE_UP}
    BY <1>1 DEF TableIsLogged
  <2>2. /\ k \in 1 .. Len(log) /\ IsLast(k, table[j].node_id) /\ log'[k] = log[k]
        /\ table'[j] = table[j] /\ ~Storing(j) /\ ~Applying(j)
    BY <1>1, <1>5, <2>1
  <2> QED BY <1>4, <2>1, <2>2 DEF TableIsLogged
<1> QED BY <1>6, <1>7, <1>8, <1>9, <1>10

\* Every step keeps the agreement.
LEMMA AgreementNext ==
    ASSUME Structure, Agreement, [Next]_vars PROVE Agreement'
BY StepKinds, QuietAgreement, StoresAgreement, LeadsAgreement, AnnouncesAgreement,
   AppliesAgreement, DecidesAgreement

\* Table, log and verdicts always agree.
LEMMA AgreementInvariant == Spec => [](Structure /\ Agreement)
<1>1. Structure /\ Agreement /\ [Next]_vars => (Structure /\ Agreement)'
  BY StructureNext, AgreementNext
<1> QED BY StructureInit, AgreementInit, <1>1, PTL DEF Spec

\* Applying the log does not overrule health_task: once raft_apply_all() is
\* done the table shows what propose_transition() decided last, for every
\* number of nodes and every order of the two tasks.
THEOREM ApplyKeepsVerdictAlways == Spec => []ApplyKeepsVerdict
<1>1. Structure /\ Agreement => ApplyKeepsVerdict
  BY DEF Agreement, TableIsVerdict, Applying, ApplyKeepsVerdict
<1> QED BY <1>1, AgreementInvariant, PTL

\* A logged transition continues the path of its node.
LEMMA LogIsPathNext ==
    ASSUME Structure, Agreement, LogIsPath, [Next]_vars PROVE LogIsPath'
<1>1. CASE log' = log
  BY <1>1, SMTT(30) DEF LogIsPath
<1>2. ASSUME NEW i \in 1 .. Len(table), NEW new \in Statuses, Decides(i, new),
             log' # log
      PROVE  LogIsPath'
  <2> DEFINE n == table[i].node_id
             s == table[i].status
             last == Len(log) + 1
  <2>1. Logs(n, s, new) /\ rpc = "idle" /\ ~Storing(i) /\ ~Applying(i)
    BY <1>2 DEF Decides, Storing, Applying, Owing
  <2>2. Len(log) \in Nat /\ ~Full /\ Len(log') = last
    BY <1>2, <2>1, LogTypes DEF Logs
  <2>3. log'[last].node = n /\ log'[last].old = s /\ log'[last].new = new
    BY <2>1, <2>2 DEF Logs
  <2>4. \A k \in 1 .. Len(log) : log'[k] = log[k]
    BY <2>1 DEF Logs
  <2>5. <<s, new>> \in {<<NODE_UP, NODE_SUSPECT>>, <<NODE_SUSPECT, NODE_DOWN>>,
                        <<NODE_SUSPECT, NODE_UP>>, <<NODE_DOWN, NODE_UP>>}
    BY <1>2 DEF Decides
  <2>6. ASSUME NEW j \in 1 .. last - 1, log'[j].node = n,
               \A m \in j + 1 .. last - 1 : log'[m].node # n
        PROVE  s \in {log'[j].new, NODE_UP}
    <3>1. j \in 1 .. Len(log) /\ log'[j] = log[j]
      BY <2>2, <2>4, <2>6
    <3>2. \A m \in j + 1 .. Len(log) : log[m].node # n
      BY <2>2, <2>4, <2>6, <3>1
    <3>3. IsLast(j, n)
      BY <2>6, <3>1, <3>2 DEF IsLast
    <3> QED BY <2>1, <2>2, <3>1, <3>3 DEF Agreement, TableIsLogged
  <2> HIDE DEF n, s
  <2>7. ASSUME NEW k \in 1 .. Len(log')
        PROVE  /\ <<log'[k].old, log'[k].new>> \in {<<NODE_UP, NODE_SUSPECT>>,
                     <<NODE_SUSPECT, NODE_DOWN>>, <<NODE_SUSPECT, NODE_UP>>,
                     <<NODE_DOWN, NODE_UP>>}
               /\ \A j \in 1 .. k - 1 :
                     /\ log'[j].node = log'[k].node
                     /\ \A m \in j + 1 .. k - 1 : log'[m].node # log'[k].node
                     => log'[k].old \in {log'[j].new, NODE_UP}
    <3>1. CASE k = last
      BY <2>3, <2>5, <2>6, <3>1
    <3>2. CASE k \in 1 .. Len(log)
      <4>1. \A m \in 1 .. k : log'[m] = log[m]
        BY <2>2, <2>4, <3>2
      <4> QED BY <2>2, <3>2, <4>1 DEF LogIsPath
    <3> QED BY <2>2, <3>1, <3>2
  <2> QED BY <2>7 DEF LogIsPath
<1>3. \/ log' = log
      \/ \E i \in 1 .. Len(table), new \in Statuses : Decides(i, new)
  BY StepKinds DEF Quiet, Stores, Leads, Announces, Applies
<1> QED BY <1>1, <1>2, <1>3

\* The transitions oracle_propose_health_transition() logs for a node are a
\* path of the state machine of health_monitor.h, for every number of nodes,
\* every capacity of the log and every order of the tasks.
THEOREM LogIsPathAlways == Spec => []LogIsPath
<1>1. Init => LogIsPath
  BY DEF Init, LogIsPath
<1>2. (Structure /\ Agreement) /\ LogIsPath /\ [Next]_vars => LogIsPath'
  BY LogIsPathNext
<1> QED BY <1>1, <1>2, AgreementInvariant, PTL DEF Spec

-----------------------------------------------------------------------------
(* Timing: suspicion is silence *)

\* With the ghost clock at s and the tick counter at t, a node had been
\* silent for d ticks when health_task read the clock value w.
Silent(s, t, w, d) == s = SILENCE_CAP \/ s >= d + Elapsed(t, w)

SilentFor(n, d) == Silent(silence[n], tick, now, d)

\* What a slot knows of its node is really silence of the node: the time
\* since last_seen_ms, SUSPECT_THRESHOLD misses, the time since
\* suspect_since_ms and the verdict DOWN.
SlotIsSilence(e) ==
    /\ SilentFor(e.node_id, Elapsed(now, e.last_seen_ms))
    /\ e.miss_count >= SUSPECT_THRESHOLD => SilentFor(e.node_id, SuspectAfter)
    /\ ~Full /\ e.node_id \notin raced =>
          /\ verdict[e.node_id] = NODE_SUSPECT =>
                SilentFor(e.node_id, SuspectAfter + Elapsed(now, e.suspect_since_ms))
          /\ verdict[e.node_id] = NODE_DOWN => silence[e.node_id] >= DownAfter

Timing == \A j \in 1 .. Len(table) : SlotIsSilence(table[j])

\* A tick lengthens the silence of a node at least as much as the time since
\* a clock value.
LEMMA SilentTick ==
    ASSUME NEW s \in 0 .. SILENCE_CAP, NEW t \in Ticks, NEW w \in Ticks,
           NEW d \in Nat, Silent(s, t, w, d)
    PROVE  Silent(IF s < SILENCE_CAP THEN s + 1 ELSE s,
                  IF t = TICK_MOD - 1 THEN 0 ELSE t + 1, w, d)
<1> DEFINE u == IF t = TICK_MOD - 1 THEN 0 ELSE t + 1
<1>1. Elapsed(u, w) <= Elapsed(t, w) + 1
  BY ElapsedTick
<1>2. u \in Ticks
  BY MonitorConstants DEF Ticks
<1>3. Elapsed(t, w) \in Nat /\ Elapsed(u, w) \in Nat
  BY <1>2, ElapsedType
<1> HIDE DEF u
<1>4. Silent(IF s < SILENCE_CAP THEN s + 1 ELSE s, u, w, d)
  BY <1>1, <1>3, OracleConstants DEF Silent
<1> QED BY <1>4 DEF u

\* health_task reads the clock again.
LEMMA SilentRead ==
    ASSUME NEW s \in 0 .. SILENCE_CAP, NEW t \in Ticks, NEW w \in Ticks,
           NEW d \in Nat, NEW a \in Ticks
    PROVE  /\ Silent(s, t, w, d) => Silent(s, t, t, d)
           /\ Silent(s, t, w, d + Elapsed(w, a)) => Silent(s, t, t, d + Elapsed(t, a))
<1>1. /\ Elapsed(t, w) \in Nat /\ Elapsed(w, a) \in Nat /\ Elapsed(t, a) \in Nat
      /\ Elapsed(t, t) = 0
  BY ElapsedType
<1>2. Elapsed(t, a) <= Elapsed(w, a) + Elapsed(t, w)
  BY ElapsedTriangle
<1> QED BY <1>1, <1>2, OracleConstants DEF Silent

\* The step does not hear node n, and silence of n before it is silence after.
Passes(n) ==
    /\ silence'[n] >= silence[n]
    /\ \A d \in Nat, a \in Ticks :
          /\ Silent(silence[n], tick, now, d) => Silent(silence'[n], tick', now', d)
          /\ Silent(silence[n], tick, now, d + Elapsed(now, a)) =>
                Silent(silence'[n], tick', now', d + Elapsed(now', a))

\* The facts on types that the proofs about time use.
LEMMA ClockTypes ==
    ASSUME Structure
    PROVE  /\ tick \in Ticks /\ now \in Ticks
           /\ \A n \in Nodes : silence[n] \in 0 .. SILENCE_CAP
           /\ silence \in [Nodes -> 0 .. SILENCE_CAP]
           /\ \A j \in 1 .. Len(table) : table[j] \in Slots
           /\ \A e \in Slots : /\ e.node_id \in Nodes
                               /\ e.last_seen_ms \in Ticks /\ e.suspect_since_ms \in Ticks
<1>1. GoodTable(table)
  BY StructureTable
<1>2. \A j \in 1 .. Len(table) : table[j] \in Slots
  BY <1>1 DEF GoodTable
<1>3. \A e \in Slots : /\ e.node_id \in Nodes
                       /\ e.last_seen_ms \in Ticks /\ e.suspect_since_ms \in Ticks
  BY DEF Slots, Slot
<1>4. /\ tick \in Ticks /\ now \in Ticks
      /\ silence \in [Nodes -> 0 .. SILENCE_CAP]
  BY DEF Structure, TypeOK, ClockTypeOK, GhostTypeOK
<1> QED BY <1>2, <1>3, <1>4

\* The clock keeps what is known of a silence.
LEMMA TickPasses ==
    ASSUME Structure, Tick, NEW n \in Nodes PROVE Passes(n)
<1>1. tick \in Ticks /\ now \in Ticks /\ silence[n] \in 0 .. SILENCE_CAP
  BY ClockTypes
<1>2. /\ tick' = IF tick = TICK_MOD - 1 THEN 0 ELSE tick + 1
      /\ silence'[n] = IF silence[n] < SILENCE_CAP THEN silence[n] + 1 ELSE silence[n]
      /\ now' = now
  BY DEF Tick, healthVars
<1>3. \A d \in Nat : Silent(silence[n], tick, now, d) => Silent(silence'[n], tick', now', d)
  BY <1>1, <1>2, SilentTick
<1>4. \A a \in Ticks : Elapsed(now, a) \in Nat
  BY <1>1, ElapsedType
<1>5. \A d \in Nat, a \in Ticks : d + Elapsed(now, a) \in Nat
  BY <1>4
<1>6. silence'[n] >= silence[n]
  BY <1>1, <1>2, OracleConstants
<1> QED BY <1>2, <1>3, <1>5, <1>6 DEF Passes

\* So does reading it.
LEMMA ReadPasses ==
    ASSUME Structure, NEW n \in Nodes, silence'[n] = silence[n],
           tick' = tick, now' = now \/ now' = tick
    PROVE  Passes(n)
<1>1. tick \in Ticks /\ now \in Ticks /\ silence[n] \in 0 .. SILENCE_CAP
  BY ClockTypes
<1>2. silence'[n] >= silence[n]
  BY <1>1, OracleConstants
<1>3. CASE now' = now
  BY <1>2, <1>3 DEF Passes
<1>4. CASE now' = tick
  BY <1>1, <1>2, <1>4, SilentRead DEF Passes
<1> QED BY <1>3, <1>4

\* SlotIsSilence of slot f after the step.
StaysSilence(f) ==
    /\ Silent(silence'[f.node_id], tick', now', Elapsed(now', f.last_seen_ms))
    /\ f.miss_count >= SUSPECT_THRESHOLD =>
          Silent(silence'[f.node_id], tick', now', SuspectAfter)
    /\ ~Full' /\ f.node_id \notin raced' =>
          /\ verdict'[f.node_id] = NODE_SUSPECT =>
                Silent(silence'[f.node_id], tick', now',
                       SuspectAfter + Elapsed(now', f.suspect_since_ms))
          /\ verdict'[f.node_id] = NODE_DOWN => silence'[f.node_id] >= DownAfter

\* Slot e becomes f without news of its node.
LEMMA KeptSlot ==
    ASSUME Structure, Structure', Full => Full',
           NEW e \in Slots, NEW f \in Slots, SlotIsSilence(e),
           f.node_id = e.node_id, Passes(e.node_id),
           f.last_seen_ms = e.last_seen_ms,
           f.miss_count >= SUSPECT_THRESHOLD => SilentFor(e.node_id, SuspectAfter),
           e.node_id \notin raced' => e.node_id \notin raced,
           \/ verdict'[e.node_id] = NODE_UP
           \/ /\ verdict'[e.node_id] = verdict[e.node_id]
              /\ f.suspect_since_ms = e.suspect_since_ms
    PROVE  StaysSilence(f)
<1> DEFINE n == e.node_id
<1>1. /\ n \in Nodes /\ silence[n] \in Nat /\ silence'[n] \in Nat
      /\ e.last_seen_ms \in Ticks /\ e.suspect_since_ms \in Ticks
      /\ now \in Ticks /\ now' \in Ticks
  BY ClockTypes, OracleConstants DEF Structure, TypeOK, ClockTypeOK, GhostTypeOK
<1>2. /\ Elapsed(now, e.last_seen_ms) \in Nat /\ Elapsed(now', e.last_seen_ms) \in Nat
  BY <1>1, ElapsedType
<1>3. 0 + Elapsed(now, e.last_seen_ms) = Elapsed(now, e.last_seen_ms)
      /\ 0 + Elapsed(now', e.last_seen_ms) = Elapsed(now', e.last_seen_ms)
  BY <1>2
<1>4. SuspectAfter \in Nat /\ DownAfter \in Nat
  BY Thresholds
<1>5. Silent(silence'[n], tick', now', Elapsed(now', e.last_seen_ms))
  <2>1. Silent(silence[n], tick, now, 0 + Elapsed(now, e.last_seen_ms))
    BY <1>3 DEF SlotIsSilence, SilentFor
  <2>2. 0 \in Nat
    OBVIOUS
  <2>3. Silent(silence'[n], tick', now', 0 + Elapsed(now', e.last_seen_ms))
    BY <1>1, <2>1, <2>2 DEF Passes
  <2> QED BY <1>3, <2>3
<1>6. f.miss_count >= SUSPECT_THRESHOLD => Silent(silence'[n], tick', now', SuspectAfter)
  BY <1>1, <1>4 DEF Passes, SilentFor
<1>7. ASSUME ~Full', n \notin raced', verdict'[n] = NODE_SUSPECT
      PROVE  Silent(silence'[n], tick', now', SuspectAfter + Elapsed(now', f.suspect_since_ms))
  <2>1. verdict[n] = NODE_SUSPECT /\ f.suspect_since_ms = e.suspect_since_ms
    BY <1>7 DEF NODE_UP, NODE_SUSPECT
  <2>2. Silent(silence[n], tick, now, SuspectAfter + Elapsed(now, e.suspect_since_ms))
    BY <1>7, <2>1 DEF SlotIsSilence, SilentFor
  <2> QED BY <1>1, <1>4, <2>1, <2>2 DEF Passes
<1>8. ASSUME ~Full', n \notin raced', verdict'[n] = NODE_DOWN
      PROVE  silence'[n] >= DownAfter
  <2>1. verdict[n] = NODE_DOWN
    BY <1>8 DEF NODE_UP, NODE_DOWN
  <2>2. silence[n] >= DownAfter
    BY <1>8, <2>1 DEF SlotIsSilence
  <2>3. silence'[n] >= silence[n]
    BY DEF Passes
  <2> QED BY <1>1, <1>4, <2>2, <2>3
<1> QED BY <1>5, <1>6, <1>7, <1>8 DEF StaysSilence

\* Slot f after its node was heard.
LEMMA HeardSlot ==
    ASSUME Structure, NEW f \in Slots, Hears(f.node_id),
           f.last_seen_ms = tick, f.miss_count = 0,
           ~Full' /\ f.node_id \notin raced' => verdict'[f.node_id] = NODE_UP
    PROVE  StaysSilence(f)
<1>1. tick' = tick /\ now' = tick /\ silence'[f.node_id] = 0
  BY ClockTypes DEF Hears
<1>2. Elapsed(tick, tick) = 0
  BY ClockTypes, ElapsedType
<1>3. ~(f.miss_count >= SUSPECT_THRESHOLD)
  BY MonitorConstants
<1>4. Silent(silence'[f.node_id], tick', now', Elapsed(now', f.last_seen_ms))
  BY <1>1, <1>2 DEF Silent
<1> QED BY <1>3, <1>4 DEF StaysSilence, NODE_UP, NODE_SUSPECT, NODE_DOWN

\* The misses the tick counts are silence.
LEMMA CountedSilence ==
    ASSUME Structure, NEW e \in Slots, SlotIsSilence(e),
           count_misses(e, now) >= SUSPECT_THRESHOLD
    PROVE  SilentFor(e.node_id, SuspectAfter)
<1> DEFINE since == Elapsed(now, e.last_seen_ms)
<1>1. /\ since \in Nat /\ Elapsed(tick, now) \in Nat
      /\ silence[e.node_id] \in 0 .. SILENCE_CAP
  BY ClockTypes, ElapsedType
<1>2. Silent(silence[e.node_id], tick, now, since)
  BY DEF SlotIsSilence, SilentFor
<1>3. count_misses(e, now) = IF since >= HB_INTERVAL_MS
                             THEN (since \div HB_INTERVAL_MS) % MISS_MOD
                             ELSE e.miss_count
  BY DEF count_misses
<1> HIDE DEF since
<1>4. CASE since >= HB_INTERVAL_MS
  <2>1. (since \div HB_INTERVAL_MS) % MISS_MOD >= SUSPECT_THRESHOLD
    BY <1>3, <1>4
  <2>2. since >= SuspectAfter
    BY <1>1, <2>1, DivBound, MonitorConstants DEF SuspectAfter
  <2> QED BY <1>1, <1>2, <2>2, Thresholds DEF Silent, SilentFor
<1>5. CASE ~(since >= HB_INTERVAL_MS)
  BY <1>3, <1>5 DEF SlotIsSilence
<1> QED BY <1>4, <1>5

\* There is no slot at the start.
LEMMA TimingInit == Init => Timing
BY DEF Init, Timing

\* Steps that leave slot j alone.
LEMMA SameSlot ==
    ASSUME Structure, Structure', Full => Full', Timing,
           NEW j \in 1 .. Len(table), j \in 1 .. Len(table'),
           table'[j].node_id = table[j].node_id,
           table'[j].last_seen_ms = table[j].last_seen_ms,
           table'[j].miss_count = table[j].miss_count,
           Passes(table[j].node_id),
           table[j].node_id \notin raced' => table[j].node_id \notin raced,
           \/ verdict'[table[j].node_id] = NODE_UP
           \/ /\ verdict'[table[j].node_id] = verdict[table[j].node_id]
              /\ table'[j].suspect_since_ms = table[j].suspect_since_ms
    PROVE  StaysSilence(table'[j])
<1>1. table[j] \in Slots /\ SlotIsSilence(table[j])
  BY ClockTypes DEF Timing
<1>2. table'[j] \in Slots
  BY DEF Structure, TypeOK, TableTypeOK, Slots
<1>3. table[j].miss_count >= SUSPECT_THRESHOLD => SilentFor(table[j].node_id, SuspectAfter)
  BY <1>1 DEF SlotIsSilence
<1> QED BY <1>1, <1>2, <1>3, KeptSlot

\* Every step keeps what the slots know of the silence of their nodes.
LEMMA TimingNext ==
    ASSUME Structure, Agreement, Timing, [Next]_vars PROVE Timing'
<1>0. Structure'
  BY StructureNext
<1>1. Full => Full'
  <2>1. Len(log) \in Nat /\ Len(log') \in Nat
    BY <1>0 DEF Structure, TypeOK, RaftTypeOK
  <2>2. Len(log') >= Len(log)
    BY <2>1, StepKinds DEF Quiet, Stores, Leads, Decides, Logs, Announces, Applies
  <2> QED BY <2>1, <2>2, OracleConstants DEF Full
<1>2. SUFFICES ASSUME NEW j \in 1 .. Len(table') PROVE StaysSilence(table'[j])
  BY DEF Timing, SlotIsSilence, SilentFor, StaysSilence
<1>3. table'[j] \in Slots /\ Len(table) \in Nat
  BY <1>0, StructureTable DEF Structure, TypeOK, TableTypeOK, Slots
<1>4. \A i \in 1 .. Len(table) :
         /\ table[i] \in Slots /\ table[i].node_id \in Nodes /\ SlotIsSilence(table[i])
         /\ table[i].suspect_since_ms \in Ticks
  BY ClockTypes DEF Timing
<1>5. verdict \in [Nodes -> Statuses] /\ silence \in [Nodes -> 0 .. SILENCE_CAP]
  BY LogTypes, ClockTypes
<1>6. CASE \/ Tick \/ ReceiveTimeout \/ TickBegin \/ TickEnd \/ RaftTimerCallback
           \/ OracleTick \/ UNCHANGED vars \/ \E m \in Frames : EthRx(m)
  <2>1. UNCHANGED <<table, verdict, raced>>
    BY <1>6 DEF Tick, EthRx, ReceiveTimeout, TickBegin, TickEnd, RaftTimerCallback,
       OracleTick, vars, monitorVars, ghostVars
  <2>2. Tick \/ (UNCHANGED <<silence, tick>> /\ (now' = now \/ now' = tick))
    BY <1>6 DEF EthRx, ReceiveTimeout, TickBegin, TickEnd, RaftTimerCallback,
       OracleTick, vars, healthVars, ghostVars
  <2>3. \A n \in Nodes : Passes(n)
    BY <2>2, TickPasses, ReadPasses
  <2> QED BY <1>0, <1>1, <1>4, <2>1, <2>3, SameSlot
<1>7. ASSUME NEW src \in Nodes, Hears(src)
      PROVE  \A n \in Nodes : n # src => Passes(n)
  BY <1>5, <1>7, ReadPasses DEF Hears
<1>8. CASE ProcessHeartbeat
  <2>1. PICK src \in Nodes :
              /\ Hears(src) /\ UNCHANGED raced
              /\ \/ /\ \A i \in 1 .. Len(table) : table[i].node_id # src
                    /\ pc' = "tick" /\ UNCHANGED <<table, store, log, verdict>>
                 \/ \E i \in 1 .. Len(table) :
                       /\ table[i].node_id = src
                       /\ WritesSlot(i)
                       /\ table'[i].last_seen_ms = tick
                       /\ table'[i].miss_count = 0
                       /\ \/ table[i].status = NODE_UP /\ UNCHANGED <<store, log, verdict>>
                          \/ verdict' = [verdict EXCEPT ![src] = NODE_UP]
    BY <1>8, HeartbeatStep
  <2>2. CASE /\ \A i \in 1 .. Len(table) : table[i].node_id # src
             /\ UNCHANGED <<table, verdict>>
    <3>1. Passes(table[j].node_id)
      BY <1>4, <1>7, <2>1, <2>2
    <3> QED BY <1>0, <1>1, <2>1, <2>2, <3>1, SameSlot
  <2>3. ASSUME NEW i \in 1 .. Len(table), table[i].node_id = src, WritesSlot(i),
               table'[i].last_seen_ms = tick, table'[i].miss_count = 0,
               \/ table[i].status = NODE_UP /\ UNCHANGED <<store, log, verdict>>
               \/ verdict' = [verdict EXCEPT ![src] = NODE_UP]
        PROVE  StaysSilence(table'[j])
    <3>1. CASE j = i
      <4>1. table'[j].node_id = src
        BY <2>3, <3>1 DEF WritesSlot
      <4>2. ASSUME ~Full', src \notin raced' PROVE verdict'[src] = NODE_UP
        <5>1. CASE table[i].status = NODE_UP /\ UNCHANGED <<store, log, verdict>>
          <6>1. ~Full /\ src \notin raced /\ ~Storing(i) /\ ~Applying(i)
            BY <1>1, <2>1, <4>2 DEF Hears, Storing, Applying
          <6> QED BY <2>3, <5>1, <6>1 DEF Agreement, TableIsVerdict
        <5>2. CASE verdict' = [verdict EXCEPT ![src] = NODE_UP]
          BY <1>5, <5>2
        <5> QED BY <2>3, <5>1, <5>2
      <4> QED BY <1>3, <2>1, <2>3, <3>1, <4>1, <4>2, HeardSlot
    <3>2. CASE j # i
      <4>1. j \in 1 .. Len(table) /\ table'[j] = table[j]
        BY <2>3, <3>2 DEF WritesSlot
      <4>2. table[j].node_id # src
        BY <2>3, <3>2, <4>1, LogTypes
      <4>3. Passes(table[j].node_id) /\ verdict'[table[j].node_id] = verdict[table[j].node_id]
        BY <1>4, <1>5, <1>7, <2>1, <2>3, <4>1, <4>2
      <4> QED BY <1>0, <1>1, <2>1, <4>1, <4>3, SameSlot
    <3> QED BY <3>1, <3>2
  <2> QED BY <2>1, <2>2, <2>3
<1>9. CASE ProcessAnnounce
  <2>1. PICK src \in Nodes :
              /\ Hears(src)
              /\ raced' = IF Backlog(src) THEN raced \union {src} ELSE raced
              /\ verdict' = [verdict EXCEPT ![src] = NODE_UP]
              /\ \A i \in 1 .. Len(table') :
                    IF table'[i].node_id = src
                    THEN /\ table'[i].last_seen_ms = tick
                         /\ table'[i].miss_count = 0
                    ELSE i \in 1 .. Len(table) /\ table'[i] = table[i]
    BY <1>9, AnnounceStep
  <2>2. CASE table'[j].node_id = src
    <3>1. verdict'[src] = NODE_UP
      BY <1>5, <2>1
    <3> QED BY <1>3, <2>1, <2>2, <3>1, HeardSlot
  <2>3. CASE table'[j].node_id # src
    <3>1. j \in 1 .. Len(table) /\ table'[j] = table[j]
      BY <2>1, <2>3
    <3>2. Passes(table[j].node_id) /\ verdict'[table[j].node_id] = verdict[table[j].node_id]
      BY <1>4, <1>5, <1>7, <2>1, <2>3, <3>1
    <3>3. table[j].node_id \notin raced' => table[j].node_id \notin raced
      BY <2>1
    <3> QED BY <1>0, <1>1, <3>1, <3>2, <3>3, SameSlot
  <2> QED BY <2>2, <2>3
<1>10. ASSUME UNCHANGED <<tick, now, silence>>
       PROVE  \A n \in Nodes : Passes(n)
  BY <1>10, ReadPasses
<1>11. CASE TickSlot
  <2>1. PICK i \in 1 .. Len(table) :
              /\ rpc = "idle" /\ pc = "slot"
              /\ UNCHANGED <<tick, now, silence, raced>>
              /\ WritesSlot(i)
              /\ table'[i].last_seen_ms = table[i].last_seen_ms
              /\ table'[i].miss_count = count_misses(table[i], now)
              /\ \/ /\ table'[i].suspect_since_ms = table[i].suspect_since_ms
                    /\ UNCHANGED verdict
                 \/ \E new \in Statuses :
                       /\ verdict' = [verdict EXCEPT ![table[i].node_id] = new]
                       /\ \/ /\ new = NODE_SUSPECT
                             /\ table'[i].miss_count >= SUSPECT_THRESHOLD
                             /\ table'[i].suspect_since_ms = now
                          \/ /\ table[i].status = NODE_SUSPECT /\ new = NODE_DOWN
                             /\ Elapsed(now, table[i].suspect_since_ms) >= DOWN_TIMEOUT_MS
                             /\ table'[i].suspect_since_ms = table[i].suspect_since_ms
    BY <1>11, TickSlotStep
  <2>2. \A n \in Nodes : Passes(n)
    BY <1>10, <2>1
  <2>3. CASE j # i
    <3>1. /\ j \in 1 .. Len(table) /\ table'[j] = table[j]
          /\ table[j].node_id # table[i].node_id
      BY <2>1, <2>3, LogTypes DEF WritesSlot
    <3>2. verdict'[table[j].node_id] = verdict[table[j].node_id]
      BY <1>4, <1>5, <2>1, <3>1
    <3> QED BY <1>0, <1>1, <1>4, <2>1, <2>2, <3>1, <3>2, SameSlot
  <2>4. CASE j = i
    <3> DEFINE n == table[i].node_id
               e == table[i]
               f == table'[i]
    <3>1. /\ e \in Slots /\ f \in Slots /\ SlotIsSilence(e) /\ f.node_id = n
          /\ n \in Nodes
      BY <1>3, <1>4, <2>1, <2>4 DEF WritesSlot
    <3>2. f.miss_count >= SUSPECT_THRESHOLD => SilentFor(n, SuspectAfter)
      BY <2>1, <3>1, CountedSilence
    <3>3. CASE f.suspect_since_ms = e.suspect_since_ms /\ UNCHANGED verdict
      <4>1. Passes(n) /\ f.last_seen_ms = e.last_seen_ms /\ UNCHANGED raced
        BY <2>1, <2>2, <3>1
      <4> HIDE DEF e, f
      <4>2. StaysSilence(f)
        BY <1>0, <1>1, <3>1, <3>2, <3>3, <4>1, KeptSlot DEF e
      <4> QED BY <2>4, <4>2 DEF f
    <3>4. /\ Silent(silence'[n], tick', now', Elapsed(now', f.last_seen_ms))
          /\ f.miss_count >= SUSPECT_THRESHOLD =>
                Silent(silence'[n], tick', now', SuspectAfter)
      BY <2>1, <3>1, <3>2 DEF SlotIsSilence, SilentFor
    <3>5. CASE /\ verdict' = [verdict EXCEPT ![n] = NODE_SUSPECT]
               /\ f.miss_count >= SUSPECT_THRESHOLD
               /\ f.suspect_since_ms = now
      <4>1. verdict'[n] = NODE_SUSPECT
        BY <1>5, <3>1, <3>5
      <4>2. Elapsed(now', f.suspect_since_ms) = 0
        BY <2>1, <3>5, ClockTypes, ElapsedType
      <4>3. SuspectAfter + Elapsed(now', f.suspect_since_ms) = SuspectAfter
        BY <4>2, Thresholds
      <4> QED BY <2>4, <3>1, <3>4, <3>5, <4>1, <4>3
              DEF StaysSilence, NODE_SUSPECT, NODE_DOWN
    <3>6. CASE /\ verdict' = [verdict EXCEPT ![n] = NODE_DOWN]
               /\ e.status = NODE_SUSPECT
               /\ Elapsed(now, e.suspect_since_ms) >= DOWN_TIMEOUT_MS
      <4>1. verdict'[n] = NODE_DOWN
        BY <1>5, <3>1, <3>6
      <4>2. ASSUME ~Full', n \notin raced' PROVE silence'[n] >= DownAfter
        <5>1. ~Full /\ n \notin raced /\ ~Storing(i) /\ ~Applying(i)
          BY <1>1, <2>1, <4>2 DEF Storing, Applying
        <5>2. verdict[n] = NODE_SUSPECT
          BY <3>6, <5>1 DEF Agreement, TableIsVerdict
        <5>3. Silent(silence[n], tick, now, SuspectAfter + Elapsed(now, e.suspect_since_ms))
          BY <3>1, <5>1, <5>2 DEF SlotIsSilence, SilentFor
        <5>4. /\ Elapsed(now, e.suspect_since_ms) \in Nat /\ Elapsed(tick, now) \in Nat
              /\ silence[n] \in Nat /\ silence' = silence
          BY <1>4, <2>1, <3>1, ClockTypes, ElapsedType, OracleConstants
        <5> QED BY <3>6, <5>3, <5>4, Thresholds, MonitorConstants DEF Silent
      <4> QED BY <2>4, <3>1, <3>4, <4>1, <4>2 DEF StaysSilence, NODE_SUSPECT, NODE_DOWN
    <3> QED BY <2>1, <3>3, <3>5, <3>6
  <2> QED BY <2>3, <2>4
<1>12. CASE StoreDecided \/ StoreRecovered
  <2>1. /\ pc \in Owing /\ UNCHANGED <<tick, now, silence, verdict, raced>>
        /\ WritesSlot(store.slot)
        /\ table'[store.slot].last_seen_ms = table[store.slot].last_seen_ms
        /\ table'[store.slot].miss_count = table[store.slot].miss_count
        /\ pc = "decided" => table'[store.slot].suspect_since_ms
                                = table[store.slot].suspect_since_ms
    BY <1>12, StoreStep
  <2>2. /\ j \in 1 .. Len(table)
        /\ table'[j].node_id = table[j].node_id
        /\ table'[j].last_seen_ms = table[j].last_seen_ms
        /\ table'[j].miss_count = table[j].miss_count
        /\ \/ table'[j].suspect_since_ms = table[j].suspect_since_ms
           \/ pc = "recovered" /\ j = store.slot
    BY <2>1 DEF WritesSlot, Owing
  <2>3. pc = "recovered" => verdict'[table[store.slot].node_id] = NODE_UP
    BY <2>1 DEF Agreement, StoreIsVerdict
  <2>4. Passes(table[j].node_id)
    BY <1>4, <1>10, <2>1, <2>2
  <2> QED BY <1>0, <1>1, <2>1, <2>2, <2>3, <2>4, SameSlot
<1>13. CASE ApplyLog
  <2>1. PICK i \in 1 .. Len(table) :
              /\ WritesSlot(i)
              /\ table'[i].last_seen_ms = table[i].last_seen_ms
              /\ table'[i].miss_count = table[i].miss_count
              /\ table'[i].suspect_since_ms = table[i].suspect_since_ms
              /\ UNCHANGED <<tick, now, silence, verdict, raced>>
    BY <1>13, ApplyStep
  <2>2. /\ j \in 1 .. Len(table)
        /\ table'[j].node_id = table[j].node_id
        /\ table'[j].last_seen_ms = table[j].last_seen_ms
        /\ table'[j].miss_count = table[j].miss_count
        /\ table'[j].suspect_since_ms = table[j].suspect_since_ms
    BY <2>1 DEF WritesSlot
  <2>3. Passes(table[j].node_id)
    BY <1>4, <1>10, <2>1, <2>2
  <2> QED BY <1>0, <1>1, <2>1, <2>2, <2>3, SameSlot
<1> QED BY <1>6, <1>8, <1>9, <1>11, <1>12, <1>13 DEF Next, HealthTask, RaftTask

\* health_monitor_tick() accuses no node early while the log has room and no
\* announcement raced with the backlog: for every number of nodes, all
\* thresholds, every delay of health_task and every wrap-around of the tick
\* counter, a node shown SUSPECT or DOWN has been unheard as long as
\* health_monitor.h asks.
THEOREM SilentWhenSuspectedAlways == Spec => []SilentWhenSuspected
<1>1. Structure /\ Agreement /\ Timing => SilentWhenSuspected
  <2> SUFFICES ASSUME Structure, Agreement, Timing PROVE SilentWhenSuspected
    OBVIOUS
  <2>1. SUFFICES ASSUME ~Full, rpc = "idle", NEW i \in 1 .. Len(table),
                        table[i].node_id \notin raced, ~Storing(i)
                 PROVE  /\ table[i].status = NODE_SUSPECT =>
                              silence[table[i].node_id] >= SuspectAfter
                        /\ table[i].status = NODE_DOWN =>
                              silence[table[i].node_id] >= DownAfter
    BY DEF SilentWhenSuspected, SuspicionIsSilence
  <2> DEFINE n == table[i].node_id
  <2>2. table[i].status = verdict[n]
    BY <2>1 DEF Agreement, TableIsVerdict, Applying
  <2>3. SlotIsSilence(table[i])
    BY DEF Timing
  <2>4. /\ silence[n] \in Nat /\ Elapsed(tick, now) \in Nat
        /\ Elapsed(now, table[i].suspect_since_ms) \in Nat
    BY ClockTypes, ElapsedType, OracleConstants
  <2>5. table[i].status = NODE_SUSPECT => silence[n] >= SuspectAfter
    <3>1. table[i].status = NODE_SUSPECT =>
             Silent(silence[n], tick, now,
                    SuspectAfter + Elapsed(now, table[i].suspect_since_ms))
      BY <2>1, <2>2, <2>3 DEF SlotIsSilence, SilentFor
    <3> QED BY <2>4, <3>1, Thresholds, MonitorConstants DEF Silent
  <2>6. table[i].status = NODE_DOWN => silence[n] >= DownAfter
    BY <2>1, <2>2, <2>3 DEF SlotIsSilence
  <2> QED BY <2>5, <2>6
<1>2. (Structure /\ Agreement) /\ Timing /\ [Next]_vars => Timing'
  BY TimingNext
<1> QED BY TimingInit, <1>1, <1>2, AgreementInvariant, PTL DEF Spec

-----------------------------------------------------------------------------
(* The failure detector the tasks implement *)

\* A node is only doubted after it was given a slot.
StrangersUp ==
    \A n \in Nodes :
        (\A i \in 1 .. Len(table) : table[i].node_id # n) => verdict[n] = NODE_UP

\* A node with entries in the log has a last one.  No prover here finds the
\* largest element of a set of numbers, so it is kept from step to step.
EntriesEnd ==
    \A k \in 1 .. Len(log) : \E l \in 1 .. Len(log) : IsLast(l, log[k].node)

Tracked == Structure /\ Agreement /\ Timing /\ StrangersUp /\ EntriesEnd

\* Nothing is doubted and nothing logged at the start.
LEMMA TrackedInit == Init => Tracked
<1> SUFFICES ASSUME Init PROVE Tracked
  OBVIOUS
<1>1. StrangersUp
  BY DEF Init, StrangersUp
<1>2. EntriesEnd
  BY DEF Init, EntriesEnd
<1> QED BY <1>1, <1>2, StructureInit, AgreementInit, TimingInit DEF Tracked

\* A slot stays with its node.
LEMMA SlotsKept ==
    ASSUME Structure, [Next]_vars PROVE SameSlots(table, table')
<1>1. Len(table) \in Nat
  BY LogTypes
<1>2. ASSUME NEW i, WritesSlot(i) PROVE SameSlots(table, table')
  BY <1>1, <1>2 DEF WritesSlot, SameSlots
<1>3. CASE Quiet \/ Leads
  BY <1>1, <1>3 DEF Quiet, Leads, SameSlots
<1> QED BY <1>2, <1>3, StepKinds DEF Stores, Decides, Announces, Applies

\* Only a node with a slot is decided upon.
LEMMA StrangersNext ==
    ASSUME Structure, StrangersUp, [Next]_vars PROVE StrangersUp'
<1>1. /\ Len(table) \in Nat /\ Len(table') \in Nat
      /\ verdict \in [Nodes -> Statuses]
      /\ \A i \in 1 .. Len(table) : table[i].node_id \in Nodes
  BY StructureNext, LogTypes, StructureTable DEF Structure, TypeOK, TableTypeOK
<1>2. \A i \in 1 .. Len(table) : i \in 1 .. Len(table') /\ table'[i].node_id = table[i].node_id
  BY <1>1, SlotsKept DEF SameSlots
<1>3. \/ UNCHANGED verdict
      \/ \E i \in 1 .. Len(table), new \in Statuses :
            verdict' = [verdict EXCEPT ![table[i].node_id] = new]
      \/ \E src \in Nodes : verdict' = [verdict EXCEPT ![src] = NODE_UP]
  BY StepKinds DEF Quiet, Stores, Leads, Decides, Announces, Applies
<1>4. SUFFICES ASSUME NEW n \in Nodes, \A i \in 1 .. Len(table') : table'[i].node_id # n
               PROVE  verdict'[n] = NODE_UP
  BY DEF StrangersUp
<1>5. \A i \in 1 .. Len(table) : table[i].node_id # n
  BY <1>2, <1>4
<1>6. verdict[n] = NODE_UP
  BY <1>5 DEF StrangersUp
<1> QED BY <1>1, <1>3, <1>5, <1>6

\* A logged transition is the last one of its node.
LEMMA EntriesEndNext ==
    ASSUME Structure, EntriesEnd, [Next]_vars PROVE EntriesEnd'
<1>1. Len(log) \in Nat
  BY LogTypes
<1>2. CASE log' = log
  BY <1>2 DEF EntriesEnd, IsLast
<1>3. ASSUME NEW n, NEW old, NEW new, Logs(n, old, new), log' # log
      PROVE  EntriesEnd'
  <2> DEFINE z == Len(log) + 1
  <2>1. /\ Len(log') = z /\ log'[z].node = n
        /\ \A k \in 1 .. Len(log) : log'[k] = log[k]
    BY <1>1, <1>3 DEF Logs
  <2>2. SUFFICES ASSUME NEW k \in 1 .. Len(log')
                 PROVE  \E l \in 1 .. Len(log') :
                           /\ log'[l].node = log'[k].node
                           /\ \A m \in l + 1 .. Len(log') : log'[m].node # log'[k].node
    BY DEF EntriesEnd, IsLast
  <2>3. CASE log'[k].node = n
    <3>1. z \in 1 .. Len(log') /\ z + 1 .. Len(log') = {}
      BY <1>1, <2>1
    <3> QED BY <2>1, <2>3, <3>1
  <2>4. CASE log'[k].node # n
    <3>1. k \in 1 .. Len(log) /\ log'[k] = log[k]
      BY <1>1, <2>1, <2>4
    <3>2. PICK l \in 1 .. Len(log) : IsLast(l, log[k].node)
      BY <3>1 DEF EntriesEnd
    <3>3. \A m \in l + 1 .. Len(log') : log'[m].node # log[k].node
      BY <1>1, <2>1, <2>4, <3>1, <3>2 DEF IsLast
    <3>4. l \in 1 .. Len(log') /\ log'[l].node = log[k].node
      BY <1>1, <2>1, <3>2 DEF IsLast
    <3> QED BY <3>1, <3>3, <3>4
  <2> QED BY <2>3, <2>4
<1> QED BY <1>2, <1>3, StepKinds DEF Quiet, Stores, Leads, Decides, Announces, Applies

\* Everything Shown depends on is kept.
LEMMA TrackedInvariant == Spec => []Tracked
<1>1. Tracked /\ [Next]_vars => Tracked'
  BY StructureNext, AgreementNext, TimingNext, StrangersNext, EntriesEndNext DEF Tracked
<1> QED BY TrackedInit, <1>1, PTL DEF Spec

\* LastEntry finds the last entry.
LEMMA LastEntryIsLast ==
    ASSUME Structure, NEW n, NEW k \in 1 .. Len(log), IsLast(k, n)
    PROVE  LastEntry(n) = k
<1> DEFINE ks == {j \in 1 .. Len(log) : log[j].node = n}
           c == CHOOSE j \in ks : \A i \in ks : i <= j
<1>1. Len(log) \in Nat
  BY LogTypes
<1>2. k \in ks
  BY DEF IsLast
<1>3. \A i \in ks : i <= k
  BY <1>1 DEF IsLast
<1>4. c \in ks /\ \A i \in ks : i <= c
  <2> HIDE DEF ks
  <2> QED BY <1>2, <1>3
<1>5. LastEntry(n) = c
  BY <1>2 DEF LastEntry
<1>6. c <= k /\ k <= c /\ c \in Int
  BY <1>1, <1>2, <1>3, <1>4
<1> QED BY <1>5, <1>6

\* What Shown gives for a node without a slot, and for the node of slot i.
ShownBySlot(n) ==
    /\ (\A i \in 1 .. Len(table) : table[i].node_id # n) => Shown[n] = NODE_UP
    /\ \A i \in 1 .. Len(table) : table[i].node_id = n =>
          /\ Storing(i) => Shown[n] = store.status
          /\ ~Storing(i) /\ Applying(i) => Shown[n] = log[LastEntry(n)].new
          /\ ~Storing(i) /\ ~Applying(i) => Shown[n] = table[i].status

\* find_node() finds the one slot of a node.
LEMMA ShownCases == Structure => \A n \in Nodes : ShownBySlot(n)
<1> SUFFICES ASSUME Structure, NEW n \in Nodes PROVE ShownBySlot(n)
  OBVIOUS
<1> DEFINE i == find_node(table, n)
<1>1. table \in Seq(Slots) /\ Len(table) \in Nat
  BY StructureTable DEF GoodTable
<1>2. /\ i \in 0 .. Len(table) /\ (i # 0 => table[i].node_id = n)
      /\ i = 0 => \A j \in 1 .. Len(table) : table[j].node_id # n
  BY <1>1, FindNode
<1>3. Shown[n] = CASE i = 0 -> NODE_UP
                   [] i # 0 /\ Storing(i) -> store.status
                   [] i # 0 /\ ~Storing(i) /\ rpc = "apply" /\ Backlog(n) ->
                         log[LastEntry(n)].new
                   [] i # 0 /\ ~Storing(i) /\ ~(rpc = "apply" /\ Backlog(n)) ->
                         table[i].status
  BY DEF Shown
<1> HIDE DEF i
<1>4. /\ i = 0 => Shown[n] = NODE_UP
      /\ i # 0 /\ Storing(i) => Shown[n] = store.status
      /\ i # 0 /\ ~Storing(i) /\ rpc = "apply" /\ Backlog(n) =>
            Shown[n] = log[LastEntry(n)].new
      /\ i # 0 /\ ~Storing(i) /\ ~(rpc = "apply" /\ Backlog(n)) =>
            Shown[n] = table[i].status
  BY <1>3
<1>5. ASSUME NEW j \in 1 .. Len(table), table[j].node_id = n PROVE i = j /\ i # 0
  <2>1. i # 0
    BY <1>2, <1>5
  <2>2. i \in 1 .. Len(table) /\ table[i].node_id = n
    BY <1>1, <1>2, <2>1
  <2> QED BY <1>5, <2>1, <2>2, LogTypes
<1>6. (\A j \in 1 .. Len(table) : table[j].node_id # n) => i = 0
  BY <1>1, <1>2
<1> QED BY <1>4, <1>5, <1>6 DEF ShownBySlot, Applying

\* The same after a step.
LEMMA ShownCasesNext == Structure' => \A n \in Nodes : ShownBySlot(n)'
<1>1. (Structure => \A n \in Nodes : ShownBySlot(n))'
  BY ShownCases, PTL
<1> QED BY <1>1

\* The last entry of a node with a backlog is part of the backlog.
LEMMA BacklogEnd ==
    ASSUME Structure, EntriesEnd, NEW n \in Nodes, Backlog(n)
    PROVE  /\ LastEntry(n) \in applied + 1 .. Len(log) /\ LastEntry(n) \in 1 .. Len(log)
           /\ IsLast(LastEntry(n), n)
<1>1. Len(log) \in Nat /\ applied \in 0 .. Len(log)
  BY LogTypes
<1>2. PICK k \in applied + 1 .. Len(log) : log[k].node = n
  BY DEF Backlog
<1>3. k \in 1 .. Len(log)
  BY <1>1, <1>2
<1>4. PICK l \in 1 .. Len(log) : IsLast(l, n)
  BY <1>2, <1>3 DEF EntriesEnd
<1>5. LastEntry(n) = l
  BY <1>4, LastEntryIsLast
<1>6. k <= l
  BY <1>1, <1>2, <1>3, <1>4 DEF IsLast
<1>7. l \in applied + 1 .. Len(log)
  BY <1>1, <1>2, <1>4, <1>6
<1> QED BY <1>4, <1>5, <1>7

\* Shown is a status, and for the nodes the detector answers for it is the
\* one health_task decided last.
LEMMA ShownVerdict ==
    Tracked =>
        /\ Shown \in [Nodes -> Statuses]
        /\ \A n \in Nodes : n \notin raced /\ ~Full => Shown[n] = verdict[n]
<1> SUFFICES ASSUME Tracked, NEW n \in Nodes
             PROVE  /\ Shown[n] \in Statuses
                    /\ n \notin raced /\ ~Full => Shown[n] = verdict[n]
  BY DEF Shown
<1> USE DEF Tracked
<1>1. /\ verdict[n] \in Statuses /\ NODE_UP \in Statuses
      /\ \A k \in 1 .. Len(log) : log[k].new \in Statuses
      /\ \A i \in 1 .. Len(table) : table[i].status \in Statuses
      /\ store.status \in Statuses
  <2>1. /\ log \in Seq(Transitions) /\ store.status \in Statuses
    BY DEF Structure, TypeOK, RaftTypeOK, TaskTypeOK
  <2>2. \A k \in 1 .. Len(log) : log[k] \in Transitions
    BY <2>1
  <2>3. \A i \in 1 .. Len(table) : table[i] \in Slots
    BY ClockTypes
  <2> QED BY <2>1, <2>2, <2>3, LogTypes DEF Transitions, Slots, Slot, Statuses
<1>2. CASE \A i \in 1 .. Len(table) : table[i].node_id # n
  BY <1>1, <1>2, ShownCases DEF ShownBySlot, StrangersUp
<1>3. ASSUME NEW i \in 1 .. Len(table), table[i].node_id = n
      PROVE  /\ Shown[n] \in Statuses
             /\ n \notin raced /\ ~Full => Shown[n] = verdict[n]
  <2>1. CASE Storing(i)
    BY <1>1, <1>3, <2>1, ShownCases DEF ShownBySlot, Agreement, StoreIsVerdict, Storing, Owing
  <2>2. CASE ~Storing(i) /\ Applying(i)
    <3>1. Backlog(n)
      BY <1>3, <2>2 DEF Applying
    <3>2. /\ LastEntry(n) \in applied + 1 .. Len(log) /\ LastEntry(n) \in 1 .. Len(log)
          /\ IsLast(LastEntry(n), n)
      BY <3>1, BacklogEnd
    <3>3. Shown[n] = log[LastEntry(n)].new
      BY <1>3, <2>2, ShownCases DEF ShownBySlot
    <3> QED BY <1>1, <3>2, <3>3 DEF Agreement, BacklogEndsInVerdict
  <2>3. CASE ~Storing(i) /\ ~Applying(i)
    BY <1>1, <1>3, <2>3, ShownCases DEF ShownBySlot, Agreement, TableIsVerdict
  <2> QED BY <2>1, <2>2, <2>3
<1> QED BY <1>2, <1>3

\* The same after a step.
LEMMA ShownVerdictNext ==
    ASSUME Tracked, [Next]_vars
    PROVE  /\ Shown' \in [Nodes -> Statuses]
           /\ \A n \in Nodes : n \notin raced' /\ ~Full' => Shown'[n] = verdict'[n]
<1>1. Tracked'
  BY StructureNext, AgreementNext, TimingNext, StrangersNext, EntriesEndNext DEF Tracked
<1>2. (Tracked =>
        /\ Shown \in [Nodes -> Statuses]
        /\ \A n \in Nodes : n \notin raced /\ ~Full => Shown[n] = verdict[n])'
  BY ShownVerdict, PTL
<1> QED BY <1>1, <1>2

\* The detector answers for node n.
Answers(n) == n \notin raced /\ ~Full

\* Through every step, also the one that fills the log and the one that puts
\* its node in raced, Shown follows what health_task decides.
LEMMA ShownFollows ==
    ASSUME Tracked, [Next]_vars, NEW n \in Nodes, Answers(n)
    PROVE  Shown[n] = verdict[n] /\ Shown'[n] = verdict'[n]
<1>1. Shown[n] = verdict[n]
  BY ShownVerdict DEF Answers
<1>2. CASE n \notin raced' /\ ~Full'
  BY <1>1, <1>2, ShownVerdictNext
<1>3. /\ Structure /\ Structure' /\ Agreement /\ StrangersUp'
  BY StructureNext, StrangersNext DEF Tracked
<1>4. ShownBySlot(n)'
  BY <1>3, ShownCasesNext
<1>5. CASE \A i \in 1 .. Len(table') : table'[i].node_id # n
  BY <1>1, <1>3, <1>4, <1>5 DEF ShownBySlot, StrangersUp
<1>6. ASSUME NEW j \in 1 .. Len(table'), table'[j].node_id = n,
             NEW i \in 1 .. Len(table), NEW new \in Statuses, Decides(i, new)
      PROVE  Shown'[n] = verdict'[n]
  <2>1. /\ j \in 1 .. Len(table) /\ table[j].node_id = n /\ ~Applying(j)'
        /\ ~Storing(j) /\ ~Applying(j)
    BY <1>6 DEF Decides, WritesSlot, Storing, Applying, Owing
  <2>2. CASE j = i
    <3>1. Storing(j)' /\ store'.status = new /\ verdict'[n] = new
      BY <1>3, <1>6, <2>1, <2>2, LogTypes DEF Decides, Storing, Owing
    <3> QED BY <1>4, <1>6, <3>1 DEF ShownBySlot
  <2>3. CASE j # i
    <3>1. ~Storing(j)' /\ table'[j] = table[j] /\ table[i].node_id # n
      BY <1>3, <1>6, <2>1, <2>3, LogTypes DEF Decides, Storing, WritesSlot
    <3>2. verdict'[n] = verdict[n]
      BY <1>3, <1>6, <3>1, LogTypes DEF Decides
    <3>3. table[j].status = verdict[n]
      BY <1>3, <2>1 DEF Agreement, TableIsVerdict, Answers
    <3> QED BY <1>4, <1>6, <2>1, <3>1, <3>2, <3>3 DEF ShownBySlot
  <2> QED BY <2>2, <2>3
<1>7. ASSUME NEW j \in 1 .. Len(table'), table'[j].node_id = n, Announces(n)
      PROVE  Shown'[n] = verdict'[n]
  <2>1. ~Storing(j)' /\ ~Applying(j)' /\ table'[j].status = NODE_UP
    BY <1>7 DEF Announces, Storing, Applying, Owing
  <2>2. verdict'[n] = NODE_UP
    BY <1>3, <1>7, LogTypes DEF Announces
  <2> QED BY <1>4, <1>7, <2>1, <2>2 DEF ShownBySlot
<1>8. \/ (n \notin raced' /\ ~Full')
      \/ Announces(n)
      \/ \E i \in 1 .. Len(table), new \in Statuses : Decides(i, new)
  <2>1. CASE \E src \in Nodes : Announces(src)
    BY <2>1 DEF Announces, Answers, Full
  <2>2. CASE Quiet \/ Stores \/ Leads \/ \E i \in 1 .. Len(table) : Applies(i)
    BY <2>2 DEF Quiet, Stores, Leads, Applies, Answers, Full
  <2> QED BY <1>3, <2>1, <2>2, StepKinds
<1> QED BY <1>1, <1>2, <1>5, <1>6, <1>7, <1>8

\* The detector's bound is the one of this specification.
LEMMA BoundAnswers ==
    ASSUME Structure, NEW n PROVE Detector!Bound(n) <=> Answers(n)
BY LogTypes, OracleConstants DEF Detector!Bound, Answers, Full

\* A node whose verdict stays keeps its status.
LEMMA Keeps ==
    ASSUME Tracked, [Next]_vars, NEW S, S \subseteq Nodes,
           \A n \in S : verdict'[n] = verdict[n]
    PROVE  Detector!Keep(S)
<1>1. Shown' \in [Nodes -> Detector!Statuses]
  BY ShownVerdictNext DEF Detector!Statuses, Statuses
<1>2. \A n \in S : Detector!Bound(n) => Shown'[n] = Shown[n]
  BY ShownFollows, BoundAnswers DEF Tracked
<1> QED BY <1>1, <1>2 DEF Detector!Keep

\* A step that only writes the table moves no node the detector answers for.
LEMMA UnseenStep ==
    ASSUME Tracked, [Next]_vars, UNCHANGED <<silence, log, leader, raced, verdict>>
    PROVE  [Detector!Next]_(Detector!vars)
<1>1. Detector!Keep(Nodes)
  BY Keeps
<1>2. CASE Shown' = Shown
  BY <1>2 DEF Detector!vars
<1>3. CASE Shown' # Shown
  <2>1. Shown \in [Nodes -> Statuses] /\ Shown' \in [Nodes -> Statuses]
    BY ShownVerdict, ShownVerdictNext
  <2>2. PICK n \in Nodes : Shown'[n] # Shown[n]
    BY <1>3, <2>1
  <2>3. ~Detector!Bound(n)
    BY <2>2, ShownFollows, BoundAnswers DEF Tracked
  <2>4. Detector!Loose(n)
    BY <1>1, <2>3 DEF Detector!Loose
  <2> QED BY <2>4 DEF Detector!Next
<1> QED BY <1>2, <1>3

\* A decision is a move of the detector, or a loose one.
LEMMA DecisionMoves ==
    ASSUME Tracked, [Next]_vars, NEW i \in 1 .. Len(table), NEW new \in Statuses,
           Decides(i, new)
    PROVE  LET n == table[i].node_id
           IN  /\ n \in Nodes /\ Shown[n] = table[i].status
               /\ Answers(n) => Detector!Move(n, new)
               /\ ~Answers(n) /\ (UNCHANGED silence \/ Detector!Heard(n)) =>
                     Detector!Loose(n)
<1> DEFINE n == table[i].node_id
           x == [node |-> n, box |-> BOX_ID, old |-> table[i].status, new |-> new]
<1>1. Structure /\ n \in Nodes
  BY LogTypes DEF Tracked
<1>2. Shown[n] = table[i].status
  <2>1. ~Storing(i) /\ ~Applying(i)
    BY DEF Decides, Storing, Applying, Owing
  <2> QED BY <1>1, <2>1, ShownCases DEF ShownBySlot
<1>3. verdict'[n] = new /\ \A m \in Nodes \ {n} : verdict'[m] = verdict[m]
  BY <1>1, LogTypes DEF Decides
<1>4. UNCHANGED <<leader, raced>> /\ log' = IF leader /\ ~Full THEN Append(log, x) ELSE log
  BY DEF Decides, Logs, Appends
<1>5. table[i].status \in Detector!Statuses /\ new \in Detector!Statuses
  <2>1. table[i] \in Slots
    BY <1>1, ClockTypes
  <2> QED BY <2>1 DEF Detector!Statuses, Statuses, Slots, Slot
<1> HIDE DEF n
<1>6. ASSUME Answers(n) PROVE Detector!Move(n, new)
  <2>1. Detector!Bound(n) /\ ~Full
    BY <1>1, <1>6, BoundAnswers DEF Answers
  <2>2. Shown'[n] = new
    BY <1>1, <1>3, <1>6, ShownFollows
  <2>3. Detector!Keep(Nodes \ {n})
    BY <1>3, Keeps
  <2>4. log' = IF leader THEN Append(log, [node |-> n, box |-> BOX_ID,
                                           old |-> Shown[n], new |-> new]) ELSE log
    BY <1>2, <1>4, <2>1
  <2> QED BY <1>4, <2>1, <2>2, <2>3, <2>4 DEF Detector!Move
<1>7. ASSUME ~Answers(n), UNCHANGED silence \/ Detector!Heard(n)
      PROVE  Detector!Loose(n)
  <2>1. ~Detector!Bound(n)
    BY <1>1, <1>7, BoundAnswers
  <2>2. Detector!Keep(Nodes)
    <3>1. Detector!Keep(Nodes \ {n})
      BY <1>3, Keeps
    <3> QED BY <2>1, <3>1 DEF Detector!Keep
  <2>3. \/ UNCHANGED log
        \/ leader /\ Len(log) < LOG_CAPACITY /\ log' = Append(log, x)
    BY <1>1, <1>4, LogTypes, OracleConstants DEF Full
  <2> QED BY <1>4, <1>5, <1>7, <2>1, <2>2, <2>3 DEF Detector!Loose
<1> QED BY <1>1, <1>2, <1>6, <1>7 DEF n

\* health_monitor_process_heartbeat() clears its node, or finds it clear.
LEMMA HeartbeatDetects ==
    ASSUME Tracked, ProcessHeartbeat PROVE Detector!Next
<1>1. Structure /\ Next
  BY DEF Tracked, Next, HealthTask
<1>2. PICK src \in Nodes :
              /\ Hears(src) /\ UNCHANGED raced
              /\ \/ /\ \A i \in 1 .. Len(table) : table[i].node_id # src
                    /\ UNCHANGED <<log, verdict>>
                 \/ \E i \in 1 .. Len(table) :
                       /\ table[i].node_id = src
                       /\ WritesSlot(i)
                       /\ table'[i].status = table[i].status
                       /\ \/ /\ table[i].status = NODE_UP
                             /\ UNCHANGED <<log, verdict>>
                          \/ /\ table[i].status \in {NODE_SUSPECT, NODE_DOWN}
                             /\ Logs(src, table[i].status, NODE_UP)
                             /\ store' = [slot |-> i, status |-> NODE_UP]
                             /\ verdict' = [verdict EXCEPT ![src] = NODE_UP]
                             /\ pc' = "recovered"
  BY <1>1, HeartbeatStep
<1>3. Detector!Heard(src) /\ UNCHANGED <<leader, raced>>
  BY <1>2 DEF Hears, Detector!Heard
<1>4. ASSUME Shown[src] = NODE_UP, UNCHANGED <<log, verdict>>
      PROVE  Detector!Heartbeat(src)
  <2>1. Detector!Keep(Nodes)
    BY <1>1, <1>4, Keeps
  <2> QED BY <1>3, <1>4, <2>1 DEF Detector!Heartbeat
<1>5. CASE (\A i \in 1 .. Len(table) : table[i].node_id # src) /\ UNCHANGED <<log, verdict>>
  <2>1. Shown[src] = NODE_UP
    BY <1>1, <1>5, ShownCases DEF ShownBySlot
  <2> QED BY <1>4, <1>5, <2>1 DEF Detector!Next
<1>6. ASSUME NEW i \in 1 .. Len(table), table[i].node_id = src, table[i].status = NODE_UP,
             UNCHANGED <<log, verdict>>
      PROVE  Detector!Next
  <2>1. ~Storing(i) /\ ~Applying(i)
    BY <1>2 DEF Hears, Storing, Applying
  <2>2. Shown[src] = NODE_UP
    BY <1>1, <1>6, <2>1, ShownCases DEF ShownBySlot
  <2> QED BY <1>4, <1>6, <2>2 DEF Detector!Next
<1>7. ASSUME NEW i \in 1 .. Len(table), table[i].node_id = src, WritesSlot(i),
             table'[i].status = table[i].status,
             table[i].status \in {NODE_SUSPECT, NODE_DOWN},
             Logs(src, table[i].status, NODE_UP),
             store' = [slot |-> i, status |-> NODE_UP],
             verdict' = [verdict EXCEPT ![src] = NODE_UP],
             pc' = "recovered"
      PROVE  Detector!Next
  <2>1. Decides(i, NODE_UP)
    <3>1. rpc = "idle" /\ pc \notin Owing /\ pc' \in Owing /\ UNCHANGED <<rpc, leader, applied, raced>>
      BY <1>2, <1>7 DEF Hears, Owing
    <3> QED BY <1>7, <3>1 DEF Decides
  <2>2. NODE_UP \in Statuses
    BY DEF Statuses
  <2>3. /\ Shown[src] = table[i].status
        /\ Answers(src) => Detector!Move(src, NODE_UP)
        /\ ~Answers(src) => Detector!Loose(src)
    BY <1>1, <1>3, <1>7, <2>1, <2>2, DecisionMoves
  <2>4. Shown[src] # NODE_UP
    BY <1>7, <2>3 DEF NODE_UP, NODE_SUSPECT, NODE_DOWN
  <2>5. Answers(src) => Detector!Heartbeat(src)
    BY <1>3, <2>3, <2>4 DEF Detector!Heartbeat
  <2> QED BY <2>3, <2>5 DEF Detector!Next
<1> QED BY <1>2, <1>5, <1>6, <1>7

\* health_monitor_process_announce() clears its node without a record.
LEMMA AnnounceDetects ==
    ASSUME Tracked, ProcessAnnounce PROVE Detector!Next
<1>1. Structure /\ Next
  BY DEF Tracked, Next, HealthTask
<1>2. PICK src \in Nodes :
              /\ Hears(src) /\ UNCHANGED log
              /\ raced' = IF Backlog(src) THEN raced \union {src} ELSE raced
              /\ verdict' = [verdict EXCEPT ![src] = NODE_UP]
  BY <1>1, AnnounceStep
<1>3. Detector!Heard(src) /\ UNCHANGED <<log, leader>>
  BY <1>2 DEF Hears, Detector!Heard
<1>4. verdict'[src] = NODE_UP /\ \A m \in Nodes \ {src} : verdict'[m] = verdict[m]
  BY <1>1, <1>2, LogTypes
<1>5. Detector!Keep(Nodes \ {src})
  BY <1>1, <1>4, Keeps
<1>6. Detector!Bound(src) => Shown'[src] = NODE_UP
  BY <1>1, <1>4, BoundAnswers, ShownFollows
<1>7. UNCHANGED raced \/ ((\E k \in 1 .. Len(log) : log[k].node = src) /\ raced' = raced \union {src})
  <2>1. applied + 1 .. Len(log) \subseteq 1 .. Len(log)
    BY <1>1, LogTypes
  <2> QED BY <1>2, <2>1 DEF Backlog
<1>8. Detector!Announce(src)
  BY <1>3, <1>5, <1>6, <1>7 DEF Detector!Announce
<1> QED BY <1>8 DEF Detector!Next

\* health_monitor_tick() doubts a node only after the silence the state
\* machine asks for.
LEMMA TickSlotDetects ==
    ASSUME Tracked, TickSlot PROVE [Detector!Next]_(Detector!vars)
<1>1. Structure /\ Agreement /\ Timing /\ Next
  BY DEF Tracked, Next, HealthTask
<1>2. PICK i \in 1 .. Len(table) :
              /\ rpc = "idle" /\ pc = "slot"
              /\ UNCHANGED <<rpc, leader, applied, silence, raced>>
              /\ WritesSlot(i)
              /\ table'[i].status = table[i].status
              /\ table'[i].miss_count = count_misses(table[i], now)
              /\ \/ UNCHANGED <<log, verdict>>
                 \/ \E new \in Statuses :
                       /\ Logs(table[i].node_id, table[i].status, new)
                       /\ store' = [slot |-> i, status |-> new]
                       /\ verdict' = [verdict EXCEPT ![table[i].node_id] = new]
                       /\ pc' = "decided"
                       /\ \/ /\ table[i].status = NODE_UP /\ new = NODE_SUSPECT
                             /\ table'[i].miss_count >= SUSPECT_THRESHOLD
                          \/ /\ table[i].status = NODE_SUSPECT /\ new = NODE_DOWN
                             /\ Elapsed(now, table[i].suspect_since_ms) >= DOWN_TIMEOUT_MS
  BY <1>1, TickSlotStep
<1>3. CASE UNCHANGED <<log, verdict>>
  BY <1>1, <1>2, <1>3, UnseenStep
<1>4. ASSUME NEW new \in Statuses,
             Logs(table[i].node_id, table[i].status, new),
             store' = [slot |-> i, status |-> new],
             verdict' = [verdict EXCEPT ![table[i].node_id] = new],
             pc' = "decided",
             \/ /\ table[i].status = NODE_UP /\ new = NODE_SUSPECT
                /\ table'[i].miss_count >= SUSPECT_THRESHOLD
             \/ /\ table[i].status = NODE_SUSPECT /\ new = NODE_DOWN
                /\ Elapsed(now, table[i].suspect_since_ms) >= DOWN_TIMEOUT_MS
      PROVE  Detector!Next
  <2> DEFINE n == table[i].node_id
  <2>1. Decides(i, new)
    <3>1. pc \notin Owing /\ pc' \in Owing /\ pc' # "recovered"
      BY <1>2, <1>4 DEF Owing
    <3> QED BY <1>2, <1>4, <3>1 DEF Decides
  <2>2. /\ n \in Nodes /\ Shown[n] = table[i].status
        /\ Answers(n) => Detector!Move(n, new)
        /\ ~Answers(n) => Detector!Loose(n)
    BY <1>1, <1>2, <2>1, DecisionMoves
  <2>3. /\ silence[n] \in 0 .. SILENCE_CAP /\ Elapsed(tick, now) \in Nat
        /\ Elapsed(now, table[i].suspect_since_ms) \in Nat
        /\ table[i] \in Slots /\ SlotIsSilence(table[i])
    BY <1>1, <2>2, ClockTypes, ElapsedType DEF Timing
  <2>4. ASSUME Answers(n), new = NODE_SUSPECT PROVE Detector!Suspect(n)
    <3>1. table[i].status = NODE_UP /\ count_misses(table[i], now) >= SUSPECT_THRESHOLD
      BY <1>2, <1>4, <2>4 DEF NODE_UP, NODE_SUSPECT, NODE_DOWN
    <3>2. SilentFor(n, SuspectAfter)
      BY <1>1, <2>3, <3>1, CountedSilence
    <3>3. silence[n] >= SuspectAfter
      BY <2>3, <3>2, Thresholds, MonitorConstants DEF SilentFor, Silent
    <3> QED BY <1>2, <2>2, <2>4, <3>1, <3>3 DEF Detector!Suspect
  <2>5. ASSUME Answers(n), new = NODE_DOWN PROVE Detector!GiveUp(n)
    <3>1. /\ table[i].status = NODE_SUSPECT
          /\ Elapsed(now, table[i].suspect_since_ms) >= DOWN_TIMEOUT_MS
      BY <1>4, <2>5 DEF NODE_UP, NODE_SUSPECT, NODE_DOWN
    <3>2. verdict[n] = NODE_SUSPECT
      BY <2>2, <2>5, <3>1, ShownVerdict DEF Answers
    <3>3. SilentFor(n, SuspectAfter + Elapsed(now, table[i].suspect_since_ms))
      BY <2>3, <2>5, <3>2 DEF SlotIsSilence, Answers
    <3>4. silence[n] >= DownAfter
      BY <2>3, <3>1, <3>3, Thresholds, MonitorConstants DEF SilentFor, Silent
    <3> QED BY <1>2, <2>2, <2>5, <3>1, <3>4 DEF Detector!GiveUp
  <2> HIDE DEF n
  <2> QED BY <1>4, <2>2, <2>4, <2>5 DEF Detector!Next
<1> QED BY <1>2, <1>3, <1>4

\* Each step of the tasks, the queue and the clock is a step of the detector
\* or none.
LEMMA StepDetects ==
    ASSUME Tracked, [Next]_vars PROVE [Detector!Next]_(Detector!vars)
<1>1. Structure
  BY DEF Tracked
<1>2. CASE Tick
  <2>1. UNCHANGED <<log, leader, raced, verdict>>
    BY <1>2 DEF Tick, raftVars
  <2>2. Detector!Keep(Nodes)
    BY <2>1, Keeps
  <2>3. Detector!Wait
    BY <1>2, <2>1, <2>2 DEF Tick, Detector!Wait
  <2> QED BY <2>3 DEF Detector!Next
<1>3. CASE OracleTick
  <2>1. leader' = TRUE /\ UNCHANGED <<silence, log, raced, verdict>>
    BY <1>3 DEF OracleTick, ghostVars
  <2>2. Detector!Keep(Nodes)
    BY <2>1, Keeps
  <2>3. Detector!Lead
    BY <2>1, <2>2 DEF Detector!Lead
  <2> QED BY <2>3 DEF Detector!Next
<1>4. CASE \/ ReceiveTimeout \/ TickBegin \/ TickEnd \/ RaftTimerCallback
           \/ UNCHANGED vars \/ \E m \in Frames : EthRx(m)
  <2>1. UNCHANGED <<silence, log, leader, raced, verdict>>
    BY <1>4 DEF EthRx, ReceiveTimeout, TickBegin, TickEnd, RaftTimerCallback, vars,
       raftVars, ghostVars
  <2> QED BY <2>1, UnseenStep
<1>5. CASE StoreDecided \/ StoreRecovered \/ ApplyLog
  <2>1. UNCHANGED <<silence, log, leader, raced, verdict>>
    BY <1>5 DEF StoreDecided, StoreRecovered, ApplyLog, raftVars, ghostVars
  <2> QED BY <2>1, UnseenStep
<1> QED BY <1>2, <1>3, <1>4, <1>5, HeartbeatDetects, AnnounceDetects, TickSlotDetects
        DEF Next, HealthTask, RaftTask

\* The firmware tasks implement the failure detector: for every number of
\* nodes, all thresholds and every interleaving of health_task, raft_task,
\* eth_rx_task and the clock, the table moves along the state machine of
\* health_monitor.h, after the silence it asks for, and
\* oracle_propose_health_transition() logs each move when it is made.
THEOREM LocalOracleIsFailureDetector == Spec => IsFailureDetector
<1>1. Init => Detector!Init
  <2> SUFFICES ASSUME Init PROVE Detector!Init
    OBVIOUS
  <2>1. \A n \in Nodes : Shown[n] = NODE_UP
    <3>1. Structure /\ Len(table) = 0
      BY StructureInit DEF Init
    <3> QED BY <3>1, ShownCases DEF ShownBySlot
  <2>2. Shown = [n \in Nodes |-> NODE_UP]
    BY <2>1 DEF Shown
  <2> QED BY <2>2 DEF Init, Detector!Init
<1>2. Tracked /\ [Next]_vars => [Detector!Next]_(Detector!vars)
  BY StepDetects
<1> QED BY <1>1, <1>2, TrackedInvariant, PTL DEF Spec, IsFailureDetector, Detector!Spec
=============================================================================
