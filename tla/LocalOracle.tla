---------------------------- MODULE LocalOracle ----------------------------
(***************************************************************************)
(* The firmware of one STM32 as main.c wires it: eth_rx_task feeding       *)
(* hb_inbox, health_task running the health state machine, and raft_task   *)
(* driving a Raft instance whose only member is this node.                 *)
(*                                                                         *)
(* health_task has a lower priority than raft_task, so raft_task may take  *)
(* the CPU between any two of its steps, and runs until its own work is    *)
(* done.  A step of health_task ends where the other task could observe    *)
(* something: propose_transition() first appends to the Raft log and then  *)
(* stores the status in the table, and raft_task can run in between.       *)
(***************************************************************************)
EXTENDS HealthMonitor

CONSTANTS
    Nodes,             \* compute nodes that may send frames
    BOX_ID,            \* the box of this STM32
    HB_INBOX_DEPTH,    \* capacity of hb_inbox
    LOG_CAPACITY,      \* ORACLE_MAX_LOG_ENTRIES: the log is never compacted
    SILENCE_CAP,       \* where the ghost clock silence stops counting
    MAX_LAG            \* ticks health_task may be late to finish an iteration

ASSUME OracleConstants ==
    /\ HB_INBOX_DEPTH \in Nat \ {0}
    /\ LOG_CAPACITY \in Nat
    /\ MAX_LAG \in Nat
    /\ SILENCE_CAP \in Nat
    /\ SILENCE_CAP >= SUSPECT_THRESHOLD * HB_INTERVAL_MS + DOWN_TIMEOUT_MS

VARIABLES
    tick,        \* xTickCount
    hb_inbox,    \* the queue from eth_rx_task to health_task
    table,       \* g_health_mon.table[0 .. n_nodes - 1]
    last_tick,   \* g_health_mon.last_tick_ms
    pc,          \* where health_task is
    now,         \* its local variable now
    cursor,      \* the loop index i of health_monitor_tick()
    store,       \* the e->status = new_status propose_transition() owes
    notified,    \* the notification raft_timer gives to raft_task
    rpc,         \* whether raft_task is inside raft_apply_all()
    leader,      \* raft_is_leader()
    log,         \* the Raft log: transitions [node, box, old, new]
    applied,     \* last applied index
    silence,     \* ghost: ticks since health_task last heard each node
    verdict,     \* ghost: the status health_task last decided for each node
    raced        \* ghost: nodes whose announcement was processed while
                 \* entries of theirs were waiting to be applied

monitorVars == <<table, last_tick>>
healthVars == <<pc, now, cursor, store>>
raftVars == <<notified, rpc, leader, log, applied>>
ghostVars == <<silence, verdict, raced>>
vars == <<tick, hb_inbox, monitorVars, healthVars, raftVars, ghostVars>>

Frames == [type : {"heartbeat", "announce"}, src : Nodes]
Transitions == [node : Nodes, box : {BOX_ID}, old : Statuses, new : Statuses]
NoStore == [slot |-> 0, status |-> NODE_UP]

Full == Len(log) >= LOG_CAPACITY

\* Node n has entries that are committed and not yet applied.
Backlog(n) == \E k \in applied + 1 .. Len(log) : log[k].node = n

Init ==
    /\ tick = 0
    /\ hb_inbox = <<>>
    /\ table = <<>> /\ last_tick = 0
    /\ pc = "recv" /\ now = 0 /\ cursor = 0 /\ store = NoStore
    /\ notified = FALSE /\ rpc = "idle" /\ leader = FALSE
    /\ log = <<>> /\ applied = 0
    /\ silence = [n \in Nodes |-> SILENCE_CAP]
    /\ verdict = [n \in Nodes |-> NODE_UP]
    /\ raced = {}

-----------------------------------------------------------------------------
(* The clock and eth_rx_task *)

\* An iteration of health_task waits HB_INTERVAL_MS at most; MAX_LAG is how
\* long the other tasks, the console and the scheduler may hold it up.
Tick ==
    /\ Elapsed(tick, now) < HB_INTERVAL_MS + MAX_LAG
    /\ tick' = IF tick = TICK_MOD - 1 THEN 0 ELSE tick + 1
    /\ silence' = [n \in Nodes |->
                     IF silence[n] < SILENCE_CAP THEN silence[n] + 1 ELSE silence[n]]
    /\ UNCHANGED <<hb_inbox, monitorVars, healthVars, raftVars, verdict, raced>>

\* Mutant of EthRx: the oldest frame of a full queue is not dropped.
EthRx_NoDrop(m) ==
    /\ hb_inbox' = Append(hb_inbox, m)
    /\ UNCHANGED <<tick, monitorVars, healthVars, raftVars, ghostVars>>

\* A 0x88B7 frame is queued for health_task; a full queue loses its oldest.
EthRx(m) ==
    /\ hb_inbox' = Append(IF Len(hb_inbox) < HB_INBOX_DEPTH
                          THEN hb_inbox ELSE Tail(hb_inbox), m)
    /\ UNCHANGED <<tick, monitorVars, healthVars, raftVars, ghostVars>>

-----------------------------------------------------------------------------
(* health_task *)

\* Mutants of Propose: it does not ask who leads; recoveries are not proposed.
Propose_Unled(e, new) ==
    log' = IF ~Full
           THEN Append(log, [node |-> e.node_id, box |-> e.box_id,
                             old |-> e.status, new |-> new])
           ELSE log

Propose_FailuresOnly(e, new) ==
    log' = IF leader /\ ~Full /\ new # NODE_UP
           THEN Append(log, [node |-> e.node_id, box |-> e.box_id,
                             old |-> e.status, new |-> new])
           ELSE log

\* oracle_propose_health_transition(): refused unless leader, fails when the
\* log is full.  A single-member cluster commits the entry on append.
Propose(e, new) ==
    log' = IF leader /\ ~Full
           THEN Append(log, [node |-> e.node_id, box |-> e.box_id,
                             old |-> e.status, new |-> new])
           ELSE log

HealthRuns(at) == pc = at /\ rpc = "idle"

NextFrame(type) ==
    /\ HealthRuns("recv")
    /\ hb_inbox # <<>>
    /\ Head(hb_inbox).type = type
    /\ hb_inbox' = Tail(hb_inbox)
    /\ now' = tick
    /\ silence' = [silence EXCEPT ![Head(hb_inbox).src] = 0]

Recovers(i) == table[i].status \in {NODE_SUSPECT, NODE_DOWN}

\* health_monitor_process_heartbeat() up to the store of the status.
ProcessHeartbeat ==
    /\ NextFrame("heartbeat")
    /\ LET src == Head(hb_inbox).src
           idx == find_node(table, src)
       IN  \/ /\ idx = 0
              /\ pc' = "tick"
              /\ UNCHANGED <<table, store, log, verdict>>
           \/ /\ idx # 0 /\ ~Recovers(idx)
              /\ table' = [table EXCEPT ![idx] = heartbeat_seen(@, tick)]
              /\ pc' = "tick"
              /\ UNCHANGED <<store, log, verdict>>
           \/ /\ idx # 0 /\ Recovers(idx)
              /\ table' = [table EXCEPT ![idx] = heartbeat_seen(@, tick)]
              /\ Propose(table[idx], NODE_UP)
              /\ store' = [slot |-> idx, status |-> NODE_UP]
              /\ verdict' = [verdict EXCEPT ![src] = NODE_UP]
              /\ pc' = "recovered"
    /\ UNCHANGED <<tick, last_tick, cursor, notified, rpc, leader, applied, raced>>

ProcessAnnounce ==
    /\ NextFrame("announce")
    /\ LET src == Head(hb_inbox).src
       IN  /\ table' = process_announce(table, src, BOX_ID, tick)
           /\ raced' = IF Backlog(src) THEN raced \union {src} ELSE raced
           /\ verdict' = [verdict EXCEPT ![src] = NODE_UP]
    /\ pc' = "tick"
    /\ UNCHANGED <<tick, last_tick, cursor, store, raftVars>>

\* Mutant of ReceiveTimeout: the tick runs only after a frame.
ReceiveTimeout_NoTick ==
    /\ HealthRuns("recv")
    /\ hb_inbox = <<>>
    /\ Elapsed(tick, now) >= HB_INTERVAL_MS
    /\ now' = tick
    /\ UNCHANGED <<tick, hb_inbox, monitorVars, pc, cursor, store, raftVars, ghostVars>>

\* xQueueReceive() times out; now keeps the value read before the wait.
ReceiveTimeout ==
    /\ HealthRuns("recv")
    /\ hb_inbox = <<>>
    /\ Elapsed(tick, now) >= HB_INTERVAL_MS
    /\ pc' = "tick"
    /\ UNCHANGED <<tick, hb_inbox, monitorVars, now, cursor, store, raftVars, ghostVars>>

\* health_monitor_tick(): nothing happens on the first call and when no time
\* has passed since the last one.
TickBegin ==
    /\ HealthRuns("tick")
    /\ last_tick' = now
    /\ IF last_tick = 0 \/ Elapsed(now, last_tick) = 0
       THEN pc' = "recv" /\ now' = tick /\ UNCHANGED cursor
       ELSE pc' = "slot" /\ cursor' = 1 /\ UNCHANGED now
    /\ UNCHANGED <<tick, hb_inbox, table, store, raftVars, ghostVars>>

\* One iteration of its loop, up to the store of the status.  Every slot is
\* of this box, so corroborated() is true, and a proposal that is refused
\* because this node does not lead leaves the same local status.
TickSlot ==
    /\ HealthRuns("slot")
    /\ cursor <= Len(table)
    /\ LET e == [table[cursor] EXCEPT !.miss_count = count_misses(table[cursor], now)]
           new == tick_status(e, now, TRUE)
       IN  \/ /\ new = e.status
              /\ table' = [table EXCEPT ![cursor] = e]
              /\ cursor' = cursor + 1
              /\ UNCHANGED <<pc, store, log, verdict>>
           \/ /\ new # e.status
              /\ table' = [table EXCEPT ![cursor] =
                             IF new = NODE_SUSPECT
                             THEN [e EXCEPT !.suspect_since_ms = now] ELSE e]
              /\ Propose(e, new)
              /\ store' = [slot |-> cursor, status |-> new]
              /\ verdict' = [verdict EXCEPT ![e.node_id] = new]
              /\ pc' = "decided"
              /\ UNCHANGED cursor
    /\ UNCHANGED <<tick, hb_inbox, last_tick, now, notified, rpc, leader, applied,
                   silence, raced>>

\* The last store of propose_transition() in a tick.
StoreDecided ==
    /\ HealthRuns("decided")
    /\ table' = [table EXCEPT ![store.slot].status = store.status]
    /\ store' = NoStore
    /\ pc' = "slot"
    /\ cursor' = cursor + 1
    /\ UNCHANGED <<tick, hb_inbox, last_tick, now, raftVars, ghostVars>>

\* ... and in process_heartbeat(), which then clears suspect_since_ms.
StoreRecovered ==
    /\ HealthRuns("recovered")
    /\ table' = [table EXCEPT ![store.slot] =
                    [@ EXCEPT !.status = store.status, !.suspect_since_ms = 0]]
    /\ store' = NoStore
    /\ pc' = "tick"
    /\ UNCHANGED <<tick, hb_inbox, last_tick, now, cursor, raftVars, ghostVars>>

\* The loop is over: health_task reads the clock and waits for a frame.
TickEnd ==
    /\ HealthRuns("slot")
    /\ cursor > Len(table)
    /\ pc' = "recv" /\ now' = tick /\ cursor' = 0
    /\ UNCHANGED <<tick, hb_inbox, monitorVars, store, raftVars, ghostVars>>

HealthTask ==
    \/ ProcessHeartbeat \/ ProcessAnnounce \/ ReceiveTimeout
    \/ TickBegin \/ TickSlot \/ StoreDecided \/ StoreRecovered \/ TickEnd

-----------------------------------------------------------------------------
(* raft_timer and raft_task *)

RaftTimerCallback ==
    /\ notified' = TRUE
    /\ UNCHANGED <<tick, hb_inbox, monitorVars, healthVars, rpc, leader, log,
                   applied, ghostVars>>

\* Mutant of OracleTick: what is committed is not applied.
OracleTick_NoApply ==
    /\ rpc = "idle"
    /\ notified
    /\ notified' = FALSE
    /\ leader' = TRUE
    /\ UNCHANGED <<tick, hb_inbox, monitorVars, healthVars, rpc, log, applied,
                   ghostVars>>

\* oracle_tick(): raft_periodic() makes the only member the leader and then
\* applies what is committed.
OracleTick ==
    /\ rpc = "idle"
    /\ notified
    /\ notified' = FALSE
    /\ leader' = TRUE
    /\ rpc' = IF applied < Len(log) THEN "apply" ELSE "idle"
    /\ UNCHANGED <<tick, hb_inbox, monitorVars, healthVars, log, applied,
                   ghostVars>>

\* One round of raft_apply_all(): cb_applylog() of the next entry.
ApplyLog ==
    /\ rpc = "apply"
    /\ table' = health_table_apply(table, log[applied + 1])
    /\ applied' = applied + 1
    /\ rpc' = IF applied + 1 < Len(log) THEN "apply" ELSE "idle"
    /\ UNCHANGED <<tick, hb_inbox, last_tick, healthVars, notified, leader, log,
                   ghostVars>>

RaftTask == OracleTick \/ ApplyLog

-----------------------------------------------------------------------------

Next ==
    \/ Tick
    \/ \E m \in Frames : EthRx(m)
    \/ HealthTask
    \/ RaftTimerCallback
    \/ RaftTask

Spec == Init /\ [][Next]_vars

-----------------------------------------------------------------------------
(* Properties *)

ClockTypeOK == tick \in Ticks /\ now \in Ticks /\ last_tick \in Ticks

QueueTypeOK == hb_inbox \in Seq(Frames) /\ Len(hb_inbox) <= HB_INBOX_DEPTH

TableTypeOK ==
    table \in Seq(Slot(Nodes, {BOX_ID})) /\ Len(table) <= MAX_HEALTH_NODES

TaskTypeOK ==
    /\ pc \in {"recv", "recovered", "tick", "slot", "decided"}
    /\ cursor \in Nat
    /\ store \in [slot : Nat, status : Statuses]
    /\ pc \in {"recovered", "decided"} => store.slot \in 1 .. Len(table)

RaftTypeOK ==
    /\ notified \in BOOLEAN /\ leader \in BOOLEAN
    /\ rpc \in {"idle", "apply"}
    /\ log \in Seq(Transitions) /\ Len(log) <= LOG_CAPACITY
    /\ applied \in 0 .. Len(log)
    /\ rpc = "apply" => applied < Len(log)

GhostTypeOK ==
    /\ silence \in [Nodes -> 0 .. SILENCE_CAP]
    /\ verdict \in [Nodes -> Statuses]
    /\ raced \subseteq Nodes

\* The program counters, the queue, the table, the log and the clocks have
\* the ranges that main.c, health_monitor.h and the library give them; in
\* particular hb_inbox, the table and the log never outgrow their capacity,
\* and no task indexes the table or the log outside its bounds.
TypeOK ==
    /\ ClockTypeOK /\ QueueTypeOK /\ TableTypeOK /\ TaskTypeOK
    /\ RaftTypeOK /\ GhostTypeOK

\* find_or_alloc() and health_table_apply() never give one node two slots,
\* however announcements and applied entries interleave.
NodeIdsUnique ==
    \A i, j \in 1 .. Len(table) : table[i].node_id = table[j].node_id => i = j

\* Silence after which the state machine of health_monitor.h may say SUSPECT
\* and, 50 ms later, DOWN.
SuspectAfter == SUSPECT_THRESHOLD * HB_INTERVAL_MS
DownAfter == SuspectAfter + DOWN_TIMEOUT_MS

\* health_task has decided a new status of slot i and not stored it yet.
Storing(i) == pc \in {"recovered", "decided"} /\ store.slot = i

\* Whenever health_task can look at the table, a node shown SUSPECT or DOWN
\* has really been unheard for as long as the thresholds "3 missed heartbeats"
\* and "50ms no recovery" of health_monitor.h ask.
SuspicionIsSilence(n) ==
    rpc = "idle" =>
        \A i \in 1 .. Len(table) :
            table[i].node_id = n /\ ~Storing(i) =>
                /\ table[i].status = NODE_SUSPECT => silence[n] >= SuspectAfter
                /\ table[i].status = NODE_DOWN => silence[n] >= DownAfter

\* SuspicionIsSilence as long as the log has room and no announcement races
\* with the backlog: no delay of a task, no order of apply and decide and no
\* wrap-around of the tick counter makes health_monitor_tick() accuse a node
\* early.
SilentWhenSuspected ==
    ~Full => \A n \in Nodes \ raced : SuspicionIsSilence(n)

\* The commit path never overrules the monitor: when raft_apply_all() is done
\* with the backlog, the status of a node is the one health_task decided
\* last, whatever older transitions of the node the backlog held.
ApplyKeepsVerdict ==
    ~Full /\ rpc = "idle" =>
        \A i \in 1 .. Len(table) :
            ~Storing(i) /\ table[i].node_id \notin raced =>
                table[i].status = verdict[table[i].node_id]

\* The transitions logged for one node form a path of the state machine of
\* health_monitor.h: each is one of its edges and starts where the previous
\* one of that node ended, or at UP when the node announced itself again.
LogIsPath ==
    \A k \in 1 .. Len(log) :
        /\ <<log[k].old, log[k].new>> \in {<<NODE_UP, NODE_SUSPECT>>,
              <<NODE_SUSPECT, NODE_DOWN>>, <<NODE_SUSPECT, NODE_UP>>,
              <<NODE_DOWN, NODE_UP>>}
        /\ \A j \in 1 .. k - 1 :
              /\ log[j].node = log[k].node
              /\ \A m \in j + 1 .. k - 1 : log[m].node # log[k].node
              => log[k].old \in {log[j].new, NODE_UP}

\* The last entry the log holds for n, 0 when there is none.
LastEntry(n) ==
    LET ks == {k \in 1 .. Len(log) : log[k].node = n}
    IN  IF ks = {} THEN 0 ELSE CHOOSE k \in ks : \A j \in ks : j <= k

\* What the table shows of each node as soon as neither task owes it a store:
\* the one of propose_transition(), or those of the entries being applied.
Shown ==
    [n \in Nodes |->
        LET i == find_node(table, n)
        IN  CASE i = 0 -> NODE_UP
              [] i # 0 /\ Storing(i) -> store.status
              [] i # 0 /\ ~Storing(i) /\ rpc = "apply" /\ Backlog(n) ->
                    log[LastEntry(n)].new
              [] i # 0 /\ ~Storing(i) /\ ~(rpc = "apply" /\ Backlog(n)) ->
                    table[i].status]

Detector == INSTANCE FailureDetector WITH
    Box <- BOX_ID, UP <- NODE_UP, SUSPECT <- NODE_SUSPECT, DOWN <- NODE_DOWN,
    Longest <- SILENCE_CAP, Capacity <- LOG_CAPACITY,
    status <- Shown, silent <- silence, leads <- leader, excused <- raced

\* The two tasks, the queue and the clock make up a failure detector: whatever
\* raft_task writes between two steps of health_task, the table moves along
\* the state machine, after the silence it asks for, and each move is logged.
IsFailureDetector == Detector!Spec
=============================================================================
