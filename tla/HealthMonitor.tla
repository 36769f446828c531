--------------------------- MODULE HealthMonitor ---------------------------
(***************************************************************************)
(* The data and the per-slot computations of firmware/health: the health   *)
(* table of health_monitor.h, the steps of health_monitor.c on one slot of *)
(* it, and health_table_apply() of health_table.c.                         *)
(*                                                                         *)
(* The table is the sequence of its first n_nodes slots; the arrays the    *)
(* code keeps parallel to it (miss_count, suspect_since_ms) are fields of  *)
(* the slot.  node_type and status_term are left out: they are only ever   *)
(* displayed.  Everything here is a function of values, so that the        *)
(* modules that own the state decide what is atomic.                       *)
(***************************************************************************)
EXTENDS Integers, Sequences

CONSTANTS
    MAX_HEALTH_NODES,    \* slots of the table
    HB_INTERVAL_MS,      \* expected heartbeat period
    SUSPECT_THRESHOLD,   \* missed heartbeats before SUSPECT
    DOWN_TIMEOUT_MS,     \* time in SUSPECT before DOWN
    TICK_MOD,            \* the tick counter is modulo this (2^32 in the code)
    MISS_MOD             \* miss_count is modulo this (2^16 in the code)

ASSUME MonitorConstants ==
    /\ MAX_HEALTH_NODES \in Nat \ {0}
    /\ HB_INTERVAL_MS \in Nat \ {0}
    /\ SUSPECT_THRESHOLD \in Nat \ {0}
    /\ DOWN_TIMEOUT_MS \in Nat \ {0}
    /\ TICK_MOD \in Nat \ {0}
    /\ MISS_MOD \in Nat \ {0}

NODE_UP == 0
NODE_SUSPECT == 1
NODE_DOWN == 2

Statuses == {NODE_UP, NODE_SUSPECT, NODE_DOWN}
Ticks == 0 .. TICK_MOD - 1

\* Unsigned subtraction now - then of two tick values.
Elapsed(now, then) ==
    IF now >= then THEN now - then ELSE now - then + TICK_MOD

Slot(Ids, Boxes) ==
    [node_id : Ids, box_id : Boxes, status : Statuses, last_seen_ms : Ticks,
     miss_count : 0 .. MISS_MOD - 1, suspect_since_ms : Ticks]

-----------------------------------------------------------------------------
(* Finding and creating slots *)

\* Mutant of find_node: the search stops one slot early.
find_node_short(table, id) ==
    IF \E i \in 1 .. Len(table) - 1 : table[i].node_id = id
    THEN CHOOSE i \in 1 .. Len(table) - 1 : table[i].node_id = id
    ELSE 0

\* The slot of node id, 0 when there is none.  Ids are unique in the table
\* (NodeIdsUnique), so the first match is the only one.
find_node(table, id) ==
    IF \E i \in 1 .. Len(table) : table[i].node_id = id
    THEN CHOOSE i \in 1 .. Len(table) : table[i].node_id = id
    ELSE 0

\* A slot after the memset of find_or_alloc() and health_table_apply().
new_slot(id, box) ==
    [node_id |-> id, box_id |-> box, status |-> NODE_UP, last_seen_ms |-> 0,
     miss_count |-> 0, suspect_since_ms |-> 0]

-----------------------------------------------------------------------------
(* What the events do to a slot *)

\* Mutant of heartbeat_seen: the miss counter is not reset.
heartbeat_seen_no_reset(e, now) == [e EXCEPT !.last_seen_ms = now]

\* A heartbeat before its recovery transition.
heartbeat_seen(e, now) == [e EXCEPT !.last_seen_ms = now, !.miss_count = 0]

\* A slot after an announcement: UP in this box, without a proposal.
announced(id, box, now) ==
    [node_id |-> id, box_id |-> box, status |-> NODE_UP, last_seen_ms |-> now,
     miss_count |-> 0, suspect_since_ms |-> 0]

process_announce(table, id, box, now) ==
    LET idx == find_node(table, id)
    IN  IF idx # 0 THEN [table EXCEPT ![idx] = announced(id, box, now)]
        ELSE IF Len(table) < MAX_HEALTH_NODES
             THEN Append(table, announced(id, box, now))
             ELSE table

\* The miss counter as the tick recomputes it: by time, not by ticks.
count_misses(e, now) ==
    LET since_last == Elapsed(now, e.last_seen_ms)
    IN  IF since_last >= HB_INTERVAL_MS
        THEN (since_last \div HB_INTERVAL_MS) % MISS_MOD
        ELSE e.miss_count

\* Mutants of tick_status: the case of UP falls through to the one of SUSPECT;
\* one miss too few is enough.
tick_status_fallthrough(e, now, may_down) ==
    CASE /\ e.status \in {NODE_UP, NODE_SUSPECT}
         /\ e.miss_count >= SUSPECT_THRESHOLD
         /\ Elapsed(now, e.suspect_since_ms) >= DOWN_TIMEOUT_MS
         /\ may_down -> NODE_DOWN
      [] OTHER -> e.status

tick_status_early(e, now, may_down) ==
    CASE e.status = NODE_UP /\ e.miss_count >= SUSPECT_THRESHOLD - 1 -> NODE_SUSPECT
      [] /\ e.status = NODE_SUSPECT
         /\ Elapsed(now, e.suspect_since_ms) >= DOWN_TIMEOUT_MS
         /\ may_down -> NODE_DOWN
      [] OTHER -> e.status

\* The status the tick gives a slot whose misses are counted; may_down is
\* FALSE when this is the leader and the failure is not corroborated.
tick_status(e, now, may_down) ==
    CASE e.status = NODE_UP /\ e.miss_count >= SUSPECT_THRESHOLD -> NODE_SUSPECT
      [] /\ e.status = NODE_SUSPECT
         /\ Elapsed(now, e.suspect_since_ms) >= DOWN_TIMEOUT_MS
         /\ may_down -> NODE_DOWN
      [] OTHER -> e.status

-----------------------------------------------------------------------------
(* health_table.c *)

\* A committed transition [node, box, old, new] reaches the table.
health_table_apply(table, t) ==
    LET idx == find_node(table, t.node)
    IN  IF idx # 0 THEN [table EXCEPT ![idx].status = t.new]
        ELSE IF Len(table) < MAX_HEALTH_NODES
             THEN Append(table, [new_slot(t.node, t.box) EXCEPT !.status = t.new])
             ELSE table

\* Whether applying t broadcasts a 0x88B6 frame: only on a change of status.
emits_event(table, t) ==
    LET idx == find_node(table, t.node)
    IN  IF idx # 0 THEN table[idx].status # t.new
        ELSE Len(table) < MAX_HEALTH_NODES /\ t.new # NODE_UP
=============================================================================
