---------------------------- MODULE OracleCluster ----------------------------
(***************************************************************************)
(* The health monitors of several STM32s, one per box, over the Raft log.  *)
(* raft_oracle.c joins them: a proposal is accepted from the leader only,  *)
(* committed entries reach health_table_apply() everywhere, and a follower *)
(* reports its table in its responses, which the leader's corroboration    *)
(* table collects.                                                         *)
(*                                                                         *)
(* Raft is taken at its word here: one leader at a time and one log, of    *)
(* which every server has applied a prefix.  Time is reduced to what the   *)
(* monitor asks of it: whether a slot is late (30 ms without a heartbeat), *)
(* whether its suspicion is due (50 ms old) and whether a peer's report is *)
(* fresh (500 ms).  A slot that health_table_apply() made for a node of    *)
(* another box has last_seen_ms = 0 and suspect_since_ms = 0, and no       *)
(* heartbeat ever reaches it: it is late and due from the start.           *)
(***************************************************************************)
EXTENDS Integers, Sequences, FiniteSets

CONSTANTS
    Servers,            \* the STM32s
    Nodes,              \* the compute nodes
    Home,               \* the box, that is the STM32, of each compute node
    WideIds,            \* nodes whose id is not below MAX_HEALTH_NODES
    WidePeers,          \* STM32s whose id is not below ORACLE_MAX_NODES
    CORROBORATION_K,    \* observers needed for a DOWN across boxes
    MAX_HEALTH_NODES,   \* slots of a table
    MAX_OBSERVATIONS,   \* observations in one response
    LOG_CAPACITY,       \* entries the log has memory for
    MAX_IN_FLIGHT,      \* responses under way at once
    MAX_OUTAGES,        \* how often compute nodes may fall silent
    MAX_CHANGES         \* how often the leadership may move

ASSUME MonitorsConstants ==
    /\ IsFiniteSet(Servers) /\ IsFiniteSet(Nodes)
    /\ Home \in [Nodes -> Servers]
    /\ WideIds \subseteq Nodes /\ WidePeers \subseteq Servers
    /\ CORROBORATION_K \in Nat \ {0}
    /\ MAX_HEALTH_NODES \in Nat /\ MAX_OBSERVATIONS \in Nat
    /\ LOG_CAPACITY \in Nat /\ MAX_IN_FLIGHT \in Nat
    /\ MAX_OUTAGES \in Nat /\ MAX_CHANGES \in Nat

VARIABLES
    alive,      \* whether the node sends its heartbeats
    outages,    \* how often one has stopped
    leader,     \* the leader of the cluster
    changes,    \* how often that changed
    log,        \* committed transitions [node, new, by]
    applied,    \* how many of them each server has applied
    slots,      \* the nodes in a server's table, in slot order
    status,     \* their status
    late,       \* the slot has missed SUSPECT_THRESHOLD heartbeats
    due,        \* the slot's suspicion is DOWN_TIMEOUT_MS old
    responses,  \* append responses in flight
    seen,       \* corroboration.status
    fresh,      \* corroboration.updated_ms is at most STALE_OBS_MS old
    doubted     \* ghost: <<s, n>> when server s ever held n SUSPECT or DOWN

computeVars == <<alive, outages>>
raftVars == <<leader, changes, log, applied>>
tableVars == <<slots, status, late, due, doubted>>
reportVars == <<responses, seen, fresh>>
vars == <<computeVars, raftVars, tableVars, reportVars>>

NODE_UP == 0
NODE_SUSPECT == 1
NODE_DOWN == 2
Statuses == {NODE_UP, NODE_SUSPECT, NODE_DOWN}

Transitions == [node : Nodes, new : Statuses, by : Servers]
Registered(s) == {slots[s][i] : i \in 1 .. Len(slots[s])}
Reports == UNION {[N -> Statuses] : N \in SUBSET Nodes}

\* Every node has announced itself to the STM32 of its box.
Init ==
    /\ alive = [n \in Nodes |-> TRUE] /\ outages = 0
    /\ leader \in Servers /\ changes = 0
    /\ log = <<>> /\ applied = [s \in Servers |-> 0]
    /\ slots \in [Servers -> UNION {[1 .. k -> Nodes] : k \in 0 .. MAX_HEALTH_NODES}]
    /\ \A s \in Servers :
          /\ Registered(s) = {n \in Nodes : Home[n] = s}
          /\ Len(slots[s]) = Cardinality(Registered(s))
    /\ status = [s \in Servers |-> [n \in Nodes |-> NODE_UP]]
    /\ late = [s \in Servers |-> [n \in Nodes |-> Home[n] # s]]
    /\ due = [s \in Servers |-> [n \in Nodes |-> TRUE]]
    /\ responses = {}
    /\ seen = [s \in Servers |-> [p \in Servers |-> [n \in Nodes |-> NODE_UP]]]
    /\ fresh = [s \in Servers |-> {}]
    /\ doubted = {}

-----------------------------------------------------------------------------
(* Compute nodes and time *)

FallSilent(n) ==
    /\ alive[n] /\ outages < MAX_OUTAGES
    /\ alive' = [alive EXCEPT ![n] = FALSE]
    /\ outages' = outages + 1
    /\ UNCHANGED <<raftVars, tableVars, reportVars>>

Resume(n) ==
    /\ ~alive[n]
    /\ alive' = [alive EXCEPT ![n] = TRUE]
    /\ UNCHANGED <<outages, raftVars, tableVars, reportVars>>

\* 30 ms pass without a heartbeat.  One that is sent arrives in time.
BecomesLate(n) ==
    /\ ~alive[n] /\ ~late[Home[n]][n]
    /\ late' = [late EXCEPT ![Home[n]][n] = TRUE]
    /\ UNCHANGED <<computeVars, raftVars, slots, status, due, doubted, reportVars>>

BecomesDue(s, n) ==
    /\ ~due[s][n]
    /\ due' = [due EXCEPT ![s][n] = TRUE]
    /\ UNCHANGED <<computeVars, raftVars, slots, status, late, doubted, reportVars>>

BecomesStale(s, p) ==
    /\ p \in fresh[s]
    /\ fresh' = [fresh EXCEPT ![s] = @ \ {p}]
    /\ UNCHANGED <<computeVars, raftVars, tableVars, responses, seen>>

-----------------------------------------------------------------------------
(* The health monitor *)

\* The status s now holds for n, and that it held it.
SetStatus(s, n, new) ==
    /\ status' = [status EXCEPT ![s][n] = new]
    /\ doubted' = IF new = NODE_UP THEN doubted ELSE doubted \union {<<s, n>>}

\* propose_transition(): refused unless s leads, and lost when the log has
\* no memory left; the status is stored in either case.
propose_transition(s, n, new) ==
    /\ log' = IF leader = s /\ Len(log) < LOG_CAPACITY
              THEN Append(log, [node |-> n, new |-> new, by |-> s]) ELSE log
    /\ SetStatus(s, n, new)

\* Mutant of process_heartbeat: a node that is DOWN does not recover.
process_heartbeat_stuck(n) ==
    LET s == Home[n]
    IN  /\ alive[n] /\ n \in Registered(s)
        /\ late' = [late EXCEPT ![s][n] = FALSE]
        /\ \/ /\ status[s][n] # NODE_SUSPECT
              /\ UNCHANGED <<log, status, due, doubted>>
           \/ /\ status[s][n] = NODE_SUSPECT
              /\ propose_transition(s, n, NODE_UP)
              /\ due' = [due EXCEPT ![s][n] = TRUE]
        /\ UNCHANGED <<computeVars, leader, changes, applied, slots, reportVars>>

\* A heartbeat reaches the STM32 of the box only.
process_heartbeat(n) ==
    LET s == Home[n]
    IN  /\ alive[n] /\ n \in Registered(s)
        /\ late' = [late EXCEPT ![s][n] = FALSE]
        /\ \/ /\ status[s][n] = NODE_UP
              /\ UNCHANGED <<log, status, due, doubted>>
           \/ /\ status[s][n] # NODE_UP
              /\ propose_transition(s, n, NODE_UP)
              /\ due' = [due EXCEPT ![s][n] = TRUE]
        /\ UNCHANGED <<computeVars, leader, changes, applied, slots, reportVars>>

\* A node that starts again announces itself: UP, without a proposal.
process_announce(n) ==
    LET s == Home[n]
    IN  /\ ~alive[n]
        /\ n \in Registered(s) \/ Len(slots[s]) < MAX_HEALTH_NODES
        /\ alive' = [alive EXCEPT ![n] = TRUE]
        /\ slots' = IF n \in Registered(s) THEN slots
                    ELSE [slots EXCEPT ![s] = Append(@, n)]
        /\ status' = [status EXCEPT ![s][n] = NODE_UP]
        /\ late' = [late EXCEPT ![s][n] = FALSE]
        /\ due' = [due EXCEPT ![s][n] = TRUE]
        /\ UNCHANGED <<outages, raftVars, doubted, reportVars>>

\* Peers whose fresh report has n SUSPECT or DOWN.  For an id outside the
\* table, corroborated() reads whatever lies behind the row of the peer.
Agreeing(s, n) ==
    {p \in fresh[s] : seen[s][p][n] # NODE_UP}

\* The verdicts corroborated() may reach on n at the leader s.
corroborated(s, n) ==
    IF Home[n] = s THEN {TRUE}
    ELSE IF n \in WideIds
    THEN {Cardinality(P) >= CORROBORATION_K : P \in SUBSET fresh[s]}
    ELSE {Cardinality(Agreeing(s, n)) >= CORROBORATION_K}

\* One slot of health_monitor_tick(): a late node becomes SUSPECT,
TickSuspect(s, n) ==
    /\ n \in Registered(s)
    /\ status[s][n] = NODE_UP /\ late[s][n]
    /\ propose_transition(s, n, NODE_SUSPECT)
    /\ due' = [due EXCEPT ![s][n] = FALSE]
    /\ UNCHANGED <<computeVars, leader, changes, applied, slots, late, reportVars>>

\* and 50 ms later DOWN: proposed by a leader with enough observers, kept
\* local by a follower.
TickDown(s, n) ==
    /\ n \in Registered(s)
    /\ status[s][n] = NODE_SUSPECT /\ due[s][n]
    /\ IF leader = s
       THEN TRUE \in corroborated(s, n) /\ propose_transition(s, n, NODE_DOWN)
       ELSE SetStatus(s, n, NODE_DOWN) /\ UNCHANGED log
    /\ UNCHANGED <<computeVars, leader, changes, applied, slots, late, due, reportVars>>

-----------------------------------------------------------------------------
(* Raft and the observation sideband *)

\* Mutant of ApplyLog: no slot is made for a node that is not in the table.
ApplyLog_Known(s) ==
    /\ applied[s] < Len(log)
    /\ LET t == log[applied[s] + 1]
       IN  /\ UNCHANGED slots
           /\ IF t.node \in Registered(s)
              THEN SetStatus(s, t.node, t.new) ELSE UNCHANGED <<status, doubted>>
    /\ applied' = [applied EXCEPT ![s] = @ + 1]
    /\ UNCHANGED <<computeVars, leader, changes, log, late, due, reportVars>>

\* Mutant of ApplyLog: the table is not searched, every entry makes a slot.
ApplyLog_NewSlot(s) ==
    /\ applied[s] < Len(log)
    /\ LET t == log[applied[s] + 1]
       IN  slots' = [slots EXCEPT ![s] = Append(@, t.node)] /\ SetStatus(s, t.node, t.new)
    /\ applied' = [applied EXCEPT ![s] = @ + 1]
    /\ UNCHANGED <<computeVars, leader, changes, log, late, due, reportVars>>

\* cb_applylog() and health_table_apply() of the next committed entry.
ApplyLog(s) ==
    /\ applied[s] < Len(log)
    /\ LET t == log[applied[s] + 1]
           fits == t.node \in Registered(s) \/ Len(slots[s]) < MAX_HEALTH_NODES
       IN  /\ slots' = IF fits /\ t.node \notin Registered(s)
                       THEN [slots EXCEPT ![s] = Append(@, t.node)] ELSE slots
           /\ IF fits THEN SetStatus(s, t.node, t.new) ELSE UNCHANGED <<status, doubted>>
    /\ applied' = [applied EXCEPT ![s] = @ + 1]
    /\ UNCHANGED <<computeVars, leader, changes, log, late, due, reportVars>>

ChangeLeader(s) ==
    /\ s # leader /\ changes < MAX_CHANGES
    /\ leader' = s /\ changes' = changes + 1
    /\ UNCHANGED <<computeVars, log, applied, tableVars, reportVars>>

\* health_monitor_get_observations(): the first slots of the table.
get_observations(s) ==
    LET N == {slots[s][i] : i \in {j \in 1 .. Len(slots[s]) : j <= MAX_OBSERVATIONS}}
    IN  [n \in N |-> status[s][n]]

\* A follower answers an append of the leader.
Respond(s) ==
    /\ s # leader
    /\ responses' = responses \union
          {[src |-> s, dst |-> leader, obs |-> get_observations(s)]}
    /\ Cardinality(responses') <= MAX_IN_FLIGHT
    /\ UNCHANGED <<computeVars, raftVars, tableVars, seen, fresh>>

\* The report of a peer without a row in the table is discarded.  Node ids
\* outside a row are skipped; the time stamp is the arrival's.
update_corroboration(m) ==
    \/ m.src \in WidePeers /\ UNCHANGED <<seen, fresh>>
    \/ /\ m.src \notin WidePeers
       /\ seen' = [seen EXCEPT ![m.dst][m.src] = [n \in Nodes |->
             IF n \in DOMAIN m.obs \ WideIds THEN m.obs[n] ELSE @[n]]]
       /\ fresh' = [fresh EXCEPT ![m.dst] = @ \union {m.src}]

\* The response arrives, whoever leads by then; an empty report is ignored.
RecvResponse(m) ==
    /\ responses' = responses \ {m}
    /\ IF DOMAIN m.obs # {} THEN update_corroboration(m) ELSE UNCHANGED <<seen, fresh>>
    /\ UNCHANGED <<computeVars, raftVars, tableVars>>

LoseResponse(m) ==
    /\ responses' = responses \ {m}
    /\ UNCHANGED <<computeVars, raftVars, tableVars, seen, fresh>>

-----------------------------------------------------------------------------

Next ==
    \/ \E n \in Nodes :
          \/ FallSilent(n) \/ Resume(n) \/ BecomesLate(n)
          \/ process_heartbeat(n) \/ process_announce(n)
    \/ \E s \in Servers, n \in Nodes :
          BecomesDue(s, n) \/ TickSuspect(s, n) \/ TickDown(s, n)
    \/ \E s, p \in Servers : BecomesStale(s, p)
    \/ \E s \in Servers : ApplyLog(s) \/ ChangeLeader(s) \/ Respond(s)
    \/ \E m \in responses : RecvResponse(m) \/ LoseResponse(m)

Spec == Init /\ [][Next]_vars

\* Time passes, the tick and raft_periodic() of every STM32 run again and
\* again, and a committed entry reaches every server.
Fairness ==
    /\ \A n \in Nodes : WF_vars(BecomesLate(n)) /\ WF_vars(process_heartbeat(n))
    /\ \A s \in Servers :
          /\ WF_vars(ApplyLog(s))
          /\ \A n \in Nodes : /\ WF_vars(BecomesDue(s, n))
                              /\ WF_vars(TickSuspect(s, n)) /\ WF_vars(TickDown(s, n))

FairSpec == Spec /\ Fairness

-----------------------------------------------------------------------------
(* Properties *)

\* Tables, reports and the log have the shape health_monitor.h gives them; a
\* table and the log never outgrow their arrays.
TypeOK ==
    /\ alive \in [Nodes -> BOOLEAN] /\ outages \in 0 .. MAX_OUTAGES
    /\ leader \in Servers /\ changes \in 0 .. MAX_CHANGES
    /\ log \in Seq(Transitions) /\ Len(log) <= LOG_CAPACITY
    /\ applied \in [Servers -> 0 .. LOG_CAPACITY]
    /\ \A s \in Servers : applied[s] <= Len(log)
    /\ slots \in [Servers -> Seq(Nodes)]
    /\ \A s \in Servers : Len(slots[s]) <= MAX_HEALTH_NODES
    /\ status \in [Servers -> [Nodes -> Statuses]]
    /\ late \in [Servers -> [Nodes -> BOOLEAN]]
    /\ due \in [Servers -> [Nodes -> BOOLEAN]]
    /\ responses \subseteq [src : Servers, dst : Servers, obs : Reports]
    /\ seen \in [Servers -> [Servers -> [Nodes -> Statuses]]]
    /\ fresh \in [Servers -> SUBSET Servers]
    /\ doubted \subseteq Servers \X Nodes

\* A failure in the leader's box is known to every table: when a node of that
\* box falls silent while the leader holds it UP, every server shows it DOWN
\* in the end.  What the same STM32 decided before it led is not proposed
\* again, and what a follower decides about its own box is not proposed by
\* anyone, since the tick proposes on a change of status only.
LeaderFailureSpreads ==
    \A n \in Nodes :
        ~alive[n] /\ leader = Home[n] /\ status[Home[n]][n] = NODE_UP ~>
            \/ alive[n] \/ leader # Home[n]
            \/ \A s \in Servers : status[s][n] = NODE_DOWN

\* A node that goes on sending heartbeats ends up UP in the table of its own
\* STM32, whatever older transitions the log still brings.
OwnBoxRecovers ==
    \A n \in Nodes : <>[](alive[n]) => <>[](status[Home[n]][n] = NODE_UP)

\* The soak test of docs/design.md, "Zero false positives": no DOWN is put
\* into the log for a node that sends its heartbeats and that its own STM32
\* holds UP.
NoFalsePositive ==
    [][\A n \in Nodes :
          /\ Len(log') > Len(log)
          /\ log'[Len(log')].node = n /\ log'[Len(log')].new = NODE_DOWN
          => ~(alive[n] /\ status[Home[n]][n] = NODE_UP /\ ~late[Home[n]][n])]_vars
=============================================================================
