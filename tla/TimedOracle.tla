---------------------------- MODULE TimedOracle ----------------------------
(***************************************************************************)
(* LocalOracle together with its compute nodes, as heartbeat_sender.py     *)
(* plays them: a node announces itself once when it starts and then sends  *)
(* a heartbeat every HB_INTERVAL_MS.  A node may stop (process or link),   *)
(* and later either resume its heartbeats (--no-announce) or start again.  *)
(* Single heartbeats may be lost.                                          *)
(*                                                                         *)
(* The tasks of the firmware keep up: the clock advances only when none of *)
(* them is ready, so that what is left to see are the delays the code      *)
(* itself puts in.                                                         *)
(***************************************************************************)
EXTENDS LocalOracle

CONSTANTS
    ORACLE_TICK_MS, \* period of raft_timer, and of the wait of raft_task
    MAX_STOPS,      \* how often nodes stop, all together
    MAX_RESTARTS,   \* how often a stopped node starts again, all together
    MAX_LOST        \* consecutive heartbeats of a node that may be lost

ASSUME EnvironmentConstants ==
    /\ {MAX_STOPS, MAX_RESTARTS, MAX_LOST} \subseteq Nat
    /\ ORACLE_TICK_MS \in Nat \ {0}

VARIABLES
    sender,      \* what each compute node is doing
    since_tx,    \* ticks since it sent, or should have sent, its last frame;
                 \* of a stopped node, ticks since it stopped
    lost,        \* heartbeats of it lost in a row
    since_timer, \* ticks since raft_timer last expired
    stops,       \* stops so far
    restarts     \* restarts so far

envVars == <<sender, since_tx, lost, stops, restarts>>
timedVars == <<vars, since_timer, envVars>>

Sending(n) == sender[n] = "sending"

\* The firmware takes no time, so nothing is lost by letting the nodes act
\* only while health_task waits for a frame.
Waiting == pc = "recv" /\ rpc = "idle"

TimedInit ==
    /\ Init
    /\ sender = [n \in Nodes |-> "off"]
    /\ since_tx = [n \in Nodes |-> 0]
    /\ lost = [n \in Nodes |-> 0]
    /\ since_timer = 0
    /\ stops = 0 /\ restarts = 0

-----------------------------------------------------------------------------
(* Compute nodes *)

\* The node boots, or boots again, and announces itself; its first heartbeat
\* follows at once.  Booting takes a heartbeat period at least.
Start(n) ==
    /\ Waiting
    /\ \/ sender[n] = "off" /\ UNCHANGED restarts
       \/ /\ sender[n] = "stopped" /\ since_tx[n] >= HB_INTERVAL_MS
          /\ restarts < MAX_RESTARTS /\ restarts' = restarts + 1
    /\ EthRx([type |-> "announce", src |-> n])
    /\ sender' = [sender EXCEPT ![n] = "sending"]
    /\ since_tx' = [since_tx EXCEPT ![n] = HB_INTERVAL_MS]
    /\ lost' = [lost EXCEPT ![n] = 0]
    /\ UNCHANGED <<since_timer, stops>>

\* Mutant of HeartbeatDue: the period is one tick too long.
HeartbeatDue_Late(n) == Sending(n) /\ since_tx[n] = HB_INTERVAL_MS + 1

HeartbeatDue(n) == Sending(n) /\ since_tx[n] = HB_INTERVAL_MS

SendHeartbeat(n) ==
    /\ Waiting
    /\ HeartbeatDue(n)
    /\ EthRx([type |-> "heartbeat", src |-> n])
    /\ since_tx' = [since_tx EXCEPT ![n] = 0]
    /\ lost' = [lost EXCEPT ![n] = 0]
    /\ UNCHANGED <<since_timer, sender, stops, restarts>>

LoseHeartbeat(n) ==
    /\ Waiting
    /\ HeartbeatDue(n)
    /\ lost[n] < MAX_LOST
    /\ since_tx' = [since_tx EXCEPT ![n] = 0]
    /\ lost' = [lost EXCEPT ![n] = @ + 1]
    /\ UNCHANGED <<vars, since_timer, sender, stops, restarts>>

Stop(n) ==
    /\ Waiting
    /\ Sending(n)
    /\ stops < MAX_STOPS
    /\ stops' = stops + 1
    /\ sender' = [sender EXCEPT ![n] = "stopped"]
    /\ since_tx' = [since_tx EXCEPT ![n] = 0]
    /\ lost' = [lost EXCEPT ![n] = 0]
    /\ UNCHANGED <<vars, since_timer, restarts>>

\* Heartbeats are back without a new announcement, the first one at once; no
\* process or link is back in the tick in which it stopped.
Resume(n) ==
    /\ Waiting
    /\ sender[n] = "stopped" /\ since_tx[n] > 0
    /\ EthRx([type |-> "heartbeat", src |-> n])
    /\ sender' = [sender EXCEPT ![n] = "sending"]
    /\ since_tx' = [since_tx EXCEPT ![n] = 0]
    /\ UNCHANGED <<since_timer, lost, stops, restarts>>

-----------------------------------------------------------------------------
(* Time and the firmware *)

Idle == Waiting /\ hb_inbox = <<>>

\* raft_task looks at its notification at least once per ORACLE_TICK_MS.
TimedTick ==
    /\ Idle
    /\ \A n \in Nodes : ~HeartbeatDue(n)
    /\ since_timer < ORACLE_TICK_MS
    /\ notified => since_timer < ORACLE_TICK_MS - 1
    /\ Tick
    /\ since_timer' = since_timer + 1
    /\ since_tx' = [n \in Nodes |->
                      IF sender[n] # "off" /\ since_tx[n] < SILENCE_CAP
                      THEN since_tx[n] + 1 ELSE since_tx[n]]
    /\ UNCHANGED <<sender, lost, stops, restarts>>

Tasks == (HealthTask \/ RaftTask) /\ UNCHANGED <<since_timer, envVars>>

RaftTimerExpires ==
    /\ since_timer = ORACLE_TICK_MS
    /\ since_timer' = 0
    /\ RaftTimerCallback
    /\ UNCHANGED envVars

TimedNext ==
    \/ TimedTick \/ Tasks \/ RaftTimerExpires
    \/ \E n \in Nodes :
          Start(n) \/ SendHeartbeat(n) \/ LoseHeartbeat(n) \/ Stop(n) \/ Resume(n)

TimedSpec == TimedInit /\ [][TimedNext]_timedVars

\* The kernel runs what is ready and advances the clock, raft_timer is
\* auto-reload, and a running compute node keeps its period.
Fairness ==
    /\ WF_timedVars(TimedTick)
    /\ WF_timedVars(HealthTask /\ UNCHANGED <<since_timer, envVars>>)
    /\ WF_timedVars(RaftTask /\ UNCHANGED <<since_timer, envVars>>)
    /\ WF_timedVars(RaftTimerExpires)
    /\ \A n \in Nodes : WF_timedVars(SendHeartbeat(n) \/ LoseHeartbeat(n))

FairSpec == TimedSpec /\ Fairness

-----------------------------------------------------------------------------
(* Properties *)

TimedTypeOK ==
    /\ sender \in [Nodes -> {"off", "sending", "stopped"}]
    /\ since_tx \in [Nodes -> 0 .. SILENCE_CAP]
    /\ \A n \in Nodes : Sending(n) => since_tx[n] <= HB_INTERVAL_MS
    /\ lost \in [Nodes -> 0 .. MAX_LOST]
    /\ since_timer \in 0 .. ORACLE_TICK_MS
    /\ stops \in 0 .. MAX_STOPS
    /\ restarts \in 0 .. MAX_RESTARTS

Queued(n) == \E k \in 1 .. Len(hb_inbox) : hb_inbox[k].src = n

\* A node that keeps its period is never taken for suspect, although up to
\* MAX_LOST heartbeats in a row get lost and health_task ticks with a clock
\* value up to HB_INTERVAL_MS old: the tick decides SUSPECT only about nodes
\* that have stopped, whose first frame after a stop is still in hb_inbox, or,
\* when another node's frame makes health_task tick with the current clock,
\* that are due this very moment to send their first heartbeat after
\* SUSPECT_THRESHOLD - 1 lost ones.
NoFalseSuspicion ==
    [][\A n \in Nodes :
          verdict[n] = NODE_UP /\ verdict'[n] = NODE_SUSPECT =>
              \/ ~Sending(n) \/ Queued(n)
              \/ /\ now = tick
                 /\ lost[n] + 1 = SUSPECT_THRESHOLD
                 /\ since_tx[n] = HB_INTERVAL_MS]_timedVars

Registered(n) == find_node(table, n) # 0
Status(n) == table[find_node(table, n)].status

\* The longest health_task takes for one iteration.
WaitAtMost == HB_INTERVAL_MS + MAX_LAG

\* The longest a registered node can be unheard before health_task has
\* decided DOWN.  health_monitor_tick() has looked at the slot with a clock
\* value up to 2 * WaitAtMost older than its next look: a wait that times
\* out ticks with the value read before it.  That delays each of the two
\* thresholds, and a value 0 of last_tick_ms, taken for the first call, once
\* makes the gap another 2 * WaitAtMost longer.
DetectWithin == DownAfter + 6 * WaitAtMost - 2

\* Failure detection is bounded: as long as the log has room, no node stays
\* silent longer than DetectWithin without having been decided DOWN.  Nodes
\* whose announcement raced with the backlog are left out: raft_task may have
\* put an old status back into their slot, and the tick goes on from there.
DetectionBound ==
    ~Full => \A n \in Nodes \ raced :
        Registered(n) /\ silence[n] > DetectWithin => verdict[n] = NODE_DOWN

Committed(n, status) ==
    LET k == LastEntry(n)
    IN  k # 0 /\ k <= applied /\ log[k].new = status

\* A node that stops for good after this STM32 has become leader is in the
\* end DOWN in the log, applied, and DOWN in the table.
FailureGetsCommitted ==
    \A n \in Nodes :
        (leader /\ Registered(n) /\ verdict[n] = NODE_UP /\ ~Sending(n))
            ~> (Sending(n) \/ (Committed(n, NODE_DOWN) /\ Status(n) = NODE_DOWN))

\* A node whose heartbeats are back after it was committed SUSPECT or DOWN is
\* in the end committed UP, unless it stops again or restarts:
\* process_announce() sets a restarted node UP without a log entry.
RecoveryGetsCommitted ==
    \A n \in Nodes :
        (Sending(n) /\ LastEntry(n) # 0 /\ restarts = 0)
            ~> (~Sending(n) \/ restarts # 0 \/ (Committed(n, NODE_UP) /\ Status(n) = NODE_UP))
=============================================================================
