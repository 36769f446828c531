----------------------------- MODULE Simulator ------------------------------
(***************************************************************************)
(* sim_main.c: the threads of the POSIX simulator and their life cycle.    *)
(* main() opens a UDP socket per STM32, starts a thread for each of them   *)
(* and, later, one for each compute node; the compute thread sends through *)
(* the socket of its STM32, so to that STM32 and from its address.  At the *)
(* end main() joins the threads and closes the sockets.                    *)
(*                                                                         *)
(* The messages of Raft belong to RaftOracle and the slots of other boxes  *)
(* to OracleCluster.  What is kept of Raft is that the leader's proposals  *)
(* are committed some time later and applied by raft_periodic(); nobody    *)
(* else's are accepted.  A box has one compute node, whose failure its own *)
(* STM32 may always decide: corroborated() asks for more observers only    *)
(* about other boxes.  Every thread runs at most MAX_LATE units of the     *)
(* clock after its sleep ended, and finishes its iteration within that     *)
(* time.                                                                   *)
(***************************************************************************)
EXTENDS HealthMonitor, FiniteSets

CONSTANTS
    Boxes,          \* ids of the STM32s, from 1 on
    LEADERS,        \* the ones that may lead
    SIM_TICK_MS,    \* period of raft_periodic()
    PAUSE,          \* sleep of the compute thread after its announcement
    SETTLE,         \* sleep of main() before it starts the compute threads
    SECOND,         \* one second of main()'s loop
    SIM_RUNTIME_S,  \* seconds the simulation runs
    CHAOS_KILL_AT_S,\* the second after which the first compute node is killed
    CHAOS,          \* g_chaos
    DRAIN_MAX,      \* messages node_thread reads in one iteration
    UDP_BUFFER,     \* datagrams a socket keeps
    MAX_LATE,       \* how late a thread may run
    CLOCK_END       \* the clock stops here

ASSUME SimulatorConstants ==
    /\ Boxes \subseteq Nat \ {0} /\ 1 \in Boxes /\ IsFiniteSet(Boxes)
    /\ LEADERS \subseteq Boxes
    /\ {SIM_TICK_MS, PAUSE, SETTLE, SECOND, DRAIN_MAX, UDP_BUFFER} \subseteq Nat \ {0}
    /\ {SIM_RUNTIME_S, CHAOS_KILL_AT_S, MAX_LATE} \subseteq Nat
    /\ CHAOS \in BOOLEAN
    /\ CLOCK_END \in Nat \ {0} /\ CLOCK_END < TICK_MOD

VARIABLES
    now,        \* the monotonic clock
    g_running,
    interrupted,\* ghost: SIGINT came
    main_pc,    \* where main() is
    second,     \* s of main()'s loop
    main_wake,  \* when its sleep ends
    open,       \* the sockets that exist
    sock,       \* datagrams waiting at each socket
    node_pc,    \* where the node threads are
    node_wake,  \* when their sleep ended or ends
    node_now,   \* now_val
    drained,    \* messages read in this iteration
    last_tick,  \* last_health_tick
    first,      \* last_tick_ms is 0: health_monitor_tick() was not called yet
    table,      \* the health table of each STM32
    leads,      \* the leader of the cluster, if it is one of the boxes
    last_raft,  \* last_tick: when raft_periodic() was called
    log,        \* the statuses proposed for the compute node of the leader
    commit,     \* how many of them are committed
    applied,    \* and applied
    compute_pc, \* where the compute threads are
    compute_wake,
    alive

mainVars == <<g_running, interrupted, main_pc, second, main_wake, open>>
nodeVars == <<node_pc, node_wake, node_now, drained, last_tick, first, table>>
raftVars == <<leads, last_raft, log, commit, applied>>
computeVars == <<compute_pc, compute_wake>>
vars == <<now, mainVars, nodeVars, raftVars, computeVars, alive, sock>>

Init ==
    /\ now = 1 /\ g_running = TRUE /\ interrupted = FALSE
    /\ main_pc = "create" /\ second = 0 /\ main_wake = 1
    /\ open = {} /\ sock = [b \in Boxes |-> <<>>]
    /\ node_pc = [b \in Boxes |-> "none"] /\ node_wake = [b \in Boxes |-> 1]
    /\ node_now = [b \in Boxes |-> 0] /\ drained = [b \in Boxes |-> 0]
    /\ last_tick = [b \in Boxes |-> 0] /\ first = [b \in Boxes |-> TRUE]
    /\ table = [b \in Boxes |-> <<>>] /\ last_raft = [b \in Boxes |-> 0]
    /\ leads \in {{}} \union {{b} : b \in LEADERS}
    /\ log = [b \in Boxes |-> <<>>]
    /\ commit = [b \in Boxes |-> 0] /\ applied = [b \in Boxes |-> 0]
    /\ compute_pc = [b \in Boxes |-> "none"] /\ compute_wake = [b \in Boxes |-> 1]
    /\ alive = [b \in Boxes |-> FALSE]

-----------------------------------------------------------------------------
(* transport_sim.c *)

\* One socket per STM32, bound to the port of its id.
sim_transport_create == open' = Boxes

sim_transport_destroy(b) == open' = open \ {b}

\* sim_recv() finds a datagram, or times out at once: it polls for 0 ms.
sim_recv(b) == IF sock[b] = <<>> THEN {} ELSE {Head(sock[b])}

\* sim_send() to the socket of box b: a datagram for a socket that is closed
\* or has no room is lost.
sim_send(b, type, src) ==
    sock' = IF b \in open /\ Len(sock[b]) < UDP_BUFFER
            THEN [sock EXCEPT ![b] = Append(@, [type |-> type, src |-> src])]
            ELSE sock

-----------------------------------------------------------------------------
(* main() *)

\* Sockets first, then a thread for each STM32.
MainCreate ==
    /\ main_pc = "create"
    /\ sim_transport_create
    /\ node_pc' = [b \in Boxes |-> "init"]
    /\ node_wake' = [b \in Boxes |-> now]
    /\ main_pc' = "settle" /\ main_wake' = now + SETTLE
    /\ UNCHANGED <<now, g_running, interrupted, second, node_now, drained, last_tick,
                   first, table, raftVars, computeVars, alive, sock>>

\* A port that is taken ends the program before there is a second thread.
MainFails ==
    /\ main_pc = "create"
    /\ main_pc' = "done"
    /\ UNCHANGED <<now, g_running, interrupted, second, main_wake, open, nodeVars, raftVars,
                   computeVars, alive, sock>>

\* pthread_create() fails for the STM32 k: main() is about to give up, the
\* threads of the STM32s before k run.
MainThreadFails(k) ==
    /\ main_pc = "create"
    /\ sim_transport_create
    /\ node_pc' = [b \in Boxes |-> IF b < k THEN "init" ELSE "none"]
    /\ node_wake' = [b \in Boxes |-> now]
    /\ main_pc' = "failing" /\ main_wake' = now
    /\ UNCHANGED <<now, g_running, interrupted, second, node_now, drained, last_tick,
                   first, table, raftVars, computeVars, alive, sock>>

\* main() returns, and the process ends wherever its threads are; nothing was
\* destroyed before.
MainExits ==
    /\ main_pc = "failing"
    /\ main_pc' = "done"
    /\ UNCHANGED <<now, g_running, interrupted, second, main_wake, open, nodeVars, raftVars,
                   computeVars, alive, sock>>

\* The head of main()'s loop: another second, or the end.
MainLoop(s) ==
    IF s < SIM_RUNTIME_S /\ g_running THEN main_pc' = "run" /\ main_wake' = now + SECOND
    ELSE main_pc' = "stop" /\ main_wake' = now

\* A compute thread for each STM32.  A pthread_create() that fails is only
\* reported: main() goes on, with a handle that was never set.
MainStartComputes ==
    /\ main_pc = "settle" /\ now >= main_wake
    /\ alive' = [b \in Boxes |-> TRUE]
    /\ compute_pc' \in [Boxes -> {"announce", "none"}]
    /\ compute_wake' = [b \in Boxes |-> now]
    /\ MainLoop(second)
    /\ UNCHANGED <<now, g_running, interrupted, second, open, nodeVars, raftVars, sock>>

\* Mutant of MainSecond: the head of the loop reads the second too early.
MainSecond_OneMore ==
    /\ main_pc = "run" /\ now >= main_wake
    /\ alive' = IF CHAOS /\ second = CHAOS_KILL_AT_S
                THEN [alive EXCEPT ![1] = FALSE] ELSE alive
    /\ second' = second + 1
    /\ MainLoop(second)
    /\ UNCHANGED <<now, g_running, interrupted, open, nodeVars, raftVars, computeVars, sock>>

\* One second of the loop, with the kill of the chaos mode.
MainSecond ==
    /\ main_pc = "run" /\ now >= main_wake
    /\ alive' = IF CHAOS /\ second = CHAOS_KILL_AT_S
                THEN [alive EXCEPT ![1] = FALSE] ELSE alive
    /\ second' = second + 1
    /\ MainLoop(second')
    /\ UNCHANGED <<now, g_running, interrupted, open, nodeVars, raftVars, computeVars, sock>>

\* Mutant of MainStop: only the compute threads are told to end.
MainStop_AliveOnly ==
    /\ main_pc = "stop"
    /\ alive' = [b \in Boxes |-> FALSE]
    /\ main_pc' = "joinComputes"
    /\ UNCHANGED <<now, g_running, interrupted, second, main_wake, open, nodeVars, raftVars,
                   computeVars, sock>>

MainStop ==
    /\ main_pc = "stop"
    /\ g_running' = FALSE
    /\ alive' = [b \in Boxes |-> FALSE]
    /\ main_pc' = "joinComputes"
    /\ UNCHANGED <<now, interrupted, second, main_wake, open, nodeVars, raftVars, computeVars, sock>>

\* Mutant of MainJoinComputes: the compute threads are not waited for.
MainJoinComputes_NoWait ==
    /\ main_pc = "joinComputes"
    /\ main_pc' = "joinNodes"
    /\ UNCHANGED <<now, g_running, interrupted, second, main_wake, open, nodeVars, raftVars,
                   computeVars, alive, sock>>

\* The compute threads are joined in order.  What pthread_join() does with a
\* handle that was never set is undefined: it may return an error ...
MainJoinComputes ==
    /\ main_pc = "joinComputes"
    /\ \A b \in Boxes : compute_pc[b] \in {"none", "exited"}
    /\ main_pc' = "joinNodes"
    /\ UNCHANGED <<now, g_running, interrupted, second, main_wake, open, nodeVars, raftVars,
                   computeVars, alive, sock>>

\* ... or follow it and crash the process.
MainJoinCrashes(b) ==
    /\ main_pc = "joinComputes"
    /\ compute_pc[b] = "none"
    /\ \A c \in Boxes : c < b => compute_pc[c] \in {"none", "exited"}
    /\ main_pc' = "crashed"
    /\ UNCHANGED <<now, g_running, interrupted, second, main_wake, open, nodeVars, raftVars,
                   computeVars, alive, sock>>

\* The node threads are joined in order, each socket closed after its thread.
MainJoinNode(b) ==
    /\ main_pc = "joinNodes"
    /\ b \in open /\ \A c \in open : b <= c
    /\ node_pc[b] = "exited"
    /\ sim_transport_destroy(b)
    /\ main_pc' = IF open' = {} THEN "done" ELSE "joinNodes"
    /\ UNCHANGED <<now, g_running, interrupted, second, main_wake, nodeVars, raftVars,
                   computeVars, alive, sock>>

\* Whichever thread takes the signal; the sleep of main() is cut short if it
\* is main().
sigint_handler ==
    /\ ~interrupted /\ main_pc \in {"settle", "run"}
    /\ interrupted' = TRUE
    /\ g_running' = FALSE
    /\ main_wake' \in {main_wake} \union {t \in {now} : t < main_wake}
    /\ UNCHANGED <<now, main_pc, second, open, nodeVars, raftVars, computeVars,
                   alive, sock>>

-----------------------------------------------------------------------------
(* compute_thread() *)

\* No thread outlives the process.
ProcessRuns == main_pc \notin {"done", "crashed"}

ComputeReady(b, at) == compute_pc[b] = at /\ now >= compute_wake[b]

ComputeAnnounce(b) ==
    /\ ComputeReady(b, "announce")
    /\ sim_send(b, "announce", b)
    /\ compute_pc' = [compute_pc EXCEPT ![b] = "check"]
    /\ compute_wake' = [compute_wake EXCEPT ![b] = now + PAUSE]
    /\ UNCHANGED <<now, mainVars, nodeVars, raftVars, alive>>

\* The head of the loop: both flags are read without a lock.
ComputeCheck(b) ==
    /\ ComputeReady(b, "check")
    /\ compute_pc' = [compute_pc EXCEPT ![b] = IF g_running /\ alive[b] THEN "send"
                                               ELSE "exited"]
    /\ UNCHANGED <<now, mainVars, nodeVars, raftVars, compute_wake, alive, sock>>

ComputeSend(b) ==
    /\ ComputeReady(b, "send")
    /\ sim_send(b, "heartbeat", b)
    /\ compute_pc' = [compute_pc EXCEPT ![b] = "check"]
    /\ compute_wake' = [compute_wake EXCEPT ![b] = now + HB_INTERVAL_MS]
    /\ UNCHANGED <<now, mainVars, nodeVars, raftVars, alive>>

ComputeThread(b) ==
    /\ ProcessRuns
    /\ ComputeAnnounce(b) \/ ComputeCheck(b) \/ ComputeSend(b)

-----------------------------------------------------------------------------
(* node_thread() *)

NodeReady(b, at) == node_pc[b] = at /\ now >= node_wake[b]

\* oracle_init(), health_monitor_init() and the member list.
NodeInit(b) ==
    /\ NodeReady(b, "init")
    /\ node_pc' = [node_pc EXCEPT ![b] = "loop"]
    /\ node_wake' = [node_wake EXCEPT ![b] = now]
    /\ last_tick' = [last_tick EXCEPT ![b] = now]
    /\ last_raft' = [last_raft EXCEPT ![b] = now]
    /\ UNCHANGED <<now, mainVars, node_now, drained, first, table, leads, log, commit, applied,
                   computeVars, alive, sock>>

\* oracle_init() fails: the thread ends, its compute node does not know.
NodeInitFails(b) ==
    /\ NodeReady(b, "init")
    /\ node_pc' = [node_pc EXCEPT ![b] = "exited"]
    /\ UNCHANGED <<now, mainVars, node_wake, node_now, drained, last_tick, first, table,
                   raftVars, computeVars, alive, sock>>

\* The head of the loop takes the time for the whole iteration.
NodeLoop(b) ==
    /\ NodeReady(b, "loop")
    /\ IF g_running
       THEN /\ node_now' = [node_now EXCEPT ![b] = now]
            /\ drained' = [drained EXCEPT ![b] = 0]
            /\ node_pc' = [node_pc EXCEPT ![b] = "drain"]
       ELSE /\ node_pc' = [node_pc EXCEPT ![b] = "exited"]
            /\ UNCHANGED <<node_now, drained>>
    /\ UNCHANGED <<now, mainVars, node_wake, last_tick, first, table, raftVars,
                   computeVars, alive, sock>>

Status(t) == IF t = <<>> THEN NODE_UP ELSE t[1].status

\* A change of status is proposed, which only the leader's library accepts.
Proposed(b, old, new) ==
    IF b \in leads /\ old # new THEN [log EXCEPT ![b] = Append(@, new)] ELSE log

\* The table after a heartbeat; a recovery stores the status it proposes.
process_heartbeat(t, src, at) ==
    LET idx == find_node(t, src)
    IN  IF idx = 0 THEN t
        ELSE [t EXCEPT ![idx] =
                [heartbeat_seen(t[idx], at) EXCEPT !.status = NODE_UP,
                    !.suspect_since_ms = IF t[idx].status = NODE_UP THEN @ ELSE 0]]

\* Mutant of handle: heartbeats are not handed to the monitor.
handle_announces(b, m) ==
    IF m.type = "announce" THEN process_announce(table[b], m.src, b, node_now[b])
    ELSE table[b]

\* The table after a message.
handle(b, m) ==
    CASE m.type = "announce" -> process_announce(table[b], m.src, b, node_now[b])
      [] m.type = "heartbeat" -> process_heartbeat(table[b], m.src, node_now[b])
      [] OTHER -> table[b]

\* One message.  The acknowledgement of an announcement goes to the sender's
\* id, which is the STM32's own: it comes back as a message nobody handles.
NodeDrain(b) ==
    /\ node_pc[b] = "drain" /\ drained[b] < DRAIN_MAX
    /\ \E m \in sim_recv(b) :
           /\ table' = [table EXCEPT ![b] = handle(b, m)]
           /\ log' = IF m.type = "heartbeat"
                     THEN Proposed(b, Status(table[b]), Status(table'[b])) ELSE log
           /\ sock' = [sock EXCEPT ![b] = IF m.type = "announce"
                                          THEN Append(Tail(@), [type |-> "ack", src |-> b])
                                          ELSE Tail(@)]
    /\ drained' = [drained EXCEPT ![b] = @ + 1]
    /\ UNCHANGED <<now, mainVars, node_pc, node_wake, node_now, last_tick, first,
                   leads, last_raft, commit, applied, computeVars, alive>>

\* The table after raft_periodic() has applied what is committed.
Applied(b) ==
    IF applied[b] < commit[b] THEN [table[b] EXCEPT ![1].status = log[b][commit[b]]]
    ELSE table[b]

\* One slot of health_monitor_tick().
Ticked(e, at) ==
    LET counted == [e EXCEPT !.miss_count = count_misses(e, at)]
        new == tick_status(counted, at, TRUE)
    IN  [counted EXCEPT !.status = new,
            !.suspect_since_ms = IF new = NODE_SUSPECT /\ e.status = NODE_UP THEN at ELSE @]

\* Mutant of health_tick: every call is taken for the first one.
health_tick_first(t, isFirst, at) == t

\* health_monitor_tick(): the first call only notes the time.
health_tick(t, isFirst, at) ==
    IF isFirst THEN t ELSE [i \in 1 .. Len(t) |-> Ticked(t[i], at)]

\* The rest of the iteration: raft_periodic(), then the health tick, each if
\* it is due, and the sleep.
NodeTick(b) ==
    LET raft == node_now[b] - last_raft[b] >= SIM_TICK_MS
        health == node_now[b] - last_tick[b] >= HB_INTERVAL_MS
        t == IF raft THEN Applied(b) ELSE table[b]
    IN  /\ node_pc[b] = "drain" /\ (sim_recv(b) = {} \/ drained[b] = DRAIN_MAX)
        /\ last_raft' = IF raft THEN [last_raft EXCEPT ![b] = node_now[b]] ELSE last_raft
        /\ applied' = IF raft THEN [applied EXCEPT ![b] = commit[b]] ELSE applied
        /\ table' = [table EXCEPT ![b] =
              IF health THEN health_tick(t, first[b], node_now[b]) ELSE t]
        /\ log' = Proposed(b, Status(t), Status(table'[b]))
        /\ last_tick' = IF health THEN [last_tick EXCEPT ![b] = node_now[b]] ELSE last_tick
        /\ first' = IF health THEN [first EXCEPT ![b] = FALSE] ELSE first
        /\ node_pc' = [node_pc EXCEPT ![b] = "loop"]
        /\ node_wake' = [node_wake EXCEPT ![b] = now + 1]
        /\ UNCHANGED <<now, mainVars, node_now, drained, leads, commit, computeVars, alive, sock>>

NodeThread(b) ==
    /\ ProcessRuns
    /\ NodeInit(b) \/ NodeInitFails(b) \/ NodeLoop(b) \/ NodeDrain(b) \/ NodeTick(b)

\* A majority has answered the leader's append of the next entry.
Commit(b) ==
    /\ commit[b] < Len(log[b])
    /\ commit' = [commit EXCEPT ![b] = @ + 1]
    /\ UNCHANGED <<now, mainVars, nodeVars, leads, last_raft, log, applied, computeVars, alive, sock>>

-----------------------------------------------------------------------------
(* Time *)

InTime(wake) == now < wake + MAX_LATE

Tick ==
    /\ now < CLOCK_END
    /\ main_pc \in {"create", "failing", "settle", "run", "stop"} => InTime(main_wake)
    /\ \A b \in Boxes :
          /\ node_pc[b] \notin {"none", "exited"} => InTime(node_wake[b])
          /\ compute_pc[b] \notin {"none", "exited"} => InTime(compute_wake[b])
    /\ now' = now + 1
    /\ UNCHANGED <<mainVars, nodeVars, raftVars, computeVars, alive, sock>>

Main ==
    \/ MainCreate \/ MainFails \/ MainExits \/ MainStartComputes \/ MainSecond
    \/ MainStop \/ MainJoinComputes
    \/ \E b \in Boxes : MainThreadFails(b) \/ MainJoinCrashes(b) \/ MainJoinNode(b)

Next ==
    \/ Main \/ sigint_handler
    \/ \E b \in Boxes : ComputeThread(b) \/ NodeThread(b) \/ Commit(b)
    \/ Tick

Spec == Init /\ [][Next]_vars

\* The operating system runs every thread, and time passes.
Fairness ==
    /\ WF_vars(Tick) /\ WF_vars(Main)
    /\ \A b \in Boxes : WF_vars(ComputeThread(b)) /\ WF_vars(NodeThread(b))

FairSpec == Spec /\ Fairness

-----------------------------------------------------------------------------
(* Properties *)

\* Clocks, counters and tables stay in range; a socket holds no more than its
\* buffer, the STM32's message to itself included.
TypeOK ==
    /\ now \in 0 .. CLOCK_END /\ g_running \in BOOLEAN /\ interrupted \in BOOLEAN
    /\ main_pc \in {"create", "failing", "settle", "run", "stop", "joinComputes", "joinNodes",
                    "done", "crashed"}
    /\ second \in 0 .. SIM_RUNTIME_S /\ main_wake \in Nat
    /\ open \subseteq Boxes
    /\ \A b \in Boxes :
          /\ Len(sock[b]) <= UDP_BUFFER
          /\ node_pc[b] \in {"none", "init", "loop", "drain", "exited"}
          /\ compute_pc[b] \in {"none", "announce", "check", "send", "exited"}
          /\ drained[b] \in 0 .. DRAIN_MAX
          /\ applied[b] <= commit[b] /\ commit[b] <= Len(log[b])
          /\ Len(table[b]) <= 1 /\ \A i \in 1 .. Len(table[b]) : table[b][i] \in Slot(Boxes, Boxes)
    /\ alive \in [Boxes -> BOOLEAN]

\* No thread is left that could use a socket, or the transport around it, that
\* main() has closed and freed: of the two threads that share one, each is
\* joined before.
NoUseAfterDestroy ==
    \A b \in Boxes :
        \/ node_pc[b] \notin {"none", "exited"}
        \/ compute_pc[b] \notin {"none", "exited"}
        => b \in open

\* The pause after the announcement is longer than the time after which the
\* monitor suspects a node, and shorter than the time after which it gives it
\* up: outside the leader's box, a compute node that is not killed is never
\* DOWN.
AliveNeverDown ==
    \A b \in Boxes \ leads : alive[b] /\ g_running => Status(table[b]) # NODE_DOWN

\* The chaos mode shows what it is for: a second after the kill, the STM32 of
\* that compute node has it DOWN, unless what the log brings comes between.
ChaosIsSeen ==
    /\ CHAOS /\ second > CHAOS_KILL_AT_S + 1 /\ g_running
    /\ table[1] # <<>> /\ 1 \notin leads
    => Status(table[1]) = NODE_DOWN

\* The program ends, after its time or after SIGINT, although its threads wait
\* for each other; it ends by returning from main(), except that a compute
\* thread that could not be started may crash it when main() joins it.
Terminates ==
    <>(main_pc = "done" \/ (main_pc = "crashed" /\ \E b \in Boxes : compute_pc[b] = "none"))
=============================================================================
