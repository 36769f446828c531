-------------------------- MODULE SimulatorProofs ---------------------------
(***************************************************************************)
(* Proofs about Simulator, for any number of boxes and any values of the   *)
(* times: its types, that no thread outlives the socket it uses and, for   *)
(* the boxes that do not lead, that a live compute node is never given up  *)
(* and a killed one always is.  The last two are about one box at a time:  *)
(* Focus says what a step of the system is to a box, and from there on the *)
(* argument is about a few numbers.                                        *)
(***************************************************************************)
EXTENDS Simulator, TLAPS

-----------------------------------------------------------------------------
(* The life of threads and sockets *)

MainPcs == {"create", "failing", "settle", "run", "stop", "joinComputes", "joinNodes", "done",
            "crashed"}
NodePcs == {"none", "init", "loop", "drain", "exited"}
ComputePcs == {"none", "announce", "check", "send", "exited"}

PcTypes ==
    /\ main_pc \in MainPcs /\ open \subseteq Boxes
    /\ node_pc \in [Boxes -> NodePcs] /\ compute_pc \in [Boxes -> ComputePcs]

\* Before the first thread starts there is no socket; while main() sleeps, and
\* when the process ends early, every socket is open; the sockets close when
\* every compute thread is gone, each one after its node thread.
LifeCycle ==
    /\ main_pc = "create" => \A b \in Boxes : node_pc[b] = "none"
    /\ main_pc \in {"create", "failing", "settle"} => \A b \in Boxes : compute_pc[b] = "none"
    /\ main_pc \in {"failing", "settle", "run", "stop", "joinComputes", "crashed"} =>
          open = Boxes
    /\ main_pc \in {"joinNodes", "done"} =>
          \A b \in Boxes : compute_pc[b] \in {"none", "exited"}
    /\ main_pc \in {"joinNodes", "done"} =>
          \A b \in Boxes \ open : node_pc[b] \in {"none", "exited"}

Life == PcTypes /\ LifeCycle

\* What a step of a thread does to its own program counter.
ThreadStep ==
    /\ UNCHANGED <<main_pc, open>>
    /\ \/ \E b \in Boxes, at \in NodePcs \ {"none"} :
             /\ node_pc[b] \notin {"none", "exited"}
             /\ node_pc' = [node_pc EXCEPT ![b] = at] /\ UNCHANGED compute_pc
       \/ \E b \in Boxes, at \in ComputePcs \ {"none"} :
             /\ compute_pc[b] \notin {"none", "exited"}
             /\ compute_pc' = [compute_pc EXCEPT ![b] = at] /\ UNCHANGED node_pc
       \/ UNCHANGED <<node_pc, compute_pc>>

\* A compute or node thread moves only its own program counter.
LEMMA Threads ==
    ASSUME Life, NEW b \in Boxes, ComputeThread(b) \/ NodeThread(b) \/ Commit(b)
    PROVE  ThreadStep
<1>1. PcTypes BY DEF Life
<1>2. CASE ComputeThread(b)
  <2>1. UNCHANGED <<main_pc, open, node_pc>>
    BY <1>2 DEF ComputeThread, ComputeAnnounce, ComputeCheck, ComputeSend, mainVars, nodeVars
  <2>2. \E at \in ComputePcs \ {"none"} : compute_pc' = [compute_pc EXCEPT ![b] = at]
    BY <1>2 DEF ComputeThread, ComputeAnnounce, ComputeCheck, ComputeSend, ComputePcs
  <2>3. compute_pc[b] \notin {"none", "exited"}
    BY <1>2 DEF ComputeThread, ComputeAnnounce, ComputeCheck, ComputeSend, ComputeReady
  <2> QED BY <2>1, <2>2, <2>3 DEF ThreadStep
<1>3. CASE NodeThread(b)
  <2>1. UNCHANGED <<main_pc, open, compute_pc>>
    BY <1>3 DEF NodeThread, NodeInit, NodeInitFails, NodeLoop, NodeDrain, NodeTick,
                mainVars, computeVars
  <2>2. node_pc[b] \notin {"none", "exited"}
    BY <1>3 DEF NodeThread, NodeInit, NodeInitFails, NodeLoop, NodeDrain, NodeTick, NodeReady
  <2>3. CASE NodeDrain(b)
    BY <2>1, <2>3 DEF NodeDrain, ThreadStep
  <2>4. CASE ~NodeDrain(b)
    <3>1. \E at \in NodePcs \ {"none"} : node_pc' = [node_pc EXCEPT ![b] = at]
      BY <1>3, <2>4 DEF NodeThread, NodeInit, NodeInitFails, NodeLoop, NodeTick, NodePcs
    <3> QED BY <2>1, <2>2, <3>1 DEF ThreadStep
  <2> QED BY <2>3, <2>4
<1>4. CASE Commit(b)
  BY <1>4 DEF Commit, mainVars, nodeVars, computeVars, ThreadStep
<1> QED BY <1>2, <1>3, <1>4

\* Steps of the threads keep the order of creation and end.
LEMMA ThreadsKeepLife == Life /\ ThreadStep => Life'
<1>1. SUFFICES ASSUME Life, ThreadStep PROVE Life'
  OBVIOUS
<1>2. PcTypes /\ LifeCycle /\ UNCHANGED <<main_pc, open>>
  BY <1>1 DEF Life, ThreadStep
<1>3. CASE UNCHANGED <<node_pc, compute_pc>>
  BY <1>2, <1>3 DEF Life, PcTypes, LifeCycle
<1>4. ASSUME NEW b \in Boxes, NEW at \in NodePcs \ {"none"},
             node_pc[b] \notin {"none", "exited"},
             node_pc' = [node_pc EXCEPT ![b] = at], UNCHANGED compute_pc
      PROVE  Life'
  <2>1. PcTypes'
    BY <1>2, <1>4 DEF PcTypes
  <2>2. main_pc # "create" /\ (main_pc \in {"joinNodes", "done"} => b \in open)
    BY <1>2, <1>4 DEF LifeCycle
  <2>3. \A c \in Boxes \ {b} : node_pc'[c] = node_pc[c]
    BY <1>2, <1>4 DEF PcTypes
  <2> QED BY <1>2, <1>4, <2>1, <2>2, <2>3 DEF Life, LifeCycle
<1>5. ASSUME NEW b \in Boxes, NEW at \in ComputePcs \ {"none"},
             compute_pc[b] \notin {"none", "exited"},
             compute_pc' = [compute_pc EXCEPT ![b] = at], UNCHANGED node_pc
      PROVE  Life'
  <2>1. PcTypes'
    BY <1>2, <1>5 DEF PcTypes
  <2>2. main_pc \notin {"create", "failing", "settle", "joinNodes", "done"}
    BY <1>2, <1>5 DEF LifeCycle
  <2> QED BY <1>2, <1>5, <2>1, <2>2 DEF Life, LifeCycle
<1> QED BY <1>1, <1>3, <1>4, <1>5 DEF ThreadStep

\* So does every step, those of main() included.
LEMMA LifeNext == Life /\ [Next]_vars => Life'
<1>1. SUFFICES ASSUME Life, [Next]_vars PROVE Life'
  OBVIOUS
<1>2. PcTypes /\ LifeCycle
  BY <1>1 DEF Life
<1> USE DEF Life, PcTypes, LifeCycle, MainPcs, NodePcs, ComputePcs
<1>3. CASE MainCreate
  BY <1>2, <1>3 DEF MainCreate, sim_transport_create, computeVars
<1>4. CASE MainFails
  BY <1>2, <1>4 DEF MainFails, nodeVars, computeVars
<1>5. CASE MainStartComputes
  BY <1>2, <1>5 DEF MainStartComputes, MainLoop, nodeVars
<1>6. CASE MainSecond
  BY <1>2, <1>6 DEF MainSecond, MainLoop, nodeVars, computeVars
<1>7. CASE MainStop
  BY <1>2, <1>7 DEF MainStop, nodeVars, computeVars
<1>8. CASE MainJoinComputes
  BY <1>2, <1>8 DEF MainJoinComputes, nodeVars, computeVars
<1>14. ASSUME NEW b \in Boxes, MainThreadFails(b) PROVE Life'
  BY <1>2, <1>14 DEF MainThreadFails, sim_transport_create, computeVars
<1>15. CASE MainExits
  BY <1>2, <1>15 DEF MainExits, nodeVars, computeVars
<1>16. ASSUME NEW b \in Boxes, MainJoinCrashes(b) PROVE Life'
  BY <1>2, <1>16 DEF MainJoinCrashes, nodeVars, computeVars
<1>9. ASSUME NEW b \in Boxes, MainJoinNode(b) PROVE Life'
  BY <1>2, <1>9 DEF MainJoinNode, sim_transport_destroy, nodeVars, computeVars
<1>10. CASE sigint_handler
  BY <1>2, <1>10 DEF sigint_handler, nodeVars, computeVars
<1>11. CASE Tick
  BY <1>2, <1>11 DEF Tick, mainVars, nodeVars, computeVars
<1>12. CASE UNCHANGED vars
  BY <1>2, <1>12 DEF vars, mainVars, nodeVars, computeVars
<1>13. ASSUME NEW b \in Boxes, ComputeThread(b) \/ NodeThread(b) \/ Commit(b) PROVE Life'
  BY <1>1, <1>13, Threads, ThreadsKeepLife
<1> QED BY <1>1, <1>3, <1>4, <1>5, <1>6, <1>7, <1>8, <1>9, <1>10, <1>11, <1>12, <1>13, <1>14,
           <1>15, <1>16
        DEF Next, Main

\* main() closes a socket only after its threads are gone.
LEMMA LifeHolds == Spec => []Life
<1>1. Init => Life
  BY DEF Init, Life, PcTypes, LifeCycle, MainPcs, NodePcs, ComputePcs
<1> QED BY <1>1, LifeNext, PTL DEF Spec

\* Whatever the number of boxes, the times and the moment of SIGINT, and
\* whichever pthread_create() or oracle_init() fails: no thread is left that
\* could use a socket main() has closed and freed.
THEOREM NeverUsedAfterDestroy == Spec => []NoUseAfterDestroy
<1>1. Life => NoUseAfterDestroy
  BY DEF Life, PcTypes, LifeCycle, NoUseAfterDestroy, MainPcs
<1> QED BY <1>1, LifeHolds, PTL

-----------------------------------------------------------------------------
(* Types *)

Times == 0 .. CLOCK_END
Messages(b) == [type : {"announce", "heartbeat", "ack"}, src : {b}]
Slots == Slot(Boxes, Boxes)

\* A table knows the compute node of its own box, if any.
OwnTable(t, b) ==
    /\ t \in Seq(Slots) /\ Len(t) <= 1
    /\ t # <<>> => t[1].node_id = b

MainTypes ==
    /\ now \in Times /\ g_running \in BOOLEAN /\ interrupted \in BOOLEAN
    /\ second \in 0 .. SIM_RUNTIME_S /\ main_wake \in Nat
    /\ main_pc = "run" => second < SIM_RUNTIME_S
    /\ main_pc = "settle" => second = 0
    /\ main_pc = "create" => second = 0
    /\ alive \in [Boxes -> BOOLEAN]

ThreadTypes ==
    /\ drained \in [Boxes -> 0 .. DRAIN_MAX]
    /\ node_wake \in [Boxes -> Nat] /\ compute_wake \in [Boxes -> Nat]
    /\ node_now \in [Boxes -> Times]
    /\ last_tick \in [Boxes -> Times] /\ last_raft \in [Boxes -> Times]
    /\ first \in [Boxes -> BOOLEAN]

\* A table with a log is not empty: only a change of status is proposed.
BoxTypes(b, sk, t, lg, ci, ap) ==
    /\ sk \in Seq(Messages(b)) /\ Len(sk) <= UDP_BUFFER
    /\ OwnTable(t, b)
    /\ lg \in Seq(Statuses) /\ ci \in Nat /\ ap \in Nat /\ ap <= ci /\ ci <= Len(lg)
    /\ lg # <<>> => t # <<>>

DataTypes ==
    /\ sock = [b \in Boxes |-> sock[b]] /\ table = [b \in Boxes |-> table[b]]
    /\ log = [b \in Boxes |-> log[b]]
    /\ commit = [b \in Boxes |-> commit[b]] /\ applied = [b \in Boxes |-> applied[b]]
    /\ \A b \in Boxes : BoxTypes(b, sock[b], table[b], log[b], commit[b], applied[b])

Types == Life /\ MainTypes /\ ThreadTypes /\ DataTypes

\* The invariant implies the type invariant the run checks.
LEMMA TypesGiveTypeOK == Types => TypeOK
<1>1. SUFFICES ASSUME Types PROVE TypeOK
  OBVIOUS
<1>2. ASSUME NEW b \in Boxes
      PROVE  /\ Len(sock[b]) <= UDP_BUFFER
             /\ node_pc[b] \in NodePcs /\ compute_pc[b] \in ComputePcs
             /\ drained[b] \in 0 .. DRAIN_MAX
             /\ applied[b] <= commit[b] /\ commit[b] <= Len(log[b])
             /\ Len(table[b]) <= 1 /\ \A i \in 1 .. Len(table[b]) : table[b][i] \in Slots
  BY <1>1 DEF Types, Life, PcTypes, ThreadTypes, DataTypes, BoxTypes, OwnTable
<1> QED BY <1>1, <1>2 DEF Types, Life, PcTypes, MainTypes, TypeOK, MainPcs, NodePcs, ComputePcs,
           Slots, Times

\* main(), the signal handler and the clock.
LEMMA MainTypesNext == MainTypes /\ [Next]_vars => MainTypes'
<1>1. SUFFICES ASSUME MainTypes, [Next]_vars PROVE MainTypes'
  OBVIOUS
<1>2. /\ {SETTLE, SECOND} \subseteq Nat /\ SIM_RUNTIME_S \in Nat /\ CLOCK_END \in Nat
      /\ now \in Nat /\ second \in Nat
  BY <1>1, SimulatorConstants DEF MainTypes, Times
<1>3. ASSUME NEW s \in 0 .. SIM_RUNTIME_S, MainLoop(s)
      PROVE  /\ main_wake' \in Nat /\ main_pc' \in {"run", "stop"}
             /\ main_pc' = "run" => s < SIM_RUNTIME_S
  BY <1>2, <1>3 DEF MainLoop
<1>4. CASE MainCreate
  BY <1>1, <1>2, <1>4 DEF MainTypes, MainCreate
<1>5. CASE MainFails
  BY <1>1, <1>5 DEF MainTypes, MainFails
<1>6. CASE MainStartComputes
  BY <1>1, <1>3, <1>6 DEF MainTypes, MainStartComputes
<1>7. CASE MainSecond
  <2>1. second + 1 \in 0 .. SIM_RUNTIME_S
    BY <1>1, <1>2, <1>7 DEF MainTypes, MainSecond
  <2>2. MainLoop(second + 1)
    BY <1>7 DEF MainSecond
  <2>3. alive' \in [Boxes -> BOOLEAN]
    BY <1>1, <1>7 DEF MainTypes, MainSecond
  <2> QED BY <1>1, <1>3, <1>7, <2>1, <2>2, <2>3 DEF MainTypes, MainSecond
<1>8. CASE MainStop
  BY <1>1, <1>8 DEF MainTypes, MainStop
<1>9. CASE MainJoinComputes
  BY <1>1, <1>9 DEF MainTypes, MainJoinComputes
<1>15. ASSUME NEW b \in Boxes, MainThreadFails(b) PROVE MainTypes'
  BY <1>1, <1>2, <1>15 DEF MainTypes, MainThreadFails
<1>16. CASE MainExits
  BY <1>1, <1>16 DEF MainTypes, MainExits
<1>17. ASSUME NEW b \in Boxes, MainJoinCrashes(b) PROVE MainTypes'
  BY <1>1, <1>17 DEF MainTypes, MainJoinCrashes
<1>10. ASSUME NEW b \in Boxes, MainJoinNode(b) PROVE MainTypes'
  BY <1>1, <1>10 DEF MainTypes, MainJoinNode
<1>11. CASE sigint_handler
  BY <1>1, <1>2, <1>11 DEF MainTypes, sigint_handler
<1>12. CASE Tick
  BY <1>1, <1>2, <1>12 DEF MainTypes, Tick, mainVars, Times
<1>13. CASE UNCHANGED vars
  BY <1>1, <1>13 DEF MainTypes, vars, mainVars
<1>14. ASSUME NEW b \in Boxes, ComputeThread(b) \/ NodeThread(b) \/ Commit(b) PROVE MainTypes'
  <2>1. UNCHANGED <<now, mainVars, alive>>
    BY <1>14 DEF ComputeThread, ComputeAnnounce, ComputeCheck, ComputeSend, NodeThread, NodeInit,
                 NodeInitFails, NodeLoop, NodeDrain, NodeTick, Commit
  <2> QED BY <1>1, <2>1 DEF MainTypes, mainVars
<1> QED BY <1>1, <1>4, <1>5, <1>6, <1>7, <1>8, <1>9, <1>10, <1>11, <1>12, <1>13, <1>14, <1>15,
           <1>16, <1>17
        DEF Next, Main

\* Clock values and counters of the threads.
LEMMA ThreadTypesNext ==
    MainTypes /\ ThreadTypes /\ [Next]_vars => ThreadTypes'
<1>1. SUFFICES ASSUME MainTypes, ThreadTypes, [Next]_vars PROVE ThreadTypes'
  OBVIOUS
<1>2. /\ {PAUSE, HB_INTERVAL_MS, DRAIN_MAX} \subseteq Nat /\ now \in Nat /\ now \in Times
      /\ now + 1 \in Nat /\ now + PAUSE \in Nat /\ now + HB_INTERVAL_MS \in Nat
  BY <1>1, SimulatorConstants, MonitorConstants DEF MainTypes, Times
<1>3. CASE Main
  BY <1>1, <1>2, <1>3 DEF Main, ThreadTypes, MainCreate, MainFails, MainThreadFails, MainExits,
       MainStartComputes, MainSecond, MainStop, MainJoinComputes, MainJoinCrashes, MainJoinNode,
       nodeVars, raftVars, computeVars
<1>4. CASE sigint_handler \/ Tick \/ UNCHANGED vars
  BY <1>1, <1>4 DEF ThreadTypes, sigint_handler, Tick, vars, nodeVars, raftVars, computeVars
<1>5. ASSUME NEW b \in Boxes, ComputeThread(b) PROVE ThreadTypes'
  <2>1. UNCHANGED <<nodeVars, raftVars>>
    BY <1>5 DEF ComputeThread, ComputeAnnounce, ComputeCheck, ComputeSend
  <2>2. compute_wake' \in [Boxes -> Nat]
    BY <1>1, <1>2, <1>5 DEF ComputeThread, ComputeAnnounce, ComputeCheck, ComputeSend, ThreadTypes
  <2> QED BY <1>1, <2>1, <2>2 DEF ThreadTypes, nodeVars, raftVars
<1>6. ASSUME NEW b \in Boxes, Commit(b) PROVE ThreadTypes'
  BY <1>1, <1>6 DEF ThreadTypes, Commit, nodeVars, computeVars
<1>7. ASSUME NEW b \in Boxes, NodeThread(b) PROVE ThreadTypes'
  <2>1. CASE NodeInit(b)
    BY <1>1, <1>2, <2>1 DEF ThreadTypes, NodeInit, computeVars
  <2>2. CASE NodeInitFails(b)
    BY <1>1, <2>2 DEF ThreadTypes, NodeInitFails, computeVars, raftVars
  <2>3. CASE NodeLoop(b)
    BY <1>1, <1>2, <2>3 DEF ThreadTypes, NodeLoop, computeVars, raftVars
  <2>4. CASE NodeDrain(b)
    BY <1>1, <1>2, <2>4 DEF ThreadTypes, NodeDrain, computeVars
  <2>5. CASE NodeTick(b)
    <3>1. node_now[b] \in Times
      BY <1>1 DEF ThreadTypes
    <3>2. /\ \/ last_raft' = [last_raft EXCEPT ![b] = node_now[b]]
             \/ UNCHANGED last_raft
          /\ \/ last_tick' = [last_tick EXCEPT ![b] = node_now[b]]
             \/ UNCHANGED last_tick
          /\ \/ first' = [first EXCEPT ![b] = FALSE]
             \/ UNCHANGED first
          /\ node_wake' = [node_wake EXCEPT ![b] = now + 1]
          /\ UNCHANGED <<node_now, drained, compute_wake>>
      BY <2>5 DEF NodeTick, computeVars
    <3> QED BY <1>1, <1>2, <3>1, <3>2 DEF ThreadTypes
  <2> QED BY <1>7, <2>1, <2>2, <2>3, <2>4, <2>5 DEF NodeThread
<1> QED BY <1>1, <1>3, <1>4, <1>5, <1>6, <1>7 DEF Next

-----------------------------------------------------------------------------
(* The table of one box *)

\* The times of a run are ticks that do not wrap.
LEMMA ClockFits == Times \subseteq Ticks /\ 0 \in Ticks /\ 0 \in 0 .. MISS_MOD - 1
BY MonitorConstants, SimulatorConstants DEF Times, Ticks

\* A table that is not empty has the one slot of its box.
LEMMA OwnLength ==
    ASSUME NEW b, NEW t, OwnTable(t, b), t # <<>>
    PROVE  Len(t) = 1
<1>1. t \in Seq(Slots) /\ Len(t) <= 1
  BY DEF OwnTable
<1>2. Len(t) \in Nat /\ Len(t) # 0
  BY <1>1
<1>3. \A n \in Nat : n <= 1 /\ n # 0 => n = 1
  OBVIOUS
<1> QED BY <1>1, <1>2, <1>3

\* The node of the box is in slot 1, or nowhere.
LEMMA FindOwn ==
    ASSUME NEW b \in Boxes, NEW t, OwnTable(t, b)
    PROVE  find_node(t, b) = IF t = <<>> THEN 0 ELSE 1
<1>1. t \in Seq(Slots) /\ Len(t) <= 1 /\ (t # <<>> => t[1].node_id = b)
  BY DEF OwnTable
<1>2. CASE t = <<>>
  <2>1. ~ \E i \in 1 .. Len(t) : t[i].node_id = b
    BY <1>2
  <2> QED BY <1>2, <2>1 DEF find_node
<1>3. CASE t # <<>>
  <2>1. Len(t) = 1
    BY <1>3, OwnLength
  <2>2. 1 .. Len(t) = {1} /\ t[1].node_id = b
    BY <1>1, <1>3, <2>1
  <2>3. \E i \in {1} : t[i].node_id = b
    BY <2>2
  <2>4. (CHOOSE i \in {1} : t[i].node_id = b) = 1
    BY <2>3
  <2> QED BY <1>3, <2>2, <2>3, <2>4 DEF find_node
<1> QED BY <1>2, <1>3

\* A table with one slot.
LEMMA OneSlot ==
    ASSUME NEW b \in Boxes, NEW t, OwnTable(t, b), NEW e \in Slots, e.node_id = b
    PROVE  LET r == IF t = <<>> THEN Append(t, e) ELSE [t EXCEPT ![1] = e]
           IN  OwnTable(r, b) /\ r # <<>> /\ r[1] = e
<1>1. t \in Seq(Slots) /\ Len(t) <= 1 /\ Len(t) \in Nat
  BY DEF OwnTable
<1>2. CASE t = <<>>
  <2>1. Append(t, e) = <<e>>
    BY <1>2
  <2>2. <<e>> \in Seq(Slots) /\ Len(<<e>>) = 1 /\ <<e>>[1] = e /\ <<e>> # <<>>
    OBVIOUS
  <2> QED BY <1>2, <2>1, <2>2 DEF OwnTable
<1>3. CASE t # <<>>
  <2>1. Len(t) = 1
    BY <1>3, OwnLength
  <2> DEFINE r == [t EXCEPT ![1] = e]
  <2>2. r \in Seq(Slots) /\ Len(r) = 1 /\ r[1] = e
    BY <1>1, <2>1
  <2>3. r # <<>>
    BY <2>2
  <2> HIDE DEF r
  <2>4. OwnTable(r, b)
    BY <2>2 DEF OwnTable
  <2> QED BY <1>3, <2>2, <2>3, <2>4 DEF r
<1> QED BY <1>2, <1>3

\* An announcement leaves the table as it is only when it has no slot left.
LEMMA AnnounceOwn ==
    ASSUME NEW b \in Boxes, NEW t, OwnTable(t, b), NEW at \in Ticks
    PROVE  LET r == process_announce(t, b, b, at)
           IN  /\ OwnTable(r, b) /\ r # <<>>
               /\ r[1] = announced(b, b, at)
<1> DEFINE e == announced(b, b, at)
<1>1. e \in Slots /\ e.node_id = b
  BY ClockFits DEF announced, Slots, Slot, Statuses, NODE_UP
<1> HIDE DEF e
<1>2. find_node(t, b) = IF t = <<>> THEN 0 ELSE 1
  BY FindOwn
<1>3. t = <<>> => Len(t) < MAX_HEALTH_NODES
  BY MonitorConstants
<1>4. process_announce(t, b, b, at) = IF t = <<>> THEN Append(t, e) ELSE [t EXCEPT ![1] = e]
  <2>1. CASE t = <<>>
    BY <1>2, <1>3, <2>1 DEF process_announce, e
  <2>2. CASE t # <<>>
    BY <1>2, <2>2 DEF process_announce, e
  <2> QED BY <2>1, <2>2
<1> QED BY <1>1, <1>4, OneSlot DEF e

\* A heartbeat of a node without a slot is dropped; any other makes it UP.
LEMMA HeartbeatOwn ==
    ASSUME NEW b \in Boxes, NEW t, OwnTable(t, b), NEW at \in Ticks
    PROVE  LET r == process_heartbeat(t, b, at)
           IN  /\ OwnTable(r, b)
               /\ t = <<>> => r = t
               /\ t # <<>> => /\ r # <<>> /\ r[1].status = NODE_UP
                              /\ r[1].last_seen_ms = at /\ r[1].miss_count = 0
<1>1. find_node(t, b) = IF t = <<>> THEN 0 ELSE 1
  BY FindOwn
<1>2. CASE t = <<>>
  BY <1>1, <1>2 DEF process_heartbeat
<1>3. CASE t # <<>>
  <2> DEFINE e == t[1]
             s == IF e.status = NODE_UP THEN e.suspect_since_ms ELSE 0
             f == [e EXCEPT !.last_seen_ms = at]
             g == [f EXCEPT !.miss_count = 0]
             h == [g EXCEPT !.status = NODE_UP]
             k == [h EXCEPT !.suspect_since_ms = s]
  <2>1. e \in Slots /\ e.node_id = b
    BY <1>3 DEF OwnTable
  <2>2. s \in Ticks /\ NODE_UP \in Statuses
    BY <2>1, ClockFits DEF Slots, Slot, Statuses
  <2>3. process_heartbeat(t, b, at) = [t EXCEPT ![1] = k]
    BY <1>1, <1>3 DEF process_heartbeat, heartbeat_seen
  <2> HIDE DEF e, s
  <2>4. f \in Slots /\ f.node_id = b /\ f.last_seen_ms = at
    BY <2>1 DEF Slots, Slot
  <2> HIDE DEF f
  <2>5. g \in Slots /\ g.node_id = b /\ g.last_seen_ms = at /\ g.miss_count = 0
    BY <2>4, ClockFits DEF Slots, Slot
  <2> HIDE DEF g
  <2>6. /\ h \in Slots /\ h.node_id = b /\ h.last_seen_ms = at /\ h.miss_count = 0
        /\ h.status = NODE_UP
    BY <2>2, <2>5 DEF Slots, Slot
  <2> HIDE DEF h
  <2>7. /\ k \in Slots /\ k.node_id = b /\ k.last_seen_ms = at /\ k.miss_count = 0
        /\ k.status = NODE_UP
    BY <2>2, <2>6 DEF Slots, Slot
  <2> HIDE DEF k
  <2>8. [t EXCEPT ![1] = k] # <<>> /\ [t EXCEPT ![1] = k][1] = k /\ OwnTable([t EXCEPT ![1] = k], b)
    BY <1>3, <2>7, OneSlot
  <2> QED BY <1>3, <2>3, <2>7, <2>8
<1> QED BY <1>2, <1>3

\* One slot in a tick.
LEMMA TickedOwn ==
    ASSUME NEW e \in Slots, NEW at \in Ticks
    PROVE  LET c == [e EXCEPT !.miss_count = count_misses(e, at)]
               r == Ticked(e, at)
           IN  /\ r \in Slots /\ r.node_id = e.node_id /\ r.last_seen_ms = e.last_seen_ms
               /\ r.miss_count = count_misses(e, at)
               /\ r.status = tick_status(c, at, TRUE)
               /\ r.suspect_since_ms = IF r.status = NODE_SUSPECT /\ e.status = NODE_UP
                                       THEN at ELSE e.suspect_since_ms
<1> DEFINE m == count_misses(e, at)
           c == [e EXCEPT !.miss_count = m]
           new == tick_status(c, at, TRUE)
           since == IF new = NODE_SUSPECT /\ e.status = NODE_UP THEN at ELSE e.suspect_since_ms
           f == [c EXCEPT !.status = new]
           r == [f EXCEPT !.suspect_since_ms = since]
<1>1. m \in 0 .. MISS_MOD - 1
  <2> DEFINE d == Elapsed(at, e.last_seen_ms)
  <2>1. d \in Nat
    BY MonitorConstants DEF Slots, Slot, Ticks, Elapsed
  <2>2. e.miss_count \in 0 .. MISS_MOD - 1
    BY DEF Slots, Slot
  <2>3. m = IF d >= HB_INTERVAL_MS THEN (d \div HB_INTERVAL_MS) % MISS_MOD ELSE e.miss_count
    BY DEF count_misses
  <2> HIDE DEF d, m
  <2>4. d \div HB_INTERVAL_MS \in Int
    BY <2>1, MonitorConstants
  <2>5. (d \div HB_INTERVAL_MS) % MISS_MOD \in 0 .. MISS_MOD - 1
    BY <2>4, MonitorConstants
  <2> QED BY <2>2, <2>3, <2>5
<1>2. Ticked(e, at) = r
  <2>1. c.suspect_since_ms = e.suspect_since_ms
    BY DEF Slots, Slot
  <2> QED BY <2>1 DEF Ticked
<1> HIDE DEF m
<1>3. /\ c \in Slots /\ c.node_id = e.node_id /\ c.last_seen_ms = e.last_seen_ms
      /\ c.miss_count = m /\ c.status = e.status /\ c.suspect_since_ms = e.suspect_since_ms
  BY <1>1 DEF Slots, Slot
<1> HIDE DEF c
<1>4. new \in Statuses
  BY <1>3 DEF tick_status, Slots, Slot, Statuses, NODE_UP, NODE_SUSPECT, NODE_DOWN
<1>5. since \in Ticks
  BY DEF Slots, Slot
<1> HIDE DEF new, since
<1>6. /\ f \in Slots /\ f.node_id = e.node_id /\ f.last_seen_ms = e.last_seen_ms
      /\ f.miss_count = m /\ f.status = new
  BY <1>3, <1>4 DEF Slots, Slot
<1> HIDE DEF f
<1>7. /\ r \in Slots /\ r.node_id = e.node_id /\ r.last_seen_ms = e.last_seen_ms
      /\ r.miss_count = m /\ r.status = new /\ r.suspect_since_ms = since
  BY <1>5, <1>6 DEF Slots, Slot
<1> HIDE DEF r
<1> QED BY <1>2, <1>7 DEF m, c, new, since

\* health_monitor_tick() on the table of a box.
LEMMA TickOwn ==
    ASSUME NEW b \in Boxes, NEW t, OwnTable(t, b), NEW at \in Ticks, NEW isFirst \in BOOLEAN
    PROVE  LET r == health_tick(t, isFirst, at)
           IN  /\ OwnTable(r, b)
               /\ t = <<>> \/ isFirst => r = t
               /\ t # <<>> => r # <<>>
               /\ t # <<>> /\ ~isFirst => r[1] = Ticked(t[1], at)
<1>1. t \in Seq(Slots) /\ Len(t) \in Nat /\ Len(t) <= 1 /\ (t # <<>> => t[1].node_id = b)
  BY DEF OwnTable
<1>2. CASE isFirst
  BY <1>2 DEF health_tick
<1>3. CASE ~isFirst
  <2> DEFINE r == [i \in 1 .. Len(t) |-> Ticked(t[i], at)]
  <2>1. health_tick(t, isFirst, at) = r
    BY <1>3 DEF health_tick
  <2>2. ASSUME NEW i \in 1 .. Len(t)
        PROVE  Ticked(t[i], at) \in Slots /\ Ticked(t[i], at).node_id = t[i].node_id
    <3>1. t[i] \in Slots
      BY <1>1
    <3> QED BY <3>1, TickedOwn
  <2>3. r \in Seq(Slots) /\ Len(r) = Len(t) /\ \A i \in 1 .. Len(t) : r[i] = Ticked(t[i], at)
    BY <1>1, <2>2
  <2> HIDE DEF r
  <2>4. CASE t = <<>>
    <3>1. r = <<>>
      BY <2>3, <2>4
    <3> QED BY <1>3, <2>1, <2>4, <3>1
  <2>5. CASE t # <<>>
    <3>1. 1 \in 1 .. Len(t)
      BY <1>1, <2>5
    <3>2. r # <<>> /\ r[1] = Ticked(t[1], at) /\ r[1].node_id = b
      BY <1>1, <2>2, <2>3, <2>5, <3>1
    <3> QED BY <1>1, <1>3, <2>1, <2>3, <2>5, <3>2 DEF OwnTable
  <2> QED BY <2>4, <2>5
<1> QED BY <1>2, <1>3

-----------------------------------------------------------------------------
(* Sockets, tables and logs *)

\* The types of one box, and what a step that leaves it alone writes.
LEMMA BoxKept ==
    ASSUME DataTypes, NEW b \in Boxes
    PROVE  /\ BoxTypes(b, sock[b], table[b], log[b], commit[b], applied[b])
           /\ sock = [sock EXCEPT ![b] = sock[b]] /\ table = [table EXCEPT ![b] = table[b]]
           /\ log = [log EXCEPT ![b] = log[b]] /\ commit = [commit EXCEPT ![b] = commit[b]]
           /\ applied = [applied EXCEPT ![b] = applied[b]]
BY Zenon DEF DataTypes

\* A step of one box.
BoxStep(b) ==
    \E sk, t, lg, ci, ap :
        /\ BoxTypes(b, sk, t, lg, ci, ap)
        /\ sock' = [sock EXCEPT ![b] = sk] /\ table' = [table EXCEPT ![b] = t]
        /\ log' = [log EXCEPT ![b] = lg] /\ commit' = [commit EXCEPT ![b] = ci]
        /\ applied' = [applied EXCEPT ![b] = ap]

\* A step that writes the state of one box keeps all types.
LEMMA OneBox ==
    ASSUME DataTypes, NEW b \in Boxes, BoxStep(b)
    PROVE  DataTypes'
<1> PICK sk, t, lg, ci, ap :
        /\ BoxTypes(b, sk, t, lg, ci, ap)
        /\ sock' = [sock EXCEPT ![b] = sk] /\ table' = [table EXCEPT ![b] = t]
        /\ log' = [log EXCEPT ![b] = lg] /\ commit' = [commit EXCEPT ![b] = ci]
        /\ applied' = [applied EXCEPT ![b] = ap]
  BY DEF BoxStep
<1>1. \A c \in Boxes : /\ sock'[c] = IF c = b THEN sk ELSE sock[c]
                       /\ table'[c] = IF c = b THEN t ELSE table[c]
                       /\ log'[c] = IF c = b THEN lg ELSE log[c]
                       /\ commit'[c] = IF c = b THEN ci ELSE commit[c]
                       /\ applied'[c] = IF c = b THEN ap ELSE applied[c]
  BY Zenon DEF DataTypes
<1>2. /\ sock' = [c \in Boxes |-> sock'[c]] /\ table' = [c \in Boxes |-> table'[c]]
      /\ log' = [c \in Boxes |-> log'[c]]
      /\ commit' = [c \in Boxes |-> commit'[c]] /\ applied' = [c \in Boxes |-> applied'[c]]
  BY Zenon DEF DataTypes
<1>3. \A c \in Boxes : BoxTypes(c, sock'[c], table'[c], log'[c], commit'[c], applied'[c])
  BY <1>1, Zenon DEF DataTypes
<1> QED BY <1>2, <1>3, Zenon DEF DataTypes

\* A status other than the one of an empty table is the status of a slot.
LEMMA ProposedLog ==
    ASSUME DataTypes, NEW b \in Boxes, NEW t, NEW r, OwnTable(t, b), OwnTable(r, b),
           t = <<>> => r = t, t # <<>> => r # <<>>, log[b] # <<>> => r # <<>>
    PROVE  \E lg : /\ Proposed(b, Status(t), Status(r)) = [log EXCEPT ![b] = lg]
                   /\ lg \in Seq(Statuses) /\ Len(lg) >= Len(log[b]) /\ (lg # <<>> => r # <<>>)
<1>1. log[b] \in Seq(Statuses) /\ log = [log EXCEPT ![b] = log[b]]
  BY BoxKept DEF BoxTypes
<1>2. CASE b \in leads /\ Status(t) # Status(r)
  <2>1. r # <<>>
    BY <1>2 DEF Status
  <2>2. Status(r) \in Statuses
    <3>1. r[1] \in Slots
      BY <2>1, OwnLength DEF OwnTable
    <3> QED BY <2>1, <3>1 DEF Status, Slots, Slot
  <2>3. Append(log[b], Status(r)) \in Seq(Statuses) /\ Len(Append(log[b], Status(r))) >= Len(log[b])
    BY <1>1, <2>2
  <2>4. Proposed(b, Status(t), Status(r)) = [log EXCEPT ![b] = Append(log[b], Status(r))]
    BY <1>2 DEF Proposed
  <2> QED BY <2>1, <2>3, <2>4
<1>3. CASE ~(b \in leads /\ Status(t) # Status(r))
  <2>1. Proposed(b, Status(t), Status(r)) = [log EXCEPT ![b] = log[b]]
    BY <1>1, <1>3 DEF Proposed
  <2>2. Len(log[b]) >= Len(log[b])
    BY <1>1
  <2> QED BY <1>1, <2>1, <2>2, Zenon
<1> QED BY <1>2, <1>3

\* A datagram at a socket.
SendStep(b, type) == sim_send(b, type, b) /\ UNCHANGED <<table, log, commit, applied>>

\* sendto() of a compute thread keeps the types.
LEMMA SendTypes ==
    ASSUME DataTypes, NEW b \in Boxes, NEW type \in {"announce", "heartbeat"}, SendStep(b, type)
    PROVE  DataTypes'
<1> DEFINE m == [type |-> type, src |-> b]
           sk == IF b \in open /\ Len(sock[b]) < UDP_BUFFER THEN Append(sock[b], m) ELSE sock[b]
<1>1. m \in Messages(b)
  BY DEF Messages
<1>2. BoxTypes(b, sock[b], table[b], log[b], commit[b], applied[b])
  BY BoxKept
<1>3. sock' = [sock EXCEPT ![b] = sk]
  BY BoxKept DEF SendStep, sim_send
<1> HIDE DEF m
<1>4. sk \in Seq(Messages(b)) /\ Len(sk) <= UDP_BUFFER
  <2>1. sock[b] \in Seq(Messages(b)) /\ Len(sock[b]) <= UDP_BUFFER /\ UDP_BUFFER \in Nat
    BY <1>2, SimulatorConstants DEF BoxTypes
  <2>2. Append(sock[b], m) \in Seq(Messages(b)) /\ Len(Append(sock[b], m)) = Len(sock[b]) + 1
        /\ Len(sock[b]) \in Nat
    BY <1>1, <2>1
  <2> QED BY <2>1, <2>2
<1> HIDE DEF sk
<1>5. BoxTypes(b, sk, table[b], log[b], commit[b], applied[b])
  BY <1>2, <1>4 DEF BoxTypes
<1>6. /\ table' = [table EXCEPT ![b] = table[b]] /\ log' = [log EXCEPT ![b] = log[b]]
      /\ commit' = [commit EXCEPT ![b] = commit[b]] /\ applied' = [applied EXCEPT ![b] = applied[b]]
  BY BoxKept DEF SendStep
<1>7. BoxStep(b)
  <2>1. /\ BoxTypes(b, sk, table[b], log[b], commit[b], applied[b])
        /\ sock' = [sock EXCEPT ![b] = sk] /\ table' = [table EXCEPT ![b] = table[b]]
        /\ log' = [log EXCEPT ![b] = log[b]] /\ commit' = [commit EXCEPT ![b] = commit[b]]
        /\ applied' = [applied EXCEPT ![b] = applied[b]]
    BY <1>3, <1>5, <1>6
  <2> QED BY <2>1, Zenon DEF BoxStep
<1> QED BY <1>7, OneBox

\* Reading a message keeps the types.
LEMMA DrainTypes ==
    ASSUME ThreadTypes, DataTypes, NEW b \in Boxes, NodeDrain(b)
    PROVE  DataTypes'
<1>1. BoxTypes(b, sock[b], table[b], log[b], commit[b], applied[b])
  BY BoxKept
<1>2. sock[b] \in Seq(Messages(b)) /\ Len(sock[b]) <= UDP_BUFFER /\ OwnTable(table[b], b)
  BY <1>1 DEF BoxTypes
<1>3. node_now[b] \in Ticks
  BY ClockFits DEF ThreadTypes
<1>4. PICK m \in sim_recv(b) :
         /\ table' = [table EXCEPT ![b] = handle(b, m)]
         /\ log' = IF m.type = "heartbeat"
                   THEN Proposed(b, Status(table[b]), Status(table'[b])) ELSE log
         /\ sock' = [sock EXCEPT ![b] = IF m.type = "announce"
                                        THEN Append(Tail(@), [type |-> "ack", src |-> b])
                                        ELSE Tail(@)]
  BY DEF NodeDrain
<1>5. sock[b] # <<>> /\ m \in Messages(b)
  BY <1>2, <1>4 DEF sim_recv
<1>6. m.src = b /\ m.type \in {"announce", "heartbeat", "ack"}
  BY <1>5 DEF Messages
<1> DEFINE a == [type |-> "ack", src |-> b]
           sk == IF m.type = "announce" THEN Append(Tail(sock[b]), a) ELSE Tail(sock[b])
           r == handle(b, m)
<1>7. sk \in Seq(Messages(b)) /\ Len(sk) <= UDP_BUFFER
  <2>1. a \in Messages(b)
    BY DEF Messages
  <2> HIDE DEF a
  <2>2. Tail(sock[b]) \in Seq(Messages(b)) /\ Len(Tail(sock[b])) + 1 = Len(sock[b])
        /\ Len(sock[b]) \in Nat /\ UDP_BUFFER \in Nat /\ Len(Tail(sock[b])) \in Nat
    BY <1>2, <1>5, SimulatorConstants
  <2>3. /\ Append(Tail(sock[b]), a) \in Seq(Messages(b))
        /\ Len(Append(Tail(sock[b]), a)) = Len(Tail(sock[b])) + 1
    BY <2>1, <2>2
  <2>4. Len(Tail(sock[b])) <= UDP_BUFFER /\ Len(Append(Tail(sock[b]), a)) <= UDP_BUFFER
    BY <1>2, <2>2, <2>3
  <2> QED BY <2>2, <2>3, <2>4
<1>8. sock' = [sock EXCEPT ![b] = sk]
  BY <1>4
<1>9. OwnTable(r, b) /\ (table[b] # <<>> => r # <<>>)
      /\ (m.type = "heartbeat" => (table[b] = <<>> => r = table[b]))
  <2>1. CASE m.type = "announce"
    BY <1>2, <1>3, <1>6, <2>1, AnnounceOwn DEF handle
  <2>2. CASE m.type = "heartbeat"
    BY <1>2, <1>3, <1>6, <2>2, HeartbeatOwn DEF handle
  <2>3. CASE m.type = "ack"
    BY <1>2, <2>3 DEF handle
  <2> QED BY <1>6, <2>1, <2>2, <2>3
<1>10. table' = [table EXCEPT ![b] = r] /\ table'[b] = r
  BY <1>4, BoxKept, Zenon DEF DataTypes
<1>11. PICK lg : /\ log' = [log EXCEPT ![b] = lg]
                 /\ lg \in Seq(Statuses) /\ Len(lg) >= Len(log[b]) /\ (lg # <<>> => r # <<>>)
  <2>1. log[b] \in Seq(Statuses) /\ (log[b] # <<>> => r # <<>>)
    BY <1>1, <1>9 DEF BoxTypes
  <2>2. CASE m.type = "heartbeat"
    <3>1. log' = Proposed(b, Status(table[b]), Status(r))
      BY <1>4, <1>10, <2>2
    <3> HIDE DEF r
    <3> QED BY <1>2, <1>9, <2>1, <2>2, <3>1, ProposedLog
  <2>3. CASE m.type # "heartbeat"
    <3>1. log' = [log EXCEPT ![b] = log[b]]
      BY <1>4, <2>3, BoxKept
    <3>2. Len(log[b]) >= Len(log[b])
      BY <2>1
    <3> QED BY <2>1, <3>1, <3>2, Zenon
  <2> QED BY <2>2, <2>3
<1> HIDE DEF sk, r
<1>12. BoxTypes(b, sk, r, lg, commit[b], applied[b])
  <2>1. commit[b] <= Len(lg)
    <3>1. commit[b] \in Nat /\ commit[b] <= Len(log[b]) /\ log[b] \in Seq(Statuses)
      BY <1>1 DEF BoxTypes
    <3> QED BY <1>11, <3>1
  <2> QED BY <1>1, <1>7, <1>9, <1>11, <2>1 DEF BoxTypes
<1>13. UNCHANGED <<commit, applied>>
  BY DEF NodeDrain
<1>14. /\ commit' = [commit EXCEPT ![b] = commit[b]] /\ applied' = [applied EXCEPT ![b] = applied[b]]
  BY <1>13, BoxKept
<1>15. BoxStep(b)
  BY <1>8, <1>10, <1>11, <1>12, <1>14 DEF BoxStep
<1> QED BY <1>15, OneBox

\* What raft_periodic() applies goes into the slot of the box.
LEMMA AppliedOwn ==
    ASSUME DataTypes, NEW b \in Boxes
    PROVE  /\ OwnTable(Applied(b), b)
           /\ table[b] = <<>> <=> Applied(b) = <<>>
           /\ table[b] # <<>> => /\ Applied(b)[1].last_seen_ms = table[b][1].last_seen_ms
                                 /\ Applied(b)[1].miss_count = table[b][1].miss_count
                                 /\ Applied(b)[1].suspect_since_ms = table[b][1].suspect_since_ms
           /\ log[b] = <<>> => Applied(b) = table[b]
<1>1. BoxTypes(b, sock[b], table[b], log[b], commit[b], applied[b])
  BY BoxKept
<1>2. /\ OwnTable(table[b], b) /\ log[b] \in Seq(Statuses) /\ commit[b] \in Nat /\ applied[b] \in Nat
      /\ applied[b] <= commit[b] /\ commit[b] <= Len(log[b])
      /\ (log[b] # <<>> => table[b] # <<>>)
  BY <1>1 DEF BoxTypes
<1>3. CASE ~(applied[b] < commit[b])
  BY <1>2, <1>3 DEF Applied
<1>4. CASE applied[b] < commit[b]
  <2> DEFINE e == table[b][1]
             n == log[b][commit[b]]
             f == [e EXCEPT !.status = n]
  <2>1. commit[b] \in 1 .. Len(log[b]) /\ log[b] # <<>>
    BY <1>2, <1>4
  <2>2. n \in Statuses /\ table[b] # <<>>
    BY <1>2, <2>1
  <2>3. e \in Slots /\ e.node_id = b
    BY <1>2, <2>2, OwnLength DEF OwnTable
  <2>4. Applied(b) = [table[b] EXCEPT ![1] = f]
    BY <1>4 DEF Applied
  <2> HIDE DEF n, e
  <2>5. /\ f \in Slots /\ f.node_id = b /\ f.last_seen_ms = e.last_seen_ms
        /\ f.miss_count = e.miss_count /\ f.suspect_since_ms = e.suspect_since_ms
    BY <2>2, <2>3 DEF Slots, Slot
  <2> HIDE DEF f
  <2>6. OwnTable(Applied(b), b) /\ Applied(b) # <<>> /\ Applied(b)[1] = f
    <3> DEFINE t == table[b]
    <3>1. OwnTable(t, b) /\ t # <<>>
      BY <1>2, <2>2
    <3> HIDE DEF t
    <3>2. LET r == IF t = <<>> THEN Append(t, f) ELSE [t EXCEPT ![1] = f]
          IN  OwnTable(r, b) /\ r # <<>> /\ r[1] = f
      BY <2>5, <3>1, OneSlot
    <3>3. Applied(b) = [t EXCEPT ![1] = f]
      BY <2>4 DEF t
    <3> QED BY <3>1, <3>2, <3>3, Zenon
  <2> QED BY <2>1, <2>2, <2>5, <2>6 DEF e
<1> QED BY <1>3, <1>4

\* raft_periodic() and the tick of an iteration keep the types.
LEMMA TickTypes ==
    ASSUME ThreadTypes, DataTypes, NEW b \in Boxes, NodeTick(b)
    PROVE  DataTypes'
<1> DEFINE raft == node_now[b] - last_raft[b] >= SIM_TICK_MS
           health == node_now[b] - last_tick[b] >= HB_INTERVAL_MS
           t == IF raft THEN Applied(b) ELSE table[b]
           r == IF health THEN health_tick(t, first[b], node_now[b]) ELSE t
           ap == IF raft THEN commit[b] ELSE applied[b]
<1>1. BoxTypes(b, sock[b], table[b], log[b], commit[b], applied[b])
  BY BoxKept
<1>2. node_now[b] \in Ticks /\ first[b] \in BOOLEAN
  BY ClockFits DEF ThreadTypes
<1>3. OwnTable(t, b) /\ (table[b] = <<>> <=> t = <<>>)
  BY <1>1, AppliedOwn DEF BoxTypes
<1>4. /\ table' = [table EXCEPT ![b] = r] /\ log' = Proposed(b, Status(t), Status(table'[b]))
      /\ applied' = (IF raft THEN [applied EXCEPT ![b] = commit[b]] ELSE applied)
      /\ UNCHANGED <<sock, commit>>
  BY DEF NodeTick
<1>5. applied' = [applied EXCEPT ![b] = ap]
  BY <1>4, BoxKept
<1> HIDE DEF t
<1>6. OwnTable(r, b) /\ (t = <<>> => r = t) /\ (t # <<>> => r # <<>>)
  BY <1>2, <1>3, TickOwn
<1>7. table'[b] = r
  BY <1>4, Zenon DEF DataTypes
<1> HIDE DEF r
<1>8. log[b] # <<>> => r # <<>>
  BY <1>1, <1>3, <1>6 DEF BoxTypes
<1>9. PICK lg : /\ log' = [log EXCEPT ![b] = lg]
                /\ lg \in Seq(Statuses) /\ Len(lg) >= Len(log[b]) /\ (lg # <<>> => r # <<>>)
  BY <1>3, <1>4, <1>6, <1>7, <1>8, ProposedLog
<1>10. BoxTypes(b, sock[b], r, lg, commit[b], ap)
  <2>1. /\ commit[b] \in Nat /\ applied[b] \in Nat /\ applied[b] <= commit[b]
        /\ commit[b] <= Len(log[b]) /\ log[b] \in Seq(Statuses)
    BY <1>1 DEF BoxTypes
  <2>2. commit[b] <= Len(lg)
    BY <1>9, <2>1
  <2>3. ap \in Nat /\ ap <= commit[b]
    BY <2>1
  <2> QED BY <1>1, <1>6, <1>9, <2>2, <2>3 DEF BoxTypes
<1> HIDE DEF ap
<1>11. sock' = [sock EXCEPT ![b] = sock[b]] /\ commit' = [commit EXCEPT ![b] = commit[b]]
  BY <1>4, BoxKept
<1>12. BoxStep(b)
  <2>1. /\ BoxTypes(b, sock[b], r, lg, commit[b], ap)
        /\ sock' = [sock EXCEPT ![b] = sock[b]] /\ table' = [table EXCEPT ![b] = r]
        /\ log' = [log EXCEPT ![b] = lg] /\ commit' = [commit EXCEPT ![b] = commit[b]]
        /\ applied' = [applied EXCEPT ![b] = ap]
    BY <1>4, <1>5, <1>9, <1>10, <1>11
  <2> QED BY <2>1, Zenon DEF BoxStep
<1> QED BY <1>12, OneBox

\* A commit keeps the types.
LEMMA CommitTypes ==
    ASSUME DataTypes, NEW b \in Boxes, Commit(b)
    PROVE  DataTypes'
<1>1. BoxTypes(b, sock[b], table[b], log[b], commit[b], applied[b])
  BY BoxKept
<1>2. BoxTypes(b, sock[b], table[b], log[b], commit[b] + 1, applied[b])
  <2>1. /\ log[b] \in Seq(Statuses) /\ commit[b] \in Nat /\ applied[b] \in Nat
        /\ applied[b] <= commit[b] /\ commit[b] < Len(log[b])
    BY <1>1 DEF BoxTypes, Commit
  <2>2. commit[b] + 1 \in Nat /\ applied[b] <= commit[b] + 1 /\ commit[b] + 1 <= Len(log[b])
    BY <2>1
  <2> QED BY <1>1, <2>2 DEF BoxTypes
<1>3. /\ sock' = [sock EXCEPT ![b] = sock[b]] /\ table' = [table EXCEPT ![b] = table[b]]
      /\ log' = [log EXCEPT ![b] = log[b]] /\ commit' = [commit EXCEPT ![b] = commit[b] + 1]
      /\ applied' = [applied EXCEPT ![b] = applied[b]]
  BY BoxKept DEF Commit, nodeVars
<1>4. BoxStep(b)
  BY <1>2, <1>3, Zenon DEF BoxStep
<1> QED BY <1>4, OneBox

\* Every step keeps the types of sockets, tables and logs.
LEMMA DataTypesNext == ThreadTypes /\ DataTypes /\ [Next]_vars => DataTypes'
<1>1. SUFFICES ASSUME ThreadTypes, DataTypes, [Next]_vars PROVE DataTypes'
  OBVIOUS
<1>2. CASE UNCHANGED <<sock, table, log, commit, applied>>
  BY <1>1, <1>2 DEF DataTypes
<1>3. CASE Main \/ sigint_handler \/ Tick \/ UNCHANGED vars
  BY <1>2, <1>3 DEF Main, MainCreate, MainFails, MainThreadFails, MainExits, MainStartComputes,
       MainSecond, MainStop, MainJoinComputes, MainJoinCrashes, MainJoinNode, sigint_handler, Tick,
       vars, nodeVars, raftVars
<1>4. ASSUME NEW b \in Boxes, ComputeThread(b) PROVE DataTypes'
  <2>1. CASE ComputeAnnounce(b)
    <3>1. SendStep(b, "announce")
      BY <2>1 DEF ComputeAnnounce, SendStep, nodeVars, raftVars
    <3> QED BY <1>1, <3>1, SendTypes
  <2>2. CASE ComputeSend(b)
    <3>1. SendStep(b, "heartbeat")
      BY <2>2 DEF ComputeSend, SendStep, nodeVars, raftVars
    <3> QED BY <1>1, <3>1, SendTypes
  <2>3. CASE ComputeCheck(b)
    BY <1>2, <2>3 DEF ComputeCheck, nodeVars, raftVars
  <2> QED BY <1>4, <2>1, <2>2, <2>3 DEF ComputeThread
<1>5. ASSUME NEW b \in Boxes, NodeThread(b) PROVE DataTypes'
  <2>1. CASE NodeInit(b) \/ NodeInitFails(b) \/ NodeLoop(b)
    BY <1>2, <2>1 DEF NodeInit, NodeInitFails, NodeLoop, raftVars
  <2>2. CASE NodeDrain(b)
    BY <1>1, <2>2, DrainTypes
  <2>3. CASE NodeTick(b)
    BY <1>1, <2>3, TickTypes
  <2> QED BY <1>5, <2>1, <2>2, <2>3 DEF NodeThread
<1>6. ASSUME NEW b \in Boxes, Commit(b) PROVE DataTypes'
  BY <1>1, <1>6, CommitTypes
<1> QED BY <1>1, <1>3, <1>4, <1>5, <1>6 DEF Next

\* Everything always has its type.
LEMMA TypesHold == Spec => []Types
<1>1. Init => Types
  <2>1. SUFFICES ASSUME Init PROVE Types
    OBVIOUS
  <2>2. Life
    BY <2>1 DEF Init, Life, PcTypes, LifeCycle, MainPcs, NodePcs, ComputePcs
  <2>3. ThreadTypes
    BY <2>1, SimulatorConstants DEF Init, ThreadTypes, Times
  <2>4. DataTypes
    <3>1. ASSUME NEW b \in Boxes PROVE BoxTypes(b, sock[b], table[b], log[b], commit[b], applied[b])
      <4>1. sock[b] = <<>> /\ table[b] = <<>> /\ log[b] = <<>> /\ commit[b] = 0 /\ applied[b] = 0
        BY <2>1, <3>1 DEF Init
      <4>2. UDP_BUFFER \in Nat /\ UDP_BUFFER >= 0
        BY SimulatorConstants
      <4> QED BY <4>1, <4>2 DEF BoxTypes, OwnTable
    <3> QED BY <2>1, <3>1 DEF Init, DataTypes
  <2>5. MainTypes
    <3>1. now = 1 /\ second = 0 /\ main_wake = 1 /\ alive = [b \in Boxes |-> FALSE]
      BY <2>1 DEF Init
    <3>2. 1 \in Times
      BY SimulatorConstants DEF Times
    <3>3. second \in 0 .. SIM_RUNTIME_S /\ main_wake \in Nat
      BY <3>1, SimulatorConstants
    <3>4. /\ g_running \in BOOLEAN /\ interrupted \in BOOLEAN /\ alive \in [Boxes -> BOOLEAN]
          /\ main_pc = "create"
      BY <2>1, <3>1 DEF Init
    <3> QED BY <3>1, <3>2, <3>3, <3>4 DEF MainTypes
  <2> QED BY <2>2, <2>3, <2>4, <2>5 DEF Types
<1>2. Types /\ [Next]_vars => Types'
  BY LifeNext, MainTypesNext, ThreadTypesNext, DataTypesNext DEF Types
<1> QED BY <1>1, <1>2, PTL DEF Spec

\* For any number of boxes and any buffer: the sockets never hold more than
\* their buffer, although an STM32 answers its own announcements, the tables
\* and the logs stay within their bounds, and so do the counters of main().
THEOREM SimulatorTypes == Spec => []TypeOK
BY TypesHold, TypesGiveTypeOK, PTL

-----------------------------------------------------------------------------
(* One box among others *)

\* Nothing is proposed, committed or applied outside the leader's box.
FollowerLog == \A b \in Boxes \ leads : log[b] = <<>>

Framed == Types /\ FollowerLog

\* Outside the leader's box nothing is ever proposed.
LEMMA FollowerLogNext == DataTypes /\ FollowerLog /\ [Next]_vars => FollowerLog' /\ leads' = leads
<1>1. SUFFICES ASSUME DataTypes, FollowerLog, [Next]_vars PROVE FollowerLog' /\ leads' = leads
  OBVIOUS
<1>2. leads' = leads
  BY <1>1 DEF Next, Main, MainCreate, MainFails, MainThreadFails, MainExits, MainStartComputes,
     MainSecond, MainStop, MainJoinComputes, MainJoinCrashes, MainJoinNode, sigint_handler, Tick,
     vars, ComputeThread, ComputeAnnounce, ComputeCheck, ComputeSend, NodeThread, NodeInit,
     NodeInitFails, NodeLoop, NodeDrain, NodeTick, Commit, raftVars
<1>3. \/ log' = log
      \/ \E c \in Boxes : \E old, new : log' = Proposed(c, old, new)
  BY <1>1 DEF Next, Main, MainCreate, MainFails, MainThreadFails, MainExits, MainStartComputes,
     MainSecond, MainStop, MainJoinComputes, MainJoinCrashes, MainJoinNode, sigint_handler, Tick,
     vars, ComputeThread, ComputeAnnounce, ComputeCheck, ComputeSend, NodeThread, NodeInit,
     NodeInitFails, NodeLoop, NodeDrain, NodeTick, Commit, raftVars
<1>4. ASSUME NEW b \in Boxes \ leads PROVE log'[b] = log[b]
  <2>1. ASSUME NEW c \in Boxes, NEW old, NEW new, log' = Proposed(c, old, new)
        PROVE  log'[b] = log[b]
    <3>1. CASE c \in leads /\ old # new
      <4>1. log' = [log EXCEPT ![c] = Append(@, new)] /\ b # c /\ b \in Boxes
        BY <2>1, <3>1 DEF Proposed
      <4>2. log = [d \in Boxes |-> log[d]]
        BY <1>1 DEF DataTypes
      <4> QED BY <4>1, <4>2, Zenon
    <3>2. CASE ~(c \in leads /\ old # new)
      BY <2>1, <3>2 DEF Proposed
    <3> QED BY <3>1, <3>2
  <2> QED BY <1>3, <2>1
<1> QED BY <1>1, <1>2, <1>4 DEF FollowerLog

\* Types and empty logs of followers always hold.
LEMMA FramedHolds == Spec => []Framed
<1>1. Init => FollowerLog
  BY DEF Init, FollowerLog
<1>2. Types /\ FollowerLog /\ [Next]_vars => FollowerLog'
  BY FollowerLogNext DEF Types
<1> QED BY <1>1, <1>2, TypesHold, PTL DEF Spec, Framed

ClockSame(b) == UNCHANGED <<now, g_running, main_pc, main_wake, second>> /\ alive'[b] = alive[b]
NodeSame(b) ==
    /\ node_pc'[b] = node_pc[b] /\ node_wake'[b] = node_wake[b] /\ node_now'[b] = node_now[b]
    /\ drained'[b] = drained[b] /\ last_tick'[b] = last_tick[b] /\ first'[b] = first[b]
TableSame(b) == table'[b] = table[b]
SockSame(b) == sock'[b] = sock[b]
ComputeSame(b) == compute_pc'[b] = compute_pc[b] /\ compute_wake'[b] = compute_wake[b]
DataSame(b) == NodeSame(b) /\ TableSame(b) /\ SockSame(b)

\* What main(), the signal and the clock do to box b.
AtCreate(b) ==
    /\ main_pc = "create"
    /\ \/ main_pc' = "settle" /\ main_wake' = now + SETTLE /\ node_pc'[b] = "init"
       \/ main_pc' = "failing" /\ node_pc'[b] \in {"init", "none"}
    /\ UNCHANGED <<now, g_running, second>> /\ alive'[b] = alive[b]
    /\ node_wake'[b] = now
    /\ node_now'[b] = node_now[b] /\ drained'[b] = drained[b] /\ last_tick'[b] = last_tick[b]
    /\ first'[b] = first[b] /\ TableSame(b) /\ SockSame(b) /\ ComputeSame(b)
AtMain(b) ==
    /\ g_running' => g_running /\ main_pc' \notin {"settle", "run"}
    /\ alive'[b] => alive[b]
    /\ UNCHANGED <<now, second>> /\ DataSame(b) /\ ComputeSame(b)
AtStart(b) ==
    /\ main_pc = "settle" /\ now >= main_wake /\ main_pc' \in {"run", "stop"}
    /\ main_pc' = "run" => main_wake' = now + SECOND
    /\ UNCHANGED <<now, g_running, second>> /\ alive'[b] = TRUE
    /\ compute_pc'[b] \in {"announce", "none"} /\ compute_wake'[b] = now /\ DataSame(b)
AtSecond(b) ==
    /\ main_pc = "run" /\ now >= main_wake /\ main_pc' \in {"run", "stop"}
    /\ main_pc' = "run" => main_wake' = now + SECOND
    /\ second' = second + 1 /\ UNCHANGED <<now, g_running>>
    /\ alive'[b] = IF CHAOS /\ second = CHAOS_KILL_AT_S /\ b = 1 THEN FALSE ELSE alive[b]
    /\ DataSame(b) /\ ComputeSame(b)
AtTick(b) ==
    /\ node_pc[b] \notin {"none", "exited"} => InTime(node_wake[b])
    /\ compute_pc[b] \notin {"none", "exited"} => InTime(compute_wake[b])
    /\ now' = now + 1 /\ UNCHANGED <<g_running, main_pc, main_wake, second>>
    /\ alive'[b] = alive[b] /\ DataSame(b) /\ ComputeSame(b)

\* What the threads of box b do.
AtSend(b, at, type, pause) ==
    /\ compute_pc[b] = at /\ now >= compute_wake[b]
    /\ sock'[b] = IF b \in open /\ Len(sock[b]) < UDP_BUFFER
                  THEN Append(sock[b], [type |-> type, src |-> b]) ELSE sock[b]
    /\ compute_pc'[b] = "check" /\ compute_wake'[b] = now + pause
    /\ ClockSame(b) /\ NodeSame(b) /\ TableSame(b)
AtCheck(b) ==
    /\ compute_pc[b] = "check" /\ now >= compute_wake[b]
    /\ compute_pc'[b] = (IF g_running /\ alive[b] THEN "send" ELSE "exited")
    /\ compute_wake'[b] = compute_wake[b] /\ ClockSame(b) /\ DataSame(b)
AtInit(b) ==
    /\ node_pc[b] = "init" /\ now >= node_wake[b] /\ node_pc'[b] = "loop"
    /\ node_wake'[b] = now /\ last_tick'[b] = now
    /\ node_now'[b] = node_now[b] /\ drained'[b] = drained[b] /\ first'[b] = first[b]
    /\ ClockSame(b) /\ TableSame(b) /\ SockSame(b) /\ ComputeSame(b)
AtExit(b) ==
    /\ node_pc[b] = "init" \/ (node_pc[b] = "loop" /\ ~g_running)
    /\ node_pc'[b] = "exited" /\ node_wake'[b] = node_wake[b] /\ node_now'[b] = node_now[b]
    /\ drained'[b] = drained[b] /\ last_tick'[b] = last_tick[b] /\ first'[b] = first[b]
    /\ ClockSame(b) /\ TableSame(b) /\ SockSame(b) /\ ComputeSame(b)
AtLoop(b) ==
    /\ node_pc[b] = "loop" /\ now >= node_wake[b] /\ node_pc'[b] = "drain"
    /\ node_now'[b] = now /\ drained'[b] = 0
    /\ node_wake'[b] = node_wake[b] /\ last_tick'[b] = last_tick[b] /\ first'[b] = first[b]
    /\ ClockSame(b) /\ TableSame(b) /\ SockSame(b) /\ ComputeSame(b)

\* Reading a message: an acknowledgement is dropped, a frame is a sign of life.
AtDrain(b) ==
    /\ node_pc[b] = "drain" /\ sock[b] # <<>>
    /\ node_pc'[b] = node_pc[b] /\ node_wake'[b] = node_wake[b] /\ node_now'[b] = node_now[b]
    /\ drained'[b] = drained[b] + 1 /\ last_tick'[b] = last_tick[b] /\ first'[b] = first[b]
    /\ ClockSame(b) /\ ComputeSame(b)
    /\ \/ /\ sock[b][1].type = "ack" /\ sock'[b] = Tail(sock[b]) /\ TableSame(b)
       \/ /\ sock[b][1].type = "announce"
          /\ sock'[b] = Append(Tail(sock[b]), [type |-> "ack", src |-> b])
          /\ table'[b] # <<>> /\ table'[b][1] = announced(b, b, node_now[b])
       \/ /\ sock[b][1].type = "heartbeat" /\ sock'[b] = Tail(sock[b])
          /\ table[b] = <<>> /\ TableSame(b)
       \/ /\ sock[b][1].type = "heartbeat" /\ sock'[b] = Tail(sock[b])
          /\ table[b] # <<>> /\ table'[b] # <<>> /\ table'[b][1].status = NODE_UP
          /\ table'[b][1].last_seen_ms = node_now[b] /\ table'[b][1].miss_count = 0

\* The end of an iteration.
AtEnd(b) ==
    LET health == node_now[b] - last_tick[b] >= HB_INTERVAL_MS
    IN  /\ node_pc[b] = "drain" /\ (sock[b] = <<>> \/ drained[b] = DRAIN_MAX)
        /\ node_pc'[b] = "loop" /\ node_wake'[b] = now + 1
        /\ node_now'[b] = node_now[b] /\ drained'[b] = drained[b]
        /\ ClockSame(b) /\ SockSame(b) /\ ComputeSame(b)
        /\ table[b] = <<>> <=> table'[b] = <<>>
        /\ \/ ~health /\ last_tick'[b] = last_tick[b] /\ first'[b] = first[b] /\ TableSame(b)
           \/ /\ health /\ last_tick'[b] = node_now[b] /\ first'[b] = FALSE
              /\ first[b] => TableSame(b)
              /\ ~first[b] /\ table[b] # <<>> => table'[b][1] = Ticked(table[b][1], node_now[b])

BoxMove(b) ==
    \/ AtCreate(b) \/ AtMain(b) \/ AtStart(b) \/ AtSecond(b) \/ AtTick(b)
    \/ AtSend(b, "announce", "announce", PAUSE) \/ AtSend(b, "send", "heartbeat", HB_INTERVAL_MS)
    \/ AtCheck(b) \/ AtInit(b) \/ AtExit(b) \/ AtLoop(b) \/ AtDrain(b) \/ AtEnd(b)
    \/ ClockSame(b) /\ DataSame(b) /\ ComputeSame(b)

BoxSame(b) == ClockSame(b) /\ DataSame(b) /\ ComputeSame(b)

\* A function changed at another box.
LEMMA ElsewhereSame ==
    ASSUME NEW f, DOMAIN f = Boxes, NEW b \in Boxes, NEW c \in Boxes, c # b, NEW v
    PROVE  [f EXCEPT ![c] = v][b] = f[b]
OBVIOUS

Domains ==
    /\ DOMAIN node_pc = Boxes /\ DOMAIN node_wake = Boxes /\ DOMAIN node_now = Boxes
    /\ DOMAIN drained = Boxes /\ DOMAIN last_tick = Boxes /\ DOMAIN first = Boxes
    /\ DOMAIN table = Boxes /\ DOMAIN sock = Boxes
    /\ DOMAIN compute_pc = Boxes /\ DOMAIN compute_wake = Boxes /\ DOMAIN alive = Boxes

\* The functions over boxes have all boxes as domain.
LEMMA DomainsHold == Framed => Domains
<1>1. SUFFICES ASSUME Framed PROVE Domains
  OBVIOUS
<1>2. node_pc \in [Boxes -> NodePcs] /\ compute_pc \in [Boxes -> ComputePcs]
  BY <1>1 DEF Framed, Types, Life, PcTypes
<1>3. ThreadTypes /\ alive \in [Boxes -> BOOLEAN]
  BY <1>1 DEF Framed, Types, MainTypes
<1>4. table = [b \in Boxes |-> table[b]] /\ sock = [b \in Boxes |-> sock[b]]
  BY <1>1 DEF Framed, Types, DataTypes
<1>5. DOMAIN table = Boxes /\ DOMAIN sock = Boxes
  BY <1>4, Zenon
<1> QED BY <1>2, <1>3, <1>5 DEF Domains, ThreadTypes

\* The compute thread of another box leaves box b alone.
LEMMA OtherCompute ==
    ASSUME Framed, NEW b \in Boxes, NEW c \in Boxes, c # b, ComputeThread(c)
    PROVE  BoxSame(b)
<1>1. Domains
  BY DomainsHold
<1>2. ClockSame(b) /\ NodeSame(b) /\ TableSame(b)
  BY DEF ComputeThread, ComputeAnnounce, ComputeCheck, ComputeSend, ClockSame, NodeSame, TableSame,
         mainVars, nodeVars
<1>3. ComputeSame(b)
  BY <1>1 DEF ComputeThread, ComputeAnnounce, ComputeCheck, ComputeSend, ComputeSame, Domains
<1>4. SockSame(b)
  BY <1>1 DEF ComputeThread, ComputeAnnounce, ComputeCheck, ComputeSend, SockSame, Domains, sim_send
<1> QED BY <1>2, <1>3, <1>4 DEF BoxSame, DataSame

\* So does the node thread of another box.
LEMMA OtherNode ==
    ASSUME Framed, NEW b \in Boxes, NEW c \in Boxes, c # b, NodeThread(c)
    PROVE  BoxSame(b)
<1>1. Domains
  BY DomainsHold
<1>2. ClockSame(b) /\ ComputeSame(b)
  BY DEF NodeThread, NodeInit, NodeInitFails, NodeLoop, NodeDrain, NodeTick, ClockSame, ComputeSame,
         mainVars, computeVars
<1>3. CASE NodeInit(c) \/ NodeInitFails(c) \/ NodeLoop(c)
  <2>1. DataSame(b)
    BY <1>1, <1>3 DEF NodeInit, NodeInitFails, NodeLoop, Domains, DataSame, NodeSame, TableSame, SockSame
  <2> QED BY <1>2, <2>1 DEF BoxSame
<1>4. CASE NodeDrain(c)
  <2>1. NodeSame(b)
    BY <1>1, <1>4 DEF NodeDrain, Domains, NodeSame
  <2>2. \E v : table' = [table EXCEPT ![c] = v]
    BY <1>4, Zenon DEF NodeDrain
  <2>3. \E v : sock' = [sock EXCEPT ![c] = v]
    BY <1>4, Zenon DEF NodeDrain
  <2>4. TableSame(b) /\ SockSame(b)
    BY <1>1, <2>2, <2>3, ElsewhereSame DEF Domains, TableSame, SockSame
  <2> QED BY <1>2, <2>1, <2>4 DEF BoxSame, DataSame
<1>5. CASE NodeTick(c)
  <2>1. node_pc' = [node_pc EXCEPT ![c] = "loop"] /\ node_wake' = [node_wake EXCEPT ![c] = now + 1]
    BY <1>5 DEF NodeTick
  <2>2. UNCHANGED <<node_now, drained, sock>>
    BY <1>5 DEF NodeTick
  <2>3. last_tick' = last_tick \/ last_tick' = [last_tick EXCEPT ![c] = node_now[c]]
    BY <1>5, Zenon DEF NodeTick
  <2>4. first' = first \/ first' = [first EXCEPT ![c] = FALSE]
    BY <1>5, Zenon DEF NodeTick
  <2>5. \E v : table' = [table EXCEPT ![c] = v]
    BY <1>5, Zenon DEF NodeTick
  <2>6. TableSame(b)
    BY <1>1, <2>5, ElsewhereSame DEF Domains, TableSame
  <2>7. NodeSame(b) /\ SockSame(b)
    BY <1>1, <2>1, <2>2, <2>3, <2>4 DEF Domains, NodeSame, SockSame
  <2> QED BY <1>2, <2>6, <2>7 DEF BoxSame, DataSame
<1> QED BY <1>3, <1>4, <1>5 DEF NodeThread

\* What the compute thread of box b does to the box.
LEMMA OwnCompute ==
    ASSUME Framed, NEW b \in Boxes, ComputeThread(b)
    PROVE  \/ AtSend(b, "announce", "announce", PAUSE)
           \/ AtSend(b, "send", "heartbeat", HB_INTERVAL_MS) \/ AtCheck(b)
<1>1. Domains
  BY DomainsHold
<1>2. ClockSame(b) /\ NodeSame(b) /\ TableSame(b)
  BY DEF ComputeThread, ComputeAnnounce, ComputeCheck, ComputeSend, ClockSame, NodeSame, TableSame,
         mainVars, nodeVars
<1>3. CASE ComputeAnnounce(b)
  BY <1>1, <1>2, <1>3 DEF ComputeAnnounce, ComputeReady, sim_send, AtSend, Domains
<1>4. CASE ComputeSend(b)
  BY <1>1, <1>2, <1>4 DEF ComputeSend, ComputeReady, sim_send, AtSend, Domains
<1>5. CASE ComputeCheck(b)
  BY <1>1, <1>2, <1>5 DEF ComputeCheck, ComputeReady, AtCheck, Domains, DataSame, SockSame
<1> QED BY <1>3, <1>4, <1>5 DEF ComputeThread

\* What reading a message does to the box.
LEMMA OwnDrain ==
    ASSUME Framed, NEW b \in Boxes, NodeDrain(b)
    PROVE  AtDrain(b)
<1>1. Domains
  BY DomainsHold
<1>2. BoxTypes(b, sock[b], table[b], log[b], commit[b], applied[b])
  BY DEF Framed, Types, DataTypes
<1>3. sock[b] \in Seq(Messages(b)) /\ OwnTable(table[b], b)
  BY <1>2 DEF BoxTypes
<1>4. sock[b] # <<>> /\ node_pc[b] = "drain"
  BY DEF NodeDrain, sim_recv
<1> DEFINE m == sock[b][1]
<1>5. /\ table' = [table EXCEPT ![b] = handle(b, m)]
      /\ sock' = [sock EXCEPT ![b] = IF m.type = "announce"
                                     THEN Append(Tail(@), [type |-> "ack", src |-> b])
                                     ELSE Tail(@)]
  <2>1. sim_recv(b) = {m}
    <3>1. Head(sock[b]) = m
      BY <1>3, <1>4
    <3> QED BY <1>4, <3>1 DEF sim_recv
  <2> QED BY <2>1, Zenon DEF NodeDrain
<1>6. m \in Messages(b)
  BY <1>3, <1>4
<1>7. m.src = b /\ m.type \in {"announce", "heartbeat", "ack"}
  BY <1>6 DEF Messages
<1>8. /\ table'[b] = handle(b, m)
      /\ sock'[b] = IF m.type = "announce" THEN Append(Tail(sock[b]), [type |-> "ack", src |-> b])
                                     ELSE Tail(sock[b])
  BY <1>1, <1>5 DEF Domains
<1>9. /\ node_pc'[b] = node_pc[b] /\ node_wake'[b] = node_wake[b] /\ node_now'[b] = node_now[b]
      /\ drained'[b] = drained[b] + 1 /\ last_tick'[b] = last_tick[b] /\ first'[b] = first[b]
      /\ ClockSame(b) /\ ComputeSame(b)
  BY <1>1 DEF NodeDrain, Domains, ClockSame, ComputeSame, mainVars, computeVars
<1>10. node_now[b] \in Ticks
  BY ClockFits DEF Framed, Types, ThreadTypes
<1> HIDE DEF m
<1>11. CASE m.type = "ack"
  <2>1. handle(b, m) = table[b] /\ sock'[b] = Tail(sock[b])
    BY <1>8, <1>11 DEF handle
  <2> QED BY <1>4, <1>8, <1>9, <1>11, <2>1 DEF AtDrain, TableSame, m
<1>12. CASE m.type = "announce"
  <2>1. handle(b, m) = process_announce(table[b], b, b, node_now[b])
    BY <1>7, <1>12 DEF handle
  <2>2. table'[b] # <<>> /\ table'[b][1] = announced(b, b, node_now[b])
    BY <1>3, <1>8, <1>10, <2>1, AnnounceOwn
  <2> QED BY <1>4, <1>8, <1>9, <1>12, <2>2 DEF AtDrain, m
<1>13. CASE m.type = "heartbeat"
  <2>1. handle(b, m) = process_heartbeat(table[b], b, node_now[b])
    BY <1>7, <1>13 DEF handle
  <2>2. sock'[b] = Tail(sock[b])
    BY <1>8, <1>13
  <2>3. CASE table[b] = <<>>
    <3>1. find_node(table[b], b) = 0
      BY <1>3, <2>3, FindOwn
    <3>2. table'[b] = table[b]
      BY <1>8, <2>1, <3>1 DEF process_heartbeat
    <3> QED BY <1>4, <1>9, <1>13, <2>2, <2>3, <3>2 DEF AtDrain, TableSame, m
  <2>4. CASE table[b] # <<>>
    <3>1. /\ table'[b] # <<>> /\ table'[b][1].status = NODE_UP
          /\ table'[b][1].last_seen_ms = node_now[b] /\ table'[b][1].miss_count = 0
      BY <1>3, <1>8, <1>10, <2>1, <2>4, HeartbeatOwn
    <3> QED BY <1>4, <1>9, <1>13, <2>2, <2>4, <3>1 DEF AtDrain, m
  <2> QED BY <2>3, <2>4
<1> QED BY <1>7, <1>11, <1>12, <1>13

\* What the end of an iteration does to the box.
LEMMA OwnTick ==
    ASSUME Framed, NEW b \in Boxes \ leads, NodeTick(b)
    PROVE  AtEnd(b)
<1> DEFINE at == node_now[b]
           health == at - last_tick[b] >= HB_INTERVAL_MS
<1>1. Domains
  BY DomainsHold
<1>2. BoxTypes(b, sock[b], table[b], log[b], commit[b], applied[b]) /\ log[b] = <<>>
  BY DEF Framed, Types, DataTypes, FollowerLog
<1>3. OwnTable(table[b], b) /\ ~(applied[b] < commit[b])
  BY <1>2 DEF BoxTypes
<1>4. Applied(b) = table[b]
  BY <1>3 DEF Applied
<1>5. table' = [table EXCEPT ![b] = IF health THEN health_tick(table[b], first[b], at) ELSE table[b]]
  <2>1. CASE at - last_raft[b] >= SIM_TICK_MS
    BY <1>4, <2>1 DEF NodeTick
  <2>2. CASE ~(at - last_raft[b] >= SIM_TICK_MS)
    BY <2>2 DEF NodeTick
  <2> QED BY <2>1, <2>2
<1>6. table'[b] = IF health THEN health_tick(table[b], first[b], at) ELSE table[b]
  BY <1>1, <1>5 DEF Domains
<1>7. at \in Ticks /\ first[b] \in BOOLEAN
  BY ClockFits DEF Framed, Types, ThreadTypes
<1>8. /\ node_pc[b] = "drain" /\ (sock[b] = <<>> \/ drained[b] = DRAIN_MAX)
      /\ node_pc'[b] = "loop" /\ node_wake'[b] = now + 1
      /\ node_now'[b] = at /\ drained'[b] = drained[b]
      /\ ClockSame(b) /\ SockSame(b) /\ ComputeSame(b)
  BY <1>1 DEF NodeTick, sim_recv, Domains, ClockSame, SockSame, ComputeSame, mainVars, computeVars
<1>9. /\ last_tick'[b] = IF health THEN at ELSE last_tick[b]
      /\ first'[b] = IF health THEN FALSE ELSE first[b]
  BY <1>1 DEF NodeTick, Domains
<1> HIDE DEF at, health
<1>10. CASE ~health
  <2>1. /\ ~health /\ last_tick'[b] = last_tick[b] /\ first'[b] = first[b] /\ TableSame(b)
    BY <1>6, <1>9, <1>10 DEF TableSame
  <2> QED BY <1>8, <2>1, Zenon DEF AtEnd, TableSame, at, health
<1>11. CASE health
  <2>1. /\ first[b] => table'[b] = table[b]
        /\ ~first[b] /\ table[b] # <<>> => table'[b][1] = Ticked(table[b][1], at)
        /\ table[b] = <<>> <=> table'[b] = <<>>
    BY <1>3, <1>6, <1>7, <1>11, TickOwn
  <2>2. /\ health /\ last_tick'[b] = at /\ first'[b] = FALSE
    BY <1>9, <1>11
  <2> QED BY <1>8, <2>1, <2>2, Zenon DEF AtEnd, TableSame, at, health
<1> QED BY <1>10, <1>11

\* What the node thread of box b does to the box.
LEMMA OwnNode ==
    ASSUME Framed, NEW b \in Boxes \ leads, NodeThread(b)
    PROVE  AtInit(b) \/ AtExit(b) \/ AtLoop(b) \/ AtDrain(b) \/ AtEnd(b)
<1>1. Domains
  BY DomainsHold
<1>2. CASE NodeInit(b)
  BY <1>1, <1>2 DEF NodeInit, NodeReady, Domains, AtInit, ClockSame, TableSame, SockSame, ComputeSame,
     mainVars, computeVars
<1>3. CASE NodeInitFails(b)
  BY <1>1, <1>3 DEF NodeInitFails, NodeReady, Domains, AtExit, ClockSame, TableSame, SockSame,
     ComputeSame, mainVars, computeVars
<1>4. CASE NodeLoop(b)
  <2>1. CASE g_running
    BY <1>1, <1>4, <2>1 DEF NodeLoop, NodeReady, Domains, AtLoop, ClockSame, TableSame, SockSame,
       ComputeSame, mainVars, computeVars
  <2>2. CASE ~g_running
    BY <1>1, <1>4, <2>2 DEF NodeLoop, NodeReady, Domains, AtExit, ClockSame, TableSame, SockSame,
       ComputeSame, mainVars, computeVars
  <2> QED BY <2>1, <2>2
<1>5. CASE NodeDrain(b)
  BY <1>5, OwnDrain
<1>6. CASE NodeTick(b)
  BY <1>6, OwnTick
<1> QED BY <1>2, <1>3, <1>4, <1>5, <1>6 DEF NodeThread

\* Every step is one of these to a box that does not lead.
LEMMA Focus ==
    ASSUME Framed, [Next]_vars, NEW b \in Boxes \ leads
    PROVE  BoxMove(b)
<1>1. Domains
  BY DomainsHold
<1>2. CASE UNCHANGED vars
  BY <1>2 DEF vars, mainVars, nodeVars, computeVars, BoxMove, ClockSame, DataSame, NodeSame, TableSame,
     SockSame, ComputeSame
<1>3. CASE MainCreate \/ \E c \in Boxes : MainThreadFails(c)
  BY <1>3 DEF MainCreate, MainThreadFails, computeVars, BoxMove, AtCreate, TableSame, SockSame,
     ComputeSame
<1>4. CASE \/ MainFails \/ MainExits \/ MainStop \/ MainJoinComputes
           \/ \E c \in Boxes : MainJoinCrashes(c) \/ MainJoinNode(c)
  <2>1. UNCHANGED <<now, second, nodeVars, sock, computeVars>>
    BY <1>4 DEF MainFails, MainExits, MainStop, MainJoinComputes, MainJoinCrashes, MainJoinNode
  <2>2. main_pc' \notin {"settle", "run"} /\ (g_running' => g_running) /\ (alive'[b] => alive[b])
    BY <1>4 DEF MainFails, MainExits, MainStop, MainJoinComputes, MainJoinCrashes, MainJoinNode
  <2> QED BY <2>1, <2>2 DEF nodeVars, computeVars, BoxMove, AtMain, DataSame, NodeSame, TableSame,
     SockSame, ComputeSame
<1>5. CASE MainStartComputes
  BY <1>5 DEF MainStartComputes, MainLoop, nodeVars, BoxMove, AtStart, DataSame, NodeSame,
     TableSame, SockSame
<1>6. CASE MainSecond
  BY <1>1, <1>6, SimulatorConstants DEF MainSecond, MainLoop, nodeVars, computeVars, BoxMove, AtSecond,
     DataSame, NodeSame, TableSame, SockSame, ComputeSame, Domains
<1>7. CASE sigint_handler
  BY <1>7 DEF sigint_handler, nodeVars, computeVars, BoxMove, AtMain, DataSame, NodeSame, TableSame,
     SockSame, ComputeSame
<1>8. CASE Tick
  BY <1>8 DEF Tick, mainVars, nodeVars, computeVars, BoxMove, AtTick, DataSame, NodeSame, TableSame,
     SockSame, ComputeSame
<1>9. ASSUME NEW c \in Boxes, ComputeThread(c) PROVE BoxMove(b)
  <2>1. CASE c = b
    BY <1>9, <2>1, OwnCompute DEF BoxMove
  <2>2. CASE c # b
    BY <1>9, <2>2, OtherCompute DEF BoxMove, BoxSame
  <2> QED BY <2>1, <2>2
<1>10. ASSUME NEW c \in Boxes, NodeThread(c) PROVE BoxMove(b)
  <2>1. CASE c = b
    BY <1>10, <2>1, OwnNode DEF BoxMove
  <2>2. CASE c # b
    BY <1>10, <2>2, OtherNode DEF BoxMove, BoxSame
  <2> QED BY <2>1, <2>2
<1>11. ASSUME NEW c \in Boxes, Commit(c) PROVE BoxMove(b)
  BY <1>11 DEF Commit, mainVars, nodeVars, computeVars, BoxMove, ClockSame, DataSame, NodeSame,
     TableSame, SockSame, ComputeSame
<1> QED BY <1>2, <1>3, <1>4, <1>5, <1>6, <1>7, <1>8, <1>9, <1>10, <1>11 DEF Next, Main

-----------------------------------------------------------------------------
(* Threads keep their times *)

SuspectAfter == SUSPECT_THRESHOLD * HB_INTERVAL_MS

\* The pause after the announcement covers two heartbeats, main() gives the
\* node threads the time to start, and a node thread reads in one iteration
\* what one compute node sends meanwhile.
ThreadsFit ==
    /\ MAX_LATE < SETTLE
    /\ 2 * HB_INTERVAL_MS <= PAUSE
    /\ 2 <= DRAIN_MAX
    /\ 2 * MAX_LATE + 1 + HB_INTERVAL_MS <= DRAIN_MAX * HB_INTERVAL_MS
    /\ 2 * MAX_LATE + 1 + HB_INTERVAL_MS <= UDP_BUFFER * HB_INTERVAL_MS

Runs(b) == node_pc[b] \in {"loop", "drain"}
Sends(b) == compute_pc[b] \notin {"none", "exited"}

\* No thread is later than MAX_LATE, and none sleeps longer than it should.
Punctual(b) ==
    /\ node_pc[b] \notin {"none", "exited"} => now <= node_wake[b] + MAX_LATE
    /\ node_wake[b] <= now + 1 /\ node_now[b] <= now
    /\ node_pc[b] = "drain" => node_wake[b] <= node_now[b]
    /\ Sends(b) => now <= compute_wake[b] + MAX_LATE
    /\ compute_wake[b] <= now + PAUSE
    /\ compute_pc[b] \in {"announce", "send"} => compute_wake[b] <= now
    /\ g_running /\ main_pc = "settle" =>
          /\ node_pc[b] # "none"
          /\ node_pc[b] = "init" => node_wake[b] + SETTLE <= main_wake

\* Until SIGINT or the end, a thread that could be started stays; a compute
\* thread starts after its node thread, and its announcement comes first.
Stays(b) ==
    /\ g_running /\ compute_pc[b] # "none" => node_pc[b] \notin {"none", "init"}
    /\ g_running /\ alive[b] => Sends(b) \/ compute_pc[b] = "none"
    /\ g_running /\ ~Runs(b) => table[b] = <<>>
    /\ compute_pc[b] \in {"none", "announce"} =>
          sock[b] = <<>> /\ table[b] = <<>> /\ drained[b] = 0

BoxNats(b) ==
    /\ now \in Nat /\ main_wake \in Nat /\ node_wake[b] \in Nat /\ compute_wake[b] \in Nat
    /\ node_now[b] \in Nat /\ last_tick[b] \in Nat /\ drained[b] \in Nat /\ second \in Nat
    /\ node_pc[b] \in NodePcs /\ compute_pc[b] \in ComputePcs /\ main_pc \in MainPcs
    /\ g_running \in BOOLEAN /\ alive[b] \in BOOLEAN /\ first[b] \in BOOLEAN

\* The times and counters of a box are numbers.
LEMMA BoxNatsHold == ASSUME Framed, NEW b \in Boxes PROVE BoxNats(b)
<1>1. now \in Times /\ second \in Nat /\ main_wake \in Nat
  BY DEF Framed, Types, MainTypes
<1>2. Times \subseteq Nat
  BY DEF Times
<1>3. node_now[b] \in Times /\ last_tick[b] \in Times
  BY DEF Framed, Types, ThreadTypes
<1>4. node_wake[b] \in Nat /\ compute_wake[b] \in Nat /\ drained[b] \in Nat /\ first[b] \in BOOLEAN
  BY DEF Framed, Types, ThreadTypes
<1>5. node_pc[b] \in NodePcs /\ compute_pc[b] \in ComputePcs /\ main_pc \in MainPcs
  BY DEF Framed, Types, Life, PcTypes
<1>6. g_running \in BOOLEAN /\ alive[b] \in BOOLEAN
  BY DEF Framed, Types, MainTypes
<1> QED BY <1>1, <1>2, <1>3, <1>4, <1>5, <1>6 DEF BoxNats

LifeOf(b) ==
    /\ main_pc = "create" => node_pc[b] = "none"
    /\ main_pc \in {"create", "settle"} => compute_pc[b] = "none"
    /\ Sends(b) => b \in open

\* The life cycle of the threads of one box.
LEMMA LifeOfHolds == ASSUME Framed, NEW b \in Boxes PROVE LifeOf(b)
BY DEF Framed, Types, Life, PcTypes, MainPcs, LifeCycle, LifeOf, Sends

\* The times of sim_main.c are numbers.
LEMMA TimeConstants ==
    /\ HB_INTERVAL_MS \in Nat /\ HB_INTERVAL_MS > 0
    /\ MAX_LATE \in Nat /\ PAUSE \in Nat /\ SETTLE \in Nat /\ SECOND \in Nat
    /\ DRAIN_MAX \in Nat /\ UDP_BUFFER \in Nat /\ UDP_BUFFER > 0
    /\ DOWN_TIMEOUT_MS \in Nat /\ DOWN_TIMEOUT_MS > 0 /\ CHAOS_KILL_AT_S \in Nat
    /\ SuspectAfter \in Nat
BY MonitorConstants, SimulatorConstants DEF SuspectAfter

\* No step makes a thread later than MAX_LATE.
LEMMA PunctualNext ==
    ASSUME Framed, ThreadsFit, NEW b \in Boxes, Punctual(b), BoxMove(b)
    PROVE  Punctual(b)'
<1>1. BoxNats(b) /\ LifeOf(b)
  BY BoxNatsHold, LifeOfHolds
<1>2. HB_INTERVAL_MS <= PAUSE /\ MAX_LATE \in Nat /\ SETTLE \in Nat /\ PAUSE \in Nat
  BY TimeConstants DEF ThreadsFit
<1>3. CASE AtCreate(b)
  BY <1>1, <1>2, <1>3 DEF AtCreate, Punctual, Sends, BoxNats, LifeOf, ComputeSame
<1>4. CASE AtMain(b)
  BY <1>1, <1>2, <1>4 DEF AtMain, Punctual, Sends, BoxNats, ComputeSame, DataSame, NodeSame
<1>5. CASE AtStart(b)
  BY <1>1, <1>2, <1>5 DEF AtStart, Punctual, Sends, BoxNats, DataSame, NodeSame
<1>6. CASE AtSecond(b)
  BY <1>1, <1>2, <1>6 DEF AtSecond, Punctual, Sends, BoxNats, DataSame, NodeSame, ComputeSame
<1>7. CASE AtTick(b)
  BY <1>1, <1>2, <1>7 DEF AtTick, Punctual, Sends, BoxNats, DataSame, NodeSame, ComputeSame, InTime
<1>8. CASE AtSend(b, "announce", "announce", PAUSE) \/ AtSend(b, "send", "heartbeat", HB_INTERVAL_MS)
  <2>1. /\ compute_pc'[b] = "check" /\ ClockSame(b) /\ NodeSame(b)
        /\ (compute_wake'[b] = now + PAUSE \/ compute_wake'[b] = now + HB_INTERVAL_MS)
    BY <1>8 DEF AtSend
  <2> QED BY <1>1, <1>2, <2>1, TimeConstants DEF Punctual, Sends, BoxNats, ClockSame, NodeSame
<1>9. CASE AtCheck(b)
  BY <1>1, <1>2, <1>9 DEF AtCheck, Punctual, Sends, BoxNats, ClockSame, DataSame, NodeSame
<1>10. CASE AtInit(b) \/ AtExit(b)
  BY <1>1, <1>2, <1>10 DEF AtInit, AtExit, Punctual, Sends, BoxNats, ClockSame, ComputeSame
<1>11. CASE AtLoop(b)
  BY <1>1, <1>2, <1>11 DEF AtLoop, Punctual, Sends, BoxNats, ClockSame, ComputeSame
<1>12. CASE AtDrain(b) \/ AtEnd(b)
  <2>1. /\ node_pc[b] = "drain" /\ ClockSame(b) /\ ComputeSame(b) /\ node_now'[b] = node_now[b]
        /\ \/ node_pc'[b] = node_pc[b] /\ node_wake'[b] = node_wake[b]
           \/ node_pc'[b] = "loop" /\ node_wake'[b] = now + 1
    BY <1>12 DEF AtDrain, AtEnd
  <2>2. CASE node_pc'[b] = node_pc[b] /\ node_wake'[b] = node_wake[b]
    BY <2>1, <2>2 DEF Punctual, Sends, ClockSame, ComputeSame
  <2>3. CASE node_pc'[b] = "loop" /\ node_wake'[b] = now + 1
    BY <1>1, <1>2, <2>1, <2>3 DEF Punctual, Sends, BoxNats, ClockSame, ComputeSame
  <2> QED BY <2>1, <2>2, <2>3
<1>13. CASE ClockSame(b) /\ DataSame(b) /\ ComputeSame(b)
  BY <1>13 DEF Punctual, Sends, ClockSame, DataSame, NodeSame, ComputeSame
<1> QED BY <1>3, <1>4, <1>5, <1>6, <1>7, <1>8, <1>9, <1>10, <1>11, <1>12, <1>13 DEF BoxMove

\* Threads that started stay while the simulation runs.
LEMMA StaysNext ==
    ASSUME Framed, ThreadsFit, NEW b \in Boxes, Punctual(b), Stays(b), BoxMove(b)
    PROVE  Stays(b)'
<1>1. BoxNats(b) /\ LifeOf(b)
  BY BoxNatsHold, LifeOfHolds
<1>2. CASE AtCreate(b)
  BY <1>1, <1>2 DEF AtCreate, Stays, Sends, Runs, LifeOf, BoxNats, TableSame, SockSame, ComputeSame
<1>3. CASE AtMain(b)
  BY <1>1, <1>3 DEF AtMain, Stays, Sends, Runs, DataSame, NodeSame, TableSame, SockSame, ComputeSame
<1>4. CASE AtStart(b)
  <2>1. g_running => node_pc[b] # "none"
    BY <1>4 DEF AtStart, Punctual
  <2>2. g_running => node_pc[b] # "init"
    <3>1. SUFFICES ASSUME g_running, node_pc[b] = "init" PROVE FALSE
      OBVIOUS
    <3>2. node_wake[b] + SETTLE <= main_wake /\ main_wake <= now /\ now <= node_wake[b] + MAX_LATE
      BY <1>1, <1>4, <3>1 DEF AtStart, Punctual, BoxNats
    <3> QED BY <1>1, <3>2, TimeConstants DEF ThreadsFit, BoxNats
  <2>3. compute_pc[b] = "none"
    BY <1>1, <1>4 DEF AtStart, LifeOf
  <2> QED BY <1>1, <1>4, <2>1, <2>2, <2>3 DEF AtStart, Stays, Sends, Runs, DataSame, NodeSame,
             TableSame, SockSame
<1>5. CASE AtSecond(b) \/ AtTick(b)
  <2>1. g_running' = g_running /\ DataSame(b) /\ ComputeSame(b) /\ (alive'[b] => alive[b])
    BY <1>1, <1>5 DEF AtSecond, AtTick, BoxNats
  <2> QED BY <2>1 DEF Stays, Sends, Runs, DataSame, NodeSame, TableSame, SockSame, ComputeSame
<1>6. CASE AtSend(b, "announce", "announce", PAUSE) \/ AtSend(b, "send", "heartbeat", HB_INTERVAL_MS)
  <2>1. /\ compute_pc'[b] = "check" /\ compute_pc[b] \in {"announce", "send"}
        /\ ClockSame(b) /\ NodeSame(b) /\ TableSame(b)
    BY <1>6 DEF AtSend
  <2> QED BY <1>1, <2>1 DEF Stays, Sends, Runs, ClockSame, NodeSame, TableSame
<1>7. CASE AtCheck(b)
  BY <1>1, <1>7 DEF AtCheck, Stays, Sends, Runs, ClockSame, DataSame, NodeSame, TableSame, SockSame
<1>8. CASE AtInit(b) \/ AtExit(b)
  BY <1>1, <1>8 DEF AtInit, AtExit, Stays, Sends, Runs, ClockSame, ComputeSame, TableSame, SockSame
<1>9. CASE AtLoop(b)
  BY <1>1, <1>9 DEF AtLoop, Stays, Sends, Runs, ClockSame, ComputeSame, TableSame, SockSame
<1>10. CASE AtDrain(b)
  <2>1. node_pc'[b] = "drain" /\ sock[b] # <<>> /\ ClockSame(b) /\ ComputeSame(b)
    BY <1>10 DEF AtDrain
  <2> QED BY <1>1, <2>1 DEF Stays, Sends, Runs, ClockSame, ComputeSame
<1>11. CASE AtEnd(b)
  <2>1. /\ node_pc'[b] = "loop" /\ node_pc[b] = "drain" /\ ClockSame(b) /\ SockSame(b) /\ ComputeSame(b)
        /\ drained'[b] = drained[b] /\ (table[b] = <<>> => table'[b] = <<>>)
    BY <1>11 DEF AtEnd
  <2> QED BY <1>1, <2>1 DEF Stays, Sends, Runs, ClockSame, ComputeSame, SockSame
<1>12. CASE ClockSame(b) /\ DataSame(b) /\ ComputeSame(b)
  BY <1>12 DEF Stays, Sends, Runs, ClockSame, DataSame, NodeSame, TableSame, SockSame, ComputeSame
<1> QED BY <1>2, <1>3, <1>4, <1>5, <1>6, <1>7, <1>8, <1>9, <1>10, <1>11, <1>12 DEF BoxMove

Announced(sk) == sk # <<>> /\ sk[1].type = "announce"

Due(sk) == Len(sk) + (IF Announced(sk) THEN 1 ELSE 0)

\* The messages a node thread has to read in this iteration, and has read; an
\* announcement counts twice, because of its acknowledgement.
Load(b) == Due(sock[b]) + (IF node_pc[b] = "drain" THEN drained[b] ELSE 0)

\* An announcement is the first message of its socket.
AnnounceFirst(sk) == \A i \in 2 .. Len(sk) : sk[i].type # "announce"

\* The load comes from what was sent since the iteration before.
LoadOK(b) ==
    /\ AnnounceFirst(sock[b])
    /\ g_running /\ Runs(b) /\ compute_pc[b] # "none" =>
          /\ Sends(b) =>
                node_wake[b] + Load(b) * HB_INTERVAL_MS <= compute_wake[b] + MAX_LATE + 1
          /\ \/ Load(b) <= 2
             \/ Load(b) * HB_INTERVAL_MS <= 2 * MAX_LATE + 1 + HB_INTERVAL_MS

\* Every message in a socket counts as due.
LEMMA DueNat ==
    ASSUME NEW b, NEW sk \in Seq(Messages(b))
    PROVE  Len(sk) \in Nat /\ Due(sk) \in Nat /\ Len(sk) <= Due(sk)
<1>1. Len(sk) \in Nat
  OBVIOUS
<1>2. \A n \in Nat : n + 1 \in Nat /\ n + 0 = n /\ n <= n + 1
  OBVIOUS
<1> QED BY <1>1, <1>2 DEF Due

\* Nothing is due in an empty socket.
LEMMA DueEmpty == Due(<<>>) = 0 /\ AnnounceFirst(<<>>)
<1>1. Len(<<>>) = 0 /\ ~Announced(<<>>)
  BY DEF Announced
<1> QED BY <1>1 DEF Due, AnnounceFirst

\* The first announcement.
LEMMA DueAnnounce ==
    ASSUME NEW b
    PROVE  LET sk == Append(<<>>, [type |-> "announce", src |-> b])
           IN  Due(sk) = 2 /\ AnnounceFirst(sk)
<1> DEFINE m == [type |-> "announce", src |-> b]
           sk == Append(<<>>, m)
<1>1. sk = <<m>>
  OBVIOUS
<1>2. m.type = "announce"
  OBVIOUS
<1> HIDE DEF m
<1>3. Len(<<m>>) = 1 /\ <<m>> # <<>> /\ <<m>>[1] = m
  OBVIOUS
<1>4. Due(<<m>>) = 2
  BY <1>2, <1>3 DEF Due, Announced
<1>5. AnnounceFirst(<<m>>)
  BY <1>3 DEF AnnounceFirst
<1> QED BY <1>1, <1>4, <1>5 DEF m

\* A heartbeat is one message more.
LEMMA DueHeartbeat ==
    ASSUME NEW b, NEW sk \in Seq(Messages(b)), AnnounceFirst(sk)
    PROVE  LET r == Append(sk, [type |-> "heartbeat", src |-> b])
           IN  Due(r) = Due(sk) + 1 /\ AnnounceFirst(r) /\ r[Len(sk) + 1].type = "heartbeat"
                   /\ Len(r) = Len(sk) + 1
<1> DEFINE m == [type |-> "heartbeat", src |-> b]
           r == Append(sk, m)
<1>1. m.type = "heartbeat"
  OBVIOUS
<1> HIDE DEF m
<1>2. Len(sk) \in Nat /\ Len(r) = Len(sk) + 1 /\ r[Len(sk) + 1] = m
      /\ \A i \in 1 .. Len(sk) : r[i] = sk[i]
  OBVIOUS
<1>3. r # <<>>
  BY <1>2
<1> HIDE DEF r
<1>4. AnnounceFirst(r)
  <2>1. ASSUME NEW i \in 2 .. Len(r) PROVE r[i].type # "announce"
    <3>1. CASE i \in 2 .. Len(sk)
      BY <1>2, <3>1 DEF AnnounceFirst
    <3>2. CASE i = Len(sk) + 1
      BY <1>1, <1>2, <3>2
    <3>3. i \in 2 .. Len(sk) \/ i = Len(sk) + 1
      BY <1>2
    <3> QED BY <3>1, <3>2, <3>3
  <2> QED BY <2>1 DEF AnnounceFirst
<1>5. Announced(r) <=> Announced(sk)
  <2>1. CASE sk = <<>>
    <3>1. r[1] = m
      BY <1>2, <2>1
    <3> QED BY <1>1, <2>1, <3>1 DEF Announced
  <2>2. CASE sk # <<>>
    <3>1. r[1] = sk[1]
      BY <1>2, <2>2
    <3> QED BY <1>3, <2>2, <3>1 DEF Announced
  <2> QED BY <2>1, <2>2
<1>6. \A n \in Nat : (n + 1) + 1 = (n + 1) + 1 /\ (n + 1) + 0 = (n + 0) + 1
  OBVIOUS
<1>7. Due(r) = Due(sk) + 1
  BY <1>2, <1>5, <1>6 DEF Due
<1> QED BY <1>1, <1>2, <1>4, <1>7 DEF m, r

\* Reading takes one message off the load, whatever it is.
LEMMA DueRead ==
    ASSUME NEW b, NEW sk \in Seq(Messages(b)), AnnounceFirst(sk), sk # <<>>
    PROVE  LET r == IF sk[1].type = "announce" THEN Append(Tail(sk), [type |-> "ack", src |-> b])
                    ELSE Tail(sk)
           IN  Due(r) \in Nat /\ Due(r) + 1 = Due(sk) /\ AnnounceFirst(r)
<1> DEFINE n == Len(sk)
           q == Tail(sk)
           m == [type |-> "ack", src |-> b]
<1>1. n \in Nat /\ n >= 1
  OBVIOUS
<1>2. q \in Seq(Messages(b)) /\ Len(q) = n - 1 /\ \A i \in 1 .. n - 1 : q[i] = sk[i + 1]
  OBVIOUS
<1>3. \A i \in 1 .. n - 1 : q[i].type # "announce"
  <2>1. \A i \in 1 .. n - 1 : i + 1 \in 2 .. n
    BY <1>1
  <2> QED BY <1>2, <2>1 DEF AnnounceFirst
<1>4. m.type = "ack"
  OBVIOUS
<1> HIDE DEF n, q, m
<1>5. CASE sk[1].type = "announce"
  <2> DEFINE r == Append(q, m)
  <2>1. Len(r) = n /\ r[n] = m /\ \A i \in 1 .. n - 1 : r[i] = q[i]
    BY <1>1, <1>2
  <2> HIDE DEF r
  <2>2. \A i \in 1 .. n : r[i].type # "announce"
    <3>1. ASSUME NEW i \in 1 .. n PROVE r[i].type # "announce"
      <4>1. CASE i = n
        BY <1>4, <2>1, <4>1
      <4>2. CASE i # n
        <5>1. i \in 1 .. n - 1
          BY <1>1, <4>2
        <5> QED BY <1>3, <2>1, <5>1
      <4> QED BY <4>1, <4>2
    <3> QED BY <3>1
  <2>3. ~Announced(r) /\ AnnounceFirst(r)
    <3>1. 1 \in 1 .. n /\ 2 .. n \subseteq 1 .. n
      BY <1>1
    <3> QED BY <2>1, <2>2, <3>1 DEF Announced, AnnounceFirst
  <2>4. Due(r) = n + 0 /\ Due(sk) = n + 1
    BY <1>5, <2>1, <2>3 DEF Due, Announced, n
  <2> QED BY <1>1, <1>5, <2>3, <2>4 DEF r, q, m
<1>6. CASE sk[1].type # "announce"
  <2>1. ~Announced(q)
    <3>1. CASE n = 1
      <4>1. q = <<>>
        BY <1>2, <3>1
      <4> QED BY <4>1 DEF Announced
    <3>2. CASE n # 1
      <4>1. 1 \in 1 .. n - 1
        BY <1>1, <3>2
      <4> QED BY <1>3, <4>1 DEF Announced
    <3> QED BY <3>1, <3>2
  <2>2. AnnounceFirst(q)
    <3>1. 2 .. n - 1 \subseteq 1 .. n - 1
      BY <1>1
    <3> QED BY <1>2, <1>3, <3>1 DEF AnnounceFirst
  <2>3. Due(q) = (n - 1) + 0 /\ Due(sk) = n + 0
    BY <1>2, <1>6, <2>1 DEF Due, Announced, n
  <2> QED BY <1>1, <1>6, <2>2, <2>3 DEF q
<1> QED BY <1>5, <1>6

\* Products of numbers grow with their factors.
LEMMA Products ==
    ASSUME NEW x \in Nat, NEW y \in Nat, NEW h \in Nat
    PROVE  /\ x * h \in Nat /\ (x + 1) * h = x * h + h
           /\ x <= y => x * h <= y * h
           /\ h > 0 /\ x * h <= y * h => x <= y
<1>1. x * h \in Nat /\ (x + 1) * h = x * h + h /\ y * h \in Nat
  OBVIOUS
<1>2. x <= y => x * h <= y * h
  <2>1. SUFFICES ASSUME x <= y PROVE x * h <= y * h
    OBVIOUS
  <2>2. PICK d \in Nat : y = x + d
    <3>1. y - x \in Nat /\ y = x + (y - x)
      BY <2>1
    <3> QED BY <3>1
  <2>3. y * h = x * h + d * h /\ d * h \in Nat
    BY <2>2
  <2> QED BY <1>1, <2>3
<1>3. h > 0 /\ x * h <= y * h => x <= y
  <2>1. SUFFICES ASSUME h > 0, x * h <= y * h, ~(x <= y) PROVE FALSE
    OBVIOUS
  <2>2. PICK d \in Nat : x = (y + d) + 1
    <3>1. x - y - 1 \in Nat /\ x = (y + (x - y - 1)) + 1
      BY <2>1
    <3> QED BY <3>1
  <2>3. x * h = (y * h + d * h) + h /\ d * h \in Nat
    BY <2>2
  <2> QED BY <1>1, <2>1, <2>3
<1> QED BY <1>1, <1>2, <1>3

\* What waits in the socket of a box is within its load.
LEMMA BoxSock ==
    ASSUME Framed, NEW b \in Boxes
    PROVE  /\ sock[b] \in Seq(Messages(b)) /\ Len(sock[b]) \in Nat /\ Due(sock[b]) \in Nat
           /\ Len(sock[b]) <= Due(sock[b]) /\ Load(b) \in Nat /\ Due(sock[b]) <= Load(b)
           /\ Len(sock[b]) <= UDP_BUFFER
<1>1. sock[b] \in Seq(Messages(b)) /\ Len(sock[b]) <= UDP_BUFFER
  BY DEF Framed, Types, DataTypes, BoxTypes
<1>2. Len(sock[b]) \in Nat /\ Due(sock[b]) \in Nat /\ Len(sock[b]) <= Due(sock[b])
  BY <1>1, DueNat
<1>3. drained[b] \in Nat
  BY BoxNatsHold DEF BoxNats
<1>4. \A x, y \in Nat : x + y \in Nat /\ x <= x + y /\ x + 0 = x /\ x <= x
  OBVIOUS
<1> QED BY <1>1, <1>2, <1>3, <1>4 DEF Load

\* While the program runs, an iteration leaves nothing behind.
LEMMA ReadsAll ==
    ASSUME Framed, ThreadsFit, NEW b \in Boxes, Stays(b), LoadOK(b), g_running, AtEnd(b)
    PROVE  sock[b] = <<>>
<1>1. CASE compute_pc[b] = "none"
  BY <1>1 DEF Stays
<1>2. CASE compute_pc[b] # "none"
  <2>1. node_pc[b] = "drain" /\ (sock[b] = <<>> \/ drained[b] = DRAIN_MAX)
    BY DEF AtEnd
  <2>2. Load(b) <= 2 \/ Load(b) * HB_INTERVAL_MS <= 2 * MAX_LATE + 1 + HB_INTERVAL_MS
    BY <1>2, <2>1 DEF LoadOK, Runs
  <2>3. Load(b) <= DRAIN_MAX
    <3>1. Load(b) \in Nat
      BY BoxSock
    <3>2. CASE Load(b) <= 2
      BY <3>1, <3>2, TimeConstants DEF ThreadsFit
    <3>3. CASE Load(b) * HB_INTERVAL_MS <= 2 * MAX_LATE + 1 + HB_INTERVAL_MS
      <4>1. Load(b) * HB_INTERVAL_MS \in Nat /\ DRAIN_MAX * HB_INTERVAL_MS \in Nat
        BY <3>1, TimeConstants, Products
      <4>2. Load(b) * HB_INTERVAL_MS <= DRAIN_MAX * HB_INTERVAL_MS
        BY <3>3, <4>1, TimeConstants DEF ThreadsFit
      <4> QED BY <3>1, <4>2, TimeConstants, Products
    <3> QED BY <2>2, <3>2, <3>3
  <2>4. CASE drained[b] = DRAIN_MAX
    <3>1. Load(b) = Due(sock[b]) + DRAIN_MAX
      BY <2>1, <2>4 DEF Load
    <3>2. Due(sock[b]) \in Nat /\ Len(sock[b]) \in Nat /\ Len(sock[b]) <= Due(sock[b])
      BY BoxSock
    <3>3. \A n, d \in Nat : n <= d /\ d + DRAIN_MAX <= DRAIN_MAX => n = 0
      BY TimeConstants
    <3>4. Len(sock[b]) = 0
      BY <2>3, <3>1, <3>2, <3>3
    <3> QED BY <3>4, BoxSock
  <2> QED BY <2>1, <2>4
<1> QED BY <1>1, <1>2

\* What waits in a socket was sent since the last iteration.
LEMMA LoadNext ==
    ASSUME Framed, ThreadsFit, NEW b \in Boxes, Punctual(b), Stays(b), LoadOK(b), BoxMove(b)
    PROVE  LoadOK(b)'
<1>1. BoxNats(b) /\ LifeOf(b)
  BY BoxNatsHold, LifeOfHolds
<1>2. CASE AtCreate(b)
  BY <1>1, <1>2 DEF AtCreate, LifeOf, LoadOK, SockSame, ComputeSame, Runs
<1>3. CASE AtMain(b) \/ AtSecond(b) \/ AtTick(b) \/ (ClockSame(b) /\ DataSame(b) /\ ComputeSame(b))
  <2>1. DataSame(b) /\ ComputeSame(b) /\ (g_running' => g_running)
    <3>1. CASE AtMain(b)
      BY <3>1 DEF AtMain
    <3>2. CASE AtSecond(b)
      BY <3>2 DEF AtSecond
    <3>3. CASE AtTick(b)
      BY <3>3 DEF AtTick
    <3> QED BY <1>3, <3>1, <3>2, <3>3 DEF ClockSame
  <2>2. Load(b)' = Load(b)
    BY <2>1 DEF Load, DataSame, NodeSame, SockSame
  <2> QED BY <2>1, <2>2 DEF LoadOK, Runs, Sends, DataSame, NodeSame, SockSame, ComputeSame
<1>4. CASE AtStart(b)
  <2>1. compute_pc[b] = "none"
    BY <1>1, <1>4 DEF AtStart, LifeOf
  <2>2. sock'[b] = <<>> /\ drained'[b] = 0 /\ node_wake'[b] = node_wake[b] /\ compute_wake'[b] = now
    BY <1>4, <2>1 DEF AtStart, Stays, DataSame, NodeSame, SockSame
  <2>3. Load(b)' = 0
    BY <2>2, DueEmpty DEF Load
  <2>4. node_wake[b] <= now + MAX_LATE + 1
    BY <1>1, TimeConstants DEF Punctual, BoxNats
  <2>5. Load(b)' * HB_INTERVAL_MS = 0 /\ node_wake[b] + 0 = node_wake[b]
    BY <1>1, <2>3, TimeConstants DEF BoxNats
  <2> QED BY <2>2, <2>3, <2>4, <2>5, DueEmpty DEF LoadOK
<1>5. CASE AtSend(b, "announce", "announce", PAUSE)
  <2>1. /\ sock[b] = <<>> /\ drained[b] = 0 /\ NodeSame(b) /\ compute_wake'[b] = now + PAUSE
    BY <1>5 DEF AtSend, Stays
  <2>2. sock'[b] = <<>> \/ sock'[b] = Append(<<>>, [type |-> "announce", src |-> b])
    BY <1>5, <2>1 DEF AtSend
  <2>3. AnnounceFirst(sock'[b]) /\ Due(sock'[b]) \in {0, 2}
    BY <2>2, DueAnnounce, DueEmpty
  <2>4. Load(b)' \in {0, 2}
    BY <2>1, <2>3 DEF Load, NodeSame
  <2>5. Load(b)' * HB_INTERVAL_MS <= PAUSE /\ Load(b)' * HB_INTERVAL_MS \in Nat
    BY <2>4, TimeConstants DEF ThreadsFit
  <2>6. node_wake'[b] <= now + 1
    BY <2>1 DEF Punctual, NodeSame
  <2>7. node_wake'[b] \in Nat
    BY <1>1, <2>1 DEF BoxNats, NodeSame
  <2>8. node_wake'[b] + Load(b)' * HB_INTERVAL_MS <= compute_wake'[b] + MAX_LATE + 1
    <3>1. \A x, y \in Nat : x <= now + 1 /\ y <= PAUSE => x + y <= now + PAUSE + MAX_LATE + 1
      BY <1>1, TimeConstants DEF BoxNats
    <3> QED BY <2>1, <2>5, <2>6, <2>7, <3>1
  <2>9. Load(b)' <= 2
    BY <2>4
  <2> QED BY <2>3, <2>8, <2>9 DEF LoadOK
<1>6. CASE AtSend(b, "send", "heartbeat", HB_INTERVAL_MS)
  <2>1. /\ compute_pc[b] = "send" /\ NodeSame(b) /\ compute_wake'[b] = now + HB_INTERVAL_MS
        /\ now >= compute_wake[b] /\ g_running' = g_running
    BY <1>6 DEF AtSend, ClockSame
  <2>2. sock'[b] = sock[b] \/ sock'[b] = Append(sock[b], [type |-> "heartbeat", src |-> b])
    BY <1>6 DEF AtSend
  <2>3. AnnounceFirst(sock'[b]) /\ (Due(sock'[b]) = Due(sock[b]) \/ Due(sock'[b]) = Due(sock[b]) + 1)
    BY <2>2, BoxSock, DueHeartbeat DEF LoadOK
  <2>4. Load(b) \in Nat /\ Load(b)' \in Nat /\ Load(b)' <= Load(b) + 1
    <3>1. \A d, x \in Nat : /\ d + x \in Nat /\ d + x <= (d + x) + 1
                            /\ (d + 1) + x \in Nat /\ (d + 1) + x <= (d + x) + 1
      OBVIOUS
    <3>2. (IF node_pc[b] = "drain" THEN drained[b] ELSE 0) \in Nat
      BY <1>1 DEF BoxNats
    <3> QED BY <2>1, <2>3, <3>1, <3>2, BoxSock DEF Load, NodeSame
  <2>5. SUFFICES ASSUME g_running, Runs(b)
                 PROVE  /\ node_wake'[b] + Load(b)' * HB_INTERVAL_MS <= compute_wake'[b] + MAX_LATE + 1
                        /\ Load(b)' * HB_INTERVAL_MS <= 2 * MAX_LATE + 1 + HB_INTERVAL_MS
    BY <2>1, <2>3 DEF LoadOK, Runs, NodeSame
  <2>6. node_wake[b] + Load(b) * HB_INTERVAL_MS <= compute_wake[b] + MAX_LATE + 1
    BY <2>1, <2>5 DEF LoadOK, Sends
  <2>7. now <= node_wake[b] + MAX_LATE
    BY <2>5 DEF Punctual, Runs
  <2>8. /\ Load(b)' * HB_INTERVAL_MS <= Load(b) * HB_INTERVAL_MS + HB_INTERVAL_MS
        /\ Load(b) * HB_INTERVAL_MS \in Nat /\ Load(b)' * HB_INTERVAL_MS \in Nat
    <3>1. Load(b) + 1 \in Nat
      BY <2>4
    <3>2. Load(b)' * HB_INTERVAL_MS <= (Load(b) + 1) * HB_INTERVAL_MS
      BY <2>4, <3>1, TimeConstants, Products
    <3> QED BY <2>4, <3>2, TimeConstants, Products
  <2>9. \A x, y \in Nat : /\ y <= x + HB_INTERVAL_MS
                          /\ node_wake[b] + x <= compute_wake[b] + MAX_LATE + 1
                          => /\ node_wake[b] + y <= now + HB_INTERVAL_MS + MAX_LATE + 1
                             /\ y <= 2 * MAX_LATE + 1 + HB_INTERVAL_MS
    BY <1>1, <2>1, <2>7, TimeConstants DEF BoxNats
  <2>10. node_wake'[b] = node_wake[b]
    BY <2>1 DEF NodeSame
  <2> QED BY <2>1, <2>6, <2>8, <2>9, <2>10
<1>7. CASE AtCheck(b)
  <2>1. /\ DataSame(b) /\ ClockSame(b) /\ compute_wake'[b] = compute_wake[b] /\ compute_pc[b] = "check"
    BY <1>7 DEF AtCheck
  <2>2. Load(b)' = Load(b)
    BY <2>1 DEF Load, DataSame, NodeSame, SockSame
  <2> QED BY <2>1, <2>2 DEF LoadOK, Runs, Sends, DataSame, NodeSame, SockSame, ClockSame
<1>8. CASE AtInit(b)
  BY <1>8 DEF AtInit, LoadOK, Stays, SockSame, ClockSame, ComputeSame
<1>9. CASE AtExit(b)
  BY <1>9 DEF AtExit, LoadOK, Runs, SockSame
<1>10. CASE AtLoop(b)
  <2>1. /\ node_pc[b] = "loop" /\ node_pc'[b] = "drain" /\ drained'[b] = 0 /\ ClockSame(b)
        /\ SockSame(b) /\ ComputeSame(b) /\ node_wake'[b] = node_wake[b]
    BY <1>10 DEF AtLoop
  <2>2. Load(b)' = Load(b)
    BY <2>1 DEF Load, SockSame
  <2> QED BY <2>1, <2>2 DEF LoadOK, Runs, Sends, ClockSame, SockSame, ComputeSame
<1>11. CASE AtDrain(b)
  <2>1. /\ node_pc[b] = "drain" /\ node_pc'[b] = "drain" /\ drained'[b] = drained[b] + 1
        /\ ClockSame(b) /\ ComputeSame(b) /\ node_wake'[b] = node_wake[b] /\ sock[b] # <<>>
    BY <1>11 DEF AtDrain
  <2>2. sock'[b] = IF sock[b][1].type = "announce"
                   THEN Append(Tail(sock[b]), [type |-> "ack", src |-> b]) ELSE Tail(sock[b])
    BY <1>11 DEF AtDrain
  <2>3. Due(sock'[b]) \in Nat /\ Due(sock'[b]) + 1 = Due(sock[b]) /\ AnnounceFirst(sock'[b])
    BY <2>1, <2>2, BoxSock, DueRead DEF LoadOK
  <2>4. Load(b)' = Load(b)
    <3>1. Load(b) = Due(sock[b]) + drained[b] /\ Load(b)' = Due(sock'[b]) + (drained[b] + 1)
      BY <2>1 DEF Load
    <3>2. drained[b] \in Nat
      BY <1>1 DEF BoxNats
    <3>3. \A x, y \in Nat : x + (y + 1) = (x + 1) + y
      OBVIOUS
    <3> QED BY <2>3, <3>1, <3>2, <3>3
  <2> QED BY <2>1, <2>3, <2>4 DEF LoadOK, Runs, Sends, ClockSame, ComputeSame
<1>12. CASE AtEnd(b)
  <2>1. /\ node_pc[b] = "drain" /\ node_pc'[b] = "loop" /\ node_wake'[b] = now + 1
        /\ ClockSame(b) /\ SockSame(b) /\ ComputeSame(b)
    BY <1>12 DEF AtEnd
  <2>2. AnnounceFirst(sock'[b])
    BY <2>1 DEF LoadOK, SockSame
  <2>3. SUFFICES ASSUME g_running
                 PROVE  /\ Sends(b) => node_wake'[b] + Load(b)' * HB_INTERVAL_MS
                                          <= compute_wake'[b] + MAX_LATE + 1
                        /\ Load(b)' <= 2
    BY <2>1, <2>2 DEF LoadOK, ClockSame, Sends, ComputeSame
  <2>4. Load(b)' = 0
    BY <1>12, <2>1, <2>3, ReadsAll, DueEmpty DEF Load, SockSame
  <2>5. Sends(b) => now + 1 <= compute_wake[b] + MAX_LATE + 1
    BY <1>1, TimeConstants DEF Punctual, BoxNats
  <2>6. 0 * HB_INTERVAL_MS = 0 /\ (now + 1) + 0 = now + 1
    BY <1>1, TimeConstants DEF BoxNats
  <2> QED BY <2>1, <2>4, <2>5, <2>6 DEF ComputeSame
<1> QED BY <1>2, <1>3, <1>4, <1>5, <1>6, <1>7, <1>8, <1>9, <1>10, <1>11, <1>12 DEF BoxMove

NoFrame(b) == \A i \in 1 .. Len(sock[b]) : sock[b][i].type = "ack"

\* A node with no frame under way was heard when it sent its last one.
HeardOf(b) ==
    g_running /\ table[b] # <<>> /\ NoFrame(b) =>
        compute_wake[b] <= table[b][1].last_seen_ms + MAX_LATE + PAUSE

\* What a slot knows of its node at a time is silence.
Silent(e, at) ==
    /\ e.last_seen_ms + e.miss_count * HB_INTERVAL_MS <= at
    /\ e.status = NODE_SUSPECT => /\ e.last_seen_ms + SuspectAfter <= e.suspect_since_ms
                                  /\ e.suspect_since_ms <= at

SlotSilence(b) == table[b] # <<>> => Silent(table[b][1], node_now[b])

NotGivenUp(b) == table[b] # <<>> /\ g_running /\ alive[b] => table[b][1].status # NODE_DOWN

\* The fields of a slot are numbers.
LEMMA SlotNats ==
    ASSUME NEW e \in Slots
    PROVE  /\ e.last_seen_ms \in Ticks /\ e.suspect_since_ms \in Ticks
           /\ e.last_seen_ms \in Nat /\ e.suspect_since_ms \in Nat /\ e.miss_count \in Nat
           /\ e.status \in Statuses
<1>1. /\ e.last_seen_ms \in Ticks /\ e.suspect_since_ms \in Ticks
      /\ e.miss_count \in 0 .. MISS_MOD - 1 /\ e.status \in Statuses
  BY DEF Slots, Slot
<1>2. Ticks \subseteq Nat /\ 0 .. MISS_MOD - 1 \subseteq Nat
  BY MonitorConstants DEF Ticks
<1> QED BY <1>1, <1>2

\* The slot of a box is a slot.
LEMMA BoxSlot ==
    ASSUME Framed, NEW b \in Boxes, table[b] # <<>>
    PROVE  table[b][1] \in Slots
<1>1. OwnTable(table[b], b)
  BY DEF Framed, Types, DataTypes, BoxTypes
<1>2. Len(table[b]) = 1 /\ table[b] \in Seq(Slots)
  BY <1>1, OwnLength DEF OwnTable
<1> QED BY <1>2

\* The time a node thread reads is a tick.
LEMMA NowFits == ASSUME Framed, NEW b \in Boxes PROVE node_now[b] \in Ticks
BY ClockFits DEF Framed, Types, ThreadTypes

\* The misses of a tick are at most what the silence accounts for.
LEMMA MissesCounted ==
    ASSUME NEW e \in Slots, NEW at \in Ticks, Silent(e, at)
    PROVE  /\ count_misses(e, at) \in Nat
           /\ e.last_seen_ms + count_misses(e, at) * HB_INTERVAL_MS <= at
<1> DEFINE h == HB_INTERVAL_MS
           d == at - e.last_seen_ms
           k == d \div h
           r == k % MISS_MOD
<1>1. at \in Nat /\ h \in Nat /\ h > 0 /\ MISS_MOD \in Nat /\ MISS_MOD > 0
  BY MonitorConstants DEF Ticks
<1>2. e.last_seen_ms \in Nat /\ e.miss_count \in Nat /\ e.miss_count * h \in Nat
  BY SlotNats, <1>1
<1>3. d \in Nat /\ Elapsed(at, e.last_seen_ms) = d
  BY <1>1, <1>2 DEF Silent, Elapsed
<1>4. count_misses(e, at) = IF d >= h THEN r ELSE e.miss_count
  BY <1>3 DEF count_misses
<1> HIDE DEF d
<1>5. k \in Nat /\ k * h <= d
  BY <1>1, <1>3
<1> HIDE DEF k
<1>6. r \in Nat /\ r <= k
  BY <1>1, <1>5
<1> HIDE DEF r, h
<1>7. r * h \in Nat /\ k * h \in Nat /\ r * h <= k * h
  BY <1>1, <1>5, <1>6, Products
<1>8. r * h <= d
  BY <1>3, <1>5, <1>7
<1>9. e.last_seen_ms + r * h <= at
  BY <1>1, <1>2, <1>3, <1>7, <1>8 DEF d
<1>10. e.last_seen_ms + e.miss_count * h <= at
  BY DEF Silent, h
<1> QED BY <1>2, <1>4, <1>6, <1>9, <1>10 DEF h

\* A tick: a node becomes SUSPECT after SuspectAfter, DOWN after
\* DOWN_TIMEOUT_MS more.
LEMMA SilentTick ==
    ASSUME NEW e \in Slots, NEW at \in Ticks, Silent(e, at)
    PROVE  LET r == Ticked(e, at)
           IN  /\ Silent(r, at) /\ r.last_seen_ms = e.last_seen_ms
               /\ r.status = NODE_DOWN /\ e.status # NODE_DOWN =>
                     e.last_seen_ms + SuspectAfter + DOWN_TIMEOUT_MS <= at
<1> DEFINE r == Ticked(e, at)
           n == count_misses(e, at)
           c == [e EXCEPT !.miss_count = n]
<1>1. /\ r \in Slots /\ r.last_seen_ms = e.last_seen_ms /\ r.miss_count = n
      /\ r.status = tick_status(c, at, TRUE)
      /\ r.suspect_since_ms = IF r.status = NODE_SUSPECT /\ e.status = NODE_UP
                              THEN at ELSE e.suspect_since_ms
  BY TickedOwn
<1>2. c.status = e.status /\ c.miss_count = n /\ c.suspect_since_ms = e.suspect_since_ms
  BY DEF Slots, Slot
<1>3. n \in Nat /\ e.last_seen_ms + n * HB_INTERVAL_MS <= at
  BY MissesCounted
<1> HIDE DEF r, n, c
<1>4. at \in Nat /\ e.last_seen_ms \in Nat /\ e.suspect_since_ms \in Nat /\ e.status \in Statuses
  BY SlotNats, MonitorConstants DEF Ticks
<1>5. n >= SUSPECT_THRESHOLD => e.last_seen_ms + SuspectAfter <= at
  <2>1. SUFFICES ASSUME n >= SUSPECT_THRESHOLD PROVE e.last_seen_ms + SuspectAfter <= at
    OBVIOUS
  <2>2. SuspectAfter <= n * HB_INTERVAL_MS /\ SuspectAfter \in Nat /\ n * HB_INTERVAL_MS \in Nat
    BY <1>3, <2>1, Products, MonitorConstants DEF SuspectAfter
  <2> QED BY <1>3, <1>4, <2>2
<1>6. r.last_seen_ms + r.miss_count * HB_INTERVAL_MS <= at
  BY <1>1, <1>3
<1>7. NODE_UP # NODE_SUSPECT /\ NODE_UP # NODE_DOWN /\ NODE_SUSPECT # NODE_DOWN
  BY DEF NODE_UP, NODE_SUSPECT, NODE_DOWN
<1> DEFINE Result == /\ r.status = NODE_SUSPECT => /\ r.last_seen_ms + SuspectAfter <= r.suspect_since_ms
                                                  /\ r.suspect_since_ms <= at
                     /\ r.status = NODE_DOWN /\ e.status # NODE_DOWN =>
                           e.last_seen_ms + SuspectAfter + DOWN_TIMEOUT_MS <= at
<1>8. ASSUME e.status = NODE_UP PROVE Result
  <2>1. r.status = IF n >= SUSPECT_THRESHOLD THEN NODE_SUSPECT ELSE NODE_UP
    BY <1>1, <1>2, <1>8 DEF tick_status, NODE_UP, NODE_SUSPECT, NODE_DOWN
  <2>2. CASE n >= SUSPECT_THRESHOLD
    <3>1. r.status = NODE_SUSPECT /\ r.suspect_since_ms = at
      BY <1>1, <1>8, <2>1, <2>2
    <3>2. r.last_seen_ms + SuspectAfter <= r.suspect_since_ms /\ r.suspect_since_ms <= at
      <4>1. at <= at
        BY <1>4
      <4> QED BY <1>1, <1>5, <2>2, <3>1, <4>1
    <3> QED BY <1>7, <3>1, <3>2
  <2>3. CASE ~(n >= SUSPECT_THRESHOLD)
    BY <1>7, <2>1, <2>3
  <2> QED BY <2>2, <2>3
<1>9. ASSUME e.status = NODE_SUSPECT PROVE Result
  <2>1. e.last_seen_ms + SuspectAfter <= e.suspect_since_ms /\ e.suspect_since_ms <= at
    BY <1>9 DEF Silent
  <2>2. r.status = IF at - e.suspect_since_ms >= DOWN_TIMEOUT_MS THEN NODE_DOWN ELSE NODE_SUSPECT
    BY <1>1, <1>2, <1>9, <2>1 DEF tick_status, Elapsed, NODE_UP, NODE_SUSPECT, NODE_DOWN
  <2>3. at - e.suspect_since_ms >= DOWN_TIMEOUT_MS =>
            e.last_seen_ms + SuspectAfter + DOWN_TIMEOUT_MS <= at
    BY <1>4, <2>1, TimeConstants
  <2>4. r.suspect_since_ms = e.suspect_since_ms
    BY <1>1, <1>9 DEF NODE_UP, NODE_SUSPECT
  <2> QED BY <1>1, <1>7, <2>1, <2>2, <2>3, <2>4
<1>10. ASSUME e.status = NODE_DOWN PROVE Result
  <2>1. r.status = NODE_DOWN
    BY <1>1, <1>2, <1>10 DEF tick_status, NODE_UP, NODE_SUSPECT, NODE_DOWN
  <2> QED BY <1>7, <1>10, <2>1
<1>11. Result
  BY <1>4, <1>8, <1>9, <1>10 DEF Statuses
<1>12. Silent(r, at)
  BY <1>6, <1>11 DEF Silent
<1> QED BY <1>1, <1>11, <1>12 DEF r

\* A node is heard at the end of an iteration as it was before.
LEMMA EndSlot ==
    ASSUME Framed, NEW b \in Boxes, SlotSilence(b), AtEnd(b), table'[b] # <<>>
    PROVE  /\ table[b] # <<>> /\ Silent(table'[b][1], node_now[b])
           /\ table'[b][1].last_seen_ms = table[b][1].last_seen_ms
           /\ table'[b][1].status = NODE_DOWN =>
                 \/ table[b][1].status = NODE_DOWN
                 \/ table[b][1].last_seen_ms + SuspectAfter + DOWN_TIMEOUT_MS <= node_now[b]
<1>1. table[b] # <<>>
  BY DEF AtEnd
<1>2. Silent(table[b][1], node_now[b])
  BY <1>1 DEF SlotSilence
<1>3. table'[b] = table[b] \/ table'[b][1] = Ticked(table[b][1], node_now[b])
  BY <1>1, BoxNatsHold DEF AtEnd, TableSame, BoxNats
<1>4. CASE table'[b] = table[b]
  BY <1>1, <1>2, <1>4
<1>5. CASE table'[b][1] = Ticked(table[b][1], node_now[b])
  BY <1>1, <1>2, <1>5, BoxSlot, NowFits, SilentTick
<1> QED BY <1>3, <1>4, <1>5

\* A compute thread that is in time finds room in the socket.
LEMMA RoomToSend ==
    ASSUME Framed, ThreadsFit, NEW b \in Boxes, Punctual(b), LoadOK(b), g_running, Runs(b),
           AtSend(b, "send", "heartbeat", HB_INTERVAL_MS)
    PROVE  b \in open /\ Len(sock[b]) < UDP_BUFFER
<1>1. BoxNats(b)
  BY BoxNatsHold
<1>2. compute_pc[b] = "send" /\ now >= compute_wake[b]
  BY DEF AtSend
<1>3. Sends(b) /\ b \in open
  BY <1>2, LifeOfHolds DEF LifeOf, Sends
<1>4. /\ node_wake[b] + Load(b) * HB_INTERVAL_MS <= compute_wake[b] + MAX_LATE + 1
      /\ now <= node_wake[b] + MAX_LATE
  BY <1>2, <1>3 DEF LoadOK, Punctual, Runs
<1>5. Load(b) \in Nat /\ Load(b) + 1 \in Nat /\ Load(b) * HB_INTERVAL_MS \in Nat
  BY BoxSock, TimeConstants, Products
<1>6. \A x \in Nat : node_wake[b] + x <= compute_wake[b] + MAX_LATE + 1 =>
                       x + HB_INTERVAL_MS <= 2 * MAX_LATE + 1 + HB_INTERVAL_MS
  BY <1>1, <1>2, <1>4, TimeConstants DEF BoxNats
<1>7. (Load(b) + 1) * HB_INTERVAL_MS <= UDP_BUFFER * HB_INTERVAL_MS
  <2>1. (Load(b) + 1) * HB_INTERVAL_MS = Load(b) * HB_INTERVAL_MS + HB_INTERVAL_MS
    BY <1>5, TimeConstants, Products
  <2>2. Load(b) * HB_INTERVAL_MS + HB_INTERVAL_MS <= 2 * MAX_LATE + 1 + HB_INTERVAL_MS
    BY <1>4, <1>5, <1>6
  <2>3. UDP_BUFFER * HB_INTERVAL_MS \in Nat
    BY TimeConstants, Products
  <2>4. \A x \in Nat, y \in Nat : /\ x + HB_INTERVAL_MS <= 2 * MAX_LATE + 1 + HB_INTERVAL_MS
                                  /\ 2 * MAX_LATE + 1 + HB_INTERVAL_MS <= y
                                  => x + HB_INTERVAL_MS <= y
    BY TimeConstants
  <2> QED BY <1>5, <2>1, <2>2, <2>3, <2>4 DEF ThreadsFit
<1>8. Load(b) + 1 <= UDP_BUFFER
  BY <1>5, <1>7, TimeConstants, Products
<1>9. \A n, d, x \in Nat : n <= d /\ d <= x /\ x + 1 <= UDP_BUFFER => n < UDP_BUFFER
  BY TimeConstants
<1> QED BY <1>3, <1>8, <1>9, BoxSock

\* A frame was read.
HeardNow(b) ==
    /\ table'[b] # <<>> /\ table'[b][1].status = NODE_UP
    /\ table'[b][1].last_seen_ms = node_now[b] /\ table'[b][1].miss_count = 0

\* A message leaves the slot alone or refreshes it.
LEMMA DrainSlot ==
    ASSUME NEW b \in Boxes, AtDrain(b)
    PROVE  TableSame(b) \/ (HeardNow(b) /\ sock[b][1].type # "ack")
<1>1. LET e == announced(b, b, node_now[b])
      IN  e.last_seen_ms = node_now[b] /\ e.miss_count = 0 /\ e.status = NODE_UP
  BY DEF announced
<1> QED BY <1>1 DEF AtDrain, HeardNow

\* Reading adds no frame.
LEMMA NoFrameKept ==
    ASSUME Framed, NEW b \in Boxes, AtDrain(b), NoFrame(b)
    PROVE  NoFrame(b)' /\ TableSame(b)
<1>1. sock[b] # <<>> /\ sock[b] \in Seq(Messages(b)) /\ Len(sock[b]) \in Nat
  BY BoxSock DEF AtDrain
<1>2. sock[b][1].type = "ack"
  <2>1. 1 \in 1 .. Len(sock[b])
    BY <1>1
  <2> QED BY <2>1 DEF NoFrame
<1>3. sock'[b] = Tail(sock[b]) /\ TableSame(b)
  BY <1>2 DEF AtDrain
<1>4. /\ Len(Tail(sock[b])) = Len(sock[b]) - 1
      /\ \A i \in 1 .. Len(sock[b]) - 1 : Tail(sock[b])[i] = sock[b][i + 1] /\ i + 1 \in 1 .. Len(sock[b])
  BY <1>1
<1> QED BY <1>3, <1>4 DEF NoFrame

\* A node with nothing under way was heard at its last frame.
LEMMA HeardNext ==
    ASSUME Framed, ThreadsFit, NEW b \in Boxes, Punctual(b), Stays(b), LoadOK(b), HeardOf(b),
           SlotSilence(b), BoxMove(b)
    PROVE  HeardOf(b)'
<1>1. BoxNats(b) /\ LifeOf(b)
  BY BoxNatsHold, LifeOfHolds
<1>2. CASE AtStart(b)
  <2>1. table'[b] = <<>>
    BY <1>1, <1>2 DEF AtStart, LifeOf, Stays, DataSame, TableSame
  <2> QED BY <2>1 DEF HeardOf
<1>3. CASE /\ g_running' => g_running
           /\ table'[b] = table[b] /\ sock'[b] = sock[b] /\ compute_wake'[b] = compute_wake[b]
  BY <1>3 DEF HeardOf, NoFrame
<1>4. CASE AtCreate(b) \/ AtMain(b) \/ AtSecond(b) \/ AtTick(b)
  <2>1. CASE AtCreate(b)
    BY <1>3, <2>1 DEF AtCreate, TableSame, SockSame, ComputeSame
  <2>2. CASE AtMain(b)
    BY <1>3, <2>2 DEF AtMain, DataSame, TableSame, SockSame, ComputeSame
  <2>3. CASE AtSecond(b)
    BY <1>3, <2>3 DEF AtSecond, DataSame, TableSame, SockSame, ComputeSame
  <2>4. CASE AtTick(b)
    BY <1>3, <2>4 DEF AtTick, DataSame, TableSame, SockSame, ComputeSame
  <2> QED BY <1>4, <2>1, <2>2, <2>3, <2>4
<1>5. CASE \/ AtCheck(b) \/ AtInit(b) \/ AtExit(b) \/ AtLoop(b)
           \/ ClockSame(b) /\ DataSame(b) /\ ComputeSame(b)
  <2>1. ClockSame(b) /\ table'[b] = table[b] /\ sock'[b] = sock[b] /\ compute_wake'[b] = compute_wake[b]
    BY <1>5 DEF AtCheck, AtInit, AtExit, AtLoop, DataSame, TableSame, SockSame, ComputeSame
  <2> QED BY <1>3, <2>1 DEF ClockSame
<1>6. CASE AtSend(b, "announce", "announce", PAUSE)
  <2>1. table'[b] = <<>>
    BY <1>6 DEF AtSend, Stays, TableSame
  <2> QED BY <2>1 DEF HeardOf
<1>7. CASE AtSend(b, "send", "heartbeat", HB_INTERVAL_MS)
  <2>1. SUFFICES ASSUME g_running, table[b] # <<>> PROVE ~NoFrame(b)'
    BY <1>7 DEF AtSend, HeardOf, ClockSame, TableSame
  <2>2. Runs(b)
    BY <2>1 DEF Stays
  <2>3. sock'[b] = Append(sock[b], [type |-> "heartbeat", src |-> b])
    BY <1>7, <2>1, <2>2, RoomToSend DEF AtSend
  <2>4. sock'[b][Len(sock[b]) + 1].type = "heartbeat" /\ Len(sock'[b]) = Len(sock[b]) + 1
    BY <2>3, BoxSock, DueHeartbeat DEF LoadOK
  <2>5. Len(sock[b]) + 1 \in 1 .. Len(sock'[b])
    BY <2>4, BoxSock
  <2> QED BY <2>4, <2>5 DEF NoFrame
<1>8. CASE AtDrain(b)
  <2>1. node_pc[b] = "drain" /\ sock[b] # <<>> /\ ClockSame(b) /\ ComputeSame(b)
    BY <1>8 DEF AtDrain
  <2>2. CASE table'[b] # <<>> /\ table'[b][1].last_seen_ms = node_now[b]
    <3>1. /\ compute_wake[b] <= now + PAUSE /\ now <= node_wake[b] + MAX_LATE
          /\ node_wake[b] <= node_now[b]
      BY <2>1 DEF Punctual
    <3>2. compute_wake[b] <= node_now[b] + MAX_LATE + PAUSE
      BY <1>1, <3>1, TimeConstants DEF BoxNats
    <3> QED BY <2>1, <2>2, <3>2 DEF HeardOf, ComputeSame
  <2>3. CASE sock[b][1].type = "ack" /\ sock'[b] = Tail(sock[b]) /\ TableSame(b)
    <3>1. NoFrame(b)' => NoFrame(b)
      <4>1. SUFFICES ASSUME NoFrame(b)', NEW i \in 1 .. Len(sock[b]) PROVE sock[b][i].type = "ack"
        BY DEF NoFrame
      <4>2. CASE i = 1
        BY <2>3, <4>2
      <4>3. CASE i # 1
        <5>1. Len(sock[b]) \in Nat /\ sock[b] \in Seq(Messages(b))
          BY BoxSock
        <5>2. /\ i - 1 \in 1 .. Len(sock[b]) - 1
              /\ Len(Tail(sock[b])) = Len(sock[b]) - 1
              /\ Tail(sock[b])[i - 1] = sock[b][i]
          BY <2>1, <4>3, <5>1
        <5> QED BY <2>3, <4>1, <5>2 DEF NoFrame
      <4> QED BY <4>2, <4>3
    <3> QED BY <2>1, <2>3, <3>1 DEF HeardOf, TableSame, ClockSame, ComputeSame
  <2>4. CASE table'[b] = <<>>
    BY <2>4 DEF HeardOf
  <2>5. announced(b, b, node_now[b]).last_seen_ms = node_now[b]
    BY DEF announced
  <2> QED BY <1>8, <2>2, <2>3, <2>4, <2>5 DEF AtDrain, TableSame
<1>9. CASE AtEnd(b)
  <2>1. SUFFICES ASSUME g_running', table'[b] # <<>>, NoFrame(b)'
                 PROVE  compute_wake'[b] <= table'[b][1].last_seen_ms + MAX_LATE + PAUSE
    BY DEF HeardOf
  <2>2. table[b] # <<>> /\ table'[b][1].last_seen_ms = table[b][1].last_seen_ms
    BY <1>9, <2>1, EndSlot
  <2>3. g_running /\ NoFrame(b) /\ compute_wake'[b] = compute_wake[b]
    BY <1>9, <2>1 DEF AtEnd, ClockSame, SockSame, ComputeSame, NoFrame
  <2> QED BY <2>2, <2>3 DEF HeardOf
<1> QED BY <1>2, <1>4, <1>5, <1>6, <1>7, <1>8, <1>9 DEF BoxMove

\* What the slot holds against its node stays covered by silence.
LEMMA SilenceNext ==
    ASSUME Framed, NEW b \in Boxes, Punctual(b), Stays(b), SlotSilence(b), BoxMove(b)
    PROVE  SlotSilence(b)'
<1>1. BoxNats(b)
  BY BoxNatsHold
<1>2. CASE table'[b] = table[b] /\ node_now'[b] = node_now[b]
  BY <1>2 DEF SlotSilence
<1>3. CASE AtCreate(b) \/ AtMain(b) \/ AtStart(b) \/ AtSecond(b) \/ AtTick(b)
  BY <1>2, <1>3 DEF AtCreate, AtMain, AtStart, AtSecond, AtTick, DataSame, TableSame, NodeSame
<1>4. CASE \/ AtCheck(b) \/ AtInit(b) \/ AtExit(b)
           \/ ClockSame(b) /\ DataSame(b) /\ ComputeSame(b)
           \/ AtSend(b, "announce", "announce", PAUSE)
           \/ AtSend(b, "send", "heartbeat", HB_INTERVAL_MS)
  BY <1>2, <1>4 DEF AtCheck, AtInit, AtExit, AtSend, DataSame, NodeSame, TableSame
<1>5. CASE AtLoop(b)
  <2>1. table'[b] = table[b] /\ node_now'[b] = now
    BY <1>5 DEF AtLoop, TableSame
  <2>2. SUFFICES ASSUME table[b] # <<>> PROVE Silent(table[b][1], now)
    BY <2>1 DEF SlotSilence
  <2>3. Silent(table[b][1], node_now[b])
    BY <2>2 DEF SlotSilence
  <2>4. table[b][1] \in Slots
    BY <2>2, BoxSlot
  <2> DEFINE e == table[b][1]
  <2>5. e.last_seen_ms \in Nat /\ e.suspect_since_ms \in Nat /\ e.miss_count * HB_INTERVAL_MS \in Nat
    BY <2>4, SlotNats, Products, TimeConstants
  <2> HIDE DEF e
  <2>6. node_now[b] <= now /\ node_now[b] \in Nat /\ now \in Nat
    BY <1>1 DEF Punctual, BoxNats
  <2>7. \A x, y \in Nat : (x + y <= node_now[b] => x + y <= now) /\ (x <= node_now[b] => x <= now)
    BY <2>6
  <2> QED BY <2>3, <2>5, <2>7 DEF Silent, e
<1>6. CASE AtDrain(b)
  <2>1. node_now'[b] = node_now[b]
    BY <1>6 DEF AtDrain
  <2>2. CASE HeardNow(b)
    <3>1. node_now[b] + 0 * HB_INTERVAL_MS <= node_now[b]
      BY <1>1, TimeConstants DEF BoxNats
    <3>2. Silent(table'[b][1], node_now[b])
      BY <2>2, <3>1 DEF HeardNow, Silent, NODE_UP, NODE_SUSPECT
    <3> QED BY <2>1, <3>2 DEF SlotSilence
  <2>3. CASE TableSame(b)
    BY <1>2, <2>1, <2>3 DEF TableSame
  <2> QED BY <1>6, <2>2, <2>3, DrainSlot
<1>7. CASE AtEnd(b)
  <2>1. node_now'[b] = node_now[b]
    BY <1>7 DEF AtEnd
  <2> QED BY <1>7, <2>1, EndSlot DEF SlotSilence
<1> QED BY <1>3, <1>4, <1>5, <1>6, <1>7 DEF BoxMove

\* A live node is not given up between its announcement and its first
\* heartbeat, the longest silence it keeps.
AliveFits == PAUSE + 2 * MAX_LATE < SuspectAfter + DOWN_TIMEOUT_MS

Timely(b) == Punctual(b) /\ Stays(b) /\ LoadOK(b) /\ HeardOf(b) /\ SlotSilence(b)

\* No step gives up a node that is alive.
LEMMA NotGivenUpNext ==
    ASSUME Framed, ThreadsFit, AliveFits, NEW b \in Boxes, Timely(b), NotGivenUp(b), BoxMove(b)
    PROVE  NotGivenUp(b)'
<1>1. BoxNats(b) /\ LifeOf(b)
  BY BoxNatsHold, LifeOfHolds
<1>2. CASE AtStart(b)
  <2>1. table'[b] = <<>>
    BY <1>1, <1>2 DEF AtStart, LifeOf, Timely, Stays, DataSame, TableSame
  <2> QED BY <2>1 DEF NotGivenUp
<1>3. CASE /\ g_running' => g_running
           /\ alive'[b] => alive[b]
           /\ table'[b] = table[b]
  BY <1>3 DEF NotGivenUp
<1>4. CASE AtCreate(b) \/ AtMain(b) \/ AtSecond(b) \/ AtTick(b)
  <2>1. CASE AtCreate(b)
    BY <1>3, <2>1 DEF AtCreate, TableSame
  <2>2. CASE AtMain(b)
    BY <1>3, <2>2 DEF AtMain, DataSame, TableSame
  <2>3. CASE AtSecond(b)
    BY <1>1, <1>3, <2>3 DEF AtSecond, DataSame, TableSame, BoxNats
  <2>4. CASE AtTick(b)
    BY <1>3, <2>4 DEF AtTick, DataSame, TableSame
  <2> QED BY <1>4, <2>1, <2>2, <2>3, <2>4
<1>5. CASE \/ AtCheck(b) \/ AtInit(b) \/ AtExit(b) \/ AtLoop(b)
           \/ ClockSame(b) /\ DataSame(b) /\ ComputeSame(b)
           \/ AtSend(b, "announce", "announce", PAUSE)
           \/ AtSend(b, "send", "heartbeat", HB_INTERVAL_MS)
  <2>1. ClockSame(b) /\ table'[b] = table[b]
    BY <1>5 DEF AtCheck, AtInit, AtExit, AtLoop, AtSend, DataSame, TableSame
  <2> QED BY <1>3, <2>1 DEF ClockSame
<1>6. CASE AtDrain(b)
  <2>1. ClockSame(b)
    BY <1>6 DEF AtDrain
  <2>2. CASE HeardNow(b)
    BY <2>2 DEF HeardNow, NotGivenUp, NODE_UP, NODE_DOWN
  <2>3. CASE TableSame(b)
    BY <1>3, <2>1, <2>3 DEF TableSame, ClockSame
  <2> QED BY <1>6, <2>2, <2>3, DrainSlot
<1>7. CASE AtEnd(b)
  <2>1. SUFFICES ASSUME table'[b] # <<>> PROVE NotGivenUp(b)'
    BY DEF NotGivenUp
  <2> DEFINE e == table[b][1]
  <2>2. /\ table[b] # <<>>
        /\ table'[b][1].status = NODE_DOWN =>
                 \/ e.status = NODE_DOWN
                 \/ e.last_seen_ms + SuspectAfter + DOWN_TIMEOUT_MS <= node_now[b]
    BY <1>7, <2>1, EndSlot DEF Timely
  <2>3. ClockSame(b)
    BY <1>7 DEF AtEnd
  <2>4. SUFFICES ASSUME g_running, alive[b], e.last_seen_ms + SuspectAfter + DOWN_TIMEOUT_MS <= node_now[b]
                 PROVE  FALSE
    BY <2>2, <2>3 DEF NotGivenUp, ClockSame
  <2>5. NoFrame(b)
    <3>1. sock[b] = <<>>
      BY <1>7, <2>4, ReadsAll DEF Timely
    <3> QED BY <3>1 DEF NoFrame
  <2>6. compute_wake[b] <= e.last_seen_ms + MAX_LATE + PAUSE
    BY <2>2, <2>4, <2>5 DEF Timely, HeardOf
  <2>7. now <= compute_wake[b] + MAX_LATE /\ node_now[b] <= now
    BY <2>2, <2>4 DEF Timely, Stays, Punctual
  <2>8. e.last_seen_ms \in Nat
    BY <2>2, BoxSlot, SlotNats
  <2> HIDE DEF e
  <2> QED BY <1>1, <2>4, <2>6, <2>7, <2>8, TimeConstants DEF AliveFits, BoxNats
<1> QED BY <1>2, <1>4, <1>5, <1>6, <1>7 DEF BoxMove

\* At the start no thread runs and no frame is under way.
LEMMA TimelyInit == Init => \A b \in Boxes : Timely(b)
<1>1. SUFFICES ASSUME Init, NEW b \in Boxes PROVE Timely(b)
  OBVIOUS
<1>2. /\ now = 1 /\ node_wake[b] = 1 /\ node_now[b] = 0 /\ compute_wake[b] = 1 /\ main_pc = "create"
      /\ node_pc[b] = "none" /\ compute_pc[b] = "none" /\ alive[b] = FALSE
      /\ table[b] = <<>> /\ sock[b] = <<>> /\ drained[b] = 0
  BY <1>1 DEF Init
<1>3. Punctual(b)
  BY <1>2, TimeConstants DEF Punctual, Sends
<1>4. Stays(b)
  BY <1>2 DEF Stays, Sends, Runs
<1>5. LoadOK(b)
  BY <1>2, DueEmpty DEF LoadOK
<1>6. HeardOf(b) /\ SlotSilence(b)
  BY <1>2 DEF HeardOf, SlotSilence
<1> QED BY <1>3, <1>4, <1>5, <1>6 DEF Timely

\* Every step of a box keeps the invariant about its live node.
LEMMA TimelyNext ==
    ASSUME Framed, ThreadsFit, NEW b \in Boxes, Timely(b), BoxMove(b)
    PROVE  Timely(b)'
<1>1. Punctual(b)' /\ Stays(b)' /\ LoadOK(b)' /\ HeardOf(b)' /\ SlotSilence(b)'
  BY PunctualNext, StaysNext, LoadNext, HeardNext, SilenceNext DEF Timely
<1> QED BY <1>1 DEF Timely

Followers == \A b \in Boxes \ leads : Timely(b) /\ NotGivenUp(b)

\* For any number of boxes: a compute node that is not killed is never given
\* up by the STM32 of its box, if the threads are in time and the pause after
\* the announcement is shorter than the time the monitor allows.
THEOREM AliveNeverDownEver ==
    ASSUME ThreadsFit, AliveFits
    PROVE  Spec => []AliveNeverDown
<1>1. Init => Followers
  BY TimelyInit DEF Followers, NotGivenUp, Init
<1>2. ASSUME Framed, Followers, [Next]_vars
      PROVE  Followers'
  <2>1. leads' = leads
    BY <1>2, FollowerLogNext DEF Framed, Types
  <2>2. ASSUME NEW b \in Boxes \ leads PROVE Timely(b)' /\ NotGivenUp(b)'
    <3>1. BoxMove(b) /\ Timely(b) /\ NotGivenUp(b)
      BY <1>2, <2>2, Focus DEF Followers
    <3> QED BY <1>2, <3>1, TimelyNext, NotGivenUpNext
  <2> QED BY <2>1, <2>2 DEF Followers
<1>3. Followers => AliveNeverDown
  <2>1. SUFFICES ASSUME Followers, NEW b \in Boxes \ leads, alive[b], g_running,
                        Status(table[b]) = NODE_DOWN
                 PROVE  FALSE
    BY DEF AliveNeverDown
  <2>2. CASE table[b] = <<>>
    BY <2>1, <2>2 DEF Status, NODE_UP, NODE_DOWN
  <2>3. CASE table[b] # <<>>
    BY <2>1, <2>3 DEF Followers, NotGivenUp, Status
  <2> QED BY <2>2, <2>3
<1> QED BY <1>1, <1>2, <1>3, FramedHolds, PTL DEF Spec

-----------------------------------------------------------------------------
(* The kill of the chaos mode *)

\* Longest time between two health ticks.
TickGap == HB_INTERVAL_MS + 1 + 2 * MAX_LATE

\* The time after which a silent node is DOWN.
ChaosBound == SuspectAfter + DOWN_TIMEOUT_MS + 2 * TickGap - 4

\* A node is not SUSPECT after the time between two ticks, its misses do not
\* wrap before a tick has seen them, and it is DOWN within a second.
ChaosFits ==
    /\ TickGap <= SuspectAfter
    /\ SuspectAfter + TickGap <= MISS_MOD * HB_INTERVAL_MS
    /\ SuspectAfter + DOWN_TIMEOUT_MS + 2 * TickGap + 2 * MAX_LATE < SECOND + 3

\* The ticks come in time.
Ticking(b) ==
    /\ Runs(b) => node_wake[b] <= last_tick[b] + HB_INTERVAL_MS + MAX_LATE /\ last_tick[b] <= node_wake[b]
    /\ node_pc[b] = "drain" => node_now[b] <= node_wake[b] + MAX_LATE

\* What the last tick left of a slot.
SeenBy(e, isFirst, tick) ==
    /\ isFirst => tick <= e.last_seen_ms
    /\ e.status = NODE_UP => tick < e.last_seen_ms + SuspectAfter
    /\ e.status = NODE_SUSPECT =>
          /\ e.suspect_since_ms <= e.last_seen_ms + SuspectAfter + TickGap - 2
          /\ tick < e.suspect_since_ms + DOWN_TIMEOUT_MS

Looked(b) == g_running /\ table[b] # <<>> => SeenBy(table[b][1], first[b], last_tick[b])

\* The longest gap between two ticks is a number.
LEMMA GapConstants == TickGap \in Nat /\ TickGap >= 2 /\ ChaosBound \in Int
BY TimeConstants DEF TickGap, ChaosBound

\* No gap between two ticks is longer than TickGap.
LEMMA TickingNext ==
    ASSUME Framed, NEW b \in Boxes, Punctual(b), Ticking(b), BoxMove(b)
    PROVE  Ticking(b)'
<1>1. BoxNats(b) /\ LifeOf(b)
  BY BoxNatsHold, LifeOfHolds
<1>2. CASE AtCreate(b) \/ AtExit(b)
  BY <1>2 DEF AtCreate, AtExit, Ticking, Runs
<1>3. CASE NodeSame(b)
  BY <1>3 DEF Ticking, Runs, NodeSame
<1>4. CASE AtMain(b) \/ AtStart(b) \/ AtSecond(b) \/ AtTick(b) \/ AtCheck(b)
  BY <1>3, <1>4 DEF AtMain, AtStart, AtSecond, AtTick, AtCheck, DataSame
<1>5. CASE \/ AtSend(b, "announce", "announce", PAUSE) \/ AtSend(b, "send", "heartbeat", HB_INTERVAL_MS)
           \/ ClockSame(b) /\ DataSame(b) /\ ComputeSame(b)
  BY <1>3, <1>5 DEF AtSend, DataSame
<1>6. CASE AtInit(b)
  BY <1>1, <1>6, TimeConstants DEF AtInit, Ticking, BoxNats
<1>7. CASE AtLoop(b)
  BY <1>1, <1>7, TimeConstants DEF AtLoop, Ticking, Punctual, Runs, BoxNats
<1>8. CASE AtDrain(b)
  BY <1>8 DEF AtDrain, Ticking, Runs
<1>9. CASE AtEnd(b)
  <2>1. /\ node_pc[b] = "drain" /\ node_pc'[b] = "loop" /\ node_wake'[b] = now + 1
        /\ \/ ~(node_now[b] - last_tick[b] >= HB_INTERVAL_MS) /\ last_tick'[b] = last_tick[b]
           \/ last_tick'[b] = node_now[b]
    BY <1>9 DEF AtEnd
  <2>2. /\ now <= node_wake[b] + MAX_LATE /\ node_wake[b] <= node_now[b] /\ node_now[b] <= now
        /\ last_tick[b] <= node_wake[b]
    BY <2>1 DEF Punctual, Ticking, Runs
  <2>3. now + 1 <= last_tick'[b] + HB_INTERVAL_MS + MAX_LATE /\ last_tick'[b] <= now + 1
    BY <1>1, <2>1, <2>2, TimeConstants DEF BoxNats
  <2> QED BY <2>1, <2>3 DEF Ticking
<1> QED BY <1>2, <1>4, <1>5, <1>6, <1>7, <1>8, <1>9 DEF BoxMove

\* A tick that finds a node UP after less than the misses could wrap.
LEMMA UpTicked ==
    ASSUME ChaosFits, NEW e \in Slots, NEW at \in Ticks, Silent(e, at), e.status = NODE_UP,
           at <= e.last_seen_ms + SuspectAfter + TickGap - 2
    PROVE  LET r == Ticked(e, at)
           IN  \/ r.status = NODE_UP /\ at < e.last_seen_ms + SuspectAfter
               \/ r.status = NODE_SUSPECT /\ r.suspect_since_ms = at
<1> DEFINE r == Ticked(e, at)
           n == count_misses(e, at)
           c == [e EXCEPT !.miss_count = n]
           h == HB_INTERVAL_MS
           d == at - e.last_seen_ms
           k == d \div h
<1>1. /\ r.status = tick_status(c, at, TRUE)
      /\ r.suspect_since_ms = IF r.status = NODE_SUSPECT /\ e.status = NODE_UP
                              THEN at ELSE e.suspect_since_ms
  BY TickedOwn
<1>2. c.status = e.status /\ c.miss_count = n
  BY DEF Slots, Slot
<1>3. r.status = IF n >= SUSPECT_THRESHOLD THEN NODE_SUSPECT ELSE NODE_UP
  BY <1>1, <1>2 DEF tick_status, NODE_UP, NODE_SUSPECT, NODE_DOWN
<1>4. at \in Nat /\ e.last_seen_ms \in Nat /\ e.miss_count * h \in Nat
  BY SlotNats, MonitorConstants, Products, TimeConstants DEF Ticks
<1>5. d \in Nat /\ Elapsed(at, e.last_seen_ms) = d
  BY <1>4 DEF Silent, Elapsed
<1>6. n = IF d >= h THEN k % MISS_MOD ELSE e.miss_count
  BY <1>5 DEF count_misses
<1>7. d <= SuspectAfter + TickGap - 2
  BY <1>4, TimeConstants, GapConstants
<1> HIDE DEF d, n, c, r, h
<1>8. h \in Nat /\ h > 0 /\ MISS_MOD \in Nat /\ SUSPECT_THRESHOLD \in Nat /\ SUSPECT_THRESHOLD >= 1
  BY MonitorConstants DEF h
<1>9. n < SUSPECT_THRESHOLD => d < SuspectAfter
  <2>1. SUFFICES ASSUME n < SUSPECT_THRESHOLD PROVE d < SuspectAfter
    OBVIOUS
  <2>2. CASE d >= h
    <3>1. k \in Nat /\ d < (k + 1) * h /\ k * h <= d
      BY <1>5, <1>8
    <3> HIDE DEF k
    <3>2. k * h < MISS_MOD * h
      <4>1. k * h \in Nat /\ MISS_MOD * h \in Nat
        BY <1>8, <3>1, Products
      <4>2. d < MISS_MOD * h
        BY <1>5, <1>7, <1>8, <4>1, TimeConstants, GapConstants DEF ChaosFits, h
      <4> QED BY <1>5, <3>1, <4>1, <4>2
    <3>3. k < MISS_MOD
      <4>1. MISS_MOD <= k => MISS_MOD * h <= k * h
        BY <1>8, <3>1, Products
      <4>2. k * h \in Nat /\ MISS_MOD * h \in Nat
        BY <1>8, <3>1, Products
      <4> QED BY <1>8, <3>1, <3>2, <4>1, <4>2
    <3>4. n = k
      <4>1. k % MISS_MOD = k
        BY <1>8, <3>1, <3>3
      <4> QED BY <1>6, <2>2, <4>1
    <3>5. (k + 1) * h <= SuspectAfter
      <4>1. k + 1 \in Nat /\ k + 1 <= SUSPECT_THRESHOLD
        BY <1>8, <2>1, <3>1, <3>4
      <4> QED BY <1>8, <4>1, Products DEF SuspectAfter, h
    <3>6. (k + 1) * h \in Nat
      BY <1>8, <3>1, Products
    <3> QED BY <1>5, <3>1, <3>5, <3>6, TimeConstants
  <2>3. CASE ~(d >= h)
    <3>1. 1 * h <= SuspectAfter
      BY <1>8, Products DEF SuspectAfter, h
    <3>2. 1 * h = h
      BY <1>8
    <3> QED BY <1>5, <1>8, <2>3, <3>1, <3>2, TimeConstants
  <2> QED BY <2>2, <2>3
<1>10. n \in Nat
  BY MissesCounted DEF n
<1>11. CASE n >= SUSPECT_THRESHOLD
  BY <1>1, <1>3, <1>11 DEF r
<1>12. CASE ~(n >= SUSPECT_THRESHOLD)
  <2>1. d < SuspectAfter
    BY <1>8, <1>9, <1>10, <1>12
  <2>2. at < e.last_seen_ms + SuspectAfter
    BY <1>4, <2>1, TimeConstants DEF d
  <2> QED BY <1>3, <1>12, <2>2 DEF r
<1> QED BY <1>11, <1>12

\* A tick leaves a doubted node SUSPECT only within DOWN_TIMEOUT_MS.
LEMMA SuspectTicked ==
    ASSUME NEW e \in Slots, NEW at \in Ticks, Silent(e, at), e.status # NODE_UP
    PROVE  LET r == Ticked(e, at)
           IN  /\ r.status # NODE_UP
               /\ r.status = NODE_SUSPECT => /\ e.status = NODE_SUSPECT
                                             /\ r.suspect_since_ms = e.suspect_since_ms
                                             /\ at < e.suspect_since_ms + DOWN_TIMEOUT_MS
<1> DEFINE r == Ticked(e, at)
           c == [e EXCEPT !.miss_count = count_misses(e, at)]
<1>1. /\ r.status = tick_status(c, at, TRUE)
      /\ r.suspect_since_ms = IF r.status = NODE_SUSPECT /\ e.status = NODE_UP
                              THEN at ELSE e.suspect_since_ms
  BY TickedOwn
<1>2. c.status = e.status /\ c.suspect_since_ms = e.suspect_since_ms
  BY DEF Slots, Slot
<1>3. at \in Nat /\ e.suspect_since_ms \in Nat /\ e.status \in Statuses
  BY SlotNats, MonitorConstants DEF Ticks
<1> HIDE DEF r, c
<1>4. CASE e.status = NODE_DOWN
  <2>1. r.status = NODE_DOWN
    BY <1>1, <1>2, <1>4 DEF tick_status, NODE_UP, NODE_SUSPECT, NODE_DOWN
  <2> QED BY <2>1 DEF r, NODE_UP, NODE_SUSPECT, NODE_DOWN
<1>5. CASE e.status = NODE_SUSPECT
  <2>1. e.suspect_since_ms <= at
    BY <1>5 DEF Silent
  <2>2. r.status = IF at - e.suspect_since_ms >= DOWN_TIMEOUT_MS THEN NODE_DOWN ELSE NODE_SUSPECT
    BY <1>1, <1>2, <1>3, <1>5, <2>1 DEF tick_status, Elapsed, NODE_UP, NODE_SUSPECT, NODE_DOWN
  <2>3. ~(at - e.suspect_since_ms >= DOWN_TIMEOUT_MS) => at < e.suspect_since_ms + DOWN_TIMEOUT_MS
    BY <1>3, TimeConstants
  <2>4. r.suspect_since_ms = e.suspect_since_ms
    BY <1>1, <1>5 DEF NODE_UP, NODE_SUSPECT
  <2>5. NODE_UP # NODE_SUSPECT /\ NODE_UP # NODE_DOWN /\ NODE_SUSPECT # NODE_DOWN
    BY DEF NODE_UP, NODE_SUSPECT, NODE_DOWN
  <2> QED BY <1>5, <2>2, <2>3, <2>4, <2>5 DEF r
<1> QED BY <1>3, <1>4, <1>5 DEF Statuses

\* A tick leaves in the slot what a look at that time leaves.
LEMMA EndSeen ==
    ASSUME Framed, ChaosFits, NEW b \in Boxes, Punctual(b), SlotSilence(b), Ticking(b), AtEnd(b),
           table[b] # <<>>, SeenBy(table[b][1], first[b], last_tick[b])
    PROVE  SeenBy(table'[b][1], first'[b], last_tick'[b])
<1> DEFINE e == table[b][1]
           at == node_now[b]
<1>1. BoxNats(b) /\ e \in Slots /\ at \in Ticks /\ Silent(e, at)
  BY BoxNatsHold, BoxSlot, NowFits DEF SlotSilence
<1>2. e.last_seen_ms \in Nat /\ e.suspect_since_ms \in Nat /\ e.status \in Statuses
  BY <1>1, SlotNats
<1>3. at \in Nat /\ last_tick[b] \in Nat /\ at <= last_tick[b] + TickGap - 1
  <2>1. at <= node_wake[b] + MAX_LATE /\ node_wake[b] <= last_tick[b] + HB_INTERVAL_MS + MAX_LATE
    BY DEF AtEnd, Ticking, Runs
  <2>2. /\ at \in Nat /\ node_wake[b] \in Nat /\ last_tick[b] \in Nat
        /\ MAX_LATE \in Nat /\ HB_INTERVAL_MS \in Nat
    BY <1>1, TimeConstants DEF BoxNats
  <2> HIDE DEF at
  <2> QED BY <2>1, <2>2 DEF TickGap
<1> DEFINE health == at - last_tick[b] >= HB_INTERVAL_MS
<1>4. \/ last_tick'[b] = last_tick[b] /\ first'[b] = first[b] /\ table'[b] = table[b]
      \/ last_tick'[b] = at /\ first'[b] = FALSE /\ first[b] /\ table'[b] = table[b]
      \/ last_tick'[b] = at /\ first'[b] = FALSE /\ ~first[b] /\ table'[b][1] = Ticked(e, at)
  BY DEF AtEnd, TableSame
<1>5. e.status = NODE_SUSPECT => e.last_seen_ms + SuspectAfter <= e.suspect_since_ms
  BY <1>1 DEF Silent
<1> HIDE DEF at
<1>6. /\ first[b] => last_tick[b] <= e.last_seen_ms
      /\ e.status = NODE_UP => last_tick[b] < e.last_seen_ms + SuspectAfter
      /\ e.status = NODE_SUSPECT => e.suspect_since_ms <= e.last_seen_ms + SuspectAfter + TickGap - 2
  BY DEF SeenBy
<1>7. CASE last_tick'[b] = last_tick[b] /\ first'[b] = first[b] /\ table'[b] = table[b]
  BY <1>7
<1>8. CASE last_tick'[b] = at /\ first'[b] = FALSE /\ first[b] /\ table'[b] = table[b]
  <2>1. table'[b][1] = e
    BY <1>8
  <2> HIDE DEF e
  <2>2. at < e.last_seen_ms + SuspectAfter
    BY <1>2, <1>3, <1>6, <1>8, TimeConstants, GapConstants DEF ChaosFits
  <2>3. e.status = NODE_SUSPECT => at < e.suspect_since_ms + DOWN_TIMEOUT_MS
    BY <1>2, <1>3, <1>5, <2>2, TimeConstants
  <2>4. SeenBy(e, FALSE, at)
    BY <1>6, <2>2, <2>3 DEF SeenBy
  <2> QED BY <1>8, <2>1, <2>4
<1>9. CASE last_tick'[b] = at /\ first'[b] = FALSE /\ ~first[b] /\ table'[b][1] = Ticked(e, at)
  <2> DEFINE r == Ticked(e, at)
  <2> HIDE DEF e, r
  <2>1. r.last_seen_ms = e.last_seen_ms
    BY <1>1, SilentTick DEF r
  <2>2. NODE_UP # NODE_SUSPECT
    BY DEF NODE_UP, NODE_SUSPECT
  <2>3. CASE e.status = NODE_UP
    <3>1. at <= e.last_seen_ms + SuspectAfter + TickGap - 2
      BY <1>2, <1>3, <1>6, <2>3, TimeConstants, GapConstants
    <3>2. \/ r.status = NODE_UP /\ at < e.last_seen_ms + SuspectAfter
          \/ r.status = NODE_SUSPECT /\ r.suspect_since_ms = at
      BY <1>1, <2>3, <3>1, UpTicked DEF r
    <3>3. at < at + DOWN_TIMEOUT_MS
      BY <1>3, TimeConstants
    <3>4. SeenBy(r, FALSE, at)
      BY <2>1, <2>2, <3>1, <3>2, <3>3 DEF SeenBy
    <3> QED BY <1>9, <3>4 DEF r
  <2>4. CASE e.status # NODE_UP
    <3>1. /\ r.status # NODE_UP
          /\ r.status = NODE_SUSPECT => /\ e.status = NODE_SUSPECT
                                        /\ r.suspect_since_ms = e.suspect_since_ms
                                        /\ at < e.suspect_since_ms + DOWN_TIMEOUT_MS
      BY <1>1, <2>4, SuspectTicked DEF r
    <3>2. SeenBy(r, FALSE, at)
      BY <1>6, <2>1, <3>1 DEF SeenBy
    <3> QED BY <1>9, <3>2 DEF r
  <2> QED BY <2>3, <2>4
<1> QED BY <1>4, <1>7, <1>8, <1>9

\* Every step keeps what the last look left in the slot.
LEMMA LookedNext ==
    ASSUME Framed, ChaosFits, NEW b \in Boxes, Punctual(b), Stays(b), SlotSilence(b), Ticking(b),
           Looked(b), BoxMove(b)
    PROVE  Looked(b)'
<1>1. BoxNats(b) /\ LifeOf(b)
  BY BoxNatsHold, LifeOfHolds
<1>2. CASE /\ g_running' => g_running
           /\ table'[b] = table[b] /\ first'[b] = first[b] /\ last_tick'[b] = last_tick[b]
  BY <1>2 DEF Looked
<1>3. CASE AtCreate(b) \/ AtMain(b) \/ AtStart(b) \/ AtSecond(b) \/ AtTick(b)
  <2>1. CASE AtCreate(b)
    BY <1>2, <2>1 DEF AtCreate, TableSame
  <2>2. CASE AtMain(b)
    BY <1>2, <2>2 DEF AtMain, DataSame, NodeSame, TableSame
  <2>3. CASE AtStart(b)
    BY <1>2, <2>3 DEF AtStart, DataSame, NodeSame, TableSame
  <2>4. CASE AtSecond(b)
    BY <1>2, <2>4 DEF AtSecond, DataSame, NodeSame, TableSame
  <2>5. CASE AtTick(b)
    BY <1>2, <2>5 DEF AtTick, DataSame, NodeSame, TableSame
  <2> QED BY <1>3, <2>1, <2>2, <2>3, <2>4, <2>5
<1>4. CASE \/ AtCheck(b) \/ AtExit(b) \/ AtLoop(b)
           \/ ClockSame(b) /\ DataSame(b) /\ ComputeSame(b)
           \/ AtSend(b, "announce", "announce", PAUSE)
           \/ AtSend(b, "send", "heartbeat", HB_INTERVAL_MS)
  <2>1. /\ ClockSame(b) /\ table'[b] = table[b] /\ first'[b] = first[b] /\ last_tick'[b] = last_tick[b]
    BY <1>4 DEF AtCheck, AtExit, AtLoop, AtSend, DataSame, NodeSame, TableSame
  <2> QED BY <1>2, <2>1 DEF ClockSame
<1>5. CASE AtInit(b)
  <2>1. g_running' => table'[b] = <<>>
    BY <1>5 DEF AtInit, Stays, Runs, ClockSame, TableSame
  <2> QED BY <2>1 DEF Looked
<1>6. CASE AtDrain(b)
  <2>1. /\ node_pc[b] = "drain" /\ ClockSame(b) /\ first'[b] = first[b] /\ last_tick'[b] = last_tick[b]
    BY <1>6 DEF AtDrain
  <2>2. CASE HeardNow(b)
    <3>1. last_tick[b] <= node_now[b] /\ last_tick[b] < node_now[b] + SuspectAfter
      <4>1. last_tick[b] <= node_wake[b] /\ node_wake[b] <= node_now[b]
        BY <2>1 DEF Ticking, Runs, Punctual
      <4>2. SuspectAfter > 0
        BY TimeConstants, GapConstants DEF ChaosFits
      <4> QED BY <1>1, <4>1, <4>2, TimeConstants DEF BoxNats
    <3>2. SeenBy(table'[b][1], first'[b], last_tick'[b])
      BY <2>1, <2>2, <3>1 DEF HeardNow, SeenBy, NODE_UP, NODE_SUSPECT
    <3> QED BY <3>2 DEF Looked
  <2>3. CASE TableSame(b)
    BY <1>2, <2>1, <2>3 DEF TableSame, ClockSame
  <2> QED BY <1>6, <2>2, <2>3, DrainSlot
<1>7. CASE AtEnd(b)
  <2>1. SUFFICES ASSUME g_running, table[b] # <<>>
                 PROVE  SeenBy(table'[b][1], first'[b], last_tick'[b])
    BY <1>7 DEF AtEnd, ClockSame, Looked
  <2>2. SeenBy(table[b][1], first[b], last_tick[b])
    BY <2>1 DEF Looked
  <2> QED BY <1>7, <2>1, <2>2, EndSeen
<1> QED BY <1>3, <1>4, <1>5, <1>6, <1>7 DEF BoxMove

\* A node that is not DOWN was heard within the bound.
LEMMA SilentIsDown ==
    ASSUME Framed, NEW b \in Boxes, Punctual(b), Stays(b), SlotSilence(b), Ticking(b), Looked(b),
           g_running, table[b] # <<>>, table[b][1].status # NODE_DOWN
    PROVE  now <= table[b][1].last_seen_ms + ChaosBound
<1> DEFINE e == table[b][1]
<1>1. BoxNats(b) /\ e \in Slots /\ SeenBy(e, first[b], last_tick[b])
  BY BoxNatsHold, BoxSlot DEF Looked
<1>2. e.last_seen_ms \in Nat /\ e.suspect_since_ms \in Nat /\ e.status \in Statuses
  BY <1>1, SlotNats
<1> HIDE DEF e
<1>3. Runs(b)
  BY DEF Stays
<1>4. now <= node_wake[b] + MAX_LATE /\ node_wake[b] <= last_tick[b] + HB_INTERVAL_MS + MAX_LATE
  BY <1>3 DEF Punctual, Ticking, Runs
<1>5. now <= last_tick[b] + TickGap - 1 /\ now \in Nat /\ last_tick[b] \in Nat
  BY <1>1, <1>4, TimeConstants DEF TickGap, BoxNats
<1>6. CASE e.status = NODE_UP
  <2>1. last_tick[b] < e.last_seen_ms + SuspectAfter
    BY <1>1, <1>6 DEF SeenBy
  <2>2. now <= e.last_seen_ms + ChaosBound
    BY <1>2, <1>5, <2>1, TimeConstants, GapConstants DEF ChaosBound
  <2> QED BY <2>2 DEF e
<1>7. CASE e.status = NODE_SUSPECT
  <2>1. /\ e.suspect_since_ms <= e.last_seen_ms + SuspectAfter + TickGap - 2
        /\ last_tick[b] < e.suspect_since_ms + DOWN_TIMEOUT_MS
    BY <1>1, <1>7 DEF SeenBy
  <2>2. now <= e.last_seen_ms + ChaosBound
    BY <1>2, <1>5, <2>1, TimeConstants, GapConstants DEF ChaosBound
  <2> QED BY <2>2 DEF e
<1>8. e.status # NODE_DOWN
  BY DEF e
<1> QED BY <1>2, <1>6, <1>7, <1>8 DEF Statuses

\* A killed compute node is not started again.
StaysKilled == CHAOS /\ second > CHAOS_KILL_AT_S /\ g_running => ~alive[1]

\* In the second after the kill it sends at most the frame it was about to.
LastFrames ==
    CHAOS /\ second = CHAOS_KILL_AT_S + 1 /\ main_pc = "run" /\ g_running =>
        /\ compute_pc[1] \in {"announce", "send"} => compute_wake[1] + SECOND <= main_wake
        /\ ~NoFrame(1) => node_wake[1] + SECOND <= main_wake + MAX_LATE + 1
        /\ table[1] # <<>> => table[1][1].last_seen_ms + SECOND <= main_wake + 2 * MAX_LATE + 1

\* Then nothing is under way, and it has been silent for too long.
LongSilent ==
    CHAOS /\ second > CHAOS_KILL_AT_S + 1 /\ g_running =>
        /\ compute_pc[1] \notin {"announce", "send"}
        /\ Runs(1) => NoFrame(1)
        /\ table[1] # <<>> => table[1][1].last_seen_ms + ChaosBound < now

\* No second has passed before the threads run.
LEMMA SecondZero == Framed => (main_pc \in {"create", "settle"} => second = 0)
BY DEF Framed, Types, MainTypes

\* The node main() killed stays dead.
LEMMA StaysKilledNext ==
    ASSUME Framed, 1 \in Boxes, StaysKilled, BoxMove(1)
    PROVE  StaysKilled'
<1>1. BoxNats(1) /\ CHAOS_KILL_AT_S \in Nat
  BY BoxNatsHold, TimeConstants
<1>2. CASE AtStart(1)
  <2>1. second' = 0
    BY <1>2, SecondZero DEF AtStart
  <2> QED BY <1>1, <2>1 DEF StaysKilled
<1>3. CASE AtSecond(1)
  <2>1. /\ second' = second + 1 /\ g_running' = g_running
        /\ alive'[1] = IF CHAOS /\ second = CHAOS_KILL_AT_S THEN FALSE ELSE alive[1]
    BY <1>3 DEF AtSecond
  <2> QED BY <1>1, <2>1 DEF StaysKilled, BoxNats
<1>4. CASE /\ g_running' => g_running
           /\ second' = second
           /\ alive'[1] => alive[1]
  BY <1>4 DEF StaysKilled
<1>5. CASE AtCreate(1) \/ AtMain(1) \/ AtTick(1)
  <2>1. CASE AtCreate(1)
    BY <1>4, <2>1 DEF AtCreate
  <2>2. CASE AtMain(1)
    BY <1>4, <2>2 DEF AtMain
  <2>3. CASE AtTick(1)
    BY <1>4, <2>3 DEF AtTick
  <2> QED BY <1>5, <2>1, <2>2, <2>3
<1>6. CASE \/ AtSend(1, "announce", "announce", PAUSE) \/ AtSend(1, "send", "heartbeat", HB_INTERVAL_MS)
           \/ AtCheck(1) \/ AtInit(1) \/ AtExit(1) \/ AtLoop(1) \/ AtDrain(1) \/ AtEnd(1)
           \/ ClockSame(1) /\ DataSame(1) /\ ComputeSame(1)
  <2>1. ClockSame(1)
    BY <1>6 DEF AtSend, AtCheck, AtInit, AtExit, AtLoop, AtDrain, AtEnd
  <2> QED BY <1>4, <2>1 DEF ClockSame
<1> QED BY <1>2, <1>3, <1>5, <1>6 DEF BoxMove

\* The slot of a box without a frame: its node was heard no later than before.
HeardBefore(b) ==
    table'[b] # <<>> =>
        table[b] # <<>> /\ table'[b][1].last_seen_ms = table[b][1].last_seen_ms

\* The last frame of the killed node is read within two delays.
LEMMA LastFramesNext ==
    ASSUME Framed, ThreadsFit, 1 \in Boxes, Timely(1), Ticking(1), StaysKilled, LastFrames, BoxMove(1)
    PROVE  LastFrames'
<1>1. BoxNats(1) /\ LifeOf(1) /\ CHAOS_KILL_AT_S \in Nat
  BY BoxNatsHold, LifeOfHolds, TimeConstants
<1>2. SUFFICES ASSUME CHAOS, second' = CHAOS_KILL_AT_S + 1, main_pc' = "run", g_running'
               PROVE  LastFrames'
  BY DEF LastFrames
<1>3. Punctual(1) /\ Stays(1) /\ LoadOK(1) /\ SlotSilence(1)
  BY DEF Timely
<1>4. ~AtCreate(1) /\ ~AtMain(1) /\ ~AtStart(1)
  <2>1. ~AtStart(1)
    <3>1. SUFFICES ASSUME AtStart(1) PROVE FALSE
      OBVIOUS
    <3>2. main_pc = "settle" /\ second' = second
      BY <3>1 DEF AtStart
    <3>3. second = 0
      BY <3>2, SecondZero
    <3> QED BY <1>1, <1>2, <3>2, <3>3
  <2> QED BY <1>2, <2>1 DEF AtCreate, AtMain
<1>5. CASE AtSecond(1)
  <2>1. /\ main_wake' = now + SECOND /\ DataSame(1) /\ ComputeSame(1)
    BY <1>2, <1>5 DEF AtSecond
  <2>2. compute_pc'[1] \in {"announce", "send"} => compute_wake'[1] + SECOND <= main_wake'
    BY <1>1, <1>3, <2>1, TimeConstants DEF Punctual, ComputeSame, BoxNats
  <2>3. node_wake'[1] + SECOND <= main_wake' + MAX_LATE + 1
    BY <1>1, <1>3, <2>1, TimeConstants DEF Punctual, DataSame, NodeSame, BoxNats
  <2>4. table'[1] # <<>> => table'[1][1].last_seen_ms + SECOND <= main_wake' + 2 * MAX_LATE + 1
    <3>1. SUFFICES ASSUME table[1] # <<>>
                   PROVE  table[1][1].last_seen_ms + SECOND <= now + SECOND + 2 * MAX_LATE + 1
      BY <2>1 DEF DataSame, TableSame
    <3> DEFINE e == table[1][1]
    <3>2. e \in Slots /\ Silent(e, node_now[1])
      BY <1>3, <3>1, BoxSlot DEF SlotSilence
    <3>3. e.last_seen_ms \in Nat /\ e.miss_count * HB_INTERVAL_MS \in Nat
      BY <3>2, SlotNats, Products, TimeConstants
    <3>4. e.last_seen_ms <= node_now[1] /\ node_now[1] <= now
      BY <1>1, <1>3, <3>2, <3>3 DEF Silent, Punctual, BoxNats
    <3> HIDE DEF e
    <3>5. e.last_seen_ms + SECOND <= now + SECOND + 2 * MAX_LATE + 1
      BY <1>1, <3>3, <3>4, TimeConstants DEF BoxNats
    <3> QED BY <3>5 DEF e
  <2> QED BY <2>2, <2>3, <2>4 DEF LastFrames
<1>6. ASSUME second' = second, main_pc' = main_pc, g_running' = g_running
      PROVE  /\ ~alive[1] /\ g_running
             /\ compute_pc[1] \in {"announce", "send"} => compute_wake[1] + SECOND <= main_wake
             /\ ~NoFrame(1) => node_wake[1] + SECOND <= main_wake + MAX_LATE + 1
             /\ table[1] # <<>> => table[1][1].last_seen_ms + SECOND <= main_wake + 2 * MAX_LATE + 1
  <2>1. second > CHAOS_KILL_AT_S
    BY <1>1, <1>2, <1>6
  <2> QED BY <1>2, <1>6, <2>1 DEF LastFrames, StaysKilled
<1>7. CASE AtTick(1) \/ (ClockSame(1) /\ DataSame(1) /\ ComputeSame(1))
  <2>1. /\ second' = second /\ main_pc' = main_pc /\ g_running' = g_running /\ main_wake' = main_wake
        /\ DataSame(1) /\ ComputeSame(1)
    BY <1>7 DEF AtTick, ClockSame
  <2> QED BY <1>6, <2>1 DEF LastFrames, NoFrame, DataSame, NodeSame, SockSame, TableSame, ComputeSame
<1>8. CASE AtSend(1, "announce", "announce", PAUSE) \/ AtSend(1, "send", "heartbeat", HB_INTERVAL_MS)
  <2>1. /\ compute_pc[1] \in {"announce", "send"} /\ compute_pc'[1] = "check"
        /\ ClockSame(1) /\ NodeSame(1) /\ TableSame(1)
    BY <1>8 DEF AtSend
  <2>2. node_wake[1] <= now + 1 /\ now <= compute_wake[1] + MAX_LATE
    BY <1>3, <2>1 DEF Punctual, Sends
  <2>3. compute_wake[1] + SECOND <= main_wake
    BY <1>6, <2>1 DEF ClockSame
  <2>4. node_wake[1] + SECOND <= main_wake + MAX_LATE + 1
    BY <1>1, <2>2, <2>3, TimeConstants DEF BoxNats
  <2> QED BY <1>6, <2>1, <2>4 DEF LastFrames, ClockSame, NodeSame, TableSame
<1>9. CASE AtCheck(1)
  <2>1. ClockSame(1) /\ DataSame(1)
    BY <1>9 DEF AtCheck
  <2>2. compute_pc'[1] = "exited"
    BY <1>6, <1>9, <2>1 DEF AtCheck, ClockSame
  <2> QED BY <1>6, <2>1, <2>2 DEF LastFrames, NoFrame, ClockSame, DataSame, NodeSame, SockSame, TableSame
<1>10. CASE AtInit(1)
  <2>1. ClockSame(1) /\ ComputeSame(1) /\ TableSame(1) /\ SockSame(1) /\ node_pc[1] = "init"
    BY <1>10 DEF AtInit
  <2>2. compute_pc[1] = "none"
    BY <1>3, <1>6, <2>1 DEF Stays, ClockSame
  <2>3. sock'[1] = <<>>
    BY <1>3, <2>1, <2>2 DEF Stays, SockSame
  <2>4. NoFrame(1)'
    BY <2>3 DEF NoFrame
  <2> QED BY <1>6, <2>1, <2>4 DEF LastFrames, ClockSame, TableSame, ComputeSame
<1>11. CASE AtExit(1) \/ AtLoop(1)
  <2>1. /\ ClockSame(1) /\ ComputeSame(1) /\ TableSame(1) /\ SockSame(1) /\ node_wake'[1] = node_wake[1]
    BY <1>11 DEF AtExit, AtLoop
  <2> QED BY <1>6, <2>1 DEF LastFrames, NoFrame, ClockSame, SockSame, TableSame, ComputeSame
<1>12. CASE AtDrain(1)
  <2>1. /\ ClockSame(1) /\ ComputeSame(1) /\ node_wake'[1] = node_wake[1] /\ node_pc[1] = "drain"
    BY <1>12 DEF AtDrain
  <2>2. CASE NoFrame(1)
    <3>1. NoFrame(1)' /\ TableSame(1)
      BY <1>12, <2>2, NoFrameKept
    <3> QED BY <1>6, <2>1, <3>1 DEF LastFrames, ClockSame, TableSame, ComputeSame
  <2>3. CASE ~NoFrame(1)
    <3>1. node_wake[1] + SECOND <= main_wake + MAX_LATE + 1
      BY <1>6, <2>1, <2>3 DEF ClockSame
    <3>2. node_now[1] <= node_wake[1] + MAX_LATE
      BY <2>1 DEF Ticking
    <3>3. node_now[1] + SECOND <= main_wake + 2 * MAX_LATE + 1
      BY <1>1, <3>1, <3>2, TimeConstants DEF BoxNats
    <3>4. table'[1] # <<>> => table'[1][1].last_seen_ms + SECOND <= main_wake + 2 * MAX_LATE + 1
      <4>1. CASE HeardNow(1)
        BY <3>3, <4>1 DEF HeardNow
      <4>2. CASE TableSame(1)
        BY <1>6, <2>1, <4>2 DEF TableSame, ClockSame
      <4> QED BY <1>12, <4>1, <4>2, DrainSlot
    <3> QED BY <1>6, <2>1, <3>1, <3>4 DEF LastFrames, ClockSame, ComputeSame
  <2> QED BY <2>2, <2>3
<1>13. CASE AtEnd(1)
  <2>1. ClockSame(1) /\ ComputeSame(1) /\ SockSame(1)
    BY <1>13 DEF AtEnd
  <2>2. sock'[1] = <<>>
    BY <1>3, <1>6, <1>13, <2>1, ReadsAll DEF SockSame, ClockSame
  <2>3. NoFrame(1)'
    BY <2>2 DEF NoFrame
  <2>4. HeardBefore(1)
    BY <1>3, <1>13, EndSlot DEF HeardBefore
  <2> QED BY <1>6, <2>1, <2>3, <2>4 DEF LastFrames, HeardBefore, ClockSame, ComputeSame
<1> QED BY <1>4, <1>5, <1>7, <1>8, <1>9, <1>10, <1>11, <1>12, <1>13 DEF BoxMove

\* A second after the kill the node is silent for that long.
LEMMA LongSilentNext ==
    ASSUME Framed, ThreadsFit, ChaosFits, 1 \in Boxes, Timely(1), StaysKilled, LastFrames, LongSilent,
           BoxMove(1)
    PROVE  LongSilent'
<1>1. BoxNats(1) /\ LifeOf(1) /\ CHAOS_KILL_AT_S \in Nat
  BY BoxNatsHold, LifeOfHolds, TimeConstants
<1>2. SUFFICES ASSUME CHAOS, second' > CHAOS_KILL_AT_S + 1, g_running'
               PROVE  LongSilent'
  BY DEF LongSilent
<1>3. Punctual(1) /\ Stays(1) /\ LoadOK(1) /\ SlotSilence(1)
  BY DEF Timely
<1>4. ~AtCreate(1) /\ ~AtStart(1)
  <2>1. SUFFICES ASSUME AtCreate(1) \/ AtStart(1) PROVE FALSE
    OBVIOUS
  <2>2. main_pc \in {"create", "settle"} /\ second' = second
    BY <2>1 DEF AtCreate, AtStart
  <2>3. second = 0
    BY <2>2, SecondZero
  <2> QED BY <1>1, <1>2, <2>2, <2>3
<1>5. ASSUME second' = second, g_running' => g_running
      PROVE  /\ ~alive[1] /\ g_running
             /\ compute_pc[1] \notin {"announce", "send"}
             /\ Runs(1) => NoFrame(1)
             /\ table[1] # <<>> => table[1][1].last_seen_ms + ChaosBound < now
  <2>1. second > CHAOS_KILL_AT_S /\ second > CHAOS_KILL_AT_S + 1
    BY <1>1, <1>2, <1>5 DEF BoxNats
  <2> QED BY <1>2, <1>5, <2>1 DEF LongSilent, StaysKilled
<1>6. CASE AtSecond(1)
  <2>1. /\ main_pc = "run" /\ now >= main_wake /\ second' = second + 1 /\ UNCHANGED <<now, g_running>>
        /\ DataSame(1) /\ ComputeSame(1)
    BY <1>6 DEF AtSecond
  <2>2. CASE second > CHAOS_KILL_AT_S + 1
    BY <1>2, <2>1, <2>2 DEF LongSilent, Runs, NoFrame, DataSame, NodeSame, SockSame, TableSame,
       ComputeSame
  <2>3. CASE second = CHAOS_KILL_AT_S + 1
    <3>1. /\ compute_pc[1] \in {"announce", "send"} => compute_wake[1] + SECOND <= main_wake
          /\ ~NoFrame(1) => node_wake[1] + SECOND <= main_wake + MAX_LATE + 1
          /\ table[1] # <<>> => table[1][1].last_seen_ms + SECOND <= main_wake + 2 * MAX_LATE + 1
      BY <1>2, <2>1, <2>3 DEF LastFrames
    <3>2. 2 * MAX_LATE + 1 < SECOND /\ ChaosBound < SECOND - 2 * MAX_LATE - 1
      BY TimeConstants DEF ChaosFits, ChaosBound, TickGap
    <3>3. compute_pc[1] \notin {"announce", "send"}
      <4>1. SUFFICES ASSUME compute_pc[1] \in {"announce", "send"} PROVE FALSE
        OBVIOUS
      <4>2. now <= compute_wake[1] + MAX_LATE
        BY <1>3, <4>1 DEF Punctual, Sends
      <4> QED BY <1>1, <2>1, <3>1, <3>2, <4>1, <4>2, TimeConstants DEF BoxNats
    <3>4. Runs(1) => NoFrame(1)
      <4>1. SUFFICES ASSUME Runs(1), ~NoFrame(1) PROVE FALSE
        OBVIOUS
      <4>2. now <= node_wake[1] + MAX_LATE
        BY <1>3, <4>1 DEF Punctual, Runs
      <4> QED BY <1>1, <2>1, <3>1, <3>2, <4>1, <4>2, TimeConstants DEF BoxNats
    <3>5. table[1] # <<>> => table[1][1].last_seen_ms + ChaosBound < now
      <4>1. SUFFICES ASSUME table[1] # <<>> PROVE table[1][1].last_seen_ms + ChaosBound < now
        OBVIOUS
      <4>2. table[1][1].last_seen_ms \in Nat
        BY <4>1, BoxSlot, SlotNats
      <4>3. \A x \in Nat : x + SECOND <= main_wake + 2 * MAX_LATE + 1 => x + ChaosBound < now
        BY <1>1, <2>1, <3>2, TimeConstants, GapConstants DEF BoxNats
      <4> QED BY <3>1, <4>1, <4>2, <4>3
    <3> QED BY <2>1, <3>3, <3>4, <3>5 DEF LongSilent, Runs, NoFrame, DataSame, NodeSame, SockSame,
               TableSame, ComputeSame
  <2> QED BY <1>1, <1>2, <2>1, <2>2, <2>3 DEF BoxNats
<1>7. CASE AtMain(1) \/ AtTick(1) \/ (ClockSame(1) /\ DataSame(1) /\ ComputeSame(1))
  <2>1. /\ second' = second /\ (now' = now \/ now' = now + 1) /\ DataSame(1) /\ ComputeSame(1)
    BY <1>7 DEF AtMain, AtTick, ClockSame
  <2>2. g_running' => g_running
    BY <1>7 DEF AtMain, AtTick, ClockSame
  <2>3. table[1] # <<>> => table[1][1].last_seen_ms + ChaosBound < now'
    <3>1. SUFFICES ASSUME table[1] # <<>> PROVE table[1][1].last_seen_ms + ChaosBound < now'
      OBVIOUS
    <3>2. table[1][1].last_seen_ms \in Nat
      BY <3>1, BoxSlot, SlotNats
    <3>3. \A x \in Nat : x + ChaosBound < now => x + ChaosBound < now'
      BY <1>1, <2>1, GapConstants DEF BoxNats
    <3> QED BY <1>5, <2>1, <2>2, <3>1, <3>2, <3>3
  <2> QED BY <1>5, <2>1, <2>2, <2>3 DEF LongSilent, Runs, NoFrame, DataSame, NodeSame, SockSame,
             TableSame, ComputeSame
<1>8. ~AtSend(1, "announce", "announce", PAUSE) /\ ~AtSend(1, "send", "heartbeat", HB_INTERVAL_MS)
  <2>1. SUFFICES ASSUME \/ AtSend(1, "announce", "announce", PAUSE)
                        \/ AtSend(1, "send", "heartbeat", HB_INTERVAL_MS)
                 PROVE  FALSE
    OBVIOUS
  <2>2. ClockSame(1) /\ compute_pc[1] \in {"announce", "send"}
    BY <2>1 DEF AtSend
  <2> QED BY <1>5, <2>2 DEF ClockSame
<1>9. CASE AtCheck(1)
  <2>1. ClockSame(1) /\ DataSame(1)
    BY <1>9 DEF AtCheck
  <2>2. compute_pc'[1] = "exited"
    BY <1>5, <1>9, <2>1 DEF AtCheck, ClockSame
  <2> QED BY <1>5, <2>1, <2>2 DEF LongSilent, Runs, NoFrame, ClockSame, DataSame, NodeSame, SockSame,
             TableSame
<1>10. CASE AtInit(1)
  <2>1. ClockSame(1) /\ ComputeSame(1) /\ TableSame(1) /\ SockSame(1) /\ node_pc[1] = "init"
    BY <1>10 DEF AtInit
  <2>2. compute_pc[1] = "none"
    BY <1>3, <1>5, <2>1 DEF Stays, ClockSame
  <2>3. sock'[1] = <<>>
    BY <1>3, <2>1, <2>2 DEF Stays, SockSame
  <2>4. NoFrame(1)'
    BY <2>3 DEF NoFrame
  <2> QED BY <1>5, <2>1, <2>4 DEF LongSilent, ClockSame, TableSame, ComputeSame
<1>11. CASE AtExit(1) \/ AtLoop(1)
  <2>1. /\ ClockSame(1) /\ ComputeSame(1) /\ TableSame(1) /\ SockSame(1) /\ (Runs(1)' => Runs(1))
    BY <1>11 DEF AtExit, AtLoop, Runs
  <2> QED BY <1>5, <2>1 DEF LongSilent, NoFrame, ClockSame, SockSame, TableSame, ComputeSame
<1>12. CASE AtDrain(1)
  <2>1. ClockSame(1) /\ ComputeSame(1) /\ Runs(1)
    BY <1>12 DEF AtDrain, Runs
  <2>2. NoFrame(1)
    BY <1>5, <2>1 DEF ClockSame
  <2>3. NoFrame(1)' /\ TableSame(1)
    BY <1>12, <2>2, NoFrameKept
  <2> QED BY <1>5, <2>1, <2>3 DEF LongSilent, ClockSame, TableSame, ComputeSame
<1>13. CASE AtEnd(1)
  <2>1. ClockSame(1) /\ ComputeSame(1) /\ SockSame(1) /\ Runs(1)
    BY <1>13 DEF AtEnd, Runs
  <2>2. NoFrame(1)'
    BY <1>5, <2>1 DEF NoFrame, SockSame, ClockSame
  <2>3. HeardBefore(1)
    BY <1>3, <1>13, EndSlot DEF HeardBefore
  <2> QED BY <1>5, <2>1, <2>2, <2>3 DEF LongSilent, HeardBefore, ClockSame, ComputeSame
<1> QED BY <1>4, <1>6, <1>7, <1>8, <1>9, <1>10, <1>11, <1>12, <1>13 DEF BoxMove

Watched == Timely(1) /\ Ticking(1) /\ Looked(1) /\ StaysKilled /\ LastFrames /\ LongSilent

\* For any number of boxes and any second of the kill: when a second has
\* passed since, the STM32 of the killed node has given it up, if the threads
\* are in time and a second is longer than the monitor needs.
THEOREM ChaosIsSeenEver ==
    ASSUME ThreadsFit, ChaosFits
    PROVE  Spec => []ChaosIsSeen
<1> DEFINE Inv == 1 \notin leads => Watched
<1>1. 1 \in Boxes
  BY SimulatorConstants
<1>2. Init => Watched
  <2>1. SUFFICES ASSUME Init PROVE Watched
    OBVIOUS
  <2>2. Timely(1)
    BY <1>1, <2>1, TimelyInit
  <2>3. node_pc[1] = "none" /\ table[1] = <<>> /\ second = 0 /\ alive[1] = FALSE
    BY <1>1, <2>1 DEF Init
  <2>4. ~(second = CHAOS_KILL_AT_S + 1) /\ ~(second > CHAOS_KILL_AT_S + 1)
    BY <2>3, TimeConstants
  <2> QED BY <2>2, <2>3, <2>4 DEF Watched, Ticking, Looked, Runs, StaysKilled, LastFrames, LongSilent
<1>3. ASSUME Framed, Inv, [Next]_vars PROVE Inv'
  <2>1. leads' = leads
    BY <1>3, FollowerLogNext DEF Framed, Types
  <2>2. SUFFICES ASSUME 1 \notin leads PROVE Watched'
    BY <2>1
  <2>3. BoxMove(1) /\ Watched
    BY <1>1, <1>3, <2>2, Focus
  <2>4. Timely(1)' /\ Ticking(1)' /\ Looked(1)'
    BY <1>1, <1>3, <2>3, TimelyNext, TickingNext, LookedNext DEF Watched, Timely
  <2>5. StaysKilled' /\ LastFrames' /\ LongSilent'
    BY <1>1, <1>3, <2>3, StaysKilledNext, LastFramesNext, LongSilentNext DEF Watched
  <2> QED BY <2>4, <2>5 DEF Watched
<1>4. Framed /\ Inv => ChaosIsSeen
  <2>1. SUFFICES ASSUME Framed, Inv, CHAOS, second > CHAOS_KILL_AT_S + 1, g_running, table[1] # <<>>,
                        1 \notin leads, Status(table[1]) # NODE_DOWN
                 PROVE  FALSE
    BY DEF ChaosIsSeen
  <2>2. Watched
    BY <2>1
  <2>3. table[1][1].status # NODE_DOWN
    BY <2>1 DEF Status
  <2>4. table[1][1].last_seen_ms + ChaosBound < now
    BY <2>1, <2>2 DEF Watched, LongSilent
  <2>5. now <= table[1][1].last_seen_ms + ChaosBound
    BY <1>1, <2>1, <2>2, <2>3, SilentIsDown DEF Watched, Timely
  <2>6. table[1][1].last_seen_ms \in Nat /\ now \in Nat
    BY <1>1, <2>1, BoxSlot, SlotNats, BoxNatsHold DEF BoxNats
  <2>7. \A x, y \in Nat : ~(x + ChaosBound < y /\ y <= x + ChaosBound)
    BY GapConstants
  <2> QED BY <2>4, <2>5, <2>6, <2>7
<1>5. Init => Inv
  BY <1>2
<1> HIDE DEF Inv
<1> QED BY <1>3, <1>4, <1>5, FramedHolds, PTL DEF Spec
=============================================================================
