------------------------- MODULE OracleClusterProofs -------------------------
(***************************************************************************)
(* Health tables over the Raft log, for any number of STM32s and compute   *)
(* nodes: types, and what the corroboration of a failure is worth.         *)
(***************************************************************************)
EXTENDS OracleCluster, FiniteSetTheorems, TLAPS

-----------------------------------------------------------------------------
(* Types *)

ComputeOK == alive \in [Nodes -> BOOLEAN] /\ outages \in 0 .. MAX_OUTAGES

LeaderOK == leader \in Servers /\ changes \in 0 .. MAX_CHANGES

LogOK ==
    /\ log \in Seq(Transitions) /\ Len(log) <= LOG_CAPACITY
    /\ applied \in [Servers -> 0 .. LOG_CAPACITY]
    /\ \A s \in Servers : applied[s] <= Len(log)

SlotsOK ==
    /\ slots \in [Servers -> Seq(Nodes)]
    /\ \A s \in Servers : Len(slots[s]) <= MAX_HEALTH_NODES

TableOK ==
    /\ status \in [Servers -> [Nodes -> Statuses]]
    /\ late \in [Servers -> [Nodes -> BOOLEAN]]
    /\ due \in [Servers -> [Nodes -> BOOLEAN]]
    /\ doubted \subseteq Servers \X Nodes

ReportOK ==
    /\ responses \subseteq [src : Servers, dst : Servers, obs : Reports]
    /\ seen \in [Servers -> [Servers -> [Nodes -> Statuses]]]
    /\ fresh \in [Servers -> SUBSET Servers]

\* The parts of the type invariant.
LEMMA Parts == TypeOK <=> ComputeOK /\ LeaderOK /\ LogOK /\ SlotsOK /\ TableOK /\ ReportOK
BY DEF TypeOK, ComputeOK, LeaderOK, LogOK, SlotsOK, TableOK, ReportOK

\* Every table starts empty of doubt.
LEMMA InitTypes == Init => TypeOK
<1> SUFFICES ASSUME Init PROVE TypeOK OBVIOUS
<1>1. /\ MAX_OUTAGES \in Nat /\ MAX_CHANGES \in Nat /\ LOG_CAPACITY \in Nat
      /\ MAX_HEALTH_NODES \in Nat
  BY MonitorsConstants
<1>2. ComputeOK /\ LeaderOK BY <1>1 DEF Init, ComputeOK, LeaderOK
<1>3. LogOK
  <2>1. <<>> \in Seq(Transitions) /\ Len(<<>>) = 0 OBVIOUS
  <2> QED BY <1>1, <2>1 DEF Init, LogOK
<1>4. SlotsOK
  <2>1. \A k \in 0 .. MAX_HEALTH_NODES : \A f \in [1 .. k -> Nodes] :
           f \in Seq(Nodes) /\ Len(f) = k
    OBVIOUS
  <2>2. \A s \in Servers : slots[s] \in Seq(Nodes) /\ Len(slots[s]) <= MAX_HEALTH_NODES
    BY <1>1, <2>1 DEF Init
  <2>3. slots \in [Servers -> Seq(Nodes)] BY <2>2 DEF Init
  <2> QED BY <2>2, <2>3 DEF SlotsOK
<1>5. TableOK
  <2>1. Home \in [Nodes -> Servers] BY MonitorsConstants
  <2>2. status \in [Servers -> [Nodes -> Statuses]] BY DEF Init, Statuses
  <2>3. late \in [Servers -> [Nodes -> BOOLEAN]] BY DEF Init
  <2>4. due \in [Servers -> [Nodes -> BOOLEAN]] BY DEF Init
  <2>5. doubted \subseteq Servers \X Nodes BY DEF Init
  <2> QED BY <2>2, <2>3, <2>4, <2>5 DEF TableOK
<1>6. ReportOK
  <2>1. NODE_UP \in Statuses BY DEF Statuses
  <2>2. seen \in [Servers -> [Servers -> [Nodes -> Statuses]]] BY <2>1 DEF Init
  <2>3. responses \subseteq [src : Servers, dst : Servers, obs : Reports] BY DEF Init
  <2>4. fresh \in [Servers -> SUBSET Servers] BY DEF Init
  <2> QED BY <2>2, <2>3, <2>4 DEF ReportOK
<1> QED BY <1>2, <1>3, <1>4, <1>5, <1>6, Parts

\* SetStatus() and propose_transition() keep to the types.
LEMMA SetStatusTypes ==
    ASSUME TypeOK, NEW s \in Servers, NEW n \in Nodes, NEW new \in Statuses, SetStatus(s, n, new)
    PROVE  /\ status' \in [Servers -> [Nodes -> Statuses]]
           /\ doubted' \subseteq Servers \X Nodes
<1>1. status' = [status EXCEPT ![s][n] = new] BY DEF SetStatus
<1>2. doubted' \subseteq doubted \union {<<s, n>>} BY DEF SetStatus
<1> QED BY <1>1, <1>2 DEF TypeOK

\* A proposal adds one entry at most, and only while there is room.
LEMMA ProposeTypes ==
    ASSUME TypeOK, NEW s \in Servers, NEW n \in Nodes, NEW new \in Statuses,
           propose_transition(s, n, new), applied' = applied
    PROVE  /\ status' \in [Servers -> [Nodes -> Statuses]]
           /\ doubted' \subseteq Servers \X Nodes
           /\ LogOK'
<1>1. SetStatus(s, n, new) BY DEF propose_transition
<1> DEFINE e == [node |-> n, new |-> new, by |-> s]
<1>2. e \in Transitions BY DEF Transitions
<1>3. \/ log' = log
      \/ Len(log) < LOG_CAPACITY /\ log' = Append(log, e)
  BY DEF propose_transition
<1> HIDE DEF e
<1>4. LOG_CAPACITY \in Nat BY MonitorsConstants
<1>5. log' \in Seq(Transitions) /\ Len(log') <= LOG_CAPACITY /\ Len(log) <= Len(log')
  <2>1. log \in Seq(Transitions) /\ Len(log) \in Nat /\ Len(log) <= LOG_CAPACITY BY DEF TypeOK
  <2>2. CASE log' = log BY <2>1, <2>2
  <2>3. CASE Len(log) < LOG_CAPACITY /\ log' = Append(log, e)
    <3>1. log' \in Seq(Transitions) /\ Len(log') = Len(log) + 1 BY <1>2, <2>1, <2>3
    <3> QED BY <1>4, <2>1, <2>3, <3>1
  <2> QED BY <1>3, <2>2, <2>3
<1>6. \A t \in Servers : applied'[t] <= Len(log') BY <1>4, <1>5 DEF TypeOK
<1>7. LogOK' BY <1>5, <1>6 DEF TypeOK, LogOK
<1> QED BY <1>1, <1>7, SetStatusTypes

\* A report is a function from some of the nodes to statuses.
LEMMA ObservationTypes ==
    ASSUME TypeOK, NEW s \in Servers
    PROVE  get_observations(s) \in Reports
<1> DEFINE N == {slots[s][i] : i \in {j \in 1 .. Len(slots[s]) : j <= MAX_OBSERVATIONS}}
<1>1. slots[s] \in Seq(Nodes) BY DEF TypeOK
<1>2. N \subseteq Nodes BY <1>1
<1>3. get_observations(s) = [n \in N |-> status[s][n]] BY DEF get_observations
<1> HIDE DEF N
<1>4. [n \in N |-> status[s][n]] \in [N -> Statuses] BY <1>2 DEF TypeOK
<1> QED BY <1>2, <1>3, <1>4 DEF Reports

\* A new slot is taken only while the table has room.
LEMMA SlotTypes ==
    ASSUME TypeOK, NEW s \in Servers, NEW n \in Nodes,
           \/ slots' = slots
           \/ Len(slots[s]) < MAX_HEALTH_NODES /\ slots' = [slots EXCEPT ![s] = Append(slots[s], n)]
    PROVE  SlotsOK'
<1>1. CASE slots' = slots BY <1>1 DEF TypeOK, SlotsOK
<1>2. CASE /\ Len(slots[s]) < MAX_HEALTH_NODES
           /\ slots' = [slots EXCEPT ![s] = Append(slots[s], n)]
  <2>1. slots[s] \in Seq(Nodes) /\ Len(slots[s]) \in Nat /\ MAX_HEALTH_NODES \in Nat
    BY MonitorsConstants DEF TypeOK
  <2>2. /\ Append(slots[s], n) \in Seq(Nodes)
        /\ Len(Append(slots[s], n)) = Len(slots[s]) + 1
    BY <2>1
  <2>3. Len(Append(slots[s], n)) <= MAX_HEALTH_NODES BY <1>2, <2>1, <2>2
  <2>4. slots' \in [Servers -> Seq(Nodes)] BY <1>2, <2>2 DEF TypeOK
  <2>5. \A t \in Servers : Len(slots'[t]) <= MAX_HEALTH_NODES BY <1>2, <2>3 DEF TypeOK
  <2> QED BY <2>4, <2>5 DEF SlotsOK
<1> QED BY <1>1, <1>2

\* Steps of compute nodes, of time and of the leadership.
LEMMA EnvironmentTypes ==
    ASSUME TypeOK,
           \/ \E n \in Nodes : FallSilent(n) \/ Resume(n) \/ BecomesLate(n)
           \/ \E s \in Servers, n \in Nodes : BecomesDue(s, n)
           \/ \E s, p \in Servers : BecomesStale(s, p)
           \/ \E s \in Servers : ChangeLeader(s)
    PROVE  TypeOK'
<1>1. MAX_OUTAGES \in Nat /\ MAX_CHANGES \in Nat /\ Home \in [Nodes -> Servers]
  BY MonitorsConstants
<1>2. ASSUME NEW n \in Nodes, FallSilent(n) \/ Resume(n) PROVE TypeOK'
  <2>1. UNCHANGED <<raftVars, tableVars, reportVars>> BY <1>2 DEF FallSilent, Resume
  <2>2. alive' \in [Nodes -> BOOLEAN] BY <1>2 DEF FallSilent, Resume, TypeOK
  <2>3. outages' \in 0 .. MAX_OUTAGES BY <1>1, <1>2 DEF FallSilent, Resume, TypeOK
  <2> QED BY <2>1, <2>2, <2>3 DEF TypeOK, raftVars, tableVars, reportVars
<1>3. ASSUME NEW n \in Nodes, BecomesLate(n) PROVE TypeOK'
  <2>1. Home[n] \in Servers BY <1>1
  <2>2. late' \in [Servers -> [Nodes -> BOOLEAN]] BY <1>3, <2>1 DEF BecomesLate, TypeOK
  <2> QED BY <1>3, <2>2 DEF BecomesLate, TypeOK, computeVars, raftVars, reportVars
<1>4. ASSUME NEW s \in Servers, NEW n \in Nodes, BecomesDue(s, n) PROVE TypeOK'
  <2>1. due' \in [Servers -> [Nodes -> BOOLEAN]] BY <1>4 DEF BecomesDue, TypeOK
  <2> QED BY <1>4, <2>1 DEF BecomesDue, TypeOK, computeVars, raftVars, reportVars
<1>5. ASSUME NEW s \in Servers, NEW p \in Servers, BecomesStale(s, p) PROVE TypeOK'
  <2>1. fresh' \in [Servers -> SUBSET Servers] BY <1>5 DEF BecomesStale, TypeOK
  <2> QED BY <1>5, <2>1 DEF BecomesStale, TypeOK, computeVars, raftVars, tableVars
<1>6. ASSUME NEW s \in Servers, ChangeLeader(s) PROVE TypeOK'
  <2>1. changes' \in 0 .. MAX_CHANGES BY <1>1, <1>6 DEF ChangeLeader, TypeOK
  <2> QED BY <1>6, <2>1 DEF ChangeLeader, TypeOK, computeVars, tableVars, reportVars
<1> QED BY <1>2, <1>3, <1>4, <1>5, <1>6

\* Steps of the health monitor.
LEMMA MonitorTypes ==
    ASSUME TypeOK,
           \/ \E n \in Nodes : process_heartbeat(n) \/ process_announce(n)
           \/ \E s \in Servers, n \in Nodes : TickSuspect(s, n) \/ TickDown(s, n)
    PROVE  TypeOK'
<1>1. Home \in [Nodes -> Servers] BY MonitorsConstants
<1>2. NODE_UP \in Statuses /\ NODE_SUSPECT \in Statuses /\ NODE_DOWN \in Statuses BY DEF Statuses
<1>3. ASSUME NEW n \in Nodes, process_heartbeat(n) PROVE TypeOK'
  <2> DEFINE s == Home[n]
  <2>1. s \in Servers BY <1>1
  <2>2. /\ UNCHANGED <<computeVars, leader, changes, applied, slots, reportVars>>
        /\ late' = [late EXCEPT ![s][n] = FALSE]
        /\ \/ UNCHANGED <<log, status, due, doubted>>
           \/ /\ propose_transition(s, n, NODE_UP)
              /\ due' = [due EXCEPT ![s][n] = TRUE]
    BY <1>3 DEF process_heartbeat
  <2> HIDE DEF s
  <2>3. late' \in [Servers -> [Nodes -> BOOLEAN]] BY <2>1, <2>2 DEF TypeOK
  <2>4. due' \in [Servers -> [Nodes -> BOOLEAN]]
    <3>1. CASE due' = due BY <3>1 DEF TypeOK
    <3>2. CASE due' = [due EXCEPT ![s][n] = TRUE] BY <2>1, <3>2 DEF TypeOK
    <3> QED BY <2>2, <3>1, <3>2
  <2>5. LogOK' /\ status' \in [Servers -> [Nodes -> Statuses]] /\ doubted' \subseteq Servers \X Nodes
    <3>1. CASE UNCHANGED <<log, status, due, doubted>> BY <2>2, <3>1 DEF TypeOK, LogOK
    <3>2. CASE propose_transition(s, n, NODE_UP) BY <1>2, <2>1, <2>2, <3>2, ProposeTypes
    <3> QED BY <2>2, <3>1, <3>2
  <2>6. TableOK' BY <2>3, <2>4, <2>5 DEF TableOK
  <2>7. ComputeOK' /\ LeaderOK' /\ SlotsOK' /\ ReportOK'
    BY <2>2 DEF TypeOK, ComputeOK, LeaderOK, SlotsOK, ReportOK, computeVars, reportVars
  <2>8. (TypeOK <=> ComputeOK /\ LeaderOK /\ LogOK /\ SlotsOK /\ TableOK /\ ReportOK)'
    BY Parts, PTL
  <2> QED BY <2>5, <2>6, <2>7, <2>8
<1>4. ASSUME NEW n \in Nodes, process_announce(n) PROVE TypeOK'
  <2> DEFINE s == Home[n]
  <2>1. s \in Servers BY <1>1
  <2>2. /\ UNCHANGED <<outages, raftVars, doubted, reportVars>>
        /\ alive' = [alive EXCEPT ![n] = TRUE]
        /\ status' = [status EXCEPT ![s][n] = NODE_UP]
        /\ late' = [late EXCEPT ![s][n] = FALSE]
        /\ due' = [due EXCEPT ![s][n] = TRUE]
        /\ \/ slots' = slots
           \/ /\ Len(slots[s]) < MAX_HEALTH_NODES
              /\ slots' = [slots EXCEPT ![s] = Append(slots[s], n)]
    BY <1>4 DEF process_announce
  <2> HIDE DEF s
  <2>3. SlotsOK' BY <2>1, <2>2, SlotTypes
  <2>4. status' \in [Servers -> [Nodes -> Statuses]] BY <1>2, <2>1, <2>2 DEF TypeOK
  <2>5. late' \in [Servers -> [Nodes -> BOOLEAN]] BY <2>1, <2>2 DEF TypeOK
  <2>6. due' \in [Servers -> [Nodes -> BOOLEAN]] BY <2>1, <2>2 DEF TypeOK
  <2>7. TableOK' BY <2>2, <2>4, <2>5, <2>6 DEF TypeOK, TableOK
  <2>8. ComputeOK' /\ LeaderOK' /\ LogOK' /\ ReportOK'
    BY <2>2 DEF TypeOK, ComputeOK, LeaderOK, LogOK, ReportOK, raftVars, reportVars
  <2>9. (TypeOK <=> ComputeOK /\ LeaderOK /\ LogOK /\ SlotsOK /\ TableOK /\ ReportOK)'
    BY Parts, PTL
  <2> QED BY <2>3, <2>7, <2>8, <2>9
<1>5. ASSUME NEW s \in Servers, NEW n \in Nodes, TickSuspect(s, n) \/ TickDown(s, n)
      PROVE  TypeOK'
  <2>1. UNCHANGED <<computeVars, leader, changes, applied, slots, late, reportVars>>
    BY <1>5 DEF TickSuspect, TickDown
  <2>2. due' = [due EXCEPT ![s][n] = FALSE] \/ due' = due BY <1>5 DEF TickSuspect, TickDown
  <2>3. due' \in [Servers -> [Nodes -> BOOLEAN]]
    <3>1. CASE due' = due BY <3>1 DEF TypeOK
    <3>2. CASE due' = [due EXCEPT ![s][n] = FALSE] BY <3>2 DEF TypeOK
    <3> QED BY <2>2, <3>1, <3>2
  <2>4. \/ propose_transition(s, n, NODE_SUSPECT) \/ propose_transition(s, n, NODE_DOWN)
        \/ SetStatus(s, n, NODE_DOWN) /\ UNCHANGED log
    BY <1>5 DEF TickSuspect, TickDown
  <2>5. LogOK' /\ status' \in [Servers -> [Nodes -> Statuses]] /\ doubted' \subseteq Servers \X Nodes
    <3>1. CASE SetStatus(s, n, NODE_DOWN) /\ UNCHANGED log
      <4>1. LogOK' BY <2>1, <3>1 DEF TypeOK, LogOK
      <4> QED BY <1>2, <3>1, <4>1, SetStatusTypes
    <3>2. CASE propose_transition(s, n, NODE_SUSPECT) \/ propose_transition(s, n, NODE_DOWN)
      BY <1>2, <2>1, <3>2, ProposeTypes
    <3> QED BY <2>4, <3>1, <3>2
  <2>6. TableOK' BY <2>1, <2>3, <2>5 DEF TypeOK, TableOK
  <2>7. ComputeOK' /\ LeaderOK' /\ SlotsOK' /\ ReportOK'
    BY <2>1 DEF TypeOK, ComputeOK, LeaderOK, SlotsOK, ReportOK, computeVars, reportVars
  <2>8. (TypeOK <=> ComputeOK /\ LeaderOK /\ LogOK /\ SlotsOK /\ TableOK /\ ReportOK)'
    BY Parts, PTL
  <2> QED BY <2>5, <2>6, <2>7, <2>8
<1> QED BY <1>3, <1>4, <1>5

\* Steps of Raft and of the reports.
LEMMA RaftTypes ==
    ASSUME TypeOK,
           \/ \E s \in Servers : ApplyLog(s) \/ Respond(s)
           \/ \E m \in responses : RecvResponse(m) \/ LoseResponse(m)
    PROVE  TypeOK'
<1>1. ASSUME NEW s \in Servers, ApplyLog(s) PROVE TypeOK'
  <2> DEFINE t == log[applied[s] + 1]
  <2>1. applied[s] \in Nat /\ applied[s] < Len(log) /\ Len(log) \in Nat /\ LOG_CAPACITY \in Nat
        /\ log \in Seq(Transitions) /\ Len(log) <= LOG_CAPACITY
    BY <1>1, MonitorsConstants DEF ApplyLog, TypeOK
  <2>2. t \in Transitions
    <3>1. applied[s] + 1 \in 1 .. Len(log) BY <2>1
    <3> QED BY <2>1, <3>1
  <2>3. t.node \in Nodes /\ t.new \in Statuses BY <2>2 DEF Transitions
  <2>4. /\ UNCHANGED <<computeVars, leader, changes, log, late, due, reportVars>>
        /\ applied' = [applied EXCEPT ![s] = applied[s] + 1]
        /\ SetStatus(s, t.node, t.new) \/ UNCHANGED <<status, doubted>>
        /\ \/ slots' = slots
           \/ /\ Len(slots[s]) < MAX_HEALTH_NODES
              /\ slots' = [slots EXCEPT ![s] = Append(slots[s], t.node)]
    BY <1>1 DEF ApplyLog
  <2> HIDE DEF t
  <2>5. SlotsOK' BY <2>3, <2>4, SlotTypes
  <2>6. status' \in [Servers -> [Nodes -> Statuses]] /\ doubted' \subseteq Servers \X Nodes
    <3>1. CASE SetStatus(s, t.node, t.new) BY <2>3, <3>1, SetStatusTypes
    <3>2. CASE UNCHANGED <<status, doubted>> BY <3>2 DEF TypeOK
    <3> QED BY <2>4, <3>1, <3>2
  <2>7. TableOK' BY <2>4, <2>6 DEF TypeOK, TableOK
  <2>8. LogOK'
    <3>1. applied[s] + 1 \in 0 .. LOG_CAPACITY /\ applied[s] + 1 <= Len(log) BY <2>1
    <3>2. applied' \in [Servers -> 0 .. LOG_CAPACITY] BY <2>4, <3>1 DEF TypeOK
    <3>3. \A u \in Servers : applied'[u] <= Len(log) BY <2>4, <3>1 DEF TypeOK
    <3> QED BY <2>1, <2>4, <3>2, <3>3 DEF LogOK
  <2>9. ComputeOK' /\ LeaderOK' /\ ReportOK'
    BY <2>4 DEF TypeOK, ComputeOK, LeaderOK, ReportOK, computeVars, reportVars
  <2>10. (TypeOK <=> ComputeOK /\ LeaderOK /\ LogOK /\ SlotsOK /\ TableOK /\ ReportOK)'
    BY Parts, PTL
  <2> QED BY <2>5, <2>7, <2>8, <2>9, <2>10
<1>2. ASSUME NEW s \in Servers, Respond(s) PROVE TypeOK'
  <2> DEFINE r == [src |-> s, dst |-> leader, obs |-> get_observations(s)]
  <2>1. get_observations(s) \in Reports BY ObservationTypes
  <2>2. r \in [src : Servers, dst : Servers, obs : Reports] BY <2>1 DEF TypeOK
  <2>3. responses' = responses \union {r} BY <1>2 DEF Respond
  <2> HIDE DEF r
  <2>4. responses' \subseteq [src : Servers, dst : Servers, obs : Reports] BY <2>2, <2>3 DEF TypeOK
  <2>5. UNCHANGED <<computeVars, raftVars, tableVars, seen, fresh>> BY <1>2 DEF Respond
  <2> QED BY <2>4, <2>5 DEF TypeOK, computeVars, raftVars, tableVars
<1>3. ASSUME NEW m \in responses, RecvResponse(m) \/ LoseResponse(m) PROVE TypeOK'
  <2>1. /\ UNCHANGED <<computeVars, raftVars, tableVars>> /\ responses' \subseteq responses
        /\ \/ m.src \notin WidePeers /\ update_corroboration(m)
           \/ UNCHANGED <<seen, fresh>>
    BY <1>3 DEF RecvResponse, LoseResponse, update_corroboration
  <2>2. m.src \in Servers /\ m.dst \in Servers /\ m.obs \in Reports BY DEF TypeOK
  <2>3. ReportOK'
    <3>1. CASE UNCHANGED <<seen, fresh>> BY <2>1, <3>1 DEF TypeOK, ReportOK
    <3>2. CASE m.src \notin WidePeers /\ update_corroboration(m)
      <4> DEFINE row == [n \in Nodes |-> IF n \in DOMAIN m.obs \ WideIds THEN m.obs[n]
                                         ELSE seen[m.dst][m.src][n]]
      <4>1. seen' = [seen EXCEPT ![m.dst][m.src] = row] BY <3>2 DEF update_corroboration
      <4>2. \A n \in DOMAIN m.obs : m.obs[n] \in Statuses BY <2>2 DEF Reports
      <4>3. row \in [Nodes -> Statuses] BY <2>2, <4>2 DEF TypeOK
      <4> HIDE DEF row
      <4>4. seen' \in [Servers -> [Servers -> [Nodes -> Statuses]]] BY <2>2, <4>1, <4>3 DEF TypeOK
      <4>5. fresh' = [fresh EXCEPT ![m.dst] = @ \union {m.src}] BY <3>2 DEF update_corroboration
      <4>6. fresh' \in [Servers -> SUBSET Servers] BY <2>2, <4>5 DEF TypeOK
      <4> QED BY <2>1, <4>4, <4>6 DEF TypeOK, ReportOK
    <3> QED BY <2>1, <3>1, <3>2
  <2>4. ComputeOK' /\ LeaderOK' /\ LogOK' /\ SlotsOK' /\ TableOK'
    BY <2>1 DEF TypeOK, ComputeOK, LeaderOK, LogOK, SlotsOK, TableOK, computeVars, raftVars,
                tableVars
  <2>5. (TypeOK <=> ComputeOK /\ LeaderOK /\ LogOK /\ SlotsOK /\ TableOK /\ ReportOK)'
    BY Parts, PTL
  <2> QED BY <2>3, <2>4, <2>5
<1> QED BY <1>1, <1>2, <1>3

\* Every step keeps the types.
LEMMA TypeStep == ASSUME TypeOK, [Next]_vars PROVE TypeOK'
<1>1. CASE Next BY <1>1, EnvironmentTypes, MonitorTypes, RaftTypes DEF Next
<1>2. CASE UNCHANGED vars
  BY <1>2 DEF TypeOK, vars, computeVars, raftVars, tableVars, reportVars
<1> QED BY <1>1, <1>2

\* For any number of boxes and compute nodes, tables, log and reports stay
\* within the arrays that hold them.
THEOREM ClusterTypes == Spec => []TypeOK
<1>1. TypeOK /\ [Next]_vars => TypeOK' BY TypeStep
<1> QED BY <1>1, InitTypes, PTL DEF Spec

-----------------------------------------------------------------------------
(* Corroboration *)

\* What a table says now, what a report in flight says and what the leader
\* remembers of it: each goes back to a doubt of the STM32 that said it, and
\* nobody reports to itself.
TablesDoubt ==
    \A s \in Servers, n \in Nodes : status[s][n] # NODE_UP => <<s, n>> \in doubted

ReportsDoubt ==
    \A m \in responses :
        /\ m.src # m.dst
        /\ \A n \in DOMAIN m.obs : m.obs[n] # NODE_UP => <<m.src, n>> \in doubted

MemoryDoubts ==
    \A s, p \in Servers, n \in Nodes :
        seen[s][p][n] # NODE_UP => p # s /\ <<p, n>> \in doubted

Observers(n, by) == {s \in Servers \ {by} : <<s, n>> \in doubted}

\* Whatever reports are lost, late or out of order: a DOWN that another box
\* than the node's own got into the log is backed by CORROBORATION_K other
\* STM32s that have held the node SUSPECT or DOWN themselves.
DownIsCorroborated ==
    \A k \in 1 .. Len(log) :
        log[k].new = NODE_DOWN /\ log[k].by # Home[log[k].node] =>
            Cardinality(Observers(log[k].node, log[k].by)) >= CORROBORATION_K

DoubtInv == TypeOK /\ TablesDoubt /\ ReportsDoubt /\ MemoryDoubts /\ DownIsCorroborated

\* Nobody is in doubt at the start.
LEMMA InitDoubt == Init => DoubtInv
<1> SUFFICES ASSUME Init PROVE DoubtInv OBVIOUS
<1>1. TypeOK BY InitTypes
<1>2. TablesDoubt /\ ReportsDoubt /\ MemoryDoubts
  BY DEF Init, TablesDoubt, ReportsDoubt, MemoryDoubts
<1>3. DownIsCorroborated BY DEF Init, DownIsCorroborated
<1> QED BY <1>1, <1>2, <1>3 DEF DoubtInv

\* Doubts are never forgotten, so an old verdict stays backed.
LEMMA ObserversGrow ==
    ASSUME doubted \subseteq doubted', NEW n, NEW by,
           Cardinality(Observers(n, by)) >= CORROBORATION_K
    PROVE  Cardinality({s \in Servers \ {by} : <<s, n>> \in doubted'}) >= CORROBORATION_K
<1> DEFINE O == Observers(n, by)
<1> DEFINE O2 == {s \in Servers \ {by} : <<s, n>> \in doubted'}
<1>1. O \in SUBSET O2 /\ O2 \in SUBSET Servers BY DEF Observers
<1>2. IsFiniteSet(Servers) BY MonitorsConstants
<1> HIDE DEF O, O2
<1>3. IsFiniteSet(O2) BY <1>1, <1>2, FS_Subset
<1>4. IsFiniteSet(O) /\ Cardinality(O) <= Cardinality(O2) BY <1>1, <1>3, FS_Subset
<1>5. Cardinality(O) \in Nat /\ Cardinality(O2) \in Nat /\ CORROBORATION_K \in Nat
  BY <1>3, <1>4, FS_CardinalityType, MonitorsConstants
<1> QED BY <1>4, <1>5 DEF O, O2

\* A verdict stays corroborated while the log stays or gains an entry that is.
LEMMA VerdictsStay ==
    ASSUME TypeOK, DownIsCorroborated, doubted \subseteq doubted',
           \/ log' = log
           \/ \E e \in Transitions :
                 /\ log' = Append(log, e)
                 /\ e.new = NODE_DOWN /\ e.by # Home[e.node] =>
                       Cardinality(Observers(e.node, e.by)) >= CORROBORATION_K
    PROVE  DownIsCorroborated'
<1>1. log \in Seq(Transitions) /\ Len(log) \in Nat BY DEF TypeOK
<1>2. \A k \in 1 .. Len(log') :
         log'[k].new = NODE_DOWN /\ log'[k].by # Home[log'[k].node] =>
             Cardinality(Observers(log'[k].node, log'[k].by)) >= CORROBORATION_K
  <2>1. CASE log' = log BY <2>1 DEF DownIsCorroborated
  <2>2. ASSUME NEW e \in Transitions, log' = Append(log, e),
               e.new = NODE_DOWN /\ e.by # Home[e.node] =>
                   Cardinality(Observers(e.node, e.by)) >= CORROBORATION_K,
               NEW k \in 1 .. Len(log')
        PROVE  log'[k].new = NODE_DOWN /\ log'[k].by # Home[log'[k].node] =>
                   Cardinality(Observers(log'[k].node, log'[k].by)) >= CORROBORATION_K
    <3>1. (k \in 1 .. Len(log) /\ log'[k] = log[k]) \/ log'[k] = e BY <1>1, <2>2
    <3> QED BY <2>2, <3>1 DEF DownIsCorroborated
  <2> QED BY <2>1, <2>2
<1>3. \A k \in 1 .. Len(log') :
         log'[k].new = NODE_DOWN /\ log'[k].by # Home[log'[k].node] =>
             Cardinality({s \in Servers \ {log'[k].by} : <<s, log'[k].node>> \in doubted'})
                 >= CORROBORATION_K
  BY <1>2, ObserversGrow
<1> QED BY <1>3 DEF DownIsCorroborated, Observers

\* A status that is stored is remembered.
LEMMA SetStatusDoubts ==
    ASSUME TypeOK, TablesDoubt, NEW s \in Servers, NEW n \in Nodes, NEW new, SetStatus(s, n, new)
    PROVE  TablesDoubt' /\ doubted \subseteq doubted'
<1>1. status' = [status EXCEPT ![s][n] = new] /\ doubted \subseteq doubted' BY DEF SetStatus
<1>2. new # NODE_UP => <<s, n>> \in doubted' BY DEF SetStatus
<1>3. \A t \in Servers, k \in Nodes :
         status'[t][k] = IF t = s /\ k = n THEN new ELSE status[t][k]
  BY <1>1 DEF TypeOK
<1>4. TablesDoubt' BY <1>1, <1>2, <1>3 DEF TablesDoubt
<1> QED BY <1>1, <1>4

\* While reports and memory stay, more doubts do them no harm.
LEMMA ReportsStay ==
    ASSUME ReportsDoubt, MemoryDoubts, doubted \subseteq doubted', UNCHANGED <<responses, seen>>
    PROVE  ReportsDoubt' /\ MemoryDoubts'
BY DEF ReportsDoubt, MemoryDoubts

\* A verdict of the leader on a node of another box has its observers.
LEMMA VerdictIsBacked ==
    ASSUME DoubtInv, WideIds = {}, NEW s \in Servers, NEW n \in Nodes, s # Home[n],
           TRUE \in corroborated(s, n)
    PROVE  Cardinality(Observers(n, s)) >= CORROBORATION_K
<1>1. Cardinality(Agreeing(s, n)) >= CORROBORATION_K BY DEF corroborated
<1>2. fresh[s] \subseteq Servers BY DEF DoubtInv, TypeOK
<1>3. Agreeing(s, n) \in SUBSET Observers(n, s)
  BY <1>2 DEF Agreeing, Observers, DoubtInv, MemoryDoubts
<1>4. Observers(n, s) \in SUBSET Servers /\ IsFiniteSet(Servers)
  BY MonitorsConstants DEF Observers
<1>5. IsFiniteSet(Observers(n, s)) BY <1>4, FS_Subset
<1>6. /\ IsFiniteSet(Agreeing(s, n))
      /\ Cardinality(Agreeing(s, n)) <= Cardinality(Observers(n, s))
  BY <1>3, <1>5, FS_Subset
<1>7. /\ Cardinality(Agreeing(s, n)) \in Nat /\ Cardinality(Observers(n, s)) \in Nat
      /\ CORROBORATION_K \in Nat
  BY <1>5, <1>6, FS_CardinalityType, MonitorsConstants
<1> QED BY <1>1, <1>6, <1>7

\* The steps of the monitor: verdicts.
LEMMA MonitorDoubts ==
    ASSUME DoubtInv, WideIds = {},
           \/ \E n \in Nodes : process_heartbeat(n)
           \/ \E s \in Servers, n \in Nodes : TickSuspect(s, n) \/ TickDown(s, n)
    PROVE  TablesDoubt' /\ ReportsDoubt' /\ MemoryDoubts' /\ DownIsCorroborated'
<1>1. TypeOK /\ TablesDoubt /\ ReportsDoubt /\ MemoryDoubts /\ DownIsCorroborated BY DEF DoubtInv
<1>2. UNCHANGED <<responses, seen>> BY DEF process_heartbeat, TickSuspect, TickDown, reportVars
<1>3. ASSUME NEW s \in Servers, NEW n \in Nodes, NEW new \in Statuses, propose_transition(s, n, new),
             new = NODE_DOWN /\ s # Home[n] => Cardinality(Observers(n, s)) >= CORROBORATION_K
      PROVE  TablesDoubt' /\ ReportsDoubt' /\ MemoryDoubts' /\ DownIsCorroborated'
  <2> DEFINE e == [node |-> n, new |-> new, by |-> s]
  <2>1. SetStatus(s, n, new) /\ (log' = log \/ log' = Append(log, e))
    BY <1>3 DEF propose_transition
  <2>2. e \in Transitions /\ e.node = n /\ e.new = new /\ e.by = s BY DEF Transitions
  <2> HIDE DEF e
  <2>3. TablesDoubt' /\ doubted \subseteq doubted' BY <1>1, <2>1, SetStatusDoubts
  <2>4. DownIsCorroborated' BY <1>1, <1>3, <2>1, <2>2, <2>3, VerdictsStay
  <2> QED BY <1>1, <1>2, <2>3, <2>4, ReportsStay
<1>4. ASSUME doubted' = doubted, log' = log, status' = status
      PROVE  TablesDoubt' /\ ReportsDoubt' /\ MemoryDoubts' /\ DownIsCorroborated'
  <2>1. TablesDoubt' BY <1>1, <1>4 DEF TablesDoubt
  <2>2. DownIsCorroborated' BY <1>1, <1>4, VerdictsStay
  <2> QED BY <1>1, <1>2, <1>4, <2>1, <2>2, ReportsStay
<1>5. NODE_UP \in Statuses /\ NODE_SUSPECT \in Statuses /\ NODE_DOWN \in Statuses
      /\ NODE_UP # NODE_DOWN /\ NODE_SUSPECT # NODE_DOWN
  BY DEF Statuses, NODE_UP, NODE_SUSPECT, NODE_DOWN
<1>6. ASSUME NEW n \in Nodes, process_heartbeat(n)
      PROVE  TablesDoubt' /\ ReportsDoubt' /\ MemoryDoubts' /\ DownIsCorroborated'
  <2>1. Home[n] \in Servers BY MonitorsConstants
  <2> QED BY <1>3, <1>4, <1>5, <1>6, <2>1 DEF process_heartbeat
<1>7. ASSUME NEW s \in Servers, NEW n \in Nodes, TickSuspect(s, n)
      PROVE  TablesDoubt' /\ ReportsDoubt' /\ MemoryDoubts' /\ DownIsCorroborated'
  BY <1>3, <1>5, <1>7 DEF TickSuspect
<1>8. ASSUME NEW s \in Servers, NEW n \in Nodes, TickDown(s, n)
      PROVE  TablesDoubt' /\ ReportsDoubt' /\ MemoryDoubts' /\ DownIsCorroborated'
  <2>1. CASE leader = s
    <3>1. TRUE \in corroborated(s, n) /\ propose_transition(s, n, NODE_DOWN)
      BY <1>8, <2>1 DEF TickDown
    <3>2. s # Home[n] => Cardinality(Observers(n, s)) >= CORROBORATION_K
      BY <3>1, VerdictIsBacked
    <3> QED BY <1>3, <1>5, <3>1, <3>2
  <2>2. CASE leader # s
    <3>1. SetStatus(s, n, NODE_DOWN) /\ log' = log BY <1>8, <2>2 DEF TickDown
    <3>2. TablesDoubt' /\ doubted \subseteq doubted' BY <1>1, <3>1, SetStatusDoubts
    <3>3. DownIsCorroborated' BY <1>1, <3>1, <3>2, VerdictsStay
    <3> QED BY <1>1, <1>2, <3>2, <3>3, ReportsStay
  <2> QED BY <2>1, <2>2
<1> QED BY <1>6, <1>7, <1>8

\* The other steps: tables, reports and memory pass doubts on.
LEMMA OtherDoubts ==
    ASSUME DoubtInv, Next, ~\E n \in Nodes : process_heartbeat(n),
           ~\E s \in Servers, n \in Nodes : TickSuspect(s, n) \/ TickDown(s, n)
    PROVE  TablesDoubt' /\ ReportsDoubt' /\ MemoryDoubts' /\ DownIsCorroborated'
<1> DEFINE Goal == TablesDoubt' /\ ReportsDoubt' /\ MemoryDoubts' /\ DownIsCorroborated'
<1>1. TypeOK /\ TablesDoubt /\ ReportsDoubt /\ MemoryDoubts /\ DownIsCorroborated BY DEF DoubtInv
<1>2. log' = log
  BY DEF Next, FallSilent, Resume, BecomesLate, process_announce, BecomesDue, BecomesStale,
         ApplyLog, ChangeLeader, Respond, RecvResponse, LoseResponse, raftVars
<1>3. ASSUME UNCHANGED <<status, doubted, responses, seen>> PROVE Goal
  <2>1. TablesDoubt' BY <1>1, <1>3 DEF TablesDoubt
  <2>2. DownIsCorroborated' BY <1>1, <1>2, <1>3, VerdictsStay
  <2> QED BY <1>1, <1>3, <2>1, <2>2, ReportsStay
<1>4. ASSUME NEW n \in Nodes, process_announce(n) PROVE Goal
  <2> DEFINE s == Home[n]
  <2>1. s \in Servers BY MonitorsConstants
  <2>2. status' = [status EXCEPT ![s][n] = NODE_UP] /\ UNCHANGED <<doubted, responses, seen>>
    BY <1>4 DEF process_announce, reportVars
  <2> HIDE DEF s
  <2>3. \A t \in Servers, k \in Nodes :
           status'[t][k] = IF t = s /\ k = n THEN NODE_UP ELSE status[t][k]
    BY <1>1, <2>1, <2>2 DEF TypeOK
  <2>4. TablesDoubt' BY <1>1, <2>2, <2>3 DEF TablesDoubt
  <2>5. DownIsCorroborated' BY <1>1, <1>2, <2>2, VerdictsStay
  <2> QED BY <1>1, <2>2, <2>4, <2>5, ReportsStay
<1>5. ASSUME NEW s \in Servers, ApplyLog(s) PROVE Goal
  <2> DEFINE t == log[applied[s] + 1]
  <2>1. t.node \in Nodes
    <3>1. applied[s] + 1 \in 1 .. Len(log) /\ log \in Seq(Transitions)
      BY <1>1, <1>5, MonitorsConstants DEF ApplyLog, TypeOK
    <3>2. t \in Transitions BY <3>1
    <3> QED BY <3>2 DEF Transitions
  <2>2. SetStatus(s, t.node, t.new) \/ UNCHANGED <<status, doubted>> BY <1>5 DEF ApplyLog
  <2>3. UNCHANGED <<responses, seen>> BY <1>5 DEF ApplyLog, reportVars
  <2> HIDE DEF t
  <2>4. CASE SetStatus(s, t.node, t.new)
    <3>1. TablesDoubt' /\ doubted \subseteq doubted' BY <1>1, <2>1, <2>4, SetStatusDoubts
    <3>2. DownIsCorroborated' BY <1>1, <1>2, <3>1, VerdictsStay
    <3> QED BY <1>1, <2>3, <3>1, <3>2, ReportsStay
  <2> QED BY <1>3, <2>2, <2>3, <2>4
<1>6. ASSUME NEW s \in Servers, Respond(s) PROVE Goal
  <2> DEFINE r == [src |-> s, dst |-> leader, obs |-> get_observations(s)]
  <2>1. r.src = s /\ r.dst = leader /\ r.obs = get_observations(s) OBVIOUS
  <2>2. s # leader /\ responses' = responses \union {r} /\ UNCHANGED <<status, doubted, seen>>
    BY <1>6 DEF Respond, tableVars
  <2> HIDE DEF r
  <2>3. \A n \in DOMAIN r.obs : r.obs[n] = status[s][n] BY <2>1 DEF get_observations
  <2>4. DOMAIN r.obs \subseteq Nodes
    <3>1. r.obs \in Reports BY <1>1, <2>1, ObservationTypes
    <3> QED BY <3>1 DEF Reports
  <2>5. \A n \in DOMAIN r.obs : r.obs[n] # NODE_UP => <<s, n>> \in doubted
    BY <1>1, <2>3, <2>4 DEF TablesDoubt
  <2>6. ReportsDoubt' BY <1>1, <2>1, <2>2, <2>5 DEF ReportsDoubt
  <2>7. TablesDoubt' /\ MemoryDoubts' BY <1>1, <2>2 DEF TablesDoubt, MemoryDoubts
  <2>8. DownIsCorroborated' BY <1>1, <1>2, <2>2, VerdictsStay
  <2> QED BY <2>6, <2>7, <2>8
<1>7. ASSUME NEW m \in responses, RecvResponse(m) \/ LoseResponse(m) PROVE Goal
  <2>1. /\ UNCHANGED <<status, doubted>> /\ responses' \subseteq responses
        /\ \/ m.src \notin WidePeers /\ update_corroboration(m)
           \/ UNCHANGED seen
    BY <1>7 DEF RecvResponse, LoseResponse, update_corroboration, tableVars
  <2>2. m.src \in Servers /\ m.dst \in Servers BY <1>1 DEF TypeOK
  <2>3. TablesDoubt' /\ ReportsDoubt' BY <1>1, <2>1 DEF TablesDoubt, ReportsDoubt
  <2>4. DownIsCorroborated' BY <1>1, <1>2, <2>1, VerdictsStay
  <2>5. MemoryDoubts'
    <3>1. CASE UNCHANGED seen BY <1>1, <2>1, <3>1 DEF MemoryDoubts
    <3>2. CASE m.src \notin WidePeers /\ update_corroboration(m)
      <4> DEFINE row == [n \in Nodes |-> IF n \in DOMAIN m.obs \ WideIds THEN m.obs[n]
                                         ELSE seen[m.dst][m.src][n]]
      <4>1. seen' = [seen EXCEPT ![m.dst][m.src] = row] BY <3>2 DEF update_corroboration
      <4>2. \A n \in Nodes : row[n] # NODE_UP => m.src # m.dst /\ <<m.src, n>> \in doubted
        BY <1>1, <2>2 DEF ReportsDoubt, MemoryDoubts
      <4> HIDE DEF row
      <4>3. \A s, p \in Servers :
               seen'[s][p] = IF s = m.dst /\ p = m.src THEN row ELSE seen[s][p]
        BY <1>1, <2>2, <4>1 DEF TypeOK
      <4> QED BY <1>1, <2>1, <4>2, <4>3 DEF MemoryDoubts
    <3> QED BY <2>1, <3>1, <3>2
  <2> QED BY <2>3, <2>4, <2>5
<1>8. ASSUME \/ \E n \in Nodes : FallSilent(n) \/ Resume(n) \/ BecomesLate(n)
             \/ \E s \in Servers, n \in Nodes : BecomesDue(s, n)
             \/ \E s, p \in Servers : BecomesStale(s, p)
             \/ \E s \in Servers : ChangeLeader(s)
      PROVE  Goal
  <2>1. UNCHANGED <<status, doubted, responses, seen>>
    BY <1>8 DEF FallSilent, Resume, BecomesLate, BecomesDue, BecomesStale, ChangeLeader,
                tableVars, reportVars
  <2> QED BY <1>3, <2>1
<1> HIDE DEF Goal
<1>9. Goal BY <1>4, <1>5, <1>6, <1>7, <1>8 DEF Next
<1> QED BY <1>9 DEF Goal

\* The promise of corroboration, for any number of boxes: as long as every
\* node id fits the corroboration table, a DOWN that another box than the
\* node's own got into the log is backed by CORROBORATION_K other STM32s that
\* held the node SUSPECT or DOWN, however old the reports were.
THEOREM DownIsCorroboratedAlways ==
    ASSUME WideIds = {}
    PROVE  Spec => []DownIsCorroborated
<1>1. DoubtInv /\ [Next]_vars => DoubtInv'
  <2> SUFFICES ASSUME DoubtInv, [Next]_vars PROVE DoubtInv' OBVIOUS
  <2>1. TypeOK' BY TypeStep DEF DoubtInv
  <2>2. CASE Next
    <3>1. TablesDoubt' /\ ReportsDoubt' /\ MemoryDoubts' /\ DownIsCorroborated'
      BY <2>2, MonitorDoubts, OtherDoubts
    <3> QED BY <2>1, <3>1 DEF DoubtInv
  <2>3. CASE UNCHANGED vars
    <3>1. UNCHANGED <<status, doubted, responses, seen, log>>
      BY <2>3 DEF vars, tableVars, reportVars, raftVars
    <3>2. TablesDoubt' BY <3>1 DEF DoubtInv, TablesDoubt
    <3>3. ReportsDoubt' /\ MemoryDoubts' BY <3>1, ReportsStay DEF DoubtInv
    <3>4. DownIsCorroborated' BY <3>1, VerdictsStay DEF DoubtInv
    <3> QED BY <2>1, <3>2, <3>3, <3>4 DEF DoubtInv
  <2> QED BY <2>2, <2>3
<1>2. DoubtInv => DownIsCorroborated BY DEF DoubtInv
<1> QED BY <1>1, <1>2, InitDoubt, PTL DEF Spec
=============================================================================
