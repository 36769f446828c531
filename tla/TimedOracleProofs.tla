------------------------- MODULE TimedOracleProofs -------------------------
(***************************************************************************)
(* Proofs about LocalOracle with its compute nodes.  TimedOracle only      *)
(* restricts when LocalOracle may step, so what LocalOracleSafety proves   *)
(* holds here too; to that come the bounds the period of the nodes and the *)
(* prompt tasks make true: no node that keeps its period is suspected, and *)
(* no failure stays undetected for longer than DetectWithin.               *)
(***************************************************************************)
EXTENDS TimedOracle, LocalOracleSafety, FiniteSetTheorems

-----------------------------------------------------------------------------
(* TimedOracle is a LocalOracle *)

\* The steps of the environment are frames for eth_rx_task or nothing at all.
LEMMA TimedStep ==
    ASSUME [TimedNext]_timedVars PROVE [Next]_vars
<1>1. CASE TimedTick
  BY <1>1 DEF TimedTick, Next
<1>2. CASE Tasks
  BY <1>2 DEF Tasks, Next
<1>3. CASE RaftTimerExpires
  BY <1>3 DEF RaftTimerExpires, Next
<1>4. ASSUME NEW n \in Nodes, Start(n) \/ SendHeartbeat(n) \/ Resume(n)
      PROVE  [Next]_vars
  <2>1. /\ [type |-> "announce", src |-> n] \in Frames
        /\ [type |-> "heartbeat", src |-> n] \in Frames
    BY DEF Frames
  <2>2. \E m \in Frames : EthRx(m)
    BY <1>4, <2>1 DEF Start, SendHeartbeat, Resume
  <2> QED BY <2>2 DEF Next
<1>5. ASSUME NEW n \in Nodes, LoseHeartbeat(n) \/ Stop(n)
      PROVE  [Next]_vars
  BY <1>5 DEF LoseHeartbeat, Stop
<1>6. CASE UNCHANGED timedVars
  BY <1>6 DEF timedVars
<1> QED BY <1>1, <1>2, <1>3, <1>4, <1>5, <1>6 DEF TimedNext

\* With compute nodes that keep their period and tasks that keep up, the
\* firmware of main.c does nothing that it could not do in LocalOracle: every
\* property proved of LocalOracle holds of TimedOracle.
THEOREM TimedImplementsLocal == TimedSpec => Spec
<1>1. TimedInit => Init
  BY DEF TimedInit
<1>2. [TimedNext]_timedVars => [Next]_vars
  BY TimedStep
<1> QED BY <1>1, <1>2, PTL DEF TimedSpec, Spec

\* Table, log, verdicts and the silence the slots know of, in TimedOracle.
Base == Structure /\ Agreement /\ Timing

\* What holds of LocalOracle holds with its compute nodes.
LEMMA BaseInvariant == TimedSpec => []Base
<1>1. Init => Base
  BY StructureInit, AgreementInit, TimingInit DEF Base
<1>2. Base /\ [Next]_vars => Base'
  BY StructureNext, AgreementNext, TimingNext DEF Base
<1>3. Spec => []Base
  BY <1>1, <1>2, PTL DEF Spec
<1> QED BY <1>3, TimedImplementsLocal, PTL

-----------------------------------------------------------------------------
(* Types *)

\* A heartbeat period fits under the cap of the ghost clock.
LEMMA PeriodFits ==
    /\ HB_INTERVAL_MS \in Nat \ {0} /\ SILENCE_CAP \in Nat
    /\ HB_INTERVAL_MS <= SuspectAfter /\ SuspectAfter < SILENCE_CAP
    /\ SuspectAfter \in Nat
<1>1. /\ HB_INTERVAL_MS \in Nat \ {0} /\ SUSPECT_THRESHOLD \in Nat \ {0}
      /\ DOWN_TIMEOUT_MS \in Nat \ {0}
  BY MonitorConstants
<1>2. /\ SuspectAfter \in Nat /\ SILENCE_CAP \in Nat
      /\ SILENCE_CAP >= SuspectAfter + DOWN_TIMEOUT_MS
  BY Thresholds
<1>3. 1 * HB_INTERVAL_MS <= SUSPECT_THRESHOLD * HB_INTERVAL_MS
  BY <1>1
<1> QED BY <1>1, <1>2, <1>3 DEF SuspectAfter

\* No step takes the environment out of its types.
LEMMA TimedTypeNext ==
    ASSUME TimedTypeOK, [TimedNext]_timedVars PROVE TimedTypeOK'
<1> USE PeriodFits, EnvironmentConstants DEF TimedTypeOK, Sending
<1>1. CASE TimedTick
  <2>1. /\ since_timer' = since_timer + 1 /\ since_timer < ORACLE_TICK_MS
        /\ UNCHANGED <<sender, lost, stops, restarts>>
        /\ \A n \in Nodes : ~(Sending(n) /\ since_tx[n] = HB_INTERVAL_MS)
        /\ since_tx' = [n \in Nodes |->
                      IF sender[n] # "off" /\ since_tx[n] < SILENCE_CAP
                      THEN since_tx[n] + 1 ELSE since_tx[n]]
    BY <1>1 DEF TimedTick, HeartbeatDue
  <2>2. since_tx' \in [Nodes -> 0 .. SILENCE_CAP]
    BY <2>1
  <2>3. \A n \in Nodes : Sending(n)' => since_tx'[n] <= HB_INTERVAL_MS
    BY <2>1
  <2> QED BY <2>1, <2>2, <2>3
<1>2. CASE Tasks
  BY <1>2 DEF Tasks, envVars
<1>3. CASE RaftTimerExpires
  BY <1>3 DEF RaftTimerExpires, envVars
<1>4. ASSUME NEW n \in Nodes, Start(n)
      PROVE  TimedTypeOK'
  BY <1>4 DEF Start
<1>5. ASSUME NEW n \in Nodes, SendHeartbeat(n)
      PROVE  TimedTypeOK'
  BY <1>5 DEF SendHeartbeat
<1>6. ASSUME NEW n \in Nodes, LoseHeartbeat(n)
      PROVE  TimedTypeOK'
  BY <1>6 DEF LoseHeartbeat
<1>7. ASSUME NEW n \in Nodes, Stop(n)
      PROVE  TimedTypeOK'
  BY <1>7 DEF Stop
<1>8. ASSUME NEW n \in Nodes, Resume(n)
      PROVE  TimedTypeOK'
  BY <1>8 DEF Resume
<1>9. CASE UNCHANGED timedVars
  BY <1>9 DEF timedVars, envVars
<1> QED BY <1>1, <1>2, <1>3, <1>4, <1>5, <1>6, <1>7, <1>8, <1>9 DEF TimedNext

\* The state of the compute nodes and of raft_timer stays in its range; a
\* node that sends has sent, or should have, within HB_INTERVAL_MS.
THEOREM TimedTypeCorrect == TimedSpec => []TimedTypeOK
<1>1. TimedInit => TimedTypeOK
  BY PeriodFits, EnvironmentConstants DEF TimedInit, TimedTypeOK, Sending
<1>2. TimedTypeOK /\ [TimedNext]_timedVars => TimedTypeOK'
  BY TimedTypeNext
<1> QED BY <1>1, <1>2, PTL DEF TimedSpec

-----------------------------------------------------------------------------
(* No false suspicion *)

\* The nodes that may send a frame before the clock advances, and those that
\* may send an announcement and a heartbeat.
MaySend ==
    {n \in Nodes : \/ HeartbeatDue(n) \/ sender[n] = "off"
                   \/ sender[n] = "stopped" /\ since_tx[n] > 0}
MaySendTwice ==
    {n \in Nodes : \/ sender[n] = "off"
                   \/ sender[n] = "stopped" /\ since_tx[n] >= HB_INTERVAL_MS}

\* What waits in hb_inbox and what may join it: the clock advances only when
\* hb_inbox is empty.
InboxBounded ==
    Len(hb_inbox) + Cardinality(MaySend) + Cardinality(MaySendTwice)
        <= 2 * Cardinality(Nodes)

\* Every node may announce itself and send a heartbeat in one tick.
FramesFit == IsFiniteSet(Nodes) /\ 2 * Cardinality(Nodes) <= HB_INBOX_DEPTH

\* There is room for the frame of a node that may send one: eth_rx_task drops
\* none.
RoomInInbox == MaySend # {} => Len(hb_inbox) < HB_INBOX_DEPTH

\* A node that sends has been silent for the heartbeats lost and the time
\* since its last one, unless a frame of it is on its way to health_task.
KeepsPeriod(n) ==
    Sending(n) /\ ~Queued(n) => silence[n] <= lost[n] * HB_INTERVAL_MS + since_tx[n]

PeriodsKept == \A n \in Nodes : KeepsPeriod(n)

\* A frame put into hb_inbox is there, with the ones that were.
LEMMA FrameQueued ==
    ASSUME Structure, Len(hb_inbox) < HB_INBOX_DEPTH, NEW m \in Frames, EthRx(m)
    PROVE  /\ Queued(m.src)' /\ \A n : Queued(n) => Queued(n)'
           /\ UNCHANGED silence
<1>1. hb_inbox \in Seq(Frames) /\ hb_inbox' = Append(hb_inbox, m) /\ UNCHANGED silence
  BY DEF Structure, TypeOK, QueueTypeOK, EthRx, ghostVars
<1>2. /\ Len(hb_inbox') = Len(hb_inbox) + 1 /\ Len(hb_inbox) \in Nat
      /\ hb_inbox'[Len(hb_inbox) + 1] = m
      /\ \A k \in 1 .. Len(hb_inbox) : hb_inbox'[k] = hb_inbox[k]
  BY <1>1
<1> QED BY <1>1, <1>2 DEF Queued

\* Taking a frame out resets the silence of its sender and leaves the frames
\* of the others.
LEMMA FrameTaken ==
    ASSUME Structure, ProcessHeartbeat \/ ProcessAnnounce, NEW n \in Nodes
    PROVE  \/ silence'[n] = 0
           \/ silence'[n] = silence[n] /\ (Queued(n) => Queued(n)')
<1> DEFINE src == Head(hb_inbox).src
<1>1. /\ hb_inbox \in Seq(Frames) /\ hb_inbox # <<>> /\ hb_inbox' = Tail(hb_inbox)
      /\ silence' = [silence EXCEPT ![src] = 0]
      /\ silence \in [Nodes -> 0 .. SILENCE_CAP]
  BY ClockTypes DEF Structure, TypeOK, QueueTypeOK, ProcessHeartbeat, ProcessAnnounce,
     NextFrame
<1>2. /\ Len(hb_inbox) \in Nat \ {0} /\ Len(hb_inbox') = Len(hb_inbox) - 1
      /\ src = hb_inbox[1].src
      /\ \A k \in 1 .. Len(hb_inbox) - 1 : hb_inbox'[k] = hb_inbox[k + 1]
  BY <1>1
<1> HIDE DEF src
<1>3. CASE n = src
  BY <1>1, <1>3
<1>4. CASE n # src
  <2>1. silence'[n] = silence[n]
    BY <1>1, <1>4
  <2>2. ASSUME NEW k \in 1 .. Len(hb_inbox), hb_inbox[k].src = n
        PROVE  Queued(n)'
    <3>1. k - 1 \in 1 .. Len(hb_inbox') /\ hb_inbox'[k - 1] = hb_inbox[k]
      <4>1. k # 1
        BY <1>2, <1>4, <2>2
      <4>2. k - 1 \in 1 .. Len(hb_inbox) - 1 /\ (k - 1) + 1 = k
        BY <1>2, <4>1
      <4> QED BY <1>2, <4>2
    <3> QED BY <2>2, <3>1 DEF Queued
  <2> QED BY <2>1, <2>2 DEF Queued
<1> QED BY <1>3, <1>4

\* The steps of the tasks that take no frame change neither the queue nor the
\* silences.
LEMMA OtherTaskSteps ==
    ASSUME HealthTask \/ RaftTask \/ RaftTimerCallback,
           ~ProcessHeartbeat, ~ProcessAnnounce
    PROVE  UNCHANGED <<hb_inbox, silence, tick>>
BY DEF HealthTask, RaftTask, ReceiveTimeout, TickBegin, TickSlot, StoreDecided,
   StoreRecovered, TickEnd, RaftTimerCallback, OracleTick, ApplyLog, ghostVars

-----------------------------------------------------------------------------
(* hb_inbox is large enough *)

\* A set without one of its elements is smaller.
LEMMA Smaller ==
    ASSUME NEW S, IsFiniteSet(S), NEW x \in S, NEW T, T \subseteq S \ {x}
    PROVE  Cardinality(T) + 1 <= Cardinality(S) /\ Cardinality(T) \in Nat
<1>1. IsFiniteSet(S \ {x}) /\ Cardinality(S \ {x}) = Cardinality(S) - 1
  BY FS_RemoveElement
<1>2. Cardinality(T) <= Cardinality(S \ {x}) /\ IsFiniteSet(T)
  BY <1>1, FS_Subset
<1>3. Cardinality(T) \in Nat /\ Cardinality(S) \in Nat
  BY <1>2, FS_CardinalityType
<1> QED BY <1>1, <1>2, <1>3

\* The nodes that may send are finitely many.
LEMMA SenderSets ==
    ASSUME FramesFit
    PROVE  /\ IsFiniteSet(MaySend) /\ IsFiniteSet(MaySendTwice)
           /\ Cardinality(MaySend) \in Nat /\ Cardinality(MaySendTwice) \in Nat
           /\ Cardinality(Nodes) \in Nat
           /\ Cardinality(MaySend) <= Cardinality(Nodes)
           /\ Cardinality(MaySendTwice) <= Cardinality(Nodes)
<1>1. MaySend \subseteq Nodes /\ MaySendTwice \subseteq Nodes /\ IsFiniteSet(Nodes)
  BY DEF MaySend, MaySendTwice, FramesFit
<1>2. /\ IsFiniteSet(MaySend) /\ Cardinality(MaySend) <= Cardinality(Nodes)
      /\ IsFiniteSet(MaySendTwice) /\ Cardinality(MaySendTwice) <= Cardinality(Nodes)
  BY <1>1, FS_Subset
<1> QED BY <1>1, <1>2, FS_CardinalityType

\* In the next state.
LEMMA SenderSetsNext ==
    ASSUME FramesFit
    PROVE  /\ IsFiniteSet(MaySend') /\ IsFiniteSet(MaySendTwice')
           /\ Cardinality(MaySend') \in Nat /\ Cardinality(MaySendTwice') \in Nat
           /\ Cardinality(MaySend') <= Cardinality(Nodes)
           /\ Cardinality(MaySendTwice') <= Cardinality(Nodes)
<1>1. MaySend' \subseteq Nodes /\ MaySendTwice' \subseteq Nodes /\ IsFiniteSet(Nodes)
  BY DEF MaySend, MaySendTwice, FramesFit
<1>2. /\ IsFiniteSet(MaySend') /\ Cardinality(MaySend') <= Cardinality(Nodes)
      /\ IsFiniteSet(MaySendTwice') /\ Cardinality(MaySendTwice') <= Cardinality(Nodes)
  BY <1>1, FS_Subset
<1> QED BY <1>1, <1>2, FS_CardinalityType

\* A frame makes hb_inbox longer by one at most.
LEMMA OneMoreFrame ==
    ASSUME Structure, NEW m, EthRx(m)
    PROVE  Len(hb_inbox') \in Nat /\ Len(hb_inbox) \in Nat /\ Len(hb_inbox') <= Len(hb_inbox) + 1
<1>1. hb_inbox \in Seq(Frames) /\ HB_INBOX_DEPTH \in Nat \ {0}
  BY OracleConstants DEF Structure, TypeOK, QueueTypeOK
<1>2. CASE Len(hb_inbox) < HB_INBOX_DEPTH
  <2>1. hb_inbox' = Append(hb_inbox, m)
    BY <1>2 DEF EthRx
  <2> QED BY <1>1, <2>1
<1>3. CASE ~(Len(hb_inbox) < HB_INBOX_DEPTH)
  <2>1. hb_inbox' = Append(Tail(hb_inbox), m) /\ hb_inbox # <<>>
    BY <1>1, <1>3 DEF EthRx
  <2>2. Tail(hb_inbox) \in Seq(Frames) /\ Len(Tail(hb_inbox)) = Len(hb_inbox) - 1
    BY <1>1, <2>1
  <2>3. Len(Append(Tail(hb_inbox), m)) = Len(Tail(hb_inbox)) + 1
    BY <2>2
  <2> QED BY <1>1, <2>1, <2>2, <2>3
<1> QED BY <1>2, <1>3

\* A step of one node leaves alone what the others may send.
LEMMA OthersMaySend ==
    ASSUME NEW p \in Nodes,
           \A q \in Nodes : q # p => sender'[q] = sender[q] /\ since_tx'[q] = since_tx[q]
    PROVE  /\ MaySend' \subseteq MaySend \union {p}
           /\ MaySendTwice' \subseteq MaySendTwice \union {p}
BY DEF MaySend, MaySendTwice, HeartbeatDue, Sending

\* A node uses up what it may send.
LEMMA InboxBoundedNext ==
    ASSUME FramesFit, Structure, TimedTypeOK, InboxBounded, [TimedNext]_timedVars
    PROVE  InboxBounded'
<1> DEFINE L == Len(hb_inbox)
           A == Cardinality(MaySend)
           B == Cardinality(MaySendTwice)
           N == Cardinality(Nodes)
<1>1. /\ hb_inbox \in Seq(Frames) /\ L \in Nat
      /\ sender \in [Nodes -> {"off", "sending", "stopped"}]
      /\ since_tx \in [Nodes -> 0 .. SILENCE_CAP]
      /\ HB_INTERVAL_MS \in Nat \ {0}
  BY PeriodFits DEF Structure, TypeOK, QueueTypeOK, TimedTypeOK
<1>2. /\ IsFiniteSet(MaySend) /\ IsFiniteSet(MaySendTwice)
      /\ A \in Nat /\ B \in Nat /\ N \in Nat /\ A' \in Nat /\ B' \in Nat
      /\ A' <= N /\ B' <= N
  BY SenderSets, SenderSetsNext
<1>3. L + A + B <= 2 * N
  BY DEF InboxBounded
<1>4. SUFFICES L' + A' + B' <= 2 * N
  BY DEF InboxBounded
<1>5. CASE TimedTick
  <2>1. hb_inbox' = <<>>
    BY <1>5 DEF TimedTick, Idle, Tick
  <2>2. L' = 0
    BY <2>1
  <2> QED BY <1>2, <2>2
<1>6. ASSUME UNCHANGED <<sender, since_tx>>, L' \in Nat, L' <= L
      PROVE  L' + A' + B' <= 2 * N
  <2>1. MaySend' = MaySend /\ MaySendTwice' = MaySendTwice
    BY <1>6 DEF MaySend, MaySendTwice, HeartbeatDue, Sending
  <2>2. A' = A /\ B' = B
    BY <2>1
  <2> QED BY <1>1, <1>2, <1>3, <1>6, <2>2
<1>7. CASE Tasks \/ RaftTimerExpires
  <2>1. UNCHANGED <<sender, since_tx>> /\ (HealthTask \/ RaftTask \/ RaftTimerCallback)
    BY <1>7 DEF Tasks, RaftTimerExpires, envVars
  <2>2. CASE ProcessHeartbeat \/ ProcessAnnounce
    <3>1. hb_inbox # <<>> /\ hb_inbox' = Tail(hb_inbox)
      BY <2>2 DEF ProcessHeartbeat, ProcessAnnounce, NextFrame
    <3>2. L' \in Nat /\ L' <= L
      BY <1>1, <3>1
    <3> QED BY <1>6, <2>1, <3>2
  <2>3. CASE ~ProcessHeartbeat /\ ~ProcessAnnounce
    <3>1. hb_inbox' = hb_inbox
      BY <2>1, <2>3, OtherTaskSteps
    <3>2. L' \in Nat /\ L' <= L
      BY <1>1, <3>1
    <3> QED BY <1>6, <2>1, <3>2
  <2> QED BY <2>2, <2>3
<1>8. ASSUME NEW p \in Nodes,
             Start(p) \/ SendHeartbeat(p) \/ Resume(p) \/ LoseHeartbeat(p) \/ Stop(p)
      PROVE  /\ MaySend' \subseteq MaySend \union {p}
             /\ MaySendTwice' \subseteq MaySendTwice \union {p}
  <2>1. \A q \in Nodes : q # p => sender'[q] = sender[q] /\ since_tx'[q] = since_tx[q]
    BY <1>1, <1>8 DEF Start, SendHeartbeat, Resume, LoseHeartbeat, Stop
  <2> QED BY <2>1, OthersMaySend
<1>9. ASSUME NEW p \in Nodes, Start(p)
      PROVE  L' + A' + B' <= 2 * N
  <2>1. p \in MaySendTwice /\ p \in MaySend
    BY <1>1, <1>9 DEF Start, MaySend, MaySendTwice
  <2>2. sender'[p] = "sending"
    BY <1>1, <1>9 DEF Start
  <2>3. p \notin MaySendTwice'
    BY <2>2 DEF MaySendTwice
  <2>4. MaySend' \subseteq MaySend /\ MaySendTwice' \subseteq MaySendTwice \ {p}
    BY <1>8, <1>9, <2>1, <2>3
  <2>5. A' <= A /\ B' + 1 <= B
    BY <1>2, <2>1, <2>4, FS_Subset, Smaller
  <2>6. L' \in Nat /\ L' <= L + 1
    BY <1>9, OneMoreFrame DEF Start
  <2> QED BY <1>1, <1>2, <1>3, <2>5, <2>6
<1>10. ASSUME NEW p \in Nodes, SendHeartbeat(p) \/ Resume(p) \/ LoseHeartbeat(p) \/ Stop(p)
       PROVE  /\ MaySend' \subseteq MaySend \ {p} /\ MaySendTwice' \subseteq MaySendTwice
              /\ A' <= A /\ B' <= B
  <2>1. since_tx'[p] = 0 /\ sender'[p] # "off"
    BY <1>1, <1>10 DEF SendHeartbeat, Resume, LoseHeartbeat, Stop, HeartbeatDue, Sending
  <2>2. p \notin MaySend' /\ p \notin MaySendTwice'
    BY <1>1, <2>1 DEF MaySend, MaySendTwice, HeartbeatDue, Sending
  <2>3. MaySend' \subseteq MaySend \ {p} /\ MaySendTwice' \subseteq MaySendTwice
    BY <1>8, <1>10, <2>2
  <2> QED BY <1>2, <2>3, FS_Subset
<1>11. ASSUME NEW p \in Nodes, SendHeartbeat(p) \/ Resume(p)
       PROVE  L' + A' + B' <= 2 * N
  <2>1. p \in MaySend
    BY <1>11 DEF SendHeartbeat, Resume, MaySend
  <2>2. A' + 1 <= A /\ B' <= B
    BY <1>2, <1>10, <1>11, <2>1, Smaller
  <2>3. L' \in Nat /\ L' <= L + 1
    BY <1>11, OneMoreFrame DEF SendHeartbeat, Resume
  <2> QED BY <1>1, <1>2, <1>3, <2>2, <2>3
<1>12. ASSUME NEW p \in Nodes, LoseHeartbeat(p) \/ Stop(p)
       PROVE  L' + A' + B' <= 2 * N
  <2>1. hb_inbox' = hb_inbox
    BY <1>12 DEF LoseHeartbeat, Stop, vars
  <2>2. L' = L /\ A' <= A /\ B' <= B
    BY <1>10, <1>12, <2>1
  <2> QED BY <1>1, <1>2, <1>3, <2>2
<1>13. CASE UNCHANGED timedVars
  BY <1>1, <1>6, <1>13 DEF timedVars, envVars, vars
<1> QED BY <1>5, <1>7, <1>9, <1>11, <1>12, <1>13 DEF TimedNext

\* No frame of a compute node is dropped by eth_rx_task: hb_inbox never holds
\* more than two frames per node, an announcement and a heartbeat.
LEMMA InboxAlwaysBounded ==
    ASSUME FramesFit PROVE TimedSpec => []InboxBounded
<1>1. TimedInit => InboxBounded
  <2>1. SUFFICES ASSUME TimedInit PROVE InboxBounded
    OBVIOUS
  <2>2. Len(hb_inbox) = 0
    BY <2>1 DEF TimedInit, Init
  <2> QED BY <2>2, SenderSets DEF InboxBounded
<1>2. Structure /\ TimedTypeOK /\ InboxBounded /\ [TimedNext]_timedVars => InboxBounded'
  BY InboxBoundedNext
<1>3. Base => Structure
  BY DEF Base
<1> QED BY <1>1, <1>2, <1>3, BaseInvariant, TimedTypeCorrect, PTL DEF TimedSpec

\* A node that may send a frame finds room for it.
LEMMA RoomForFrames ==
    ASSUME FramesFit, Structure, InboxBounded PROVE RoomInInbox
<1>1. SUFFICES ASSUME NEW p \in MaySend PROVE Len(hb_inbox) < HB_INBOX_DEPTH
  BY DEF RoomInInbox
<1>2. /\ Cardinality(MaySend) \in Nat /\ Cardinality(MaySendTwice) \in Nat
      /\ Cardinality(Nodes) \in Nat /\ IsFiniteSet(MaySend)
  BY SenderSets
<1>3. Cardinality({}) + 1 <= Cardinality(MaySend) /\ Cardinality({}) \in Nat
  BY <1>2, Smaller
<1>4. Len(hb_inbox) \in Nat /\ HB_INBOX_DEPTH \in Nat
  BY OracleConstants DEF Structure, TypeOK, QueueTypeOK
<1> QED BY <1>2, <1>3, <1>4 DEF InboxBounded, FramesFit

-----------------------------------------------------------------------------
(* Nodes that keep their period *)

\* One more period lost.
LEMMA OneMorePeriod ==
    ASSUME NEW k \in Nat, NEW h \in Nat
    PROVE  (k + 1) * h = k * h + h /\ k * h \in Nat
OBVIOUS

\* As long as no frame is dropped, every step keeps the periods.
LEMMA PeriodsKeptNext ==
    ASSUME Structure, TimedTypeOK, RoomInInbox, PeriodsKept, [TimedNext]_timedVars
    PROVE  PeriodsKept'
<1>0. SUFFICES ASSUME NEW n \in Nodes PROVE KeepsPeriod(n)'
  BY DEF PeriodsKept
<1> DEFINE h == HB_INTERVAL_MS
<1>1. /\ since_tx \in [Nodes -> 0 .. SILENCE_CAP] /\ lost \in [Nodes -> Nat]
      /\ silence \in [Nodes -> 0 .. SILENCE_CAP]
      /\ sender \in [Nodes -> {"off", "sending", "stopped"}]
      /\ since_tx[n] \in Nat /\ lost[n] \in Nat /\ silence[n] \in 0 .. SILENCE_CAP
      /\ h \in Nat \ {0} /\ h < SILENCE_CAP /\ SILENCE_CAP \in Nat
      /\ Sending(n) => since_tx[n] <= h
  BY ClockTypes, PeriodFits, EnvironmentConstants DEF TimedTypeOK
<1>2. lost[n] * h \in Nat /\ (lost[n] + 1) * h = lost[n] * h + h
  BY <1>1, OneMorePeriod
<1>3. KeepsPeriod(n)
  BY DEF PeriodsKept
<1> USE DEF KeepsPeriod, Sending
<1>4. CASE TimedTick
  <2>1. /\ UNCHANGED <<sender, lost, hb_inbox>>
        /\ ~(Sending(n) /\ since_tx[n] = h)
        /\ since_tx'[n] = IF sender[n] # "off" /\ since_tx[n] < SILENCE_CAP
                          THEN since_tx[n] + 1 ELSE since_tx[n]
        /\ silence'[n] = IF silence[n] < SILENCE_CAP THEN silence[n] + 1 ELSE silence[n]
    BY <1>4 DEF TimedTick, Tick, HeartbeatDue
  <2>2. Queued(n)' = Queued(n)
    BY <2>1 DEF Queued
  <2> HIDE DEF h
  <2>3. SUFFICES ASSUME Sending(n), ~Queued(n)
                 PROVE  silence'[n] <= lost[n] * h + since_tx'[n]
    BY <2>1, <2>2 DEF h
  <2>4. since_tx'[n] = since_tx[n] + 1
    BY <1>1, <2>1, <2>3
  <2>5. silence[n] <= lost[n] * h + since_tx[n] /\ silence'[n] <= silence[n] + 1
    BY <1>1, <1>3, <2>1, <2>3 DEF h
  <2> QED BY <1>1, <1>2, <2>1, <2>4, <2>5
<1>5. ASSUME UNCHANGED envVars, ProcessHeartbeat \/ ProcessAnnounce
      PROVE  KeepsPeriod(n)'
  <2>1. UNCHANGED <<sender, lost, since_tx>>
    BY <1>5 DEF envVars
  <2>2. \/ silence'[n] = 0
        \/ silence'[n] = silence[n] /\ (Queued(n) => Queued(n)')
    BY <1>5, FrameTaken
  <2>3. 0 <= lost[n] * h + since_tx[n]
    BY <1>1, <1>2
  <2> QED BY <1>3, <2>1, <2>2, <2>3
<1>6. ASSUME UNCHANGED <<sender, lost, since_tx, hb_inbox, silence>>
      PROVE  KeepsPeriod(n)'
  <2>1. Queued(n)' = Queued(n)
    BY <1>6 DEF Queued
  <2> QED BY <1>3, <1>6, <2>1
<1>7. CASE Tasks \/ RaftTimerExpires
  <2>1. (HealthTask \/ RaftTask \/ RaftTimerCallback) /\ UNCHANGED envVars
    BY <1>7 DEF Tasks, RaftTimerExpires
  <2>2. ~ProcessHeartbeat /\ ~ProcessAnnounce =>
           UNCHANGED <<sender, lost, since_tx, hb_inbox, silence>>
    BY <2>1, OtherTaskSteps DEF envVars
  <2> QED BY <1>5, <1>6, <2>1, <2>2
<1>8. ASSUME NEW p \in Nodes, NEW m \in Frames, EthRx(m), m.src = p,
             Len(hb_inbox) < HB_INBOX_DEPTH,
             \A q \in Nodes : q # p => /\ sender'[q] = sender[q] /\ lost'[q] = lost[q]
                                      /\ since_tx'[q] = since_tx[q]
      PROVE  KeepsPeriod(n)'
  <2>1. /\ Queued(p)' /\ (Queued(n) => Queued(n)') /\ UNCHANGED silence
    BY <1>8, FrameQueued
  <2> QED BY <1>3, <1>8, <2>1
<1>9. ASSUME NEW p \in Nodes, Start(p) \/ SendHeartbeat(p) \/ Resume(p)
      PROVE  KeepsPeriod(n)'
  <2>1. \A q \in Nodes : q # p => /\ sender'[q] = sender[q] /\ lost'[q] = lost[q]
                                  /\ since_tx'[q] = since_tx[q]
    BY <1>1, <1>9 DEF Start, SendHeartbeat, Resume
  <2>2. PICK m \in Frames : EthRx(m) /\ m.src = p
    BY <1>9 DEF Start, SendHeartbeat, Resume, Frames
  <2>3. p \in MaySend
    BY <1>1, <1>9 DEF Start, SendHeartbeat, Resume, MaySend, HeartbeatDue
  <2>4. Len(hb_inbox) < HB_INBOX_DEPTH
    BY <2>3 DEF RoomInInbox
  <2> QED BY <1>8, <2>1, <2>2, <2>4
<1>10. ASSUME NEW p \in Nodes, LoseHeartbeat(p)
       PROVE  KeepsPeriod(n)'
  <2>1. UNCHANGED <<sender, hb_inbox, silence>>
    BY <1>10 DEF LoseHeartbeat, vars, ghostVars
  <2>2. Queued(n)' = Queued(n)
    BY <2>1 DEF Queued
  <2>3. CASE n # p
    <3>1. lost'[n] = lost[n] /\ since_tx'[n] = since_tx[n]
      BY <1>1, <1>10, <2>3 DEF LoseHeartbeat
    <3> QED BY <1>3, <2>1, <2>2, <3>1
  <2>4. CASE n = p
    <3>1. lost'[n] = lost[n] + 1 /\ since_tx'[n] = 0 /\ since_tx[n] = h
      BY <1>1, <1>10, <2>4 DEF LoseHeartbeat, HeartbeatDue
    <3> HIDE DEF h
    <3>2. lost'[n] * h + since_tx'[n] = lost[n] * h + since_tx[n]
      BY <1>1, <1>2, <3>1
    <3> QED BY <1>3, <2>1, <2>2, <3>2 DEF h
  <2> QED BY <2>3, <2>4
<1>11. ASSUME NEW p \in Nodes, Stop(p)
       PROVE  KeepsPeriod(n)'
  <2>1. UNCHANGED <<hb_inbox, silence>>
    BY <1>11 DEF Stop, vars, ghostVars
  <2>2. Queued(n)' = Queued(n)
    BY <2>1 DEF Queued
  <2>3. CASE n # p
    <3>1. lost'[n] = lost[n] /\ since_tx'[n] = since_tx[n] /\ sender'[n] = sender[n]
      BY <1>1, <1>11, <2>3 DEF Stop
    <3> QED BY <1>3, <2>1, <2>2, <3>1
  <2>4. CASE n = p
    BY <1>1, <1>11, <2>4 DEF Stop
  <2> QED BY <2>3, <2>4
<1>12. CASE UNCHANGED timedVars
  BY <1>6, <1>12 DEF timedVars, envVars, vars, ghostVars
<1> QED BY <1>4, <1>7, <1>9, <1>10, <1>11, <1>12 DEF TimedNext

\* Two clock values with no time between them are the same.
LEMMA AgeIsNoTime ==
    ASSUME NEW t \in Ticks, NEW w \in Ticks
    PROVE  Elapsed(t, w) \in Nat /\ (w # t => Elapsed(t, w) # 0)
BY MonitorConstants DEF Ticks, Elapsed

\* Who is decided SUSPECT has been silent for SUSPECT_THRESHOLD periods.
LEMMA SuspectedIsSilent ==
    ASSUME Base, [Next]_vars, NEW n \in Nodes,
           verdict[n] = NODE_UP, verdict'[n] = NODE_SUSPECT
    PROVE  silence[n] >= SuspectAfter /\ (now # tick => silence[n] > SuspectAfter)
<1>1. Structure /\ Timing /\ verdict \in [Nodes -> Statuses]
  BY LogTypes DEF Base
<1>2. TickSlot
  <2> USE DEF NODE_UP, NODE_SUSPECT, NODE_DOWN
  <2>1. CASE ProcessHeartbeat
    BY <1>1, <2>1, HeartbeatStep
  <2>2. CASE ProcessAnnounce
    BY <1>1, <2>2, AnnounceStep
  <2>3. verdict' # verdict
    BY <1>1
  <2> QED BY <2>1, <2>2, <2>3 DEF Next, vars, HealthTask, RaftTask, Tick, EthRx,
         ReceiveTimeout, TickBegin, TickEnd, StoreDecided, StoreRecovered,
         RaftTimerCallback, OracleTick, ApplyLog, ghostVars
<1>3. PICK i \in 1 .. Len(table) :
          /\ table'[i].miss_count = count_misses(table[i], now)
          /\ \/ UNCHANGED <<pc, store, log, verdict>>
             \/ \E new \in Statuses :
                   /\ verdict' = [verdict EXCEPT ![table[i].node_id] = new]
                   /\ \/ table[i].status = NODE_UP /\ new = NODE_SUSPECT
                         /\ table'[i].miss_count >= SUSPECT_THRESHOLD
                      \/ table[i].status = NODE_SUSPECT /\ new = NODE_DOWN
  BY <1>1, <1>2, TickSlotStep
<1> USE DEF NODE_UP, NODE_SUSPECT, NODE_DOWN
<1>4. table[i].node_id = n /\ count_misses(table[i], now) >= SUSPECT_THRESHOLD
  <2>1. PICK new \in Statuses :
                   /\ verdict' = [verdict EXCEPT ![table[i].node_id] = new]
                   /\ \/ new = NODE_SUSPECT /\ table'[i].miss_count >= SUSPECT_THRESHOLD
                      \/ new = NODE_DOWN
    BY <1>3
  <2>2. table[i].node_id = n /\ new = NODE_SUSPECT
    BY <1>1, <2>1
  <2> QED BY <1>3, <2>1, <2>2
<1>5. Silent(silence[n], tick, now, SuspectAfter)
  <2>1. table[i] \in Slots /\ SlotIsSilence(table[i])
    BY <1>1, ClockTypes DEF Timing
  <2> QED BY <1>1, <1>4, <2>1, CountedSilence DEF SilentFor
<1>6. /\ Elapsed(tick, now) \in Nat /\ silence[n] \in Nat
      /\ now # tick => Elapsed(tick, now) # 0
  <2>1. tick \in Ticks /\ now \in Ticks /\ silence[n] \in Nat
    BY <1>1, ClockTypes, OracleConstants
  <2> QED BY <2>1, AgeIsNoTime
<1> QED BY <1>5, <1>6, PeriodFits DEF Silent

\* For every number of nodes and every value of the thresholds: a node that
\* keeps its period and loses fewer than SUSPECT_THRESHOLD heartbeats in a
\* row is not suspected by health_monitor_tick(), if hb_inbox has room for two
\* frames of each node.
THEOREM NoFalseSuspicionEver ==
    ASSUME MAX_LOST < SUSPECT_THRESHOLD, FramesFit
    PROVE  TimedSpec => NoFalseSuspicion
<1>1. TimedInit => PeriodsKept
  BY DEF TimedInit, PeriodsKept, KeepsPeriod, Sending
<1>2. Base /\ TimedTypeOK /\ InboxBounded /\ PeriodsKept /\ [TimedNext]_timedVars
         => PeriodsKept'
  BY PeriodsKeptNext, RoomForFrames DEF Base
<1>3. Base /\ TimedTypeOK /\ PeriodsKept /\ [TimedNext]_timedVars =>
         [\A n \in Nodes :
             verdict[n] = NODE_UP /\ verdict'[n] = NODE_SUSPECT =>
                \/ ~Sending(n) \/ Queued(n)
                \/ /\ now = tick
                   /\ lost[n] + 1 = SUSPECT_THRESHOLD
                   /\ since_tx[n] = HB_INTERVAL_MS]_timedVars
  <2>1. SUFFICES ASSUME Base, TimedTypeOK, PeriodsKept, [TimedNext]_timedVars,
                        NEW n \in Nodes, verdict[n] = NODE_UP,
                        verdict'[n] = NODE_SUSPECT, Sending(n), ~Queued(n),
                        ~(/\ now = tick
                          /\ lost[n] + 1 = SUSPECT_THRESHOLD
                          /\ since_tx[n] = HB_INTERVAL_MS)
                 PROVE  FALSE
    OBVIOUS
  <2> DEFINE h == HB_INTERVAL_MS
  <2>2. silence[n] >= SuspectAfter /\ (now # tick => silence[n] > SuspectAfter)
    BY <2>1, TimedStep, SuspectedIsSilent
  <2>3. silence[n] <= lost[n] * h + since_tx[n]
    BY <2>1 DEF PeriodsKept, KeepsPeriod
  <2>4. /\ lost[n] \in Nat /\ lost[n] + 1 <= SUSPECT_THRESHOLD
        /\ since_tx[n] \in Nat /\ since_tx[n] <= h /\ h \in Nat \ {0}
        /\ SUSPECT_THRESHOLD \in Nat
        /\ lost[n] + 1 < SUSPECT_THRESHOLD \/ since_tx[n] < h \/ now # tick
    BY <2>1, PeriodFits, MonitorConstants, EnvironmentConstants DEF TimedTypeOK
  <2>5. silence[n] \in Nat
    BY <2>1, ClockTypes, OracleConstants DEF Base
  <2>6. SuspectAfter = SUSPECT_THRESHOLD * h /\ SuspectAfter \in Nat
    BY PeriodFits DEF SuspectAfter
  <2> HIDE DEF h
  <2>7. /\ (lost[n] + 1) * h <= SUSPECT_THRESHOLD * h
        /\ lost[n] + 1 < SUSPECT_THRESHOLD => (lost[n] + 1) * h < SUSPECT_THRESHOLD * h
    BY <2>4
  <2>8. (lost[n] + 1) * h = lost[n] * h + h /\ lost[n] * h \in Nat
    BY <2>4, OneMorePeriod
  <2>9. CASE lost[n] + 1 < SUSPECT_THRESHOLD
    BY <2>2, <2>3, <2>4, <2>5, <2>6, <2>7, <2>8, <2>9
  <2>10. CASE since_tx[n] < h
    BY <2>2, <2>3, <2>4, <2>5, <2>6, <2>7, <2>8, <2>10
  <2>11. CASE now # tick
    BY <2>2, <2>3, <2>4, <2>5, <2>6, <2>7, <2>8, <2>11
  <2> QED BY <2>4, <2>9, <2>10, <2>11
<1> QED BY <1>1, <1>2, <1>3, BaseInvariant, TimedTypeCorrect, InboxAlwaysBounded, PTL
        DEF TimedSpec, NoFalseSuspicion

-----------------------------------------------------------------------------
(* Detection is bounded: arithmetic *)

\* The ghost clock, the tick counter and miss_count reach beyond the bound.
DetectionFits ==
    /\ DetectWithin < SILENCE_CAP
    /\ DetectWithin + 1 < TICK_MOD
    /\ DetectWithin < MISS_MOD * HB_INTERVAL_MS

\* What lies at most between two looks of health_monitor_tick() at a slot.
Gap == 2 * WaitAtMost

\* How long ago the tick counter had value w.
Age(w) == Elapsed(tick, w)

\* An interval that is x old lasted at most k when the tick looked at it, a
\* ticks ago; the look may be g later than that.  The other possibility is
\* that the tick before that look came when the counter was 0, z ticks ago,
\* so that the last look was none.
Look(z, x, k, a, g) ==
    /\ a <= x
    /\ \/ x <= k + a + g
       \/ x <= k + z /\ a < z /\ z <= a + Gap + g /\ z <= x

\* A node silent for s was decided SUSPECT b ago.
SuspectedInTime(z, s, b) ==
    /\ b <= s
    /\ \/ s <= b + (SuspectAfter - 1) + Gap
       \/ s <= b + (SuspectAfter - 1) + 2 * Gap /\ b < z /\ z <= s

\* The bounds are numbers below the wrap of ticks and misses.
LEMMA DetectFacts ==
    ASSUME DetectionFits
    PROVE  /\ WaitAtMost \in Nat \ {0} /\ Gap \in Nat /\ Gap = WaitAtMost + WaitAtMost
           /\ SuspectAfter \in Nat \ {0} /\ DOWN_TIMEOUT_MS \in Nat \ {0}
           /\ DetectWithin \in Nat
           /\ DetectWithin = SuspectAfter + DOWN_TIMEOUT_MS + 3 * Gap - 2
           /\ DetectWithin + 1 < TICK_MOD /\ DetectWithin < SILENCE_CAP
           /\ TICK_MOD \in Nat /\ SILENCE_CAP \in Nat
           /\ SuspectAfter - 1 \in Nat /\ DOWN_TIMEOUT_MS - 1 \in Nat
           /\ Gap < DetectWithin
<1>1. /\ HB_INTERVAL_MS \in Nat \ {0} /\ MAX_LAG \in Nat /\ SuspectAfter \in Nat
      /\ HB_INTERVAL_MS <= SuspectAfter /\ DOWN_TIMEOUT_MS \in Nat \ {0}
      /\ DownAfter = SuspectAfter + DOWN_TIMEOUT_MS
      /\ TICK_MOD \in Nat /\ SILENCE_CAP \in Nat
  BY PeriodFits, Thresholds, MonitorConstants, OracleConstants
<1>2. /\ DetectWithin + 1 < TICK_MOD /\ DetectWithin < SILENCE_CAP
  BY DEF DetectionFits
<1> QED BY <1>1, <1>2 DEF DetectWithin, WaitAtMost, Gap

\* Ages and differences of clock values.
LEMMA AgeDifference ==
    ASSUME NEW t \in Ticks, NEW a \in Ticks, NEW b \in Ticks,
           Elapsed(t, a) <= Elapsed(t, b)
    PROVE  /\ Elapsed(a, b) = Elapsed(t, b) - Elapsed(t, a)
           /\ Elapsed(a, b) = 0 => a = b
BY MonitorConstants DEF Ticks, Elapsed

\* A young clock value gets one tick older.
LEMMA AgeTick ==
    ASSUME NEW t \in Ticks, NEW w \in Ticks, Elapsed(t, w) + 1 < TICK_MOD
    PROVE  Elapsed(IF t = TICK_MOD - 1 THEN 0 ELSE t + 1, w) = Elapsed(t, w) + 1
BY MonitorConstants DEF Ticks, Elapsed

\* The age of the clock value 0 is the clock.
LEMMA AgeOfZero ==
    ASSUME NEW t \in Ticks PROVE Elapsed(t, 0) = t /\ 0 \in Ticks
BY MonitorConstants DEF Ticks, Elapsed

\* Few counted misses are little silence, unless miss_count wrapped.
LEMMA FewMisses ==
    ASSUME NEW s \in Nat, NEW d \in Nat \ {0}, NEW m \in Nat \ {0}, NEW k \in Nat,
           s < m * d, (s \div d) % m < k
    PROVE  s < k * d
<1> DEFINE q == s \div d
<1>1. q \in Nat /\ q * d <= s /\ s < (q + 1) * d
  OBVIOUS
<1>2. q % m < k
  OBVIOUS
<1> HIDE DEF q
<1>3. q < m
  <2>1. SUFFICES ASSUME q >= m PROVE FALSE
    BY <1>1
  <2>2. m * d <= q * d
    BY <1>1, <2>1
  <2>3. m * d \in Nat /\ q * d \in Nat
    BY <1>1
  <2> QED BY <1>1, <2>2, <2>3
<1>4. q + 1 <= k
  BY <1>1, <1>2, <1>3
<1>5. (q + 1) * d <= k * d
  BY <1>1, <1>4
<1>6. (q + 1) * d \in Nat /\ k * d \in Nat
  BY <1>1
<1> QED BY <1>1, <1>5, <1>6

\* The clock moves on and no slot is looked at.
LEMMA LookTick ==
    ASSUME DetectionFits, NEW z \in Ticks, NEW x \in Nat, NEW k \in Nat, NEW a \in Nat,
           a <= Gap, Look(z, x, k, a, 0)
    PROVE  Look(IF z = TICK_MOD - 1 THEN 0 ELSE z + 1, x + 1, k, a + 1, 0)
BY DetectFacts DEF Look, Ticks

\* The clock advances while a node is SUSPECT.
LEMMA SuspectedTick ==
    ASSUME DetectionFits, NEW z \in Ticks, NEW s \in Nat, NEW b \in Nat,
           s <= DetectWithin, SuspectedInTime(z, s, b)
    PROVE  SuspectedInTime(IF z = TICK_MOD - 1 THEN 0 ELSE z + 1, s + 1, b + 1)
BY DetectFacts DEF SuspectedInTime, Ticks

\* A tick begins, with a clock value read c ticks ago, and looks at the slots
\* or not.
LEMMA LookBegins ==
    ASSUME DetectionFits, NEW z \in Ticks, NEW x \in Nat, NEW k \in Nat, NEW a \in Nat,
           NEW c \in Nat, c <= a, a <= c + Gap, Look(z, x, k, a, 0)
    PROVE  /\ Look(z, x, k, c, Gap)
           /\ a = c \/ a = z => Look(z, x, k, c, 0)
BY DetectFacts DEF Look, Ticks

\* What was looked at less than two waits ago is within the bound.
LEMMA BoundUp ==
    ASSUME DetectionFits, NEW z \in Nat, NEW s \in Nat, NEW a \in Nat,
           a <= Gap, Look(z, s, SuspectAfter - 1, a, 0)
    PROVE  s <= DetectWithin
BY DetectFacts DEF Look

\* A node that is SUSPECT in time is within the bound.
LEMMA BoundSuspect ==
    ASSUME DetectionFits, NEW z \in Nat, NEW s \in Nat, NEW a \in Nat, NEW b \in Nat,
           a <= Gap, SuspectedInTime(z, s, b), Look(z, b, DOWN_TIMEOUT_MS - 1, a, 0)
    PROVE  s <= DetectWithin
BY DetectFacts DEF Look, SuspectedInTime

\* A look that decides SUSPECT.
LEMMA LookSuspects ==
    ASSUME DetectionFits, NEW z \in Nat, NEW s \in Nat, NEW a \in Nat,
           Look(z, s, SuspectAfter - 1, a, Gap)
    PROVE  /\ SuspectedInTime(z, s, a)
           /\ Look(z, a, DOWN_TIMEOUT_MS - 1, a, 0)
BY DetectFacts DEF Look, SuspectedInTime

-----------------------------------------------------------------------------
(* Detection is bounded: the tasks are prompt *)

\* health_task has read the clock within WaitAtMost, and ticks again before
\* its last tick is Gap older than that.
Prompt ==
    /\ Age(now) <= WaitAtMost
    /\ Age(now) <= Age(last_tick) /\ Age(last_tick) <= Age(now) + Gap
    /\ pc = "recv" => Age(last_tick) <= Age(now) + WaitAtMost
    /\ pc \in {"slot", "decided"} => last_tick = now

\* The clock values of the tasks are ticks.
LEMMA TaskClocks ==
    ASSUME Structure
    PROVE  /\ tick \in Ticks /\ now \in Ticks /\ last_tick \in Ticks
           /\ Age(now) \in Nat /\ Age(last_tick) \in Nat
<1>1. tick \in Ticks /\ now \in Ticks /\ last_tick \in Ticks
  BY DEF Structure, TypeOK, ClockTypeOK
<1> QED BY <1>1, ElapsedType DEF Age

\* The clock advances only while health_task waits, one tick at a time.
LEMMA TimedTickStep ==
    ASSUME TimedTick
    PROVE  /\ pc = "recv" /\ Age(now) < WaitAtMost
           /\ tick' = IF tick = TICK_MOD - 1 THEN 0 ELSE tick + 1
           /\ silence' = [n \in Nodes |->
                  IF silence[n] < SILENCE_CAP THEN silence[n] + 1 ELSE silence[n]]
           /\ UNCHANGED <<table, last_tick, pc, now, cursor, log, verdict, raced>>
BY DEF TimedTick, Idle, Waiting, Tick, Age, WaitAtMost, monitorVars, healthVars, raftVars

\* health_task stays prompt.
LEMMA PromptNext ==
    ASSUME DetectionFits, Structure, Prompt, [TimedNext]_timedVars
    PROVE  Prompt'
<1> USE DEF Prompt
<1>1. /\ tick \in Ticks /\ now \in Ticks /\ last_tick \in Ticks
      /\ Age(now) \in Nat /\ Age(last_tick) \in Nat
      /\ Elapsed(tick, tick) = 0
  BY TaskClocks, ElapsedType
<1>2. /\ WaitAtMost \in Nat \ {0} /\ Gap \in Nat /\ Gap = WaitAtMost + WaitAtMost
      /\ DetectWithin \in Nat /\ TICK_MOD \in Nat
      /\ DetectWithin + 1 < TICK_MOD /\ Gap < DetectWithin
  BY DetectFacts
<1>3. CASE TimedTick
  <2>1. /\ pc = "recv" /\ Age(now) < WaitAtMost
        /\ tick' = IF tick = TICK_MOD - 1 THEN 0 ELSE tick + 1
        /\ UNCHANGED <<pc, now, last_tick>>
    BY <1>3, TimedTickStep
  <2>2. Age(now)' = Age(now) + 1 /\ Age(last_tick)' = Age(last_tick) + 1
    BY <1>1, <1>2, <2>1, AgeTick DEF Age
  <2> QED BY <1>1, <1>2, <2>1, <2>2
<1>4. CASE UNCHANGED <<tick, now, last_tick, pc>>
  BY <1>4 DEF Age
<1>5. ASSUME ProcessHeartbeat \/ ProcessAnnounce
      PROVE  Prompt'
  <2>1. /\ pc = "recv" /\ pc' \in {"tick", "recovered"}
        /\ tick' = tick /\ now' = tick /\ last_tick' = last_tick
    BY <1>5 DEF ProcessHeartbeat, ProcessAnnounce, NextFrame, HealthRuns
  <2>2. Age(now)' = 0 /\ Age(last_tick)' = Age(last_tick)
    BY <1>1, <2>1 DEF Age
  <2> QED BY <1>1, <1>2, <2>1, <2>2
<1>6. CASE ReceiveTimeout \/ StoreRecovered
  <2>1. pc' = "tick" /\ UNCHANGED <<tick, now, last_tick>>
    BY <1>6 DEF ReceiveTimeout, StoreRecovered, monitorVars
  <2> QED BY <2>1 DEF Age
<1>7. CASE TickBegin
  <2>1. /\ last_tick' = now /\ tick' = tick
        /\ \/ pc' = "recv" /\ now' = tick
           \/ pc' = "slot" /\ now' = now
    BY <1>7 DEF TickBegin
  <2>2. Age(last_tick)' = Age(now)
    BY <2>1 DEF Age
  <2>3. CASE pc' = "recv" /\ now' = tick
    <3>1. Age(now)' = 0
      BY <1>1, <2>1, <2>3 DEF Age
    <3> QED BY <1>1, <1>2, <2>2, <2>3, <3>1
  <2>4. CASE pc' = "slot" /\ now' = now
    <3>1. Age(now)' = Age(now)
      BY <2>1, <2>4 DEF Age
    <3> QED BY <1>1, <1>2, <2>1, <2>2, <2>4, <3>1
  <2> QED BY <2>1, <2>3, <2>4
<1>8. CASE TickSlot \/ StoreDecided
  <2>1. /\ pc \in {"slot", "decided"} /\ pc' \in {"slot", "decided"}
        /\ UNCHANGED <<tick, now, last_tick>>
    BY <1>8 DEF TickSlot, StoreDecided, HealthRuns
  <2> QED BY <2>1 DEF Age
<1>9. CASE TickEnd
  <2>1. /\ pc = "slot" /\ pc' = "recv" /\ now' = tick /\ tick' = tick
        /\ last_tick' = last_tick
    BY <1>9 DEF TickEnd, HealthRuns, monitorVars
  <2>2. Age(now)' = 0 /\ Age(last_tick)' = Age(now)
    BY <1>1, <2>1 DEF Age
  <2> QED BY <1>1, <1>2, <2>1, <2>2
<1>10. CASE RaftTask \/ RaftTimerExpires \/ UNCHANGED timedVars
  BY <1>4, <1>10 DEF RaftTask, OracleTick, ApplyLog, RaftTimerExpires,
     RaftTimerCallback, timedVars, vars, monitorVars, healthVars
<1>11. ASSUME NEW n \in Nodes,
              Start(n) \/ SendHeartbeat(n) \/ LoseHeartbeat(n) \/ Stop(n) \/ Resume(n)
       PROVE  Prompt'
  BY <1>4, <1>11 DEF Start, SendHeartbeat, LoseHeartbeat, Stop, Resume, EthRx, vars,
     monitorVars, healthVars
<1> QED BY <1>3, <1>5, <1>6, <1>7, <1>8, <1>9, <1>10, <1>11
        DEF TimedNext, Tasks, HealthTask

-----------------------------------------------------------------------------
(* Detection is bounded: what the slots promise *)

Heard(n) ==
    pc \in {"tick", "recovered"} /\ verdict[n] = NODE_UP /\ silence[n] = Age(now)

\* The current tick has still to look at slot j.
Ahead(j) == (pc = "slot" /\ j >= cursor) \/ (pc = "decided" /\ j > cursor)

Slack(j) == IF Ahead(j) THEN Gap ELSE 0

\* While a node is not DOWN, its silence is what its slot says, and each
\* threshold it has not passed was not passed at the last look either.
WatchedUp(n, j) ==
    Heard(n) \/ Look(tick, silence[n], SuspectAfter - 1, Age(last_tick), Slack(j))

WatchedSuspect(n, v, j) ==
    /\ SuspectedInTime(tick, silence[n], Age(v))
    /\ Look(tick, Age(v), DOWN_TIMEOUT_MS - 1, Age(last_tick), Slack(j))

Watched(e, j) ==
    verdict[e.node_id] # NODE_DOWN =>
        /\ silence[e.node_id] = Age(e.last_seen_ms)
        /\ silence[e.node_id] <= DetectWithin
        /\ verdict[e.node_id] = NODE_UP => WatchedUp(e.node_id, j)
        /\ verdict[e.node_id] = NODE_SUSPECT =>
              WatchedSuspect(e.node_id, e.suspect_since_ms, j)

AllWatched ==
    ~Full => \A j \in 1 .. Len(table) :
                table[j].node_id \notin raced => Watched(table[j], j)

\* The types the proofs below use.
LEMMA SlotClocks ==
    ASSUME Structure, NEW j \in 1 .. Len(table)
    PROVE  /\ table[j].node_id \in Nodes /\ silence[table[j].node_id] \in Nat
           /\ table[j].last_seen_ms \in Ticks /\ table[j].suspect_since_ms \in Ticks
           /\ Age(table[j].last_seen_ms) \in Nat /\ Age(table[j].suspect_since_ms) \in Nat
           /\ verdict[table[j].node_id] \in Statuses
<1>1. /\ table[j].node_id \in Nodes
      /\ table[j].last_seen_ms \in Ticks /\ table[j].suspect_since_ms \in Ticks
      /\ tick \in Ticks /\ silence[table[j].node_id] \in Nat
  BY ClockTypes, OracleConstants
<1> QED BY <1>1, ElapsedType, LogTypes DEF Age

\* Time passes while health_task waits.
LEMMA TickWatched ==
    ASSUME DetectionFits, Structure, Prompt, TimedTick,
           NEW j \in 1 .. Len(table), Watched(table[j], j)
    PROVE  Watched(table[j], j)'
<1> DEFINE n == table[j].node_id
           v == table[j].suspect_since_ms
           w == table[j].last_seen_ms
           s == silence[n]
           a == Age(last_tick)
           z == IF tick = TICK_MOD - 1 THEN 0 ELSE tick + 1
<1>1. /\ pc = "recv" /\ tick' = z
      /\ UNCHANGED <<table, last_tick, pc, now, cursor, verdict>>
  BY TimedTickStep
<1>2. /\ n \in Nodes /\ s \in Nat /\ w \in Ticks /\ v \in Ticks /\ Age(w) \in Nat
      /\ Age(v) \in Nat /\ tick \in Ticks /\ last_tick \in Ticks /\ a \in Nat
      /\ Age(now) \in Nat /\ verdict[n] \in Statuses
  BY SlotClocks, TaskClocks
<1>3. a + 1 <= Gap /\ a <= Gap /\ a <= DetectWithin
  <2>1. Age(now) < WaitAtMost /\ a <= Age(now) + WaitAtMost
    BY <1>1, TimedTickStep DEF Prompt
  <2>2. /\ a \in Nat /\ Age(now) \in Nat /\ WaitAtMost \in Nat /\ DetectWithin \in Nat
        /\ Gap = WaitAtMost + WaitAtMost /\ Gap < DetectWithin
    BY <1>2, DetectFacts
  <2> HIDE DEF a
  <2> QED BY <2>1, <2>2
<1>0. ~Heard(n) /\ Slack(j) = 0 /\ Slack(j)' = 0
  BY <1>1 DEF Heard, Slack, Ahead
<1>13. n' = n /\ v' = v /\ w' = w
  BY <1>1
<1>4. z \in Ticks /\ z \in Nat /\ tick \in Nat
  BY <1>2, MonitorConstants DEF Ticks
<1>5. SUFFICES ASSUME verdict[n] # NODE_DOWN
               PROVE  /\ silence'[n] = Age(w)'
                      /\ silence'[n] <= DetectWithin
                      /\ verdict[n] = NODE_UP => WatchedUp(n, j)'
                      /\ verdict[n] = NODE_SUSPECT => WatchedSuspect(n, v, j)'
  BY <1>1 DEF Watched
<1>6. /\ s = Age(w) /\ s <= DetectWithin
      /\ verdict[n] = NODE_UP => WatchedUp(n, j)
      /\ verdict[n] = NODE_SUSPECT => WatchedSuspect(n, v, j)
  BY <1>5 DEF Watched
<1>7. silence'[n] = s + 1
  <2>1. silence'[n] = IF s < SILENCE_CAP THEN s + 1 ELSE s
    BY <1>2, TimedTickStep
  <2>2. /\ s \in Nat /\ s <= DetectWithin /\ DetectWithin \in Nat /\ SILENCE_CAP \in Nat
        /\ DetectWithin < SILENCE_CAP
    BY <1>2, <1>6, DetectFacts
  <2> HIDE DEF s
  <2> QED BY <2>1, <2>2
<1>8. ASSUME NEW u \in Ticks, Age(u) <= DetectWithin
      PROVE  Elapsed(z, u) = Age(u) + 1
  <2>1. Elapsed(tick, u) \in Nat
    BY <1>2, ElapsedType
  <2>2. Elapsed(tick, u) + 1 < TICK_MOD
    <3>1. DetectWithin \in Nat /\ DetectWithin + 1 < TICK_MOD /\ TICK_MOD \in Nat
      BY DetectFacts
    <3>2. Elapsed(tick, u) <= DetectWithin
      BY <1>8 DEF Age
    <3> QED BY ONLY <2>1, <3>1, <3>2
  <2> QED BY <1>2, <2>2, AgeTick DEF Age
<1>9. Age(w)' = s + 1
  BY <1>1, <1>2, <1>6, <1>8 DEF Age
<1>10. Age(last_tick)' = a + 1
  BY <1>1, <1>2, <1>3, <1>8 DEF Age
<1> HIDE DEF n, v, w, s, a, z
<1>11. CASE verdict[n] = NODE_UP
  <2>1. Look(tick, s, SuspectAfter - 1, a, 0)
    BY <1>0, <1>6, <1>11 DEF WatchedUp, s, a
  <2>2. Look(z, s + 1, SuspectAfter - 1, a + 1, 0)
    <3>1. SuspectAfter - 1 \in Nat /\ a <= Gap
      BY <1>3, DetectFacts
    <3> QED BY <1>2, <2>1, <3>1, LookTick DEF z
  <2>3. s + 1 <= DetectWithin
    <3>1. s + 1 \in Nat /\ a + 1 \in Nat
      BY <1>2
    <3> QED BY <1>3, <1>4, <2>2, <3>1, BoundUp
  <2> QED BY <1>0, <1>1, <1>7, <1>9, <1>10, <1>11, <1>13, <2>2, <2>3
          DEF WatchedUp, NODE_UP, NODE_SUSPECT
<1>12. CASE verdict[n] = NODE_SUSPECT
  <2>1. /\ SuspectedInTime(tick, s, Age(v))
        /\ Look(tick, Age(v), DOWN_TIMEOUT_MS - 1, a, 0)
    BY <1>0, <1>6, <1>12 DEF WatchedSuspect, s, a
  <2>2. Age(v) <= DetectWithin
    <3>1. Age(v) <= s /\ s <= DetectWithin
      BY <1>6, <2>1 DEF SuspectedInTime
    <3>2. DetectWithin \in Nat /\ Age(v) \in Nat /\ s \in Nat
      BY <1>2, DetectFacts
    <3> QED BY ONLY <3>1, <3>2
  <2>3. Age(v)' = Age(v) + 1
    <3>1. v' = v
      BY <1>1 DEF v
    <3> QED BY <1>1, <1>2, <1>8, <2>2, <3>1 DEF Age
  <2>4. SuspectedInTime(z, s + 1, Age(v) + 1)
    BY <1>2, <1>6, <2>1, SuspectedTick DEF z
  <2>5. Look(z, Age(v) + 1, DOWN_TIMEOUT_MS - 1, a + 1, 0)
    <3>1. DOWN_TIMEOUT_MS - 1 \in Nat /\ a <= Gap
      BY <1>3, DetectFacts
    <3> QED BY <1>2, <2>1, <3>1, LookTick DEF z
  <2>6. s + 1 <= DetectWithin
    <3>1. s + 1 \in Nat /\ a + 1 \in Nat /\ Age(v) + 1 \in Nat
      BY <1>2
    <3> QED BY <1>3, <1>4, <2>4, <2>5, <3>1, BoundSuspect
  <2> QED BY <1>0, <1>1, <1>7, <1>9, <1>10, <1>12, <1>13, <2>3, <2>4, <2>5, <2>6
          DEF WatchedSuspect, NODE_UP, NODE_SUSPECT
<1> QED BY <1>2, <1>5, <1>11, <1>12 DEF Statuses

\* The step is no news of the node of slot j, and keeps what is known of it.
KeepsSlot(j) ==
    /\ j \in 1 .. Len(table)
    /\ table'[j].node_id = table[j].node_id
    /\ table'[j].last_seen_ms = table[j].last_seen_ms
    /\ verdict'[table[j].node_id] = verdict[table[j].node_id]
    /\ silence'[table[j].node_id] = silence[table[j].node_id]
    /\ tick' = tick
    /\ \/ table'[j].suspect_since_ms = table[j].suspect_since_ms
       \/ verdict[table[j].node_id] = NODE_UP

\* The step does not change when slot j was last looked at.
KeepsLook(j) ==
    /\ last_tick' = last_tick /\ Slack(j)' = Slack(j)
    /\ \/ pc \notin {"tick", "recovered"}
       \/ pc' \in {"tick", "recovered"} /\ now' = now

\* A slot whose look carries over stays watched.
LEMMA CarriedWatched ==
    ASSUME NEW j, Watched(table[j], j), KeepsSlot(j),
           Heard(table[j].node_id) =>
              \/ Heard(table[j].node_id)'
              \/ Look(tick, silence[table[j].node_id], SuspectAfter - 1,
                      Age(last_tick)', Slack(j)'),
           verdict[table[j].node_id] = NODE_UP /\
              Look(tick, silence[table[j].node_id], SuspectAfter - 1,
                   Age(last_tick), Slack(j)) =>
                 Look(tick, silence[table[j].node_id], SuspectAfter - 1,
                      Age(last_tick)', Slack(j)'),
           verdict[table[j].node_id] = NODE_SUSPECT /\
              Look(tick, Age(table[j].suspect_since_ms), DOWN_TIMEOUT_MS - 1,
                   Age(last_tick), Slack(j)) =>
                 Look(tick, Age(table[j].suspect_since_ms), DOWN_TIMEOUT_MS - 1,
                      Age(last_tick)', Slack(j)')
    PROVE  Watched(table[j], j)'
<1> DEFINE n == table[j].node_id
           v == table[j].suspect_since_ms
<1>1. /\ n' = n /\ tick' = tick /\ silence'[n] = silence[n] /\ verdict'[n] = verdict[n]
      /\ table'[j].last_seen_ms = table[j].last_seen_ms
      /\ v' = v \/ verdict[n] = NODE_UP
  BY DEF KeepsSlot
<1>2. SUFFICES ASSUME verdict[n] # NODE_DOWN
               PROVE  /\ silence'[n] = Age(table'[j].last_seen_ms)
                      /\ silence'[n] <= DetectWithin
                      /\ verdict[n] = NODE_UP => WatchedUp(n, j)'
                      /\ verdict[n] = NODE_SUSPECT => WatchedSuspect(n, v, j)'
  BY <1>1 DEF Watched, Age
<1>3. silence'[n] = Age(table'[j].last_seen_ms) /\ silence'[n] <= DetectWithin
  BY <1>1, <1>2 DEF Watched
<1>4. ASSUME verdict[n] = NODE_UP PROVE WatchedUp(n, j)'
  <2>1. WatchedUp(n, j)
    BY <1>2, <1>4 DEF Watched
  <2>2. Heard(n)' \/ Look(tick, silence[n], SuspectAfter - 1, Age(last_tick)', Slack(j)')
    BY <1>1, <1>4, <2>1 DEF WatchedUp
  <2> QED BY <1>1, <2>2 DEF WatchedUp
<1>5. ASSUME verdict[n] = NODE_SUSPECT PROVE WatchedSuspect(n, v, j)'
  <2>1. WatchedSuspect(n, v, j) /\ v' = v
    BY <1>1, <1>2, <1>5 DEF Watched, NODE_UP, NODE_SUSPECT
  <2>2. Age(v)' = Age(v)
    BY <1>1, <2>1 DEF Age
  <2>3. Look(tick, Age(v), DOWN_TIMEOUT_MS - 1, Age(last_tick)', Slack(j)')
    BY <1>5, <2>1 DEF WatchedSuspect
  <2> HIDE DEF v
  <2> QED BY <1>1, <2>1, <2>2, <2>3 DEF WatchedSuspect
<1> QED BY <1>3, <1>4, <1>5

\* So does a slot nobody looks at.
LEMMA KeptWatched ==
    ASSUME NEW j, Watched(table[j], j), KeepsSlot(j), KeepsLook(j)
    PROVE  Watched(table[j], j)'
<1> DEFINE n == table[j].node_id
<1>1. tick' = tick /\ Slack(j)' = Slack(j) /\ n' = n
      /\ silence'[n] = silence[n] /\ verdict'[n] = verdict[n]
  BY DEF KeepsSlot, KeepsLook
<1>2. Age(last_tick)' = Age(last_tick)
  BY <1>1 DEF KeepsLook, Age
<1>3. Heard(n) => Heard(n)'
  BY <1>1 DEF Heard, KeepsLook, Age
<1> QED BY <1>1, <1>2, <1>3, CarriedWatched

\* health_monitor_tick() begins, and looks at the slots or returns.
LEMMA BeginWatched ==
    ASSUME DetectionFits, Structure, Prompt, TickBegin,
           NEW j \in 1 .. Len(table), Watched(table[j], j)
    PROVE  Watched(table[j], j)'
<1> DEFINE n == table[j].node_id
           v == table[j].suspect_since_ms
           a == Age(last_tick)
           c == Age(now)
           g == Slack(j)'
<1>1. /\ pc = "tick" /\ last_tick' = now
      /\ UNCHANGED <<tick, table, silence, verdict>>
  BY DEF TickBegin, HealthRuns, ghostVars
<1>2. KeepsSlot(j)
  BY <1>1 DEF KeepsSlot
<1>3. Slack(j) = 0 /\ Age(last_tick)' = c
  BY <1>1 DEF Slack, Ahead, Age
<1>4. /\ a \in Nat /\ c \in Nat /\ c <= a /\ a <= c + Gap /\ tick \in Ticks
      /\ n \in Nodes /\ silence[n] \in Nat /\ Age(v) \in Nat
      /\ now \in Ticks /\ last_tick \in Ticks
  BY TaskClocks, SlotClocks DEF Prompt
<1>5. g = Gap \/ (g = 0 /\ (a = c \/ a = tick))
  <2>1. CASE last_tick = 0 \/ Elapsed(now, last_tick) = 0
    <3>1. pc' = "recv"
      BY <2>1 DEF TickBegin
    <3>2. last_tick = 0 => a = tick
      BY <1>4, AgeOfZero DEF Age
    <3>3. Elapsed(now, last_tick) = 0 => a = c
      BY <1>4, AgeDifference DEF Age
    <3> QED BY <2>1, <3>1, <3>2, <3>3 DEF Slack, Ahead
  <2>2. CASE ~(last_tick = 0 \/ Elapsed(now, last_tick) = 0)
    <3>1. pc' = "slot" /\ cursor' = 1
      BY <2>2 DEF TickBegin
    <3>2. j >= 1
      BY StructureTable
    <3>3. Ahead(j)'
      BY <3>1, <3>2 DEF Ahead
    <3> QED BY <3>3 DEF Slack
  <2> QED BY <2>1, <2>2
<1> HIDE DEF a, c, g
<1>6. ASSUME NEW x \in Nat, NEW k \in Nat, Look(tick, x, k, a, 0)
      PROVE  Look(tick, x, k, c, g)
  BY <1>4, <1>5, <1>6, LookBegins
<1>7. SuspectAfter - 1 \in Nat /\ DOWN_TIMEOUT_MS - 1 \in Nat /\ Gap \in Nat
  BY DetectFacts
<1>8. Heard(n) => Look(tick, silence[n], SuspectAfter - 1, c, g)
  <2>1. g \in Nat
    BY <1>5, <1>7
  <2>2. Heard(n) => silence[n] = c
    BY DEF Heard, c
  <2>3. c <= (SuspectAfter - 1) + c + g
    BY <1>4, <1>7, <2>1
  <2>4. c <= c
    BY <1>4
  <2> QED BY <2>2, <2>3, <2>4 DEF Look
<1>9. /\ Look(tick, silence[n], SuspectAfter - 1, a, 0) =>
             Look(tick, silence[n], SuspectAfter - 1, c, g)
      /\ Look(tick, Age(v), DOWN_TIMEOUT_MS - 1, a, 0) =>
             Look(tick, Age(v), DOWN_TIMEOUT_MS - 1, c, g)
  BY <1>4, <1>6, <1>7
<1> QED BY <1>2, <1>3, <1>8, <1>9, CarriedWatched DEF a, g

\* A slot whose node was heard a moment ago.
LEMMA HeardWatched ==
    ASSUME DetectionFits, Structure, NEW j \in 1 .. Len(table'),
           Hears(table'[j].node_id), table'[j].node_id \in Nodes,
           table'[j].last_seen_ms = tick,
           pc' \in {"tick", "recovered"}, verdict'[table'[j].node_id] = NODE_UP
    PROVE  Watched(table[j], j)'
<1> DEFINE n == table'[j].node_id
<1>1. /\ tick' = tick /\ now' = tick /\ silence'[n] = 0 /\ tick \in Ticks
  BY ClockTypes DEF Hears
<1>2. Elapsed(tick, tick) = 0
  BY <1>1, ElapsedType
<1>3. 0 <= DetectWithin
  BY DetectFacts
<1>4. silence'[n] = Elapsed(tick', table'[j].last_seen_ms)
  BY <1>1, <1>2
<1>5. Heard(table[j].node_id)'
  BY <1>1, <1>2 DEF Heard, Age
<1> QED BY <1>1, <1>3, <1>4, <1>5 DEF Watched, WatchedUp, Age, NODE_UP, NODE_SUSPECT

\* The tick looks at a slot and decides nothing, or SUSPECT, or DOWN.
LEMMA SlotWatched ==
    ASSUME DetectionFits, Base, Prompt, TickSlot, ~Full,
           NEW j \in 1 .. Len(table), j = cursor, table[j].node_id \notin raced,
           Watched(table[j], j)
    PROVE  Watched(table[j], j)'
<1> DEFINE n == table[j].node_id
           v == table[j].suspect_since_ms
           w == table[j].last_seen_ms
           s == silence[n]
           a == Age(last_tick)
<1>0. Structure /\ Agreement
  BY DEF Base
<1>1. /\ rpc = "idle" /\ pc = "slot"
      /\ UNCHANGED <<tick, now, last_tick, silence, raced>>
      /\ WritesSlot(j)
      /\ table'[j].last_seen_ms = w
      /\ table'[j].miss_count = count_misses(table[j], now)
      /\ table'[j].status = table[j].status
      /\ \/ /\ table'[j].suspect_since_ms = v
            /\ tick_status(table'[j], now, TRUE) = table[j].status
            /\ pc' = "slot" /\ cursor' = cursor + 1
            /\ UNCHANGED verdict
         \/ \E new \in Statuses :
               /\ verdict' = [verdict EXCEPT ![n] = new]
               /\ pc' = "decided" /\ cursor' = cursor
               /\ \/ /\ table[j].status = NODE_UP /\ new = NODE_SUSPECT
                     /\ table'[j].suspect_since_ms = now
                  \/ /\ table[j].status = NODE_SUSPECT /\ new = NODE_DOWN
  BY <1>0, TickSlotStep
<1>2. /\ n \in Nodes /\ s \in Nat /\ w \in Ticks /\ v \in Ticks /\ Age(w) \in Nat
      /\ Age(v) \in Nat /\ tick \in Ticks /\ now \in Ticks /\ a \in Nat
      /\ verdict[n] \in Statuses /\ verdict \in [Nodes -> Statuses] /\ tick \in Nat
  BY <1>0, SlotClocks, TaskClocks, LogTypes, MonitorConstants DEF Ticks
<1>3. last_tick = now /\ a = Age(now)
  BY <1>1 DEF Prompt
<1>4. table[j].status = verdict[n]
  <2>1. ~Storing(j) /\ ~Applying(j)
    BY <1>1 DEF Storing, Applying
  <2> QED BY <1>0, <2>1 DEF Agreement, TableIsVerdict
<1>5. table'[j].node_id = n /\ j \in 1 .. Len(table') /\ cursor \in Nat /\ j \in Nat
  BY <1>0, <1>1, StructureTable DEF WritesSlot
<1>6. ~Heard(n) /\ Slack(j) = Gap
  <2>1. ~Heard(n)
    BY <1>1 DEF Heard
  <2>2. Ahead(j)
    BY <1>1, <1>5 DEF Ahead
  <2> QED BY <2>1, <2>2 DEF Slack
<1>7. Slack(j)' = 0
  <2>0. \/ pc' = "slot" /\ cursor' = cursor + 1
        \/ pc' = "decided" /\ cursor' = cursor
    BY <1>1
  <2>1. ~Ahead(j)'
    BY <1>5, <2>0 DEF Ahead
  <2> QED BY <2>1 DEF Slack
<1>8. Age(last_tick)' = a /\ Age(w)' = Age(w) /\ silence'[n] = s
  BY <1>1 DEF Age
<1>9. CASE /\ table'[j].suspect_since_ms = v /\ UNCHANGED verdict
           /\ tick_status(table'[j], now, TRUE) = table[j].status
  <2>1. KeepsSlot(j)
    BY <1>1, <1>5, <1>9 DEF KeepsSlot
  <2>2. ASSUME verdict[n] = NODE_UP,
               Look(tick, s, SuspectAfter - 1, a, Gap)
        PROVE  Look(tick, s, SuspectAfter - 1, a, 0)
    <3> DEFINE since == Elapsed(now, w)
    <3>1. ~(count_misses(table[j], now) >= SUSPECT_THRESHOLD)
      BY <1>1, <1>4, <1>9, <2>2 DEF tick_status, NODE_UP, NODE_SUSPECT, NODE_DOWN
    <3>2. s = Age(w) /\ s <= DetectWithin /\ a <= s
      BY <2>2 DEF Watched, NODE_UP, NODE_DOWN, Look
    <3>3. since = s - a
      <4>1. Elapsed(tick, now) <= Elapsed(tick, w)
        BY <1>3, <3>2 DEF Age
      <4> QED BY <1>2, <1>3, <3>2, <4>1, AgeDifference DEF Age
    <3>4. since \in Nat /\ since <= s
      BY <1>2, <3>2, <3>3
    <3>5. since < MISS_MOD * HB_INTERVAL_MS
      <4>1. DetectWithin < MISS_MOD * HB_INTERVAL_MS /\ DetectWithin \in Nat
        BY DetectFacts DEF DetectionFits
      <4>2. MISS_MOD * HB_INTERVAL_MS \in Nat
        BY MonitorConstants
      <4> HIDE DEF since, s
      <4> QED BY <1>2, <3>2, <3>4, <4>1, <4>2
    <3>6. since < SuspectAfter
      <4>1. CASE since >= HB_INTERVAL_MS
        <5>1. (since \div HB_INTERVAL_MS) % MISS_MOD = count_misses(table[j], now)
          BY <4>1 DEF count_misses
        <5>2. (since \div HB_INTERVAL_MS) % MISS_MOD < SUSPECT_THRESHOLD
          <6>1. (since \div HB_INTERVAL_MS) % MISS_MOD \in Nat /\ SUSPECT_THRESHOLD \in Nat
            BY <3>4, MonitorConstants
          <6> HIDE DEF since
          <6> QED BY <3>1, <5>1, <6>1
        <5> HIDE DEF since
        <5> QED BY <3>4, <3>5, <5>2, FewMisses, MonitorConstants DEF SuspectAfter
      <4>2. CASE ~(since >= HB_INTERVAL_MS)
        <5> HIDE DEF since
        <5> QED BY <3>4, <4>2, PeriodFits
      <4> QED BY <4>1, <4>2
    <3>7. s <= (SuspectAfter - 1) + a + 0
      <4> HIDE DEF since, s, a
      <4> QED BY <1>2, <3>3, <3>4, <3>6, PeriodFits
    <3> QED BY <3>2, <3>7 DEF Look
  <2>3. ASSUME verdict[n] = NODE_SUSPECT,
               Look(tick, Age(v), DOWN_TIMEOUT_MS - 1, a, Gap)
        PROVE  Look(tick, Age(v), DOWN_TIMEOUT_MS - 1, a, 0)
    <3>1. ~(Elapsed(now, table'[j].suspect_since_ms) >= DOWN_TIMEOUT_MS)
      BY <1>1, <1>4, <1>9, <2>3 DEF tick_status, NODE_UP, NODE_SUSPECT, NODE_DOWN
    <3>2. ~(Elapsed(now, v) >= DOWN_TIMEOUT_MS)
      BY <1>9, <3>1
    <3>3. a <= Age(v)
      BY <2>3 DEF Look
    <3>4. Elapsed(now, v) = Age(v) - a
      <4>1. Elapsed(tick, now) <= Elapsed(tick, v)
        BY <1>3, <3>3 DEF Age
      <4> QED BY <1>2, <1>3, <4>1, AgeDifference DEF Age
    <3>5. Age(v) <= (DOWN_TIMEOUT_MS - 1) + a + 0
      <4> HIDE DEF a, v
      <4> QED BY <1>2, <3>2, <3>4, MonitorConstants
    <3> QED BY <3>3, <3>5 DEF Look
  <2> HIDE DEF n, v, s, a
  <2> QED BY <1>6, <1>7, <1>8, <2>1, <2>2, <2>3, CarriedWatched DEF n, v, s, a
<1>10. CASE /\ verdict' = [verdict EXCEPT ![n] = NODE_SUSPECT]
            /\ table[j].status = NODE_UP
            /\ table'[j].suspect_since_ms = now
  <2>1. verdict'[n] = NODE_SUSPECT /\ verdict[n] = NODE_UP
    BY <1>2, <1>4, <1>10
  <2>2. /\ s = Age(w) /\ s <= DetectWithin
        /\ Look(tick, s, SuspectAfter - 1, a, Gap)
    BY <1>6, <2>1 DEF Watched, WatchedUp, NODE_UP, NODE_DOWN
  <2>3. SuspectedInTime(tick, s, a) /\ Look(tick, a, DOWN_TIMEOUT_MS - 1, a, 0)
    BY <1>2, <2>2, LookSuspects
  <2>4. Elapsed(tick', table'[j].suspect_since_ms) = a
    BY <1>1, <1>3, <1>10 DEF Age
  <2>5. tick' = tick
    BY <1>1
  <2>6. WatchedSuspect(table[j].node_id, table[j].suspect_since_ms, j)'
    <3> HIDE DEF a, s
    <3> QED BY <1>5, <1>7, <1>8, <2>3, <2>4, <2>5 DEF WatchedSuspect, Age
  <2>7. silence'[n] = Elapsed(tick', table'[j].last_seen_ms) /\ silence'[n] <= DetectWithin
    BY <1>1, <1>8, <2>2 DEF Age
  <2> QED BY <1>5, <2>1, <2>6, <2>7 DEF Watched, Age, NODE_UP, NODE_SUSPECT
<1>11. CASE verdict' = [verdict EXCEPT ![n] = NODE_DOWN]
  <2>1. verdict'[n] = NODE_DOWN
    BY <1>2, <1>11
  <2> QED BY <1>5, <2>1 DEF Watched
<1> QED BY <1>1, <1>9, <1>10, <1>11

\* The slot and the look are as before for slots that a step of health_task
\* leaves alone.
LEMMA QuietWatched ==
    ASSUME Structure, NEW j \in 1 .. Len(table), Watched(table[j], j), KeepsSlot(j),
           \/ UNCHANGED <<pc, last_tick, now, cursor>>
           \/ /\ pc = "recv" /\ pc' \in {"tick", "recovered"} /\ UNCHANGED last_tick
           \/ /\ pc = "recovered" /\ pc' = "tick" /\ UNCHANGED <<last_tick, now>>
           \/ /\ pc = "slot" /\ pc' = "slot" /\ j # cursor /\ cursor' = cursor + 1
              /\ UNCHANGED last_tick
           \/ /\ pc = "slot" /\ pc' = "decided" /\ j # cursor /\ cursor' = cursor
              /\ UNCHANGED last_tick
           \/ /\ pc = "decided" /\ pc' = "slot" /\ cursor' = cursor + 1
              /\ UNCHANGED last_tick
           \/ /\ pc = "slot" /\ pc' = "recv" /\ cursor > Len(table)
              /\ UNCHANGED last_tick
    PROVE  Watched(table[j], j)'
<1>1. cursor \in Nat /\ j \in Nat /\ Len(table) \in Nat /\ j <= Len(table)
  BY StructureTable DEF Structure, TypeOK, TaskTypeOK
<1>2. Ahead(j)' = Ahead(j)
  BY <1>1 DEF Ahead
<1>3. Slack(j)' = Slack(j)
  BY <1>2 DEF Slack
<1>4. KeepsLook(j)
  BY <1>3 DEF KeepsLook
<1> QED BY <1>4, KeptWatched

\* Every step keeps the watch over the slots.
LEMMA AllWatchedNext ==
    ASSUME DetectionFits, Base, Prompt, AllWatched, [TimedNext]_timedVars
    PROVE  AllWatched'
<1>0. /\ Structure /\ Structure' /\ Agreement /\ [Next]_vars
  BY TimedStep, StructureNext DEF Base
<1>1. Full => Full'
  <2>1. Len(log) \in Nat /\ Len(log') \in Nat
    BY <1>0 DEF Structure, TypeOK, RaftTypeOK
  <2>2. Len(log') >= Len(log)
    BY <1>0, <2>1, StepKinds DEF Quiet, Stores, Leads, Decides, Logs, Announces, Applies
  <2> QED BY <2>1, <2>2, OracleConstants DEF Full
<1>2. SUFFICES ASSUME ~Full, NEW j \in 1 .. Len(table'), table'[j].node_id \notin raced'
               PROVE  Watched(table[j], j)'
  BY <1>1 DEF AllWatched
<1>3. /\ Len(table) \in Nat /\ table'[j].node_id \in Nodes
      /\ verdict \in [Nodes -> Statuses] /\ silence \in [Nodes -> 0 .. SILENCE_CAP]
      /\ \A i \in 1 .. Len(table) : table[i].node_id \in Nodes
  <2>1. table' \in Seq(Slots)
    BY <1>0 DEF Structure, TypeOK, TableTypeOK, Slots
  <2>2. table'[j] \in Slots
    BY <2>1
  <2>3. table'[j].node_id \in Nodes
    BY <2>2 DEF Slots, Slot
  <2> QED BY <1>0, <2>3, LogTypes, ClockTypes
<1>4. ASSUME j \in 1 .. Len(table), table[j].node_id \notin raced
      PROVE  Watched(table[j], j)
  BY <1>2, <1>4 DEF AllWatched
<1>5. CASE TimedTick
  <2>1. UNCHANGED <<table, raced>>
    BY <1>5, TimedTickStep
  <2> QED BY <1>0, <1>2, <1>4, <1>5, <2>1, TickWatched
<1>6. ASSUME UNCHANGED <<tick, table, silence, verdict, raced, pc, last_tick, now, cursor>>
      PROVE  Watched(table[j], j)'
  <2>1. KeepsSlot(j) /\ j \in 1 .. Len(table)
    BY <1>6 DEF KeepsSlot
  <2> QED BY <1>0, <1>2, <1>4, <1>6, <2>1, QuietWatched
<1>7. CASE ProcessHeartbeat
  <2>0. pc = "recv" /\ UNCHANGED last_tick
    BY <1>7 DEF ProcessHeartbeat, NextFrame, HealthRuns
  <2>1. PICK src \in Nodes :
              /\ Hears(src) /\ UNCHANGED raced /\ pc' \in {"tick", "recovered"}
              /\ \/ /\ \A i \in 1 .. Len(table) : table[i].node_id # src
                    /\ UNCHANGED <<table, verdict>>
                 \/ \E i \in 1 .. Len(table) :
                       /\ table[i].node_id = src
                       /\ WritesSlot(i)
                       /\ table'[i].last_seen_ms = tick
                       /\ \/ table[i].status = NODE_UP /\ UNCHANGED verdict
                          \/ verdict' = [verdict EXCEPT ![src] = NODE_UP]
    BY <1>0, <1>7, HeartbeatStep
  <2>2. ASSUME j \in 1 .. Len(table), table'[j] = table[j], table[j].node_id # src,
               verdict'[table[j].node_id] = verdict[table[j].node_id]
        PROVE  Watched(table[j], j)'
    <3>1. KeepsSlot(j)
      BY <1>3, <2>1, <2>2 DEF KeepsSlot, Hears
    <3> QED BY <1>0, <1>2, <1>4, <2>0, <2>1, <2>2, <3>1, QuietWatched
  <2>3. CASE /\ \A i \in 1 .. Len(table) : table[i].node_id # src
             /\ UNCHANGED <<table, verdict>>
    BY <2>2, <2>3
  <2>4. ASSUME NEW i \in 1 .. Len(table), table[i].node_id = src, WritesSlot(i),
               table'[i].last_seen_ms = tick,
               \/ table[i].status = NODE_UP /\ UNCHANGED verdict
               \/ verdict' = [verdict EXCEPT ![src] = NODE_UP]
        PROVE  Watched(table[j], j)'
    <3>1. CASE j = i
      <4>1. table'[j].node_id = src
        BY <2>4, <3>1 DEF WritesSlot
      <4>2. verdict'[src] = NODE_UP
        <5>1. CASE table[i].status = NODE_UP /\ UNCHANGED verdict
          <6>1. src \notin raced /\ ~Storing(i) /\ ~Applying(i)
            BY <1>2, <2>1, <4>1 DEF Hears, Storing, Applying
          <6> QED BY <1>0, <1>2, <2>4, <5>1, <6>1 DEF Agreement, TableIsVerdict
        <5>2. CASE verdict' = [verdict EXCEPT ![src] = NODE_UP]
          BY <1>3, <5>2
        <5> QED BY <2>4, <5>1, <5>2
      <4> QED BY <1>0, <1>3, <2>1, <2>4, <3>1, <4>1, <4>2, HeardWatched
    <3>2. CASE j # i
      <4>1. j \in 1 .. Len(table) /\ table'[j] = table[j]
        BY <2>4, <3>2 DEF WritesSlot
      <4>2. table[j].node_id # src
        BY <1>0, <2>4, <3>2, <4>1, LogTypes
      <4>3. verdict'[table[j].node_id] = verdict[table[j].node_id]
        BY <1>3, <2>4, <4>1, <4>2
      <4> QED BY <2>2, <4>1, <4>2, <4>3
    <3> QED BY <3>1, <3>2
  <2> QED BY <2>1, <2>3, <2>4
<1>8. CASE ProcessAnnounce
  <2>0. pc = "recv" /\ UNCHANGED last_tick
    BY <1>8 DEF ProcessAnnounce, NextFrame, HealthRuns
  <2>1. PICK src \in Nodes :
              /\ Hears(src) /\ pc' = "tick"
              /\ raced' = IF Backlog(src) THEN raced \union {src} ELSE raced
              /\ verdict' = [verdict EXCEPT ![src] = NODE_UP]
              /\ \A i \in 1 .. Len(table') :
                    IF table'[i].node_id = src
                    THEN table'[i].last_seen_ms = tick
                    ELSE i \in 1 .. Len(table) /\ table'[i] = table[i]
    BY <1>0, <1>8, AnnounceStep
  <2>2. CASE table'[j].node_id = src
    <3>1. verdict'[src] = NODE_UP
      BY <1>3, <2>1
    <3> QED BY <1>0, <1>3, <2>1, <2>2, <3>1, HeardWatched
  <2>3. CASE table'[j].node_id # src
    <3>1. j \in 1 .. Len(table) /\ table'[j] = table[j]
      BY <2>1, <2>3
    <3>2. KeepsSlot(j)
      BY <1>3, <2>1, <2>3, <3>1 DEF KeepsSlot, Hears
    <3>3. table[j].node_id \notin raced
      BY <1>2, <2>1, <3>1
    <3> QED BY <1>0, <1>4, <2>0, <2>1, <3>1, <3>2, <3>3, QuietWatched
  <2> QED BY <2>2, <2>3
<1>9. CASE ReceiveTimeout \/ TickEnd
  <2>1. UNCHANGED <<tick, table, silence, verdict, raced, last_tick>>
    BY <1>9 DEF ReceiveTimeout, TickEnd, monitorVars, ghostVars
  <2>2. KeepsSlot(j) /\ j \in 1 .. Len(table)
    BY <2>1 DEF KeepsSlot
  <2>3. \/ pc = "recv" /\ pc' \in {"tick", "recovered"}
        \/ pc = "slot" /\ pc' = "recv" /\ cursor > Len(table)
    BY <1>9 DEF ReceiveTimeout, TickEnd, HealthRuns
  <2> QED BY <1>0, <1>2, <1>4, <2>1, <2>2, <2>3, QuietWatched
<1>10. CASE TickBegin
  <2>1. UNCHANGED <<table, raced>>
    BY <1>10 DEF TickBegin, ghostVars
  <2> QED BY <1>0, <1>2, <1>4, <1>10, <2>1, BeginWatched
<1>11. CASE TickSlot
  <2>1. PICK i \in 1 .. Len(table) :
              /\ i = cursor /\ pc = "slot"
              /\ UNCHANGED <<tick, now, last_tick, silence, raced>>
              /\ WritesSlot(i)
              /\ \/ UNCHANGED verdict /\ pc' = pc /\ cursor' = cursor + 1
                 \/ /\ \E new \in Statuses :
                          verdict' = [verdict EXCEPT ![table[i].node_id] = new]
                    /\ pc' = "decided" /\ cursor' = cursor
    BY <1>0, <1>11, TickSlotStep
  <2>2. /\ j \in 1 .. Len(table) /\ table'[j].node_id = table[j].node_id
        /\ j # i => table'[j] = table[j]
    BY <2>1 DEF WritesSlot
  <2>3. Watched(table[j], j) /\ table[j].node_id \notin raced
    BY <1>2, <1>4, <2>1, <2>2
  <2>4. CASE j = i
    BY <1>2, <1>11, <2>1, <2>2, <2>3, <2>4, SlotWatched
  <2>5. CASE j # i
    <3>1. table[j].node_id # table[i].node_id
      BY <1>0, <2>2, <2>5, LogTypes
    <3>2. verdict'[table[j].node_id] = verdict[table[j].node_id]
      BY <1>3, <2>1, <2>2, <3>1
    <3>3. KeepsSlot(j)
      BY <2>1, <2>2, <2>5, <3>2 DEF KeepsSlot
    <3> QED BY <1>0, <2>1, <2>2, <2>3, <2>5, <3>3, QuietWatched
  <2> QED BY <2>4, <2>5
<1>12. CASE StoreDecided \/ StoreRecovered
  <2>1. /\ pc \in Owing /\ UNCHANGED <<tick, now, silence, verdict, raced>>
        /\ WritesSlot(store.slot)
        /\ table'[store.slot].last_seen_ms = table[store.slot].last_seen_ms
        /\ pc = "decided" => table'[store.slot].suspect_since_ms
                                = table[store.slot].suspect_since_ms
    BY <1>0, <1>12, StoreStep
  <2>2. /\ j \in 1 .. Len(table)
        /\ table'[j].node_id = table[j].node_id
        /\ table'[j].last_seen_ms = table[j].last_seen_ms
        /\ \/ table'[j].suspect_since_ms = table[j].suspect_since_ms
           \/ pc = "recovered" /\ j = store.slot
    BY <2>1 DEF WritesSlot, Owing
  <2>3. pc = "recovered" => verdict[table[store.slot].node_id] = NODE_UP
    BY <1>0, <2>1 DEF Agreement, StoreIsVerdict
  <2>4. KeepsSlot(j)
    BY <2>1, <2>2, <2>3 DEF KeepsSlot
  <2>5. /\ UNCHANGED last_tick
        /\ \/ pc = "decided" /\ pc' = "slot" /\ cursor' = cursor + 1
           \/ pc = "recovered" /\ pc' = "tick"
    BY <1>12 DEF StoreDecided, StoreRecovered, HealthRuns
  <2> QED BY <1>0, <1>2, <1>4, <2>1, <2>2, <2>4, <2>5, QuietWatched
<1>13. CASE ApplyLog
  <2>1. PICK i \in 1 .. Len(table) :
              /\ WritesSlot(i)
              /\ table'[i].last_seen_ms = table[i].last_seen_ms
              /\ table'[i].suspect_since_ms = table[i].suspect_since_ms
              /\ UNCHANGED <<tick, now, pc, silence, verdict, raced>>
    BY <1>0, <1>13, ApplyStep
  <2>2. KeepsSlot(j) /\ j \in 1 .. Len(table)
    BY <2>1 DEF WritesSlot, KeepsSlot
  <2>3. UNCHANGED <<last_tick, cursor>> /\ table'[j].node_id = table[j].node_id
    BY <1>13, <2>2 DEF ApplyLog, healthVars, KeepsSlot
  <2> QED BY <1>0, <1>2, <1>4, <2>1, <2>2, <2>3, QuietWatched
<1>14. CASE OracleTick \/ RaftTimerExpires \/ UNCHANGED timedVars
  BY <1>6, <1>14 DEF OracleTick, RaftTimerExpires, RaftTimerCallback, timedVars, vars,
     monitorVars, healthVars, ghostVars
<1>15. ASSUME NEW n \in Nodes,
              Start(n) \/ SendHeartbeat(n) \/ LoseHeartbeat(n) \/ Stop(n) \/ Resume(n)
       PROVE  Watched(table[j], j)'
  BY <1>6, <1>15 DEF Start, SendHeartbeat, LoseHeartbeat, Stop, Resume, EthRx, vars,
     monitorVars, healthVars, ghostVars
<1> QED BY <1>5, <1>7, <1>8, <1>9, <1>10, <1>11, <1>12, <1>13, <1>14, <1>15
        DEF TimedNext, Tasks, HealthTask, RaftTask

\* Failure detection is bounded for every number of nodes and all thresholds
\* that the counters of health_monitor.c can hold: while the log has room, a
\* registered node that is silent for more than DetectWithin has been decided
\* DOWN, although timed-out waits tick with an old clock value, the tick
\* counter wraps around and a last_tick_ms of 0 is taken for the first call.
THEOREM DetectionBoundAlways ==
    ASSUME DetectionFits
    PROVE  TimedSpec => []DetectionBound
<1>1. TimedInit => Prompt /\ AllWatched
  <2>1. SUFFICES ASSUME Init PROVE Prompt /\ AllWatched
    BY DEF TimedInit
  <2>2. Elapsed(0, 0) = 0
    BY AgeOfZero, MonitorConstants DEF Ticks
  <2>3. WaitAtMost \in Nat /\ Gap \in Nat
    BY DetectFacts
  <2>4. Age(now) = 0 /\ Age(last_tick) = 0 /\ pc = "recv"
    BY <2>1, <2>2 DEF Init, Age
  <2>5. Prompt
    BY <2>3, <2>4 DEF Prompt
  <2>6. AllWatched
    BY <2>1 DEF Init, AllWatched
  <2> QED BY <2>5, <2>6
<1>2. Base /\ Prompt /\ AllWatched /\ [TimedNext]_timedVars => (Prompt /\ AllWatched)'
  BY PromptNext, AllWatchedNext DEF Base
<1>3. Base /\ AllWatched => DetectionBound
  <2>1. SUFFICES ASSUME Base, AllWatched, ~Full, NEW n \in Nodes \ raced,
                        Registered(n), silence[n] > DetectWithin
                 PROVE  verdict[n] = NODE_DOWN
    BY DEF DetectionBound
  <2>2. PICK i \in 1 .. Len(table) : table[i].node_id = n
    BY <2>1 DEF Registered, find_node
  <2>3. Watched(table[i], i)
    BY <2>1, <2>2 DEF AllWatched
  <2>4. silence[n] \in Nat /\ DetectWithin \in Nat
    BY <2>1, ClockTypes, OracleConstants, DetectFacts DEF Base
  <2> QED BY <2>1, <2>2, <2>3, <2>4 DEF Watched
<1> QED BY <1>1, <1>2, <1>3, BaseInvariant, PTL DEF TimedSpec
=============================================================================
