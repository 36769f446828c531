# Raft L2 oracle: TLA+ models and proofs

The repository is firmware for an STM32 that sits beside a box of compute
nodes, listens to their Ethernet heartbeats, decides which of them are UP,
SUSPECT or DOWN, and records every change as an entry of a Raft log. The log is
applied to a health table, from which events go back to the compute nodes. A
simulator runs several such oracles as threads on a PC.

This directory models the firmware image that `firmware/app/main.c` builds (one
STM32, a Raft cluster whose only member is that STM32, and the compute nodes of
its box), the Ethernet transport below it, the cluster of several STM32s that the
same code forms in the simulator, and the simulator itself.

## Inventory

| Part | State | Operations | Modelled by |
|---|---|---|---|
| health monitor (`health_monitor.c/.h`) | table of up to 16 slots (id, box, status, last seen), miss counters, time of suspicion, time of the last tick, observations of peers | process heartbeat, process announcement, tick; collect and merge observations | `HealthMonitor`, `LocalOracle`, `OracleCluster` |
| health table (`health_table.c`) | the same table | apply a committed transition, send an event | `HealthMonitor`, `LocalOracle`, `OracleCluster` |
| firmware tasks (`main.c`) | `hb_inbox`, `raft_inbox`, notification of `raft_task`, local variables of the tasks | `eth_rx_task` (priority 4), `raft_task` (3), `health_task` (2), `monitor_task` (1), `raft_timer` | `LocalOracle`, `TimedOracle` |
| Raft oracle (`raft_oracle.c/.h`) | the library's server, entry ids, term and vote in RAM | propose, periodic tick, apply, message dispatch, the send callbacks | `RaftOracle`; for one member `LocalOracle` |
| Raft library (willemt/raft) | log, commit and apply index, role, term | external: a git submodule that is not in the tree | as `raft_oracle.c` uses it, in `RaftOracle` and `LocalOracle` |
| compute nodes (`heartbeat_sender.py`) | running or stopped | announce, heartbeat, stop, restart | `TimedOracle` |
| Ethernet transport (`transport_eth.c` and the HAL calls it makes) | receive semaphore, two descriptor rings, transmit mutex, lock of the HAL handle | send, receive, receive interrupt | `EthTransport`, `EthQueues` |
| simulated transport (`transport_sim.c`) | a UDP socket per STM32 | create, send, receive, destroy | `Simulator` |
| simulator (`sim_main.c`) | `g_running`, `alive`, threads | `main()`, `node_thread()`, `compute_thread()`, SIGINT | `Simulator` |
| wire format (`wire_format.h`) | none | layout of entries and messages | `WireFormat`, the messages of `RaftOracle` |
| Raft heap (`raft_heap.c`) | none of its own | the log cannot grow beyond its first allocation | as `LOG_CAPACITY` |
| tools, drivers, startup | - | display, vendored HAL | no: no state of the oracle |

How they interact: `eth_rx_task` puts 0x88B7 frames into `hb_inbox`, dropping
the oldest when it is full. `health_task` takes one frame at a time, or gives up
after a heartbeat period, and ticks the state machine either way. A change of
status is first proposed, which with one member commits it at once, and then
stored in the table. `raft_timer` notifies `raft_task` every 50 ms; its
`raft_periodic()` applies what is committed by writing the same table. The two
tasks share the table and the Raft server without a lock; only the priorities
order them. With several members a proposal is committed when a majority has
answered the leader's appends, one entry per append; a follower's answer carries
up to 8 statuses of its table, which the leader's corroboration table collects,
and the leader decides DOWN for a node of another box only when K = 2 peers agree.
Over UDP each STM32 has a socket; its compute thread sends through the same one.

What is hard here: the table is written from two tasks, one of which can run
between any two steps of the other; the log is applied up to 50 ms after it was
written, so the table runs ahead of it and old entries arrive late; the clock
value a tick uses may be a period old; ticks are modulo 2^32; proposals fail
silently; announcements bypass the log. Below that, the interrupt, three tasks
and the DMA share one Ethernet handle, whose lock is a flag the interrupt
handler clears whoever set it, and a binary semaphore stands for any number of
frames.

In the cluster the wire carries no term, so the dispatcher gives every message the
receiver's own; datagrams are lost, late and repeated; a power cycle erases term,
vote and log; two servers may lead at once; reports are stamped with their time of
arrival; tables hold slots for nodes nobody in that box ever hears. The simulator
shares flags and transports between threads and frees them at the end.

What correctness means for each part:

* monitor: nobody is accused before the thresholds of `health_monitor.h`, a
  silent node is accused in bounded time, a running one never;
* table and log: applying never overrules a newer decision, the log of a node is
  a path of the state machine, a node has one slot;
* tasks: queues and tables stay in their bounds, what is decided is in the end
  committed and applied;
* transport: nobody is refused the handle, each ring is a queue, reception cannot
  stop for good, the mutex comes back;
* Raft: a leader has the votes of a majority, a server one vote per term, an entry
  keeps its place and content, what a server committed stays, a leader is elected and
  replaced when it fails;
* cluster of monitors: a DOWN across boxes is corroborated, a failure in the
  leader's box reaches every table, a node that is back is UP again in its box;
* simulator: threads end, and no transport is used after it is freed, whichever of them
  could not be started.

`PROJECT.json` lists the hazards at their lines, with the properties that cover
them or the reason why none does yet.

## Modules

**`HealthMonitor`** holds no variables: the slot record, the lookup and creation
of slots, what a heartbeat and an announcement write, how misses are counted,
how the tick moves a status, `health_table_apply()` and whether it sends an
event. Names are those of the code. The arrays the code keeps parallel to the
table are fields of the slot. `Elapsed` is the unsigned subtraction of ticks.

**`LocalOracle`** is the firmware. Its actions are the clock (`Tick`),
`eth_rx_task` (`EthRx`), the steps of `health_task` and those of `raft_task`.
A step of `health_task` ends where `raft_task` could come in and see a
difference:

| `health_task` in the code | action |
|---|---|
| frame received, heartbeat, up to the proposal of a recovery | `ProcessHeartbeat` |
| the store and the reset after that proposal | `StoreRecovered` |
| frame received, announcement (its stores are independent of what `raft_task` writes, except the status; the ACK is sent last) | `ProcessAnnounce` |
| no frame for a period | `ReceiveTimeout` |
| entry of `health_monitor_tick()` | `TickBegin` |
| one slot, up to a proposal | `TickSlot` |
| the store after that proposal | `StoreDecided` |
| end of the loop, next iteration | `TickEnd` |

`raft_task` has the higher priority, so once it runs (`rpc = "apply"`)
`health_task` does not, until the backlog is applied; each application is one
`ApplyLog`. It can block on the transmit mutex only while `health_task` holds it
inside the transmission of an ACK, where `health_task` touches nothing that is
modelled. A library call made by `health_task` is one step.

Three ghost variables serve the properties: `silence[n]`, the ticks since
`health_task` last took a frame of `n` (capped at `SILENCE_CAP`); `verdict[n]`,
the status `health_task` decided last; `raced`, the nodes whose announcement was
processed while entries of theirs waited to be applied. No action depends on
them.

**`FailureDetector`** is the abstract specification of one box: a status per node
that moves along the state machine of `health_monitor.h` (`Suspect`, `GiveUp`,
`Heartbeat`, `Announce`), a silence per node that a move asks for, and a log that a
leading oracle extends with every move as it makes it. It has no tasks, no queue, no
table and no applying. It answers for a node as long as the log has room and no
announcement of the node came after an entry about it; of other nodes it only says
that their moves are logged in order (`Loose`). `LocalOracle` reads it off its own
state: `Shown` is what the table shows of a node once the store
`propose_transition()` owes or the entries `raft_task` is applying are written, and
`IsFailureDetector` says that `LocalOracle` implements it.

**`TimedOracle`** adds compute nodes that keep their period and a clock that
advances only when no task is ready, to measure what the code itself costs in
time: tasks that take no time, `raft_timer` with its period, single lost
heartbeats, stops, resumed heartbeats (a tick after the stop at the earliest) and
restarts.

**`EthTransport`** is the transport below: DMA (`Receive`, `Transmit`, external),
the interrupt handler in two steps, since a frame may arrive between the callback
that gives the semaphore and the end of the handler that clears the status and the
lock, `eth_recv()` and `eth_send()`. A step ends where an interrupt or another
task could come in and see a difference:

| code | action |
|---|---|
| `HAL_ETH_RxCpltCallback()`; the rest of `HAL_ETH_IRQHandler()` | `IrqGive`; `IrqEnd` |
| semaphore taken | `RxTake` |
| `HAL_ETH_GetReceivedFrame_IT()`: lock; scan of the ring | `RxLock`; `RxScan` |
| checks, copy, `rx_descriptors_release()` | `RxRelease` |
| call of `eth_send()`; mutex and look at the descriptor; timeout | `SendCall`; `SendTake`; `SendTimeout` |
| frame built in the buffer | `SendBuild` |
| `HAL_ETH_TransmitFrame()`: lock; hand-over | `SendLock`; `SendOwn` |
| mutex given back | `SendGive` |

The interrupt runs before tasks, `eth_rx_task` before `raft_task`, that before
`health_task` unless it is idle or waits for the mutex. Only the receive
interrupt is enabled by `ETH_RXINTERRUPT_MODE`, so the transmit branch of the
handler never runs. Buffers hold a whole frame, so a frame is one segment. Frames
are numbered in the order the DMA stores them; a frame that finds no descriptor
is lost before it gets a number. Ghosts: `arrived`, `seen`, `merged` (a frame
arrived while a token or interrupt was pending), `accepted`.

`EthTransport` stands beside `LocalOracle`, not inside it: what it promises (a
frame is delivered in order or lost) is what `EthRx` assumes, and what it does not
(a frame may be late by as much as the time to the next frame) is loss or delay of
a heartbeat there.

**`FrameQueue`** is the abstract specification of a descriptor ring: a bounded
first-in first-out queue. **`EthQueues`** reads a queue off each ring of
`EthTransport`, from the OWN bits and the buffers only, and instantiates
`FrameQueue` with it: `TxRingIsQueue` and `RxRingIsQueue` say that the transport
implements the two queues. The reader of the transmit ring is the DMA, that of the
receive ring `eth_recv()`; a frame leaves the receive queue when its descriptor is
given back.

**`RaftOracle`** is `raft_oracle.c` with several members. One thread runs all
handlers of a server, so each is one action: `OracleTick` (quiet, waiting, starting
an election, sending appends as leader), `Propose`, and `Dispatch` with one action
per message type. The callbacks build the datagrams; `capped` keeps one entry.
Because the dispatcher fills in the receiver's own term, every comparison of terms
in the library finds them equal, and what is left of each library function is
modelled (marked external). `Halt` is an
assertion or a null pointer of the library, which stops the server; `Shutdown` is
its `RAFT_ERR_SHUTDOWN` for an append that contradicts a committed entry, which no
caller reads, so the append has no effect and is answered all the same. Datagrams form
a set, so any order of delivery is possible; `LOSSY` and `DUPLICATES` allow loss and
repetition. `PowerLoss` and `PowerUp` erase everything, as RAM does. Ghosts: `boot`,
`grants` (votes ever given), `proposed` (entries ever proposed, with their index).

**`OracleCluster`** is the health monitors of several STM32s over Raft: slots of
other boxes made by `health_table_apply()`, observations in append responses,
corroboration, a change of leader. Here Raft is taken at its word (one leader at a
time, one log of which every server has applied a prefix), so that what is found is
the monitor's own doing. Time is reduced to what the monitor asks of it: `late`,
`due`, `fresh`. A slot of another box is late and due from the start, since its
times are 0. `WideIds` are nodes whose id is no index of the corroboration table;
`corroborated()` may find anything for those; `WidePeers` are STM32s whose id is none,
and whose reports `health_monitor_update_corroboration()` discards. Ghost: `doubted`.

**`WireFormat`** follows the bytes of one transition: packed by the proposal, copied
into the record by `cb_send_appendentries()`, taken over by the dispatcher as the
follower's entry, sent on by a follower that came to lead, unpacked by
`cb_applylog()`.

**`Simulator`** is `sim_main.c` on `transport_sim.c`: `main()` from the creation of
the sockets to the last join, SIGINT, the compute threads and the node threads, each
split where another thread or the clock could come in. The node thread uses the
operators of `HealthMonitor`. Of Raft it keeps that a leader's proposals are
committed some time later and applied by `raft_periodic()`. A call of `main()` that
fails is an action too: a taken port (`MainFails`); a node thread that cannot be started
(`MainThreadFails`), after which the ones before it run until `main()` has returned
(`MainExits`) and the process ends under them (`ProcessRuns`); a compute thread that
cannot be started, which `main()` only reports. It stays in `"none"`, and what the join
of its handle, never set, does is undefined: it returns an error (`MainJoinComputes`) or
crashes the process (`MainJoinCrashes`).

**`MCLocalOracle`**, **`MCRaftOracle`** and **`MCOracleCluster`** instantiate their
modules for TLC: a statement of the repository that TLC refutes, the symmetry of
servers and values, the home box of each node. `TimedOracle`, `EthQueues`,
`WireFormat` and `Simulator` are checked as they are. Definitions whose comment says
*Mutant* are wrong on purpose; no action uses them. They show which mistake in the
code each property catches.

**`LocalOracleProofs`**, **`LocalOracleSafety`**, **`TimedOracleProofs`**,
**`EthTransportProofs`**, **`RaftOracleProofs`**, **`OracleClusterProofs`**,
**`WireFormatProofs`** and **`SimulatorProofs`** hold the proofs.

## Runs

| Run | Result | What it shows |
|---|---|---|
| `safety` | pass | `TypeOK`, `NodeIdsUnique`; `SilentWhenSuspected`: a node shown SUSPECT or DOWN was silent as long as the thresholds ask; `ApplyKeepsVerdict`: applying never overrules the monitor; `LogIsPath`; `IsFailureDetector`: the tasks implement `FailureDetector` |
| `timed` | pass | `NoFalseSuspicion`: a running node is never suspected, with two heartbeats lost in a row; `DetectionBound`: a silent one is decided DOWN within `DetectWithin`; `FailureGetsCommitted`, `RecoveryGetsCommitted` |
| `events` | violation | a committed DOWN sends no event: the status was stored before |
| `transport` | pass | `NeverBusy`: the HAL lock refuses nobody; `ReadsInOrder`, `WireKeepsOrder`, and the refinements `TxRingIsQueue`, `RxRingIsQueue`; `ReceiverAlive`: the receive ring never fills up with nobody to empty it; `ReadUnlessMerged`: a frame with a token of its own is read; `MutexComesBack` |
| `raft_terms` | pass | `LeaderHasQuorum`, `VoteOncePerTerm`, `CommittedStays` with two leaders at once |
| `raft_power` | pass | `TypeOK`: indices stay within the logs and datagrams keep their layout; `EntryInPlace`: both with power cycles |
| `raft_agree` | violation | two leaders at once commit different entries at one index |
| `raft_elect` | violation | `LeaderEmerges`, `docs/design.md:1383`, `:1369` and `:1407`: a majority whose first elections coincide never elects a leader |
| `cluster` | pass | whatever reports are lost, late or out of order: a failure in the leader's box reaches every table (`LeaderFailureSpreads`), a node that recovers ends up UP in its own box (`OwnBoxRecovers`) |
| `cluster_false` | violation | tables that never hear a node corroborate each other: DOWN is committed for a node its own box hears. With three STM32s and K = 2 one of the two agreeing peers is that box itself, with a report from before the node came back |
| `wire_hops` | pass | `EntrySurvives`: an entry is applied as it was proposed after several hops; `NeverSpills`: the copy stays in its buffer |
| `sim` | pass | `AliveNeverDown`, `ChaosIsSeen`, `NoUseAfterDestroy`; `Terminates`: the program ends, and a compute thread that could not be started is the only thing that may crash it |

Conditions of the properties, each there because the code breaks the property
without it:

* `SilentWhenSuspected` and `ApplyKeepsVerdict` hold, and `FailureDetector` answers,
  while the log has room (a refused proposal is stored in the table all the same) and
  for nodes not in `raced` (an announcement sets UP while older entries of the node wait
  to be applied over it);
* `DetectionBound` has the same two conditions, for the same reasons: with a full log or
  after such an announcement the tick goes on from a status that is not the one it
  decided;
* `NoFalseSuspicion` excepts a node that has stopped, one whose frame waits in
  `hb_inbox`, and one that lost `SUSPECT_THRESHOLD - 1` heartbeats and is due this very
  moment, when the frame of another node makes `health_task` tick with the current
  clock;
* `RecoveryGetsCommitted` excepts restarts: `process_announce()` sets the table UP
  without a log entry, so the log never says the node recovered;
* `ReadUnlessMerged` excepts frames that came while a token or an interrupt was pending:
  two frames share one binary token and one is read per token, so the second waits for a
  further frame;
* `VoteOncePerTerm` counts each power-up for itself: the vote is in RAM;
* `LeaderFailureSpreads` starts from a leader that holds the node UP: what an STM32
  decided before it led is never proposed, and what a follower decides about its own box
  is proposed by nobody, although the comment at `health_monitor.c:210-211` says the
  leader will;
* `DownIsCorroborated`, which is only proved, assumes ids that index the corroboration
  table;
* `AliveNeverDown` and `ChaosIsSeen` leave out the leader's box. There the SUSPECT of
  the pause is applied after the recovery, with `suspect_since_ms` 0, and the tick of
  the same iteration says DOWN.

What the passing properties leave open, so that nobody reads more into them:

* a log that is full. `ApplyKeepsVerdict`, `SilentWhenSuspected`, `DetectionBound` and the
  detector have `~Full` as a condition, and `FailureGetsCommitted`,
  `RecoveryGetsCommitted` and `LeaderFailureSpreads` are checked with logs that never
  fill. `TypeOK` says that the log stays within its capacity, not what becomes of
  verdicts behind it;
* an announcement that `hb_inbox` dropped, and with it a node that is never monitored:
  the queue's bound is checked, the loss is allowed;
* a table that is full: the run has one node and two slots, the theorems any number;
* a second vote after a reboot, because `VoteOncePerTerm` counts each power-up for
  itself. The design accepts that in v1 (`docs/design.md:1420-1424`: "Ignore for v1");
* the age of reports: `DownIsCorroborated` asks that K others doubted the node at some
  time, so a stale report satisfies it and a fresh one that is taken for stale does not
  hurt it. What stale reports can do is what `cluster_false` shows;
* a false DOWN that does not last, as when an old SUSPECT is applied after the recovery:
  `OwnBoxRecovers` says that the box ends up UP.

Bounds. `safety`: one node, a period of 1 tick, 2 misses, 1 tick to DOWN, ticks modulo 4
so that the counter wraps often and 0 is met often, tasks up to a tick late, a log of 3
entries, which holds a whole failure and recovery; `HB_INBOX_DEPTH` is 1, so that frames
are dropped. Slots of different nodes interact only through the queue, the loop over the
table and the order of the log; the proofs cover any number.
`timed`: one node, a period of 2 ticks so that frames arrive between ticks, the real
threshold of 3 misses and 5 ticks to DOWN, one stop and one restart, `raft_timer` out of
step with the period; `SILENCE_CAP` lies above `DetectWithin`, and the tick counter
wraps within a failure. One node is the case of the longest waits; frames of further
nodes wake `health_task` earlier, with a fresher clock value, which is where the exempt
case of `NoFalseSuspicion` comes from. The proofs cover any number of nodes and tasks up
to `MAX_LAG` late.
`transport`: 3 receive and 2 transmit descriptors (the code has 4 of each) and 5 frames:
both rings wrap, fill up, and hold frames in any phase; the proofs cover any size.
`raft_terms`: three servers, two terms, one entry, two datagrams under way at once;
`raft_power`: two servers, two entries and values, one power cycle, so that a cut log
meets an answer from before the cut. Three servers with power cycles are beyond five
minutes; the proofs cover them. `raft_agree`: three servers and two values.
`raft_elect`: three servers, of which one may be without power, no entries, nothing lost
or repeated between the others. `MAX_TERM` is 1: it is where terms stop counting,
elections go on, and no handler compares terms. Three datagrams under way are enough for
an election that is won: a new leader sends two appends while an answer is still under
way.
`cluster`: two STM32s, K = 1, two reports under way at once, so that they can overtake
each other, one outage, one change of leader and a log of 6 entries that does not fill
up; the id of one STM32 is too wide for the corroboration table. `cluster_false` has
three STM32s and K = 2. `DownIsCorroborated` is proved for any number and any K and not
checked by a run: with two STM32s it holds whatever corroborated() does, since the other
knows the node only through the SUSPECT of its own box, and with three the instance that
the liveness properties share is too large.
`wire_hops`: values at the ends of their ranges as far as TLC's integers reach, three
hops; the proofs cover every 32-bit term and time (`Words`) and any number of hops.
`sim`: one box that may or may not lead, a unit of 10 ms with the proportions of the
code (period 1, pause 5, DOWN after 5), a second shortened to 14 units, which is more
than detection takes, and threads that run in the unit in which they wake. With one box
a node thread that cannot be started has no others before it; the proofs cover any
number of boxes, and the constants of the code with threads that wake late.

Fairness. In `TimedOracle` the kernel advances the clock, runs
`health_task` and `raft_task` when they are ready, `raft_timer` is auto-reload,
and a running compute node keeps sending. All are weak: a ready task stays ready
until it runs. Nothing is assumed about stops, losses or restarts, except that
no more than `MAX_LOST` heartbeats are lost in a row.
In `EthTransport` the processor takes a pending interrupt and finishes its
handler, ready tasks run, and the DMA sends what it owns; the network owes no
further frame and nobody has to call `eth_send()`. Weak fairness is enough for
`health_task` too: while it holds the mutex, `raft_task` cannot get past it.
In `OracleCluster` every STM32 keeps ticking and applying what is committed and a
running node's heartbeats are processed; reports may all be lost and the leader need
not change. In `Simulator` the operating system runs every thread that is ready and
time passes; SIGINT need not come and nothing need be committed.

`LeaderEmerges`, which is refuted, gets more than the code guarantees, so that the
counterexample is not the scheduler's. In `ElectionSpec` every server that has power
ticks and takes what arrives, and from some time on a timeout fires only when every
datagram of the election before has arrived (`SerialElections`): weak fairness alone
would let even a correct Raft split its votes for ever, while under such elections one
that carries terms elects a leader.

`DetectWithin` is the sum of both thresholds and six waits less two ticks, where a
wait (`WaitAtMost`) is a period and the delay `MAX_LAG` of the tasks: the tick looks at
a slot with a clock value up to two waits older than at the next look (a wait that a
frame ends ticks with the new time, one that times out with the old one), which delays
each threshold, and once per wrap the tick at time 0 is taken for the first call. For
the real constants and tasks that are not late this is 138 ms, and 118 ms when the
counter does not wrap. The repository advertises less: "failure detection in under
100ms" (its `README.md:13`, and `docs/design.md:1368` and `:1405`). `DetectionBound` is
not that deadline: the thresholds alone take 80 of the 100 ms, and the waits that may be
added to them more than the other 20. No property here states the 100 ms.

## Proofs

`LocalOracleProofs` proves, for every set of nodes, every value of the constants
allowed by `MonitorConstants` and `OracleConstants`, and every interleaving:

* `TypeCorrect`: `Spec => []TypeOK`;
* `SlotsUnique`: `Spec => []NodeIdsUnique`.

Neither is inductive alone. `Structure` adds that every entry of the log belongs
to a node with a slot (`LogRegistered`), without which applying an entry could
create a slot and the store a task still owes could hit another node, and that
the cursor of the tick is a slot. `StructureNext` has one case per action. The
lemmas before it say what each write does to a table: `WriteSlot`, `AppendSlot`,
`AnnounceTable`, `ApplyTable`, `ProposeLog`.

`LocalOracleSafety` builds on them and proves, from the same assumptions:

* `ApplyKeepsVerdictAlways`: `Spec => []ApplyKeepsVerdict`;
* `LogIsPathAlways`: `Spec => []LogIsPath`;
* `SilentWhenSuspectedAlways`: `Spec => []SilentWhenSuspected`;
* `LocalOracleIsFailureDetector`: `Spec => IsFailureDetector`.

Its first lemmas say what each step of a task does to the slots; `StepKinds` sorts
the steps into six kinds. `Agreement` is the strengthening for the first two: the
status a task owes the table is its verdict and its last log entry
(`StoreIsVerdict`), what waits to be applied ends in the verdict
(`BacklogEndsInVerdict`), and a slot shows the verdict unless a store or an
application is under way (`TableIsVerdict`, `TableIsLogged`). It is needed because
while entries are applied the table really shows old decisions. `Timing` is the
strengthening for the third: for every slot, the time since `last_seen_ms`, the
counted misses, the time since `suspect_since_ms` and the verdict DOWN are covered
by silence of the node. It is stated relative to `now`, the clock value
`health_task` read last, because that value may be old and ticks wrap
(`ElapsedTriangle`, `ElapsedTick`); 16-bit truncation of the misses only makes them
fewer.

The refinement rests on both halves and on two more invariants: a node without a slot
was never decided upon (`StrangersUp`), and a node with log entries has a last one
(`EntriesEnd`; that a finite set of numbers has a largest element would take an
induction the provers do not have, so it is kept from step to step). `ShownVerdict`:
for a node the detector answers for, `Shown` is the verdict. `ShownFollows` adds that
it still is after the step that fills the log and after the announcement that puts the
node in `raced`, the two steps that end the answer. A decision is then a move of the
detector (`DecisionMoves`), whose silence comes from `Timing`; the store, the
application of an entry and everything else that only writes the table move no node it
answers for (`UnseenStep`). `StepDetects` has one case per action.

`TimedOracleProofs` proves about the firmware with its compute nodes, for any number of
them:

* `TimedImplementsLocal`: `TimedSpec => Spec`, the nodes and the clock only restrict
  `LocalOracle`, so everything above holds here too;
* `TimedTypeCorrect`: `TimedSpec => []TimedTypeOK`;
* `DetectionBoundAlways`: `TimedSpec => []DetectionBound`, if `DetectionFits`: the bound
  lies below the wrap of the ticks, below the wrap of `miss_count` and below
  `SILENCE_CAP`. In the code that is 138 ms against 2^32 ms and 65536 periods; the
  third is about the ghost only;
* `NoFalseSuspicionEver`: `TimedSpec => NoFalseSuspicion`, if fewer heartbeats are lost
  in a row than the threshold counts and `hb_inbox` holds two frames per node
  (`FramesFit`). The queue of `main.c` holds 8, which is enough for the 4 nodes the
  design speaks of.

The first invariant is `Prompt`: `health_task` read its clock value at most a wait ago
and the last tick used one at most two waits older than that. From it and from `Timing`,
`Watched` says of each slot and each threshold that the last look at the slot had not
passed it; a slot the running tick has not reached yet gets one gap more (`Slack`), and
a slot not looked at since time 0 another. The bound is the sum of these. The lemmas
before them (`Look`) are about numbers only. `PeriodsKept` carries the other theorem: a
node that sends and has no frame waiting has been silent for its lost heartbeats and the
time since its last one. A frame `eth_rx_task` drops would be lost without the node
having lost it; `InboxBounded` excludes that. In one tick a node sends at most an
announcement and a heartbeat, and the clock advances only when `hb_inbox` is empty, so
the frames that wait and those that may still come (`MaySend`, `MaySendTwice`) are never
more than two per node.

`EthTransportProofs` proves for rings of any size (`TransportConstants`) and any
number of frames: `TransportTypes`, `NeverBusyAlways`, `ReceiverAliveAlways`,
`ReadsInOrderAlways`, `WireKeepsOrderAlways`. The invariant has three parts. `Inv`:
the mutex is held exactly between its taking and giving, a locked handle outside
the interrupt belongs to `eth_rx_task` in its scan or to a transmission that
`eth_rx_task` has not preempted (`LockUsed`; a preempting `eth_rx_task` was woken by
a handler that cleared the lock), and a given semaphore is still there when the
handler ends. `WireInv`: the descriptors the DMA owns are those of the accepted
frames, counted from `tx_dma`. `Ring`: the frames not yet seen fill the ring from
`RxDesc` on and end before the one being read. `After` and `Ahead` with their
lemmas carry the arithmetic modulo the ring size.

It also proves the refinement for rings of any size: `TxRingImplementsQueue` and
`RxRingImplementsQueue`. From the invariants above, the run of descriptors that defines
the abstract queue is exactly what the ghosts count, so each step appends at its end,
removes its head or leaves it alone.

`RaftOracleProofs` proves for every finite set of servers, any loss, delay and
repetition of datagrams and any power cycles (`ClusterConstants`):
`LeaderHasQuorumAlways`, `VoteOncePerTermAlways` and `StalemateLastsAlways`. The last
says why no timing helps the elections of `raft_elect`: once every server that runs has
voted and nobody can get a majority, only a power-up changes that. The invariant
`VoteInv` is `VoteState` (types of the state the argument touches, members as senders
and receivers), `VotesAreGranted` (a granted vote under way or counted was really
granted, and a leader counted a majority) and `VoteIsKept` (a vote given since power-up
in the current term is the one in RAM). Handlers that touch no vote are shown to be
`Quiet` first.

Its second part proves `ClusterTypes` (`Spec => []TypeOK`), `EntryInPlaceAlways` and
`CommittedStaysAlways`. `LogInv` is `RestOK`, `LogsOK`, `PeersOK` and `MsgsOK`. Two
facts carry it: `match_idx` of a peer is 0 or `next_idx - 1`, and an append that
announces a commit has an entry before it or in it, so that a follower never moves its
commit index past its log although terms are not compared.

`OracleClusterProofs` proves `ClusterTypes` for any number of STM32s and nodes and
`DownIsCorroboratedAlways` for any K, assuming `WideIds = {}`. `DoubtInv` says that
whatever a table, a report under way or the corroboration table says against a node,
its STM32 has held against it itself (`TablesDoubt`, `ReportsDoubt`, `MemoryDoubts`).

`WireFormatProofs` proves `EntryAlwaysSurvives` and `CopyNeverSpills` for every node and
box id that fits a byte, every 32-bit term and time, and any number of hops. The
invariant is that the data of the entry begin with the bytes of the transition and are
no longer than the space of the record (`Carries`): a follower's entry is longer than
the one proposed, since the dispatcher takes over the whole record, and it is this
length that the copy on the next hop relies on.

`SimulatorProofs` proves for any number of boxes:

* `NeverUsedAfterDestroy`: `Spec => []NoUseAfterDestroy`. `LifeCycle` is the argument:
  all sockets are open while `main()` sleeps and when the process ends early, and one is
  closed only after all compute threads and the node thread of that socket are gone;
* `SimulatorTypes`: `Spec => []TypeOK`;
* `AliveNeverDownEver`: `Spec => []AliveNeverDown`, if `ThreadsFit` and `AliveFits`;
* `ChaosIsSeenEver`: `Spec => []ChaosIsSeen`, if `ThreadsFit` and `ChaosFits`.

The hypotheses relate the times of `sim_main.c` to `MAX_LATE`, the longest a thread
runs later than it should. `ThreadsFit`: a node thread has started before its compute
thread, the pause is no shorter than two periods, and neither the 20 messages of one
iteration nor the socket's buffer are fewer than what a compute node sends meanwhile.
`AliveFits`: the pause and two delays are shorter than what makes a node DOWN.
`ChaosFits`: a tick comes within `SuspectAfter`, misses do not wrap, and a node silent
since the kill is DOWN within a second. With the values of the code the first two hold
for threads up to 14 ms late and the third up to 9 ms; all hold in `Simulator.cfg`.

Both theorems speak of one box at a time: `Focus` says that a step of the system is a
`BoxMove` of the box or leaves it alone, and `FollowerLog` that outside the leader's box
no log entry is applied. `Timely` is the invariant about a live node. `Punctual`: no
thread is later than `MAX_LATE`; `Stays`: threads that started are still there;
`LoadOK`: what waits in the socket was sent since the last iteration, so an iteration
empties the socket; `HeardOf`: hence a node with nothing under way was heard at its last
frame; `SlotSilence`: what the slot holds against the node is silence. A node that is
alive was therefore heard within the pause and two delays. For a killed one `Ticking`
and `Looked` bound what the last tick left in the slot, `LastFrames` that its last frame
is read within two delays of the kill, and `LongSilent` that a second later the silence
exceeds the bound at which a tick has given the node up.

Only model-checked: the liveness properties `FailureGetsCommitted`,
`RecoveryGetsCommitted`, `ReadUnlessMerged`, `MutexComesBack`, `LeaderFailureSpreads`,
`OwnBoxRecovers` and `Terminates`, since fairness is out of the prover's reach. The
four refuted statements are TLC's counterexamples.

## Not modelled

Vendored code: ST's HAL and CMSIS headers and drivers, startup code and the linker
script are 58,931 of the 62,297 lines of the implementation. They configure clocks,
pins, timers and a serial port and keep no state of the oracle; the four Ethernet
calls the transport makes are modelled. Of the repository's own 3,366 lines the models
cover what changes state.

Statistics and console output (their delay is `MAX_LAG`), `node_type` and
`status_term` (never read by the logic), malformed frames (dropped by length and
type checks before they reach the monitor; `RxRelease` releases them like any
other), creation of the Ethernet transport and its failure, PHY and MAC registers.
The inside of the Raft library and the data race on it (listed as a hazard): its source
is not in the tree. Raft messages over Ethernet, which `eth_send()` broadcasts whatever
their destination: the firmware image has one member and sends none. Who receives the
0x88B6 events: nobody in the repository acts on them.

## What is left

`RaftOracle` and `OracleCluster` in one module, so that two leaders at once meet the
health tables.
